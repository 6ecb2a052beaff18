------------------------------ MODULE MCTools ------------------------------
(* Small instances for TLC of two tools that share nothing: a behaviour is *)
(* one of prepare with its adapters, or one of the artifact graph window.  *)
EXTENDS ContextPreparation, ArtifactGraph

VARIABLE tool
vars == <<tool, prepVars, graphVars>>

-----------------------------------------------------------------------------
(* prepare *)

Source(completed, scope, path, evidence, direct) ==
    [completed |-> completed, scope |-> scope, path |-> path, evidence |-> evidence,
     direct_source_read_required |-> direct]

\* Every source verification, without context.
SourceRequests == {r \in Requests : r.memory = "off" /\ r.ix = "off"}

\* Every request for context, with a verification that is good, due or refused.
ContextRequests ==
    {r \in Requests :
        r.source \in {Source(TRUE, "project_internal", "inside", TRUE, FALSE),
                      Source(TRUE, "portable_artifact", "none", TRUE, FALSE),
                      Source(FALSE, "portable_artifact", "none", FALSE, TRUE)}}

MCAsked == SourceRequests \cup ContextRequests

Handoff(p, a, b, r) ==
    [profile |-> p, complete |-> TRUE, allowed |-> a, budget |-> b, risk |-> r]

MCOffered ==
    {Handoff(Personal, a, b, r) : a \in BOOLEAN, b \in {"within_budget", "unmeasured"},
                                  r \in {"R0", "R2"}}
    \cup {Handoff("team_safe_import", FALSE, "blocked", "R0")}

-----------------------------------------------------------------------------
(* The artifact graph *)

CONSTANTS a, b, c, p, q, o

Possible ==
    {e \in {a, b, c, p} \X {a, b, c, p} : e[1] # e[2]} \cup {<<a, a>>, <<b, o>>}

Project(edges) == [x \in {a, b, c, p, q, o} |-> {e[2] : e \in {f \in edges : f[1] = x}}]

\* From q to z along two ways, the one by x the longer one.
TwoWays(x, y, z) == {<<x, z>>, <<y, z>>, <<p, x>>, <<q, p>>, <<q, y>>, <<z, q>>}

\* All projects of few dependencies, and some with ways of two lengths.
MCProjects ==
    {Project(edges) : edges \in UNION {kSubset(k, Possible) : k \in 0..3}}
    \cup {Project(TwoWays(a, b, c)), Project(TwoWays(b, a, c))}

MCRootFolders == {{a, b}, {p}}

-----------------------------------------------------------------------------
\* The tool that is not used waits in one of its initial states.
Idle(project, asked) ==
    \/ tool = "prepare" /\ dependencies = project
    \/ tool = "window" /\ request = asked

Init ==
    /\ Idle(Project({}), CHOOSE r \in SourceRequests : TRUE)
    /\ GraphInit /\ PrepInit

Prepares(A) == tool = "prepare" /\ A /\ UNCHANGED <<tool, graphVars>>

Next ==
    \/ Prepares(PrepNext)
    \/ tool = "window" /\ GraphNext /\ UNCHANGED <<tool, prepVars>>

Spec == Init /\ [][Next]_vars /\ WF_vars(Prepares(PrepSteps)) /\ WF_vars(Prepares(Tick))
=============================================================================
