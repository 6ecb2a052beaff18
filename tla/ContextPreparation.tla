------------------------- MODULE ContextPreparation -------------------------
(***************************************************************************)
(* From the hand-off of UnityAgent to the execution ticket.  prepare, once *)
(* it has a todo (ControlPlane models how), asks the memory controller and *)
(* the Ix adapter for context, each a child process that is killed at its  *)
(* timeout; the adapter runs ix, a grandchild, under a timeout of its own. *)
(* Then it judges the source verification and issues the ticket, which     *)
(* finalize will judge again.                                              *)
(*                                                                         *)
(* Time passes in units of five seconds, and never past a timer that is    *)
(* due.  The adapter is taken to live until it is killed, and ix to be one *)
(* process, which subprocess.run kills and reaps (POSIX).                  *)
(***************************************************************************)
EXTENDS Naturals, FiniteSets, FiniteSetsExt

CONSTANTS
    Asked,            \* requests: profile, work, memory, ix and source
    Offered,          \* hand-offs: profile, complete, allowed, budget and risk
    StartUp,          \* the adapter runs ix, or gives up, within this time
    MemoryTimeout, IxTimeout,      \* of prepare's children
    QueryTimeout, MapTimeout,      \* of the adapter's
    MinConfidence

VARIABLES
    handoff,      \* unityagent_handoff of the execution state: none or one
    phase,        \* where prepare is
    request,      \* what it was asked
    elapsed,      \* since its running child was started
    memory,       \* what became of the memory projection
    ix,           \* the ix process, and the confidences it printed
    age,          \* since ix was started
    navigation,   \* code_intelligence: none or the adapter's envelope
    diagnostics, outcome

prepVars == <<handoff, phase, request, elapsed, memory, ix, age, navigation,
              diagnostics, outcome>>

Profiles == {"generic_planning", "personal_full_control", "team_safe_import"}
Personal == "personal_full_control"
SafeScopes == {"portable_artifact", "public_reference"}
Works == {"mutation", "verification", "analysis", "portable_import"}
BudgetStatuses == {"within_budget", "compression_required", "blocked", "unmeasured"}

ASSUME TimersNest ==
    /\ {StartUp, MemoryTimeout, IxTimeout, QueryTimeout, MapTimeout, MinConfidence} \subseteq Nat
    /\ StartUp + QueryTimeout < IxTimeout
    /\ IxTimeout < MapTimeout /\ MemoryTimeout < MapTimeout

\* evidence: there are references to it.  path: the worst of the paths named.
Sources == [completed : BOOLEAN, scope : SafeScopes \cup {"project_internal"},
            path : {"none", "inside", "outside", "missing"},
            evidence : BOOLEAN, direct_source_read_required : BOOLEAN]

Requests == [profile : Profiles, work : Works, memory : {"off", "empty_query", "query"},
             ix : {"off", "malformed", "unparseable", "unsafe", "good"}, source : Sources]

ASSUME InputsOK == Asked \subseteq Requests

NoIx == [run |-> "none", says |-> {}]
NoOutcome == [status |-> "none", ready |-> FALSE, action |-> "none", ticket |-> {}]

PrepInit ==
    /\ handoff = {} /\ phase = "idle" /\ request \in Asked
    /\ elapsed = 0 /\ memory = "none"
    /\ ix = NoIx /\ age = 0 /\ navigation = {}
    /\ diagnostics = {} /\ outcome = NoOutcome

-----------------------------------------------------------------------------
(* The hand-off adapter *)

Acceptable(h) ==
    /\ h.complete /\ h.profile \in Profiles /\ h.budget \in BudgetStatuses
    /\ h.allowed => h.budget = "within_budget" /\ h.risk # "R0"

\* The state patch of an accepted hand-off reaches the execution state.
AcceptHandoff(h) ==
    /\ phase = "idle" /\ handoff = {} /\ Acceptable(h)
    /\ handoff' = {h}
    /\ UNCHANGED <<phase, request, elapsed, memory, ix, age, navigation, diagnostics, outcome>>

-----------------------------------------------------------------------------
(* prepare *)

WorkKindForbidden(profile, work) ==
    \/ profile = "generic_planning" /\ work \in {"mutation", "portable_import"}
    \/ profile = "team_safe_import" /\ work = "mutation"
    \/ profile # "team_safe_import" /\ work = "portable_import"

Ends(result) == phase' = "done" /\ outcome' = result

Refuses(status) == Ends([NoOutcome EXCEPT !.status = status])

\* The state must be of the profile asked for, and the profile allow the work.
Begin ==
    /\ phase = "idle"
    /\ IF \/ \E h \in handoff : h.profile # request.profile
          \/ WorkKindForbidden(request.profile, request.work)
       THEN Refuses("blocked")
       ELSE phase' = "memory" /\ UNCHANGED outcome
    /\ UNCHANGED <<handoff, request, elapsed, memory, ix, age, navigation, diagnostics>>

SkipMemory ==
    /\ phase = "memory" /\ request.memory # "query"
    /\ phase' = "code" /\ memory' = "skipped"
    /\ diagnostics' = IF request.memory = "empty_query" THEN {"memory_query_empty"} ELSE {}
    /\ UNCHANGED <<handoff, request, elapsed, ix, age, navigation, outcome>>

AskMemory ==
    /\ phase = "memory" /\ request.memory = "query"
    /\ phase' = "remembering" /\ elapsed' = 0
    /\ UNCHANGED <<handoff, request, memory, ix, age, navigation, diagnostics, outcome>>

\* A typed failure is passed over.  No envelope at all, or a projection that
\* holds raw content or a forbidden scope, stops prepare.
MemoryAnswers(answer) ==
    /\ phase = "remembering"
    /\ memory' = answer
    /\ IF answer = "breach"
       THEN Refuses("blocked") /\ UNCHANGED diagnostics
       ELSE /\ phase' = "code" /\ UNCHANGED outcome
            /\ diagnostics' = IF answer = "failed" THEN {"memory_unavailable"} ELSE {}
    /\ UNCHANGED <<handoff, request, elapsed, ix, age, navigation>>

\* Ix is for the personal profile only, whatever the request says of it.
SkipIx ==
    /\ phase = "code"
    /\ request.ix = "off" \/ request.profile # Personal
    /\ phase' = "source"
    /\ diagnostics' = diagnostics \cup
           IF request.ix = "off" THEN {} ELSE {"ix_prohibited_for_profile"}
    /\ UNCHANGED <<handoff, request, elapsed, memory, ix, age, navigation, outcome>>

AsksIx == phase = "code" /\ request.ix # "off" /\ request.profile = Personal

\* An operation, target, direction or bound that prepare does not pass on.
RefuseIx ==
    /\ AsksIx /\ request.ix = "malformed"
    /\ Refuses("invalid_request")
    /\ UNCHANGED <<handoff, request, elapsed, memory, ix, age, navigation, diagnostics>>

StartAdapter ==
    /\ AsksIx /\ request.ix # "malformed"
    /\ phase' = "starting" /\ elapsed' = 0
    /\ UNCHANGED <<handoff, request, memory, ix, age, navigation, diagnostics, outcome>>

\* The adapter answers, and prepare goes on with what it says.
Navigated(status, low) ==
    /\ phase' = "source"
    /\ navigation' = {[status |-> status, low_confidence |-> low]}
    /\ diagnostics' = diagnostics \cup
           IF status # "ok" THEN {"ix_fallback"} ELSE IF low THEN {"ix_low_confidence"} ELSE {}
    /\ UNCHANGED <<handoff, request, elapsed, memory, age, outcome>>

\* A relation or a target that argparse rejects (prepare checks neither) ends
\* the adapter without an envelope, which is no answer of ix for prepare.
ArgumentsRejected ==
    /\ phase = "starting" /\ request.ix = "unparseable"
    /\ Refuses("blocked")
    /\ UNCHANGED <<handoff, request, elapsed, memory, ix, age, navigation, diagnostics>>

\* The adapter refuses the target symbol, or has no ix it can start.
IxNotRun ==
    /\ phase = "starting" /\ request.ix # "unparseable"
    /\ Navigated(IF request.ix = "unsafe" THEN "invalid_request" ELSE "unavailable", FALSE)
    /\ UNCHANGED ix

RunIx ==
    /\ phase = "starting" /\ request.ix = "good"
    /\ phase' = "exploring" /\ ix' = [NoIx EXCEPT !.run = "running"] /\ age' = 0
    /\ UNCHANGED <<handoff, request, elapsed, memory, navigation, diagnostics, outcome>>

\* Mutant: one certain relation makes the whole answer certain.
BestIsLow(says) == says # {} /\ Max(says) < MinConfidence

LowConfidence(says) == says # {} /\ Min(says) < MinConfidence

\* ix ends by itself: it fails, prints what is not JSON, or answers.
IxEnds(how, says) ==
    /\ phase = "exploring"
    /\ ix' = [run |-> how, says |-> says]
    /\ IF how = "answered" THEN Navigated("ok", LowConfidence(says))
                           ELSE Navigated("error", FALSE)

\* Mutant: every operation is given the time of map.
LongTimeout(operation) == MapTimeout

DefaultTimeout(operation) == IF operation = "map" THEN MapTimeout ELSE QueryTimeout

\* prepare never passes map, nor a timeout.
IxOverdue == phase = "exploring" /\ age = DefaultTimeout("query")

\* The adapter kills ix and answers.
IxTimesOut ==
    /\ IxOverdue
    /\ ix' = [ix EXCEPT !.run = "killed"]
    /\ Navigated("error", FALSE)

\* Mutant: the memory controller is given no timeout.
OnlyIxOverdue == phase \in {"starting", "exploring"} /\ elapsed = IxTimeout

ChildOverdue ==
    \/ phase = "remembering" /\ elapsed = MemoryTimeout
    \/ phase \in {"starting", "exploring"} /\ elapsed = IxTimeout

\* prepare kills its own child, not what that child has started, and stops.
ChildTimesOut ==
    /\ ChildOverdue
    /\ memory' = IF phase = "remembering" THEN "breach" ELSE memory
    /\ Refuses("blocked")
    /\ UNCHANGED <<handoff, request, elapsed, ix, age, navigation, diagnostics>>

-----------------------------------------------------------------------------
(* Source verification and the ticket *)

Required(r) ==
    r.work \in {"mutation", "portable_import"} \/ r.source.direct_source_read_required

\* Mutant: evidence references are not asked for.
RefusedBlindly(r) ==
    \/ r.profile # Personal /\ (r.source.scope \notin SafeScopes \/ r.source.path # "none")
    \/ r.work = "portable_import" /\ r.source.scope # "portable_artifact"
    \/ r.source.completed /\ r.profile = Personal /\ r.source.path # "inside"

SourceRefused(r) ==
    \/ r.profile # Personal /\ (r.source.scope \notin SafeScopes \/ r.source.path # "none")
    \/ r.work = "portable_import" /\ r.source.scope # "portable_artifact"
    \/ r.source.completed /\ r.profile = Personal /\ r.source.path # "inside"
    \/ Required(r) /\ r.source.completed /\ ~r.source.evidence

\* Paths reach the ticket only when a personal verification is completed.
Ticket(r) ==
    [profile |-> r.profile, work |-> r.work,
     completed |-> r.source.completed, scope |-> r.source.scope,
     paths |-> r.source.completed /\ r.profile = Personal,
     evidence |-> r.source.evidence]

SourceOutcome(r) ==
    IF SourceRefused(r)
    THEN [NoOutcome EXCEPT !.status =
             IF r.profile = Personal /\ r.source.path = "missing" THEN "invalid_request"
                                                                  ELSE "blocked"]
    ELSE IF Required(r) /\ ~r.source.completed
    THEN [NoOutcome EXCEPT !.status = "ok",
             !.action = IF r.work = "portable_import" THEN "verify_portable_import_evidence"
                                                      ELSE "direct_source_read"]
    ELSE [status |-> "ok", ready |-> TRUE, action |-> "execute_one_bounded_slice",
          ticket |-> {Ticket(r)}]

VerifySource ==
    /\ phase = "source"
    /\ Ends(SourceOutcome(request))
    /\ UNCHANGED <<handoff, request, elapsed, memory, ix, age, navigation, diagnostics>>

\* What finalize asks of a ticket, with the evidence scope it takes by default.
FinalizeAdmits(profile, t) ==
    /\ t.profile = profile /\ ~WorkKindForbidden(profile, t.work)
    /\ profile # Personal => t.scope \in SafeScopes /\ ~t.paths
    /\ t.work = "mutation" => t.completed /\ t.paths /\ t.evidence
    /\ t.work = "portable_import" =>
          t.completed /\ t.scope = "portable_artifact" /\ ~t.paths /\ t.evidence

-----------------------------------------------------------------------------
Older(n) == IF n < MapTimeout THEN n + 1 ELSE n

Tick ==
    /\ phase \in {"remembering", "starting", "exploring"}
    /\ ~ChildOverdue /\ ~IxOverdue
    /\ ~(phase = "starting" /\ elapsed = StartUp)
    /\ elapsed' = Older(elapsed)
    /\ age' = IF ix.run = "running" THEN Older(age) ELSE age
    /\ UNCHANGED <<handoff, phase, request, memory, ix, navigation, diagnostics, outcome>>

PrepSteps ==
    \/ Begin \/ SkipMemory \/ AskMemory \/ SkipIx \/ RefuseIx \/ StartAdapter
    \/ ArgumentsRejected \/ IxNotRun \/ RunIx \/ IxTimesOut \/ ChildTimesOut \/ VerifySource

Confidences == {MinConfidence - 1, MinConfidence, MinConfidence + 1}

PrepNext ==
    \/ \E h \in Offered : AcceptHandoff(h)
    \/ PrepSteps \/ Tick
    \/ \E answer \in {"projected", "failed", "breach"} : MemoryAnswers(answer)
    \/ \E how \in {"failed", "garbled"} : IxEnds(how, {})
    \/ \E says \in SUBSET Confidences : IxEnds("answered", says)

\* prepare and the adapter take the steps they can take, and time passes; the
\* memory controller and ix need never answer.
PrepFairness == WF_prepVars(PrepSteps) /\ WF_prepVars(Tick)

PrepSpec == PrepInit /\ [][PrepNext]_prepVars /\ PrepFairness

-----------------------------------------------------------------------------
(* Properties *)

PrepTypeOK ==
    /\ handoff \in SUBSET Offered /\ Cardinality(handoff) <= 1
    /\ phase \in {"idle", "memory", "remembering", "code", "starting", "exploring",
                  "source", "done"}
    /\ request \in Asked
    /\ elapsed \in 0..MapTimeout /\ age \in 0..elapsed
    /\ phase = "remembering" => elapsed <= MemoryTimeout
    /\ phase \in {"starting", "exploring"} => elapsed <= IxTimeout
    /\ memory \in {"none", "skipped", "projected", "failed", "breach"}
    /\ ix.run \in {"none", "running", "killed", "failed", "garbled", "answered"}
    /\ ix.says \subseteq Confidences
    /\ \A n \in navigation : n.low_confidence => n.status = "ok"

\* Navigation is optional: once prepare has its memory context, a request for Ix
\* it can pass on changes nothing of what it decides, whether ix is missing,
\* fails, prints garbage, is uncertain or never ends (the adapter's timeout
\* comes before prepare's own).
NavigationIsOptional ==
    phase = "done" /\ memory \notin {"none", "breach"}
        /\ (request.profile = Personal => request.ix \notin {"malformed", "unparseable"})
    => outcome = SourceOutcome(request)

\* When prepare returns, no ix process that was started for it still runs.
NoIxOutlivesPrepare == phase = "done" => ix.run # "running"

\* An answer of the adapter that comes without a diagnostic is one that ix gave
\* in time and in full, with no relation below the threshold.
DoubtIsReported ==
    navigation # {} /\ {"ix_fallback", "ix_low_confidence"} \cap diagnostics = {}
        => ix.run = "answered" /\ \A c \in ix.says : c >= MinConfidence

\* finalize does not refuse a ticket that prepare issued: the slice executed
\* under it would be lost.
TicketsAreFinalizable ==
    \A t \in outcome.ticket : FinalizeAdmits(request.profile, t)

\* Whatever the memory controller and ix do, prepare returns.
PrepareEnds == phase # "idle" ~> phase = "done"

\* Work is only mutated under a hand-off whose context is within budget.
MutationsAreWithinBudget ==
    \A t \in outcome.ticket, h \in handoff :
        t.work = "mutation" => h.budget = "within_budget"
=============================================================================
