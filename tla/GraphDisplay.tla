---------------------------- MODULE GraphDisplay ----------------------------
(***************************************************************************)
(* What the artifact graph window promises, without saying how: a scan     *)
(* puts the dependency graph of the chosen folder on display, and a query  *)
(* the assets that a change of one asset reaches within the hop limit,     *)
(* each at the length of a shortest way.  A result is displayed only with  *)
(* the graph it was computed on.  ArtifactGraph implements it.             *)
(***************************************************************************)
EXTENDS Naturals, FiniteSets

CONSTANTS AssetPaths, PackagePaths,   \* paths below Assets/ and below Packages/
          OtherPaths,                 \* built-in resources, and what else has a path
          Projects,                   \* what GetDependencies(path, false) may say
          RootFolders,                \* the assets found below a folder one may scan
          Depths                      \* the hop limits that are asked for

VARIABLES dependencies,    \* the project
          graph, impact    \* on display: none or one of each

displayVars == <<dependencies, graph, impact>>

Paths == AssetPaths \cup PackagePaths \cup OtherPaths

ASSUME GraphAssumption ==
    /\ IsFiniteSet(Paths)
    /\ Projects \subseteq [Paths -> SUBSET Paths] /\ RootFolders \subseteq SUBSET Paths
    /\ Depths \subseteq Nat \ {0}

-----------------------------------------------------------------------------
(* What is to be displayed *)

\* What can be reached from the paths in start along steps, in at most n steps.
Reached(start, steps, n) ==
    LET within[k \in Nat] ==
            IF k = 0 THEN start
            ELSE LET before == within[k - 1]
                 IN before \cup {s[2] : s \in {t \in steps : t[1] \in before}}
    IN within[n]

Size == Cardinality(Paths)

Accepted(path, include) == path \in AssetPaths \/ (include /\ path \in PackagePaths)

Kept(include) == {p \in Paths : Accepted(p, include)}

Steps(include) ==
    {e \in Kept(include) \X Kept(include) : e[1] # e[2] /\ e[2] \in dependencies[e[1]]}

\* The accepted assets of the folder and all they depend on, directly or not, with
\* all of their direct dependencies.
ExactGraph(folder, include) ==
    LET nodes == Reached(folder \cap Kept(include), Steps(include), Size)
    IN [folder |-> folder, include |-> include, nodes |-> nodes,
        edges |-> {e \in Steps(include) : e[1] \in nodes}]

\* The assets that lead to the target within the limit, each once, at the length
\* of a shortest way.
ExactItems(g, target, depth) ==
    LET back == {<<e[2], e[1]>> : e \in g.edges}
    IN UNION {{[node |-> n, distance |-> k] :
                  n \in Reached(target, back, k) \ Reached(target, back, k - 1)}
              : k \in 1..depth}

-----------------------------------------------------------------------------
DisplayInit ==
    /\ dependencies \in Projects
    /\ graph = {} /\ impact = {}

Scan(folder, include) ==
    /\ graph' = {ExactGraph(folder, include)} /\ impact' = {}
    /\ UNCHANGED dependencies

QueryImpact(target, depth) ==
    /\ \E g \in graph :
          /\ target \in g.nodes
          /\ impact' = {[target |-> {target}, depth |-> depth,
                         items |-> ExactItems(g, {target}, depth)]}
    /\ UNCHANGED <<dependencies, graph>>

DisplayNext ==
    \/ \E folder \in RootFolders, include \in BOOLEAN : Scan(folder, include)
    \/ \E target \in Paths, depth \in Depths : QueryImpact(target, depth)

DisplaySpec == DisplayInit /\ [][DisplayNext]_displayVars
=============================================================================
