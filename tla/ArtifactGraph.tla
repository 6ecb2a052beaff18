--------------------------- MODULE ArtifactGraph ---------------------------
(***************************************************************************)
(* The artifact graph window: UnityArtifactGraphScanner walks the direct   *)
(* dependencies of the assets under a folder, UnityArtifactImpactAnalyzer  *)
(* walks the scanned graph backwards from a changed asset, and the window  *)
(* keeps the last graph and the last impact result on display.  Both walks *)
(* run to their end on the editor's thread; here they take a step for each *)
(* path they dequeue.  A path stands for its node, its GUID and its id.    *)
(* The project does not change while the window is open: a display that    *)
(* an edited asset has made stale is left out.                             *)
(***************************************************************************)
EXTENDS GraphDisplay, Sequences, SequencesExt

VARIABLES busy,       \* idle, scanning or searching
          scan,       \* the state of a scan
          search      \* the state of an impact query

graphVars == <<dependencies, busy, scan, search, graph, impact>>

NoScan == [folder |-> {}, include |-> FALSE, pending |-> <<>>, scheduled |-> {},
           nodes |-> {}, edges |-> {}]
NoSearch == [target |-> {}, depth |-> 0, queue |-> <<>>, visited |-> {}, items |-> {}]

GraphInit ==
    /\ dependencies \in Projects
    /\ busy = "idle" /\ scan = NoScan /\ search = NoSearch
    /\ graph = {} /\ impact = {}

-----------------------------------------------------------------------------
(* The scan *)

StartScan(folder, include) ==
    /\ busy = "idle"
    /\ busy' = "scanning"
    /\ scan' = [NoScan EXCEPT !.folder = folder, !.include = include,
                              !.pending = SetToSeq(folder), !.scheduled = folder]
    /\ UNCHANGED <<dependencies, search, graph, impact>>

\* Mutant: packages become nodes, but what they depend on is not looked at.
OnlyAssets(path) == (dependencies[path] \cap AssetPaths) \ (scan.scheduled \cup {path})

\* The dependencies that are followed for the first time.
Unscheduled(path) ==
    {d \in dependencies[path] \ {path} : Accepted(d, scan.include)} \ scan.scheduled

\* One path is dequeued; unless it is skipped it becomes a node, and what it
\* depends on become nodes, edges and, the first time, pending paths.
ScanNext ==
    /\ busy = "scanning" /\ scan.pending # <<>>
    /\ LET source == Head(scan.pending)
           targets == {d \in dependencies[source] \ {source} : Accepted(d, scan.include)}
           new == Unscheduled(source)
       IN scan' = IF ~Accepted(source, scan.include)
                  THEN [scan EXCEPT !.pending = Tail(@)]
                  ELSE [scan EXCEPT !.pending = Tail(@) \o SetToSeq(new),
                                    !.scheduled = @ \cup new,
                                    !.nodes = @ \cup {source} \cup targets,
                                    !.edges = @ \cup {<<source, d>> : d \in targets}]
    /\ UNCHANGED <<dependencies, busy, search, graph, impact>>

ScannedGraph ==
    [folder |-> scan.folder, include |-> scan.include, nodes |-> scan.nodes,
     edges |-> scan.edges]

\* Mutant: the impact result stays on display.
ShowGraph ==
    /\ busy = "scanning" /\ scan.pending = <<>>
    /\ busy' = "idle" /\ scan' = NoScan /\ graph' = {ScannedGraph}
    /\ UNCHANGED <<dependencies, search, impact>>

\* The new graph is displayed; an impact result of the old one is not.
EndScan ==
    /\ busy = "scanning" /\ scan.pending = <<>>
    /\ busy' = "idle" /\ scan' = NoScan
    /\ graph' = {ScannedGraph} /\ impact' = {}
    /\ UNCHANGED <<dependencies, search>>

-----------------------------------------------------------------------------
(* The impact query *)

\* Mutant: a target that is not in the graph is searched for all the same.
QueryAny(target, depth) ==
    /\ busy = "idle"
    /\ busy' = "searching"
    /\ search' = [NoSearch EXCEPT !.target = {target}, !.depth = depth,
                                  !.queue = <<[node |-> target, distance |-> 0]>>,
                                  !.visited = {target}]
    /\ UNCHANGED <<dependencies, scan, graph, impact>>

\* A target that is not in the graph is refused, and the display left alone.
StartQuery(target, depth) ==
    /\ busy = "idle"
    /\ \E g \in graph : target \in g.nodes
    /\ busy' = "searching"
    /\ search' = [NoSearch EXCEPT !.target = {target}, !.depth = depth,
                                  !.queue = <<[node |-> target, distance |-> 0]>>,
                                  !.visited = {target}]
    /\ UNCHANGED <<dependencies, scan, graph, impact>>

\* Mutant: the item found last is looked at first.
LastFound(queue, found) == found \o queue

Enqueued(queue, found) == queue \o found

SearchNext ==
    /\ busy = "searching" /\ search.queue # <<>>
    /\ LET current == Head(search.queue)
           sources(g) == {e[1] : e \in {f \in g.edges : f[2] = current.node}}
           new == IF current.distance >= search.depth THEN {}
                  ELSE (UNION {sources(g) : g \in graph}) \ search.visited
           found == {[node |-> n, distance |-> current.distance + 1] : n \in new}
       IN search' = [search EXCEPT !.queue = Enqueued(Tail(@), SetToSeq(found)),
                                   !.visited = @ \cup new,
                                   !.items = @ \cup found]
    /\ UNCHANGED <<dependencies, busy, scan, graph, impact>>

EndQuery ==
    /\ busy = "searching" /\ search.queue = <<>>
    /\ busy' = "idle" /\ search' = NoSearch
    /\ impact' = {[target |-> search.target, depth |-> search.depth, items |-> search.items]}
    /\ UNCHANGED <<dependencies, scan, graph>>

GraphNext ==
    \/ \E folder \in RootFolders, include \in BOOLEAN : StartScan(folder, include)
    \/ ScanNext \/ EndScan
    \/ \E target \in Paths, depth \in Depths : StartQuery(target, depth)
    \/ SearchNext \/ EndQuery

GraphSpec == GraphInit /\ [][GraphNext]_graphVars

-----------------------------------------------------------------------------
(* Properties *)

\* The graph on display holds exactly the accepted assets that its folder holds
\* or depends on, directly or not, and exactly their direct dependencies.
\* (UnityArtifactGraphScanner.cs:51-95)
ScanIsExact == \A g \in graph : g = ExactGraph(g.folder, g.include)

\* The impact result on display lists exactly the assets of the graph on display
\* that lead to the target within the hop limit, each once, at the length of a
\* shortest way. (UnityArtifactImpactAnalyzer.cs:46-82)
ImpactIsExact == \A r \in impact, g \in graph : r.items = ExactItems(g, r.target, r.depth)

\* The window changes its display as if each walk were one step: a scan that ends
\* shows the whole graph and no result of an older one, a query that ends shows
\* the whole result for an asset of the graph on display, and nothing that is half
\* done is ever shown. (UnityGraphEngineeringWindow.cs:151-178)
ImplementsDisplay == DisplaySpec
=============================================================================
