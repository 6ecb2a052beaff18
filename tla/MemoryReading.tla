--------------------------- MODULE MemoryReading ---------------------------
(***************************************************************************)
(* The reading calls of the layered memory controller, next to the writing *)
(* ones of LayeredMemory: retrieve (project is a retrieve whose answer is  *)
(* laid out differently) and drilldown.  A reader takes no lock either: it *)
(* reads the index, or one folder after the other, or one record after the *)
(* other, while writers store, are killed, and store again.                *)
(*                                                                         *)
(* Scores and the sizes of texts are abstracted: which of the records found *)
(* fit into the budget is a choice.                                        *)
(***************************************************************************)
EXTENDS LayeredMemory

CONSTANTS Readers,
          Asks,       \* the reading calls that may be made
          NoAsk

VARIABLES ask, stage,  \* the call of each reader and its progress
          todo,        \* what it has still to read: entries, layers or ids
          got,         \* the records it has read, with their places
          shown,       \* those of its answer
          whole,       \* the answer is not truncated
          known        \* history: what it asks for of what was answered ok before

readVars == <<ask, stage, todo, got, shown, whole, known>>
allVars == <<vars, readVars>>

-----------------------------------------------------------------------------
(* Data *)

\* wanted: the bodies in which the query hits (all of them if it is empty).
\* items: max_items.  A drilldown has a root and no layers, query or items.
Retrieve == [operation : {"retrieve"}, personal : BOOLEAN, layers : SUBSET Layers,
             wanted : SUBSET Bodies, items : Nat \ {0}]
Drilldown == [operation : {"drilldown"}, personal : BOOLEAN, root : Ids]

Found == [layer : Layers, id : Ids, record : Record]

Stages == {"idle", "open", "list", "scan", "walk", "answered", "refused"}

ASSUME ReadingConstants ==
    /\ Asks \subseteq Retrieve \cup Drilldown
    /\ NoAsk \notin Asks

-----------------------------------------------------------------------------
(* A reading call *)

ReadInit ==
    /\ Init
    /\ ask = [q \in Readers |-> NoAsk]
    /\ stage = [q \in Readers |-> "idle"]
    /\ todo = [q \in Readers |-> {}]
    /\ got = [q \in Readers |-> {}]
    /\ shown = [q \in Readers |-> {}]
    /\ whole = [q \in Readers |-> FALSE]
    /\ known = [q \in Readers |-> {}]

\* The call of q goes on to another stage with these things left to read and read.
Proceed(q, s, left, read) ==
    /\ stage' = [stage EXCEPT ![q] = s]
    /\ todo' = [todo EXCEPT ![q] = left]
    /\ got' = [got EXCEPT ![q] = read]
    /\ UNCHANGED <<ask, shown, whole, known>>

\* Every refusal is the end of the call: nothing that was read is answered.
ReadFails(q) == Proceed(q, "refused", {}, {})

FirstStage(a) ==
    IF a.operation = "drilldown" THEN "walk" ELSE IF a.personal THEN "scan" ELSE "open"

FirstTodo(a) ==
    IF a.operation = "drilldown" THEN {a.root} ELSE IF a.personal THEN Layers ELSE {}

AsksFor(a, r) == a.operation = "retrieve" /\ r.layer \in a.layers /\ r.body \in a.wanted

Ask(q, a) ==
    /\ stage[q] = "idle"
    /\ ask' = [ask EXCEPT ![q] = a]
    /\ stage' = [stage EXCEPT ![q] = FirstStage(a)]
    /\ todo' = [todo EXCEPT ![q] = FirstTodo(a)]
    /\ known' = [known EXCEPT ![q] = {r \in acked : AsksFor(a, r)}]
    /\ UNCHANGED <<got, shown, whole>>

\* retrieve without the personal profile: the index first,
OpenIndex(q) ==
    /\ stage[q] = "open"
    /\ IF Corrupt THEN ReadFails(q) ELSE Proceed(q, "list", index, {})

\* then each record it lists, which must be what the index says.
ReadListed(q) ==
    /\ stage[q] = "list"
    /\ \E e \in todo[q] :
          LET f == file[e.layer][e.id]
          IN IF f # NoFile /\ f.scope = e.scope
               THEN Proceed(q, "list", todo[q] \ {e},
                            got[q] \cup {[layer |-> e.layer, id |-> e.id, record |-> f]})
               ELSE ReadFails(q)

\* retrieve with it: the folders of the layers, from the lowest up.
InLayer(l) == {[layer |-> l, id |-> i, record |-> file[l][i]] :
                  i \in {j \in Ids : file[l][j] # NoFile}}

ScanLayer(q) ==
    /\ stage[q] = "scan"
    /\ \E l \in todo[q] :
          /\ \A k \in todo[q] : l <= k
          /\ Proceed(q, "scan", todo[q] \ {l}, got[q] \cup InLayer(l))

Matching(q) ==
    {g \in got[q] : /\ g.layer \in ask[q].layers
                    /\ ask[q].personal \/ Safe(g.record.scope)
                    /\ g.record.body \in ask[q].wanted}

\* The answer is the best of the matching records, cut by their number and their
\* length; the best one is always part of it, if need be with less text.
AnswerRetrieve(q) ==
    /\ stage[q] \in {"list", "scan"} /\ todo[q] = {}
    /\ \E T \in SUBSET Matching(q) :
          /\ Matching(q) # {} => T # {}
          /\ Cardinality(T) <= ask[q].items
          /\ shown' = [shown EXCEPT ![q] = T]
          /\ whole' = [whole EXCEPT ![q] = (T = Matching(q))]
    /\ stage' = [stage EXCEPT ![q] = "answered"]
    /\ got' = [got EXCEPT ![q] = {}]
    /\ UNCHANGED <<ask, todo, known>>

Visited(q) == {g.id : g \in got[q]}

\* Mutants: what a record refers to is not followed once it was read; the access
\* check is made for the root only.
WalkRootOnly(q) ==
    /\ stage[q] = "walk"
    /\ \E i \in todo[q] :
          \/ \E l \in LoadedFrom(i, ask[q].personal) :
                Proceed(q, "walk", {},
                        got[q] \cup {[layer |-> l, id |-> i, record |-> file[l][i]]})
          \/ LoadedFrom(i, ask[q].personal) = {} /\ ReadFails(q)
WalkUnchecked(q) ==
    /\ stage[q] = "walk"
    /\ \E i \in todo[q] :
          \/ \E l \in LoadedFrom(i, TRUE) :
                Proceed(q, "walk",
                        (todo[q] \cup file[l][i].refs) \ (Visited(q) \cup {i}),
                        got[q] \cup {[layer |-> l, id |-> i, record |-> file[l][i]]})
          \/ LoadedFrom(i, TRUE) = {} /\ ReadFails(q)

\* drilldown: a record is loaded as LoadedFrom says, and what it refers to comes
\* next, each id once.
Walk(q) ==
    /\ stage[q] = "walk"
    /\ \E i \in todo[q] :
          \/ \E l \in LoadedFrom(i, ask[q].personal) :
                Proceed(q, "walk",
                        (todo[q] \cup file[l][i].refs) \ (Visited(q) \cup {i}),
                        got[q] \cup {[layer |-> l, id |-> i, record |-> file[l][i]]})
          \/ LoadedFrom(i, ask[q].personal) = {} /\ ReadFails(q)

\* Of the records in the order they were reached, as many as fit.
AnswerDrilldown(q) ==
    /\ stage[q] = "walk" /\ todo[q] = {}
    /\ \E T \in SUBSET got[q] :
          /\ shown' = [shown EXCEPT ![q] = T]
          /\ whole' = [whole EXCEPT ![q] = (T = got[q])]
    /\ stage' = [stage EXCEPT ![q] = "answered"]
    /\ got' = [got EXCEPT ![q] = {}]
    /\ UNCHANGED <<ask, todo, known>>

Read(q) ==
    \/ \E a \in Asks : Ask(q, a)
    \/ OpenIndex(q) \/ ReadListed(q) \/ ScanLayer(q) \/ AnswerRetrieve(q)
    \/ Walk(q) \/ AnswerDrilldown(q)

ReadingNext ==
    \/ Next /\ UNCHANGED readVars
    \/ \E q \in Readers : Read(q) /\ UNCHANGED vars

ReadingSpec == ReadInit /\ [][ReadingNext]_allVars

-----------------------------------------------------------------------------
(* Properties *)

\* Ids that name records of two layers: only one of them can be loaded.
Ambiguous(i) == \E k, l \in Layers : k < l /\ file[k][i] # NoFile /\ file[l][i] # NoFile

\* Without the personal profile no internal record is opened, let alone answered,
\* at no layer of a drilldown and whatever is stored while it is under way.
NothingInternalRead ==
    \A q \in Readers : \A g \in got[q] \cup shown[q] : ask[q].personal \/ Safe(g.record.scope)

\* What was answered once is what the store holds ever after: summaries can be
\* followed to the very records they were made of.
AnswersStayTrue ==
    \A q \in Readers : \A g \in shown[q] : file[g.layer][g.id] = g.record

\* A whole drilldown answers with everything that its records stand on, down to
\* the evidence, unless an id on the way names records of two layers.
EvidenceReached ==
    \A q \in Readers :
        stage[q] = "answered" /\ whole[q] /\ ask[q].operation = "drilldown" =>
            \A g \in shown[q] : \A j \in g.record.refs :
                Ambiguous(j) \/ \E h \in shown[q] : h.layer = g.layer - 1 /\ h.id = j

\* What was answered ok before a whole retrieve began is in its answer, if it is
\* asked for and the profile may see it.
FindsWhatWasStored ==
    \A q \in Readers :
        stage[q] = "answered" /\ whole[q] /\ ask[q].operation = "retrieve" =>
            \A r \in known[q] :
                ask[q].personal \/ Safe(file[r.layer][r.id].scope)
                => \E h \in shown[q] : h.layer = r.layer /\ h.id = r.id

\* A retrieve is never refused because of what writers do meanwhile.  A drilldown
\* is refused for its root, or without the personal profile for a record whose
\* scope is safe and which is not indexed yet; never below a record that is
\* indexed because something internal is there.
RefusalsAreDue ==
    [][\A q \in Readers :
          stage'[q] = "refused" /\ stage[q] # "refused" =>
              /\ ask[q].operation = "drilldown"
              /\ \E i \in todo[q] :
                    \/ i = ask[q].root
                    \/ /\ ~ask[q].personal /\ EntriesOf(i) = {}
                       /\ \E l \in Layers : file[l][i] # NoFile /\ Safe(file[l][i].scope)]_allVars
=============================================================================
