--------------------------- MODULE ReadingProofs ---------------------------
(***************************************************************************)
(* What readers of the layered memory are answered, proved for every set   *)
(* of readers, callers and requests and any number of crashes, under the   *)
(* assumption of ArchiveProofs about callers (~Overlaps).                  *)
(*                                                                         *)
(* The argument: readers write nothing, so whatever holds of the writers   *)
(* holds next to readers; and since nothing that is stored ever changes    *)
(* (Grows), what a reader found out at one step still holds at the next.   *)
(***************************************************************************)
EXTENDS MemoryReading, ArchiveProofs

USE DEF Layers, Scopes, Public, Portable, Internal, Inherit

-----------------------------------------------------------------------------
(* The invariant of a reader *)

\* The record stored at that place, as a reader keeps it.
At(l, i) == [layer |-> l, id |-> i, record |-> file[l][i]]

ReadTypes ==
    /\ ask \in [Readers -> Asks \cup {NoAsk}]
    /\ stage \in [Readers -> Stages]
    /\ todo = [q \in Readers |-> todo[q]]
    /\ got = [q \in Readers |-> got[q]]
    /\ shown = [q \in Readers |-> shown[q]]
    /\ whole \in [Readers -> BOOLEAN]
    /\ known \in [Readers -> SUBSET Requests]

\* The stage of a call fits what was asked, and its answer is empty until it ends.
Staged(q) ==
    /\ stage[q] # "idle" => ask[q] \in Asks
    /\ stage[q] \in {"open", "list"} => ask[q].operation = "retrieve" /\ ~ask[q].personal
    /\ stage[q] = "list" => todo[q] \subseteq index
    /\ stage[q] = "scan" =>
          ask[q].operation = "retrieve" /\ ask[q].personal /\ todo[q] \subseteq Layers
    /\ stage[q] = "walk" => ask[q].operation = "drilldown" /\ todo[q] \subseteq Ids
    /\ stage[q] = "idle" => got[q] = {} /\ known[q] = {}
    /\ stage[q] # "answered" => shown[q] = {}

\* What was read is stored, and was for this profile to see.
Told(q) ==
    \A g \in got[q] \cup shown[q] :
        \E l \in Layers, i \in Ids :
            /\ g = At(l, i) /\ file[l][i] # NoFile
            /\ ask[q].personal \/ Safe(file[l][i].scope)

\* What was stored when a retrieve began is among what it has read or has yet to read.
Knows(q) ==
    \A r \in known[q] :
        /\ AsksFor(ask[q], r)
        /\ file[r.layer][r.id] # NoFile /\ file[r.layer][r.id].body = r.body
        /\ stage[q] = "open" /\ Safe(file[r.layer][r.id].scope) =>
              [id |-> r.id, layer |-> r.layer, scope |-> file[r.layer][r.id].scope] \in index
        /\ stage[q] = "list" /\ Safe(file[r.layer][r.id].scope) =>
              \/ [id |-> r.id, layer |-> r.layer, scope |-> file[r.layer][r.id].scope] \in todo[q]
              \/ At(r.layer, r.id) \in got[q]
        /\ stage[q] = "scan" => r.layer \in todo[q] \/ At(r.layer, r.id) \in got[q]
        /\ stage[q] = "walk" => FALSE
        /\ stage[q] = "answered" /\ whole[q] /\ ask[q].operation = "retrieve"
              /\ (ask[q].personal \/ Safe(file[r.layer][r.id].scope)) =>
                 At(r.layer, r.id) \in shown[q]

\* What a record that was read refers to was read, under that id, or comes next.
Follows(q) ==
    /\ stage[q] = "walk" =>
          /\ \A g \in got[q] : \A j \in g.record.refs : j \in todo[q] \cup Visited(q)
          /\ \A j \in todo[q] : j = ask[q].root \/ \E g \in got[q] : j \in g.record.refs
    /\ stage[q] = "answered" /\ whole[q] /\ ask[q].operation = "drilldown" =>
          \A g \in shown[q] : \A j \in g.record.refs : \E h \in shown[q] : h.id = j

ReaderInv(q) == Staged(q) /\ Told(q) /\ Knows(q) /\ Follows(q)

ReadInv == ReadTypes /\ \A q \in Readers : ReaderInv(q)

-----------------------------------------------------------------------------
(* Lemmas *)

LEMMA ReadInitInv == ReadInit => ReadInv
  BY DEF ReadInit, ReadInv, ReadTypes, Stages, ReaderInv, Staged, Told, Knows, Follows

\* Every step of the archive adds to it.
LEMMA ArchiveGrows ==
    ASSUME TypeOK, [Archive!Next]_(Archive!vars) PROVE Grows
  <1>1. CASE UNCHANGED Archive!vars
    BY <1>1 DEF Archive!vars, Grows
  <1>2. ASSUME NEW i \in Ids, NEW b \in Bodies, Archive!Preserve(i, b) PROVE Grows
    BY <1>2 DEF Archive!Preserve, Grows, TypeOK
  <1>3. ASSUME NEW i \in Ids, NEW l \in 0..3, Archive!List(l, i) PROVE Grows
    BY <1>3 DEF Archive!List, Grows
  <1>4. ASSUME NEW i \in Ids, NEW l \in 0..3, Archive!Describe(l, i) PROVE Grows
    <2>1. /\ raw' = raw /\ index' = index /\ file[l][i] = NoFile
          /\ file' = [file EXCEPT ![l][i] = file'[l][i]]
      BY <1>4 DEF Archive!Describe
    <2>2. \A k \in Layers, j \in Ids : file[k][j] # NoFile => file'[k][j] = file[k][j]
      BY <2>1 DEF TypeOK
    <2> QED
      BY <2>1, <2>2 DEF Grows
  <1> QED
    BY <1>1, <1>2, <1>3, <1>4 DEF Archive!Next

\* A reader that does not move keeps what it knows, whatever is stored.
LEMMA ReaderKept ==
    ASSUME Grows, NEW q \in Readers, ReaderInv(q), known[q] \subseteq Requests,
           ask'[q] = ask[q], stage'[q] = stage[q], todo'[q] = todo[q], got'[q] = got[q],
           shown'[q] = shown[q], whole'[q] = whole[q], known'[q] = known[q]
    PROVE  ReaderInv(q)'
  <1>1. Staged(q)'
    BY DEF ReaderInv, Staged, Grows
  <1>2. Told(q)'
    BY DEF ReaderInv, Told, Grows, At
  <1>3. Knows(q)'
    <2> SUFFICES ASSUME NEW r \in known[q]
                 PROVE  /\ file'[r.layer][r.id] = file[r.layer][r.id]
                        /\ index \subseteq index'
      BY DEF ReaderInv, Knows, At
    <2>1. file[r.layer][r.id] # NoFile
      BY DEF ReaderInv, Knows
    <2>2. r \in Requests
      OBVIOUS
    <2>3. r.layer \in Layers /\ r.id \in Ids
      BY <2>2, RequestFields
    <2> QED
      BY <2>1, <2>3 DEF Grows
  <1>4. Follows(q)'
    BY DEF ReaderInv, Follows, Visited
  <1> QED
    BY <1>1, <1>2, <1>3, <1>4 DEF ReaderInv

\* A step of one reader that keeps what is stored concerns that reader alone.
LEMMA OneReader ==
    ASSUME ReadInv, UNCHANGED vars, NEW q \in Readers, ReaderInv(q)', ReadTypes',
           \A p \in Readers \ {q} :
               /\ ask'[p] = ask[p] /\ stage'[p] = stage[p] /\ todo'[p] = todo[p]
               /\ got'[p] = got[p] /\ shown'[p] = shown[p] /\ whole'[p] = whole[p]
               /\ known'[p] = known[p]
    PROVE  ReadInv'
  <1>1. Grows
    BY DEF vars, store, Grows
  <1>2. ASSUME NEW p \in Readers, p # q PROVE ReaderInv(p)'
    <2>1. ReaderInv(p) /\ known[p] \subseteq Requests
      BY DEF ReadInv, ReadTypes
    <2> QED
      BY <1>1, <1>2, <2>1, ReaderKept
  <1> QED
    BY <1>2 DEF ReadInv

LEMMA ProceedStep ==
    ASSUME ReadInv, UNCHANGED vars, NEW q \in Readers, NEW s \in Stages, NEW left, NEW read,
           Proceed(q, s, left, read)
    PROVE  /\ ReadTypes'
           /\ stage'[q] = s /\ todo'[q] = left /\ got'[q] = read
           /\ ask'[q] = ask[q] /\ shown'[q] = shown[q] /\ whole'[q] = whole[q]
           /\ known'[q] = known[q] /\ known[q] \subseteq Requests
           /\ ReaderInv(q)' => ReadInv'
  <1>1. ReadTypes'
    BY DEF ReadInv, ReadTypes, Proceed
  <1>2. /\ stage'[q] = s /\ todo'[q] = left /\ got'[q] = read
        /\ ask'[q] = ask[q] /\ shown'[q] = shown[q] /\ whole'[q] = whole[q]
        /\ known'[q] = known[q] /\ known[q] \subseteq Requests
    BY DEF ReadInv, ReadTypes, Proceed
  <1>3. \A p \in Readers \ {q} :
            /\ ask'[p] = ask[p] /\ stage'[p] = stage[p] /\ todo'[p] = todo[p]
            /\ got'[p] = got[p] /\ shown'[p] = shown[p] /\ whole'[p] = whole[p]
            /\ known'[p] = known[p]
    BY DEF ReadInv, ReadTypes, Proceed
  <1> QED
    BY <1>1, <1>2, <1>3, OneReader

\* A call that is refused has nothing left to hold.
LEMMA ReadFailsStep ==
    ASSUME ReadInv, UNCHANGED vars, NEW q \in Readers, stage[q] \notin {"idle", "answered"},
           ReadFails(q)
    PROVE  ReadInv'
  <1>1. "refused" \in Stages
    BY DEF Stages
  <1>2. /\ stage'[q] = "refused" /\ got'[q] = {} /\ ask'[q] = ask[q]
        /\ shown'[q] = shown[q] /\ known'[q] = known[q] /\ known[q] \subseteq Requests
        /\ ReaderInv(q)' => ReadInv'
    BY <1>1, ProceedStep DEF ReadFails
  <1>3. Staged(q) /\ Knows(q) /\ shown[q] = {}
    BY DEF ReadInv, ReaderInv, Staged
  <1>4. Staged(q)'
    BY <1>2, <1>3 DEF Staged
  <1>5. Told(q)'
    BY <1>2, <1>3 DEF Told
  <1>6. Knows(q)'
    BY <1>2, <1>3 DEF Knows, vars, store, At
  <1>7. Follows(q)'
    BY <1>2 DEF Follows
  <1> QED
    BY <1>2, <1>4, <1>5, <1>6, <1>7 DEF ReaderInv

LEMMA AskStep ==
    ASSUME AnswersHold, ReadInv, UNCHANGED vars, acked \subseteq Requests,
           NEW q \in Readers, NEW a \in Asks, Ask(q, a)
    PROVE  ReadInv'
  <1>1. a \in Retrieve \cup Drilldown
    BY ReadingConstants
  <1>2. FirstStage(a) \in {"open", "scan", "walk"}
    BY DEF FirstStage
  <1>3. ReadTypes'
    BY <1>2 DEF ReadInv, ReadTypes, Ask, Stages
  <1>4. /\ ask'[q] = a /\ stage'[q] = FirstStage(a) /\ todo'[q] = FirstTodo(a)
        /\ known'[q] = {r \in acked : AsksFor(a, r)}
        /\ got'[q] = {} /\ shown'[q] = {} /\ whole'[q] = whole[q]
    BY DEF ReadInv, ReadTypes, Ask, ReaderInv, Staged
  <1>5. \A p \in Readers \ {q} :
            /\ ask'[p] = ask[p] /\ stage'[p] = stage[p] /\ todo'[p] = todo[p]
            /\ got'[p] = got[p] /\ shown'[p] = shown[p] /\ whole'[p] = whole[p]
            /\ known'[p] = known[p]
    BY DEF ReadInv, ReadTypes, Ask
  <1>6. Staged(q)'
    BY <1>1, <1>2, <1>4 DEF Staged, FirstStage, FirstTodo, Retrieve, Drilldown
  <1>7. Told(q)' 
    BY <1>4 DEF Told
  <1>8. Knows(q)'
    <2> SUFFICES ASSUME NEW r \in known'[q]
                 PROVE  /\ AsksFor(a, r)
                        /\ file[r.layer][r.id] # NoFile /\ file[r.layer][r.id].body = r.body
                        /\ Safe(file[r.layer][r.id].scope) =>
                              [id |-> r.id, layer |-> r.layer,
                               scope |-> file[r.layer][r.id].scope] \in index
                        /\ FirstStage(a) = "scan" => r.layer \in FirstTodo(a)
                        /\ FirstStage(a) # "walk"
      BY <1>2, <1>4 DEF Knows, vars, store, At
    <2>1. r \in acked /\ AsksFor(a, r)
      BY <1>4
    <2>2. r.layer \in 0..3
      BY <2>1, RequestFields
    <2> QED
      BY <2>1, <2>2 DEF AnswersHold, AsksFor, FirstStage, FirstTodo
  <1>9. Follows(q)'
    BY <1>1, <1>2, <1>4 DEF Follows, FirstStage, FirstTodo, Drilldown, Retrieve
  <1> QED
    BY <1>3, <1>5, <1>6, <1>7, <1>8, <1>9, OneReader DEF ReaderInv

LEMMA OpenIndexStep ==
    ASSUME IndexSound, ReadInv, UNCHANGED vars, NEW q \in Readers, OpenIndex(q)
    PROVE  ReadInv' /\ stage'[q] # "refused"
  <1>1. "list" \in Stages /\ ~Corrupt /\ stage[q] = "open"
    BY DEF Stages, IndexSound, OpenIndex
  <1>2. /\ stage'[q] = "list" /\ todo'[q] = index /\ got'[q] = {} /\ ask'[q] = ask[q]
        /\ shown'[q] = shown[q] /\ known'[q] = known[q] /\ known[q] \subseteq Requests
        /\ ReaderInv(q)' => ReadInv'
    BY <1>1, ProceedStep DEF OpenIndex
  <1>3. Staged(q) /\ Knows(q)
    BY DEF ReadInv, ReaderInv
  <1>4. Staged(q)' /\ Told(q)' /\ Follows(q)'
    BY <1>1, <1>2, <1>3 DEF Staged, Told, Follows, vars, store
  <1>5. Knows(q)'
    BY <1>1, <1>2, <1>3 DEF Knows, vars, store, At
  <1> QED
    BY <1>2, <1>4, <1>5 DEF ReaderInv

\* What the index lists is there and is what the index says.
LEMMA ReadListedStep ==
    ASSUME TypeOK, IndexSound, ReadInv, UNCHANGED vars, NEW q \in Readers, ReadListed(q)
    PROVE  ReadInv' /\ stage'[q] # "refused"
  <1>1. stage[q] = "list" /\ "list" \in Stages /\ ReaderInv(q)
    BY DEF Stages, ReadListed, ReadInv
  <1>2. PICK e \in todo[q] :
            LET f == file[e.layer][e.id]
            IN IF f # NoFile /\ f.scope = e.scope
                 THEN Proceed(q, "list", todo[q] \ {e},
                              got[q] \cup {[layer |-> e.layer, id |-> e.id, record |-> f]})
                 ELSE ReadFails(q)
    BY DEF ReadListed
  <1>3. /\ e \in index /\ e.layer \in Layers /\ e.id \in Ids /\ Safe(e.scope)
        /\ file[e.layer][e.id] # NoFile /\ file[e.layer][e.id].scope = e.scope
    BY <1>1 DEF ReaderInv, Staged, TypeOK, Entry, IndexSound
  <1>4. Proceed(q, "list", todo[q] \ {e}, got[q] \cup {At(e.layer, e.id)})
    BY <1>2, <1>3 DEF At
  <1>5. /\ stage'[q] = "list" /\ todo'[q] = todo[q] \ {e}
        /\ got'[q] = got[q] \cup {At(e.layer, e.id)} /\ ask'[q] = ask[q]
        /\ shown'[q] = shown[q] /\ known'[q] = known[q] /\ known[q] \subseteq Requests
        /\ ReaderInv(q)' => ReadInv'
    BY <1>1, <1>4, ProceedStep
  <1>6. Staged(q)' /\ Follows(q)'
    BY <1>1, <1>5 DEF ReaderInv, Staged, Follows, vars, store
  <1>7. Told(q)'
    BY <1>1, <1>3, <1>5 DEF ReaderInv, Told, vars, store, At
  <1>8. Knows(q)'
    BY <1>1, <1>5 DEF ReaderInv, Knows, vars, store, At
  <1> QED
    BY <1>5, <1>6, <1>7, <1>8 DEF ReaderInv

LEMMA ScanLayerStep ==
    ASSUME TypeOK, ReadInv, UNCHANGED vars, NEW q \in Readers, ScanLayer(q)
    PROVE  ReadInv' /\ stage'[q] # "refused"
  <1>1. stage[q] = "scan" /\ "scan" \in Stages /\ ReaderInv(q)
    BY DEF Stages, ScanLayer, ReadInv
  <1>2. PICK l \in todo[q] : Proceed(q, "scan", todo[q] \ {l}, got[q] \cup InLayer(l))
    BY DEF ScanLayer
  <1>3. l \in Layers /\ ask[q].personal
    BY <1>1 DEF ReaderInv, Staged
  <1>4. /\ stage'[q] = "scan" /\ todo'[q] = todo[q] \ {l}
        /\ got'[q] = got[q] \cup InLayer(l) /\ ask'[q] = ask[q]
        /\ shown'[q] = shown[q] /\ known'[q] = known[q] /\ known[q] \subseteq Requests
        /\ ReaderInv(q)' => ReadInv'
    BY <1>1, <1>2, ProceedStep
  <1>5. \A i \in Ids : file[l][i] # NoFile => At(l, i) \in InLayer(l)
    BY DEF InLayer, At
  <1>6. \A g \in InLayer(l) : \E i \in Ids : g = At(l, i) /\ file[l][i] # NoFile
    BY DEF InLayer, At
  <1>7. Staged(q)' /\ Follows(q)'
    BY <1>1, <1>4 DEF ReaderInv, Staged, Follows, vars, store
  <1>8. Told(q)'
    BY <1>1, <1>3, <1>4, <1>6 DEF ReaderInv, Told, vars, store, At
  <1>9. Knows(q)'
    <2> SUFFICES ASSUME NEW r \in known[q]
                 PROVE  r.layer \in todo'[q] \/ At(r.layer, r.id) \in got'[q]
      BY <1>1, <1>4 DEF ReaderInv, Knows, vars, store, At
    <2>1. r \in Requests
      BY <1>4
    <2>2. /\ r.id \in Ids /\ file[r.layer][r.id] # NoFile
          /\ r.layer \in todo[q] \/ At(r.layer, r.id) \in got[q]
      BY <1>1, <2>1, RequestFields DEF ReaderInv, Knows
    <2> QED
      BY <1>4, <1>5, <2>2
  <1> QED
    BY <1>4, <1>7, <1>8, <1>9 DEF ReaderInv

LEMMA AnswerRetrieveStep ==
    ASSUME ReadInv, UNCHANGED vars, NEW q \in Readers, AnswerRetrieve(q)
    PROVE  ReadInv' /\ stage'[q] # "refused"
  <1>1. stage[q] \in {"list", "scan"} /\ todo[q] = {} /\ ReaderInv(q) /\ known[q] \subseteq Requests
    BY DEF AnswerRetrieve, ReadInv, ReadTypes
  <1>2. PICK T \in SUBSET Matching(q) :
            /\ shown' = [shown EXCEPT ![q] = T]
            /\ whole' = [whole EXCEPT ![q] = (T = Matching(q))]
    BY DEF AnswerRetrieve
  <1>3. ReadTypes'
    BY <1>2 DEF ReadInv, ReadTypes, AnswerRetrieve, Stages
  <1>4. /\ shown'[q] = T /\ whole'[q] = (T = Matching(q)) /\ stage'[q] = "answered"
        /\ got'[q] = {} /\ ask'[q] = ask[q] /\ known'[q] = known[q]
    BY <1>2 DEF ReadInv, ReadTypes, AnswerRetrieve
  <1>5. \A p \in Readers \ {q} :
            /\ ask'[p] = ask[p] /\ stage'[p] = stage[p] /\ todo'[p] = todo[p]
            /\ got'[p] = got[p] /\ shown'[p] = shown[p] /\ whole'[p] = whole[p]
            /\ known'[p] = known[p]
    BY <1>2 DEF ReadInv, ReadTypes, AnswerRetrieve
  <1>6. ask[q].operation = "retrieve" /\ (stage[q] = "scan" => ask[q].personal)
        /\ (stage[q] = "list" => ~ask[q].personal) /\ ask[q] \in Asks
    BY <1>1 DEF ReaderInv, Staged
  <1>7. Staged(q)' /\ Follows(q)'
    BY <1>1, <1>4, <1>6 DEF ReaderInv, Staged, Follows
  <1>8. Told(q)'
    BY <1>1, <1>4 DEF ReaderInv, Told, vars, store, At, Matching
  <1>9. Knows(q)'
    <2> SUFFICES ASSUME NEW r \in known[q], T = Matching(q),
                        ask[q].personal \/ Safe(file[r.layer][r.id].scope)
                 PROVE  At(r.layer, r.id) \in T
      BY <1>1, <1>4 DEF ReaderInv, Knows, vars, store, At
    <2>1. AsksFor(ask[q], r) /\ file[r.layer][r.id].body = r.body
      BY <1>1 DEF ReaderInv, Knows
    <2>2. At(r.layer, r.id) \in got[q]
      BY <1>1, <1>6 DEF ReaderInv, Knows
    <2> QED
      BY <2>1, <2>2 DEF Matching, At, AsksFor
  <1> QED
    BY <1>3, <1>4, <1>5, <1>7, <1>8, <1>9, OneReader DEF ReaderInv

\* What a drilldown loads is stored under that id, and for this profile to see.
LEMMA LoadedIsStored ==
    ASSUME TypeOK, IndexSound, NEW i \in Ids, NEW personal, NEW l \in LoadedFrom(i, personal)
    PROVE  /\ l \in Layers /\ file[l][i] \in Record
           /\ personal \/ Safe(file[l][i].scope)
  <1>1. CASE personal
    BY <1>1 DEF LoadedFrom, TypeOK
  <1>2. CASE ~personal
    <2>1. PICK e \in index : e.id = i /\ e.layer = l /\ file[l][i] # NoFile
                             /\ file[l][i].scope = e.scope
      BY <1>2 DEF LoadedFrom
    <2> QED
      BY <2>1 DEF TypeOK, Entry, IndexSound
  <1> QED
    BY <1>1, <1>2

LEMMA WalkStep ==
    ASSUME TypeOK, IndexSound, ReadInv, UNCHANGED vars, NEW q \in Readers, Walk(q)
    PROVE  ReadInv'
  <1>1. stage[q] = "walk" /\ "walk" \in Stages /\ ReaderInv(q) /\ todo[q] \subseteq Ids
    BY DEF Stages, Walk, ReadInv, ReaderInv, Staged
  <1>2. ASSUME NEW i \in todo[q], LoadedFrom(i, ask[q].personal) = {}, ReadFails(q)
        PROVE  ReadInv'
    BY <1>1, <1>2, ReadFailsStep
  <1>3. ASSUME NEW i \in todo[q], NEW l \in LoadedFrom(i, ask[q].personal),
               Proceed(q, "walk", (todo[q] \cup file[l][i].refs) \ (Visited(q) \cup {i}),
                       got[q] \cup {[layer |-> l, id |-> i, record |-> file[l][i]]})
        PROVE  ReadInv'
    <2>1. /\ i \in Ids /\ l \in Layers /\ file[l][i] \in Record
          /\ ask[q].personal \/ Safe(file[l][i].scope)
      BY <1>1, <1>3, LoadedIsStored
    <2>2. file[l][i] # NoFile /\ file[l][i].refs \subseteq Ids
      BY <2>1, RecordFields
    <2>3. Proceed(q, "walk", (todo[q] \cup file[l][i].refs) \ (Visited(q) \cup {i}),
                  got[q] \cup {At(l, i)})
      BY <1>3 DEF At
    <2>4. /\ stage'[q] = "walk" /\ ask'[q] = ask[q]
          /\ todo'[q] = (todo[q] \cup file[l][i].refs) \ (Visited(q) \cup {i})
          /\ got'[q] = got[q] \cup {At(l, i)}
          /\ shown'[q] = shown[q] /\ known'[q] = known[q] /\ known[q] \subseteq Requests
          /\ ReaderInv(q)' => ReadInv'
      BY <1>1, <2>3, ProceedStep
    <2>5. Staged(q)'
      BY <1>1, <2>2, <2>4 DEF ReaderInv, Staged
    <2>6. Told(q)'
      BY <1>1, <2>1, <2>2, <2>4 DEF ReaderInv, Told, vars, store, At
    <2>7. Knows(q)'
      BY <1>1, <2>4 DEF ReaderInv, Knows, vars, store, At
    <2>8. At(l, i).id = i /\ At(l, i).record.refs = file[l][i].refs
      BY DEF At
    <2>9. Visited(q)' = Visited(q) \cup {i}
      BY <2>4, <2>8 DEF Visited
    <2>10. Follows(q)'
      <3>1. \A g \in got'[q] : \A j \in g.record.refs : j \in todo'[q] \cup Visited(q)'
        BY <1>1, <2>4, <2>8, <2>9 DEF ReaderInv, Follows
      <3>2. \A j \in todo'[q] : j = ask[q].root \/ \E g \in got'[q] : j \in g.record.refs
        BY <1>1, <2>4, <2>8 DEF ReaderInv, Follows
      <3> QED
        BY <2>4, <3>1, <3>2 DEF Follows
    <2> QED
      BY <2>4, <2>5, <2>6, <2>7, <2>10 DEF ReaderInv
  <1> QED
    BY <1>2, <1>3 DEF Walk

LEMMA AnswerDrilldownStep ==
    ASSUME ReadInv, UNCHANGED vars, NEW q \in Readers, AnswerDrilldown(q)
    PROVE  ReadInv' /\ stage'[q] # "refused"
  <1>1. stage[q] = "walk" /\ todo[q] = {} /\ ReaderInv(q) /\ known[q] \subseteq Requests
    BY DEF AnswerDrilldown, ReadInv, ReadTypes
  <1>2. PICK T \in SUBSET got[q] :
            /\ shown' = [shown EXCEPT ![q] = T]
            /\ whole' = [whole EXCEPT ![q] = (T = got[q])]
    BY DEF AnswerDrilldown
  <1>3. ReadTypes'
    BY <1>2 DEF ReadInv, ReadTypes, AnswerDrilldown, Stages
  <1>4. /\ shown'[q] = T /\ whole'[q] = (T = got[q]) /\ stage'[q] = "answered"
        /\ got'[q] = {} /\ ask'[q] = ask[q] /\ known'[q] = known[q]
    BY <1>2 DEF ReadInv, ReadTypes, AnswerDrilldown
  <1>5. \A p \in Readers \ {q} :
            /\ ask'[p] = ask[p] /\ stage'[p] = stage[p] /\ todo'[p] = todo[p]
            /\ got'[p] = got[p] /\ shown'[p] = shown[p] /\ whole'[p] = whole[p]
            /\ known'[p] = known[p]
    BY <1>2 DEF ReadInv, ReadTypes, AnswerDrilldown
  <1>6. ask[q].operation = "drilldown" /\ ask[q] \in Asks
    BY <1>1 DEF ReaderInv, Staged
  <1>7. Staged(q)'
    BY <1>1, <1>4, <1>6 DEF ReaderInv, Staged
  <1>8. Told(q)'
    BY <1>1, <1>4 DEF ReaderInv, Told, vars, store, At
  <1>9. Knows(q)'
    BY <1>1, <1>4, <1>6 DEF ReaderInv, Knows, vars, store, At
  <1>10. Follows(q)'
    <2>1. \A g \in got[q] : \A j \in g.record.refs : \E h \in got[q] : h.id = j
      BY <1>1 DEF ReaderInv, Follows, Visited
    <2> QED
      BY <1>4, <2>1 DEF Follows
  <1> QED
    BY <1>3, <1>4, <1>5, <1>7, <1>8, <1>9, <1>10, OneReader DEF ReaderInv

\* Readers and writers together keep the invariant.
LEMMA ReadStep ==
    ASSUME ~Overlaps, CallsInv, StoreInv, ReadInv, [ReadingNext]_allVars
    PROVE  ReadInv'
  <1>1. TypeOK /\ IndexSound /\ AnswersHold /\ acked \subseteq Requests
    BY DEF CallsInv, StoreInv, TypeOK
  <1>2. ASSUME [Next]_vars, UNCHANGED readVars PROVE ReadInv'
    <2>1. Grows
      BY <1>1, <1>2, ArchiveSimulation, ArchiveGrows
    <2>2. ASSUME NEW q \in Readers PROVE ReaderInv(q)'
      <3>1. ReaderInv(q) /\ known[q] \subseteq Requests
        BY DEF ReadInv, ReadTypes
      <3> QED
        BY <1>2, <2>1, <3>1, ReaderKept DEF readVars
    <2> QED
      BY <1>2, <2>2 DEF ReadInv, ReadTypes, readVars
  <1>3. ASSUME NEW q \in Readers, Read(q), UNCHANGED vars PROVE ReadInv'
    BY <1>1, <1>3, AskStep, OpenIndexStep, ReadListedStep, ScanLayerStep, AnswerRetrieveStep,
       WalkStep, AnswerDrilldownStep DEF Read
  <1>4. CASE UNCHANGED allVars
    BY <1>2, <1>4 DEF allVars
  <1> QED
    BY <1>2, <1>3, <1>4 DEF ReadingNext

\* Readers write nothing.
LEMMA ReadersOnlyRead == ReadingSpec => Spec
  <1>1. [ReadingNext]_allVars => [Next]_vars
    BY DEF ReadingNext, allVars
  <1>2. ReadInit => Init
    BY DEF ReadInit
  <1> QED
    BY <1>1, <1>2, PTL DEF ReadingSpec, Spec

LEMMA ReadingInvariant == ~Overlaps => (ReadingSpec => [](CallsInv /\ StoreInv /\ ReadInv))
  <1> SUFFICES ASSUME ~Overlaps PROVE ReadingSpec => [](CallsInv /\ StoreInv /\ ReadInv)
    OBVIOUS
  <1>1. CallsInv /\ StoreInv /\ ReadInv /\ [ReadingNext]_allVars => ReadInv'
    BY ReadStep
  <1>2. Spec => [](CallsInv /\ StoreInv)
    BY ArchiveInvariant
  <1> QED
    BY <1>1, <1>2, ReadInitInv, ReadersOnlyRead, PTL DEF ReadingSpec

\* Evidence stands on nothing.
Bottom == \A i \in Ids : file[0][i] # NoFile => file[0][i].refs = {}

LEMMA BottomStep ==
    ASSUME CallsInv, Bottom, [Next]_vars PROVE Bottom'
  <1>1. ASSUME NEW c \in Callers, PutRecord(c) PROVE Bottom'
    <2> DEFINE r == request[c]
    <2>1. r \in Requests /\ draft[c].refs = r.refs
      BY <1>1 DEF CallsInv, TypeOK, PutRecord, CallInv, FromRequest, Storing, Phases
    <2>2. r.layer = 0 => draft[c].refs = {}
      BY <2>1, RequestFields
    <2>3. /\ r.layer \in 0..3 /\ r.id \in Ids
          /\ file' = [file EXCEPT ![r.layer][r.id] = draft[c]]
      BY <1>1, <2>1, RequestFields DEF PutRecord
    <2> QED
      BY <2>2, <2>3 DEF Bottom, CallsInv, TypeOK
  <1>2. ASSUME NEW c \in Callers, Work(c), ~PutRecord(c) PROVE file' = file
    BY <1>2 DEF Work, CheckRaw, CheckExisting, CheckMeta, TestRaw, PutRaw, TestMeta, Derive,
       CheckRecord, ReadIndex, AppendIndex, AppendEvent, Answer, Refuse, store
  <1>3. ASSUME NEW c \in Callers, Crash(c) \/ \E r \in Requests : Start(c, r)
        PROVE  file' = file
    BY <1>3 DEF Crash, Start, store
  <1>4. CASE file' = file
    BY <1>4 DEF Bottom
  <1> QED
    BY <1>1, <1>2, <1>3, <1>4 DEF Next, vars, store

LEMMA EvidenceIsBottom == ~Overlaps => (Spec => []Bottom)
  <1> SUFFICES ASSUME ~Overlaps PROVE Spec => []Bottom
    OBVIOUS
  <1>1. Init => Bottom
    BY DEF Init, Bottom
  <1>2. CallsInv /\ StoreInv /\ Bottom /\ [Next]_vars => Bottom'
    BY BottomStep
  <1> QED
    BY <1>1, <1>2, ArchiveInvariant, PTL DEF Spec

-----------------------------------------------------------------------------
(* Theorems *)

\* No reader without the personal profile opens or is answered an internal record
\* (NothingInternalRead), at whatever moment of the writers it reads.
THEOREM NonPersonalReadsAreCleared == ~Overlaps => (ReadingSpec => []NothingInternalRead)
  <1>1. ReadInv => NothingInternalRead
    BY DEF ReadInv, ReaderInv, Told, At, NothingInternalRead
  <1> QED
    BY <1>1, ReadingInvariant, PTL

\* What a reader was answered is stored as it was answered, for good
\* (AnswersStayTrue).
THEOREM AnswersAreLasting == ~Overlaps => (ReadingSpec => []AnswersStayTrue)
  <1>1. ReadInv => AnswersStayTrue
    BY DEF ReadInv, ReaderInv, Told, At, AnswersStayTrue
  <1> QED
    BY <1>1, ReadingInvariant, PTL

\* Everything that was answered ok before a whole retrieve began is in its answer,
\* if it is asked for and may be seen (FindsWhatWasStored).
THEOREM RetrieveFindsStored == ~Overlaps => (ReadingSpec => []FindsWhatWasStored)
  <1>1. ReadInv => FindsWhatWasStored
    <2> SUFFICES ASSUME ReadInv, NEW q \in Readers, stage[q] = "answered", whole[q],
                        ask[q].operation = "retrieve", NEW r \in known[q],
                        ask[q].personal \/ Safe(file[r.layer][r.id].scope)
                 PROVE  \E h \in shown[q] : h.layer = r.layer /\ h.id = r.id
      BY DEF FindsWhatWasStored
    <2>1. At(r.layer, r.id) \in shown[q]
      BY DEF ReadInv, ReaderInv, Knows
    <2> QED
      BY <2>1 DEF At
  <1> QED
    BY <1>1, ReadingInvariant, PTL

\* A whole drilldown reaches the evidence of everything it answers
\* (EvidenceReached), unless an id on the way names records of two layers.
THEOREM DrilldownReachesEvidence == ~Overlaps => (ReadingSpec => []EvidenceReached)
  <1>1. TypeOK /\ Derivations /\ Bottom /\ ReadInv => EvidenceReached
    <2> SUFFICES ASSUME TypeOK, Derivations, Bottom, ReadInv, NEW q \in Readers,
                        stage[q] = "answered", whole[q], ask[q].operation = "drilldown",
                        NEW g \in shown[q], NEW j \in g.record.refs
                 PROVE  Ambiguous(j) \/ \E h \in shown[q] : h.layer = g.layer - 1 /\ h.id = j
      BY DEF EvidenceReached
    <2>1. PICK h \in shown[q] : h.id = j
      BY DEF ReadInv, ReaderInv, Follows
    <2>2. PICK l \in Layers, i \in Ids : g = At(l, i) /\ file[l][i] # NoFile
      BY DEF ReadInv, ReaderInv, Told
    <2>3. PICK k \in Layers, m \in Ids : h = At(k, m) /\ file[k][m] # NoFile
      BY DEF ReadInv, ReaderInv, Told
    <2>4. g.layer = l /\ g.record = file[l][i] /\ h.layer = k /\ m = j
      BY <2>1, <2>2, <2>3 DEF At
    <2>5. l # 0
      BY <2>2, <2>4 DEF Bottom
    <2>6. file[l - 1][j] # NoFile
      BY <2>2, <2>4, <2>5 DEF Derivations
    <2>7. CASE k = l - 1
      BY <2>1, <2>4, <2>7
    <2>8. CASE k # l - 1
      BY <2>3, <2>4, <2>5, <2>6, <2>8 DEF Ambiguous
    <2> QED
      BY <2>7, <2>8
  <1>2. CallsInv /\ StoreInv => TypeOK /\ Derivations
    BY DEF CallsInv, StoreInv
  <1> QED
    BY <1>1, <1>2, EvidenceIsBottom, ReadersOnlyRead, ReadingInvariant, PTL

\* A retrieve is never refused, and a drilldown only for its root, or for a record
\* of a safe scope that is not indexed yet (RefusalsAreDue).
THEOREM RefusalsAreExplained == ~Overlaps => (ReadingSpec => RefusalsAreDue)
  <1> DEFINE Due(q) ==
          stage'[q] = "refused" /\ stage[q] # "refused" =>
              /\ ask[q].operation = "drilldown"
              /\ \E i \in todo[q] :
                    \/ i = ask[q].root
                    \/ /\ ~ask[q].personal /\ EntriesOf(i) = {}
                       /\ \E l \in Layers : file[l][i] # NoFile /\ Safe(file[l][i].scope)
  <1>1. ASSUME TypeOK, Derivations, IndexSound, AnswersHold, Bottom, ReadInv,
               NEW p \in Readers, Read(p), UNCHANGED vars, NEW q \in Readers
        PROVE  Due(q)
    <2>1. CASE q # p
      BY <1>1, <2>1 DEF Read, Ask, OpenIndex, ReadListed, ScanLayer, AnswerRetrieve, Walk,
         AnswerDrilldown, Proceed, ReadFails, ReadInv, ReadTypes
    <2>2. ASSUME Walk(q) PROVE Due(q)
      <3> SUFFICES ASSUME stage'[q] = "refused", stage[q] # "refused" PROVE Due(q)
        OBVIOUS
      <3>1. /\ stage[q] = "walk" /\ ask[q].operation = "drilldown" /\ todo[q] \subseteq Ids
            /\ ReaderInv(q)
        BY <1>1, <2>2 DEF Walk, ReadInv, ReaderInv, Staged
      <3>2. PICK i \in todo[q] : LoadedFrom(i, ask[q].personal) = {}
        BY <1>1, <2>2, <3>1 DEF Walk, Proceed, ReadInv, ReadTypes
      <3>3. CASE i = ask[q].root
        BY <3>1, <3>2, <3>3
      <3>4. CASE i # ask[q].root
        <4>1. PICK g \in got[q] : i \in g.record.refs
          BY <3>1, <3>2, <3>4 DEF ReaderInv, Follows
        <4>2. PICK l \in Layers, k \in Ids :
                  /\ g = At(l, k) /\ file[l][k] # NoFile
                  /\ ask[q].personal \/ Safe(file[l][k].scope)
          BY <3>1 DEF ReaderInv, Told
        <4>3. i \in file[l][k].refs /\ i \in Ids /\ l # 0
          BY <1>1, <3>1, <4>1, <4>2 DEF At, Bottom
        <4>4. /\ l - 1 \in Layers /\ file[l - 1][i] # NoFile
              /\ file[l - 1][i].scope <= file[l][k].scope
          BY <1>1, <4>2, <4>3 DEF Derivations
        <4>5. file[l - 1][i] \in Record /\ file[l][k] \in Record
          BY <1>1, <4>2, <4>3, <4>4 DEF TypeOK
        <4>6. ~ask[q].personal
          <5> SUFFICES ASSUME ask[q].personal PROVE FALSE
            OBVIOUS
          <5>1. \A m \in Layers : file[m][i] # NoFile =>
                    \E n \in 0..(m - 1) : file[n][i] # NoFile
            BY <3>2 DEF LoadedFrom
          <5> QED
            BY <4>4, <5>1
        <4>7. EntriesOf(i) = {}
          <5> SUFFICES ASSUME NEW e \in index, e.id = i PROVE FALSE
            BY DEF EntriesOf
          <5>1. ~Corrupt /\ file[e.layer][i] # NoFile /\ file[e.layer][i].scope = e.scope
            BY <1>1 DEF IndexSound
          <5> QED
            BY <3>2, <4>6, <5>1 DEF LoadedFrom
        <4>8. Safe(file[l - 1][i].scope)
          BY <4>2, <4>4, <4>5, <4>6, RecordFields DEF Safe
        <4> QED
          BY <3>1, <3>2, <4>4, <4>6, <4>7, <4>8
      <3> QED
        BY <3>3, <3>4
    <2>3. ASSUME OpenIndex(q) \/ ReadListed(q) \/ ScanLayer(q) \/ AnswerRetrieve(q)
                 \/ AnswerDrilldown(q)
          PROVE  stage'[q] # "refused"
      BY <1>1, <2>3, OpenIndexStep, ReadListedStep, ScanLayerStep, AnswerRetrieveStep,
         AnswerDrilldownStep
    <2>4. ASSUME NEW a \in Asks, Ask(q, a) PROVE stage'[q] # "refused"
      BY <1>1, <2>4 DEF Ask, FirstStage, ReadInv, ReadTypes
    <2> QED
      BY <1>1, <2>1, <2>2, <2>3, <2>4 DEF Read
  <1>2. CallsInv /\ StoreInv /\ Bottom /\ ReadInv /\ [ReadingNext]_allVars
            => [\A q \in Readers : Due(q)]_allVars
    BY <1>1 DEF ReadingNext, readVars, CallsInv, StoreInv
  <1> QED
    BY <1>2, EvidenceIsBottom, ReadersOnlyRead, ReadingInvariant, PTL DEF ReadingSpec, RefusalsAreDue
=============================================================================
