---------------------------- MODULE MemoryProofs ----------------------------
(***************************************************************************)
(* Theorems about LayeredMemory, for every set of callers, ids and         *)
(* requests.  Those about what is stored assume ~Overlaps: calls that are  *)
(* under way together agree on what an id stands for.                      *)
(***************************************************************************)
EXTENDS LayeredMemory, TLAPS

USE DEF Layers, Scopes, Public, Portable, Internal, Inherit

-----------------------------------------------------------------------------
(* Types *)

\* The parts of a request.
LEMMA RequestFields ==
    ASSUME NEW r \in Requests
    PROVE  /\ r \in Request
           /\ r.layer \in 0..3 /\ r.id \in Ids /\ r.body \in Bodies
           /\ r.scope \in -1..2 /\ r.dated \in BOOLEAN
           /\ r.layer = 0 => r.scope # -1 /\ r.refs = {} /\ r.relates = {}
           /\ r.layer # 0 => r.refs # {}
           /\ r.refs \subseteq Ids /\ r.relates \subseteq Ids
  BY MemoryConstants DEF Request

\* A record put together from a request has the type of records.
LEMMA RecordOf ==
    ASSUME NEW r \in Requests, NEW s \in Scopes, NEW d \in BOOLEAN
    PROVE  [scope |-> s, body |-> r.body, refs |-> r.refs, relates |-> r.relates, dated |-> d]
               \in Record
  BY DEF Record

\* Two records with the same fields are the same.
LEMMA RecordFields ==
    ASSUME NEW f \in Record
    PROVE  /\ f.scope \in 0..2 /\ f.body \in Bodies /\ f.refs \subseteq Ids
           /\ f = [scope |-> f.scope, body |-> f.body, refs |-> f.refs, relates |-> f.relates,
                   dated |-> f.dated]
           /\ f # NoFile
  <1>1. PICK s \in Scopes, r \in Requests, d \in BOOLEAN :
            f = [scope |-> s, body |-> r.body, refs |-> r.refs, relates |-> r.relates,
                 dated |-> d]
    BY DEF Record
  <1>2. f # NoFile
    BY MemoryConstants
  <1> QED
    BY <1>1, <1>2, RequestFields

\* What a capture stores has the type of records.
LEMMA CaptureType ==
    ASSUME NEW r \in Requests, r.layer = 0
    PROVE  CaptureRecord(r) \in Record
  <1>1. r.scope \in Scopes /\ r.refs = {} /\ r.relates = {}
    BY RequestFields
  <1> QED
    BY <1>1, RecordOf DEF CaptureRecord

\* A reference that can be read is a record of the layer below.
LEMMA ReferenceLoaded ==
    ASSUME TypeOK, NEW r \in Requests, r.layer # 0, Derivable(r), NEW j \in r.refs
    PROVE  file[r.layer - 1][j] \in Record
  <1>1. r.layer \in 1..3 /\ j \in Ids
    BY RequestFields
  <1>2. LoadedFrom(j, r.personal) = {r.layer - 1}
    BY DEF Derivable
  <1>3. r.layer - 1 \in LoadedFrom(j, r.personal)
    BY <1>2
  <1>4. file[r.layer - 1][j] # NoFile
    BY <1>1, <1>3 DEF LoadedFrom
  <1> QED
    BY <1>1, <1>4 DEF TypeOK

\* The inherited scope is the scope of a reference, and the strictest.
LEMMA InheritedIsStrictest ==
    ASSUME TypeOK, NEW r \in Requests, r.layer # 0,
           \A j \in r.refs : file[r.layer - 1][j] \in Record
    PROVE  /\ InheritedScope(r) \in Scopes
           /\ \E j \in r.refs : file[r.layer - 1][j].scope = InheritedScope(r)
           /\ \A j \in r.refs : file[r.layer - 1][j].scope <= InheritedScope(r)
  <1> DEFINE Strictest(s) == /\ \E j \in r.refs : file[r.layer - 1][j].scope = s
                             /\ \A j \in r.refs : file[r.layer - 1][j].scope <= s
  <1>1. \A j \in r.refs : file[r.layer - 1][j].scope \in 0..2
    BY RecordFields
  <1>2. r.refs # {}
    BY RequestFields
  <1>3. \E s \in Scopes : Strictest(s)
    <2>1. CASE \E j \in r.refs : file[r.layer - 1][j].scope = 2
      BY <1>1, <2>1
    <2>2. CASE /\ ~ \E j \in r.refs : file[r.layer - 1][j].scope = 2
               /\ \E j \in r.refs : file[r.layer - 1][j].scope = 1
      <3>1. Strictest(1)
        BY <1>1, <2>2
      <3> QED
        BY <3>1
    <2>3. CASE \A j \in r.refs : file[r.layer - 1][j].scope \notin {1, 2}
      <3>1. Strictest(0)
        BY <1>1, <1>2, <2>3
      <3> QED
        BY <3>1
    <2> QED
      BY <2>1, <2>2, <2>3
  <1>4. InheritedScope(r) \in Scopes /\ Strictest(InheritedScope(r))
    BY <1>3 DEF InheritedScope
  <1> QED
    BY <1>4

\* A derived record has the type of records, and is based on its references.
LEMMA DerivedType ==
    ASSUME TypeOK, NEW r \in Requests, r.layer # 0, Derivable(r)
    PROVE  /\ DerivedScope(r) \in Scopes
           /\ \A j \in r.refs : /\ file[r.layer - 1][j] \in Record
                                /\ file[r.layer - 1][j].scope <= DerivedScope(r)
           /\ r.scope # -1 => DerivedScope(r) = r.scope
           /\ r.scope = -1 => \E j \in r.refs : file[r.layer - 1][j].scope = DerivedScope(r)
  <1>1. \A j \in r.refs : file[r.layer - 1][j] \in Record
    BY ReferenceLoaded
  <1>2. /\ InheritedScope(r) \in Scopes
        /\ \E j \in r.refs : file[r.layer - 1][j].scope = InheritedScope(r)
        /\ \A j \in r.refs : file[r.layer - 1][j].scope <= InheritedScope(r)
    BY <1>1, InheritedIsStrictest
  <1>3. CASE r.scope = -1
    BY <1>1, <1>2, <1>3 DEF DerivedScope
  <1>4. CASE r.scope # -1
    <2>1. r.scope \in Scopes /\ r.scope >= InheritedScope(r)
      BY <1>4, RequestFields DEF Derivable
    <2>2. \A j \in r.refs : file[r.layer - 1][j].scope \in 0..2
      BY <1>1, RecordFields
    <2> QED
      BY <1>1, <1>2, <1>4, <2>1, <2>2 DEF DerivedScope
  <1> QED
    BY <1>3, <1>4

-----------------------------------------------------------------------------
(* Type correctness *)

LEMMA MemoryTypeInit == Init => TypeOK
  BY MemoryConstants DEF Init, TypeOK, Phases, Storing, Capturing, Deriving

\* The end of a call keeps the types of the calls.
LEMMA EndCallTypes ==
    ASSUME TypeOK, NEW c \in Callers, EndCall(c),
           UNCHANGED store, acked' \subseteq Requests, crashes' \in Nat
    PROVE  TypeOK'
  BY DEF TypeOK, EndCall, store, Phases, Storing, Capturing, Deriving

\* A step to another phase keeps the types of the calls, if the call has what
\* the phase needs.
LEMMA GotoTypes ==
    ASSUME TypeOK, NEW c \in Callers, NEW phase \in Phases \ {"idle"},
           pc[c] # "idle", Goto(c, phase), phase \in Storing => pc[c] \in Storing,
           phase \in Capturing => pc[c] \in Capturing,
           phase \in Deriving => pc[c] \in Deriving,
           raw' \in [Ids -> Bodies \cup {NoFile}],
           file' \in [Layers -> [Ids -> Record \cup {NoFile}]],
           index' \subseteq Entry, journal' \subseteq [id : Ids, layer : Layers],
           UNCHANGED <<acked, crashes>>
    PROVE  TypeOK'
  BY DEF TypeOK, Goto, Storing, Capturing, Deriving

LEMMA StartTypes ==
    ASSUME TypeOK, NEW c \in Callers, NEW r \in Requests, Start(c, r)
    PROVE  TypeOK'
  <1>1. CASE r.layer = 0
    <2>1. CaptureRecord(r) \in Record
      BY <1>1, CaptureType
    <2> QED
      BY <1>1, <2>1 DEF TypeOK, Start, store, Phases, Storing, Capturing, Deriving
  <1>2. CASE r.layer # 0
    BY <1>2 DEF TypeOK, Start, store, Phases, Storing, Capturing, Deriving
  <1> QED
    BY <1>1, <1>2

\* What a call under way has.
LEMMA CallHas ==
    ASSUME TypeOK, NEW c \in Callers, pc[c] # "idle"
    PROVE  /\ request[c] \in Requests /\ request[c].layer \in Layers /\ request[c].id \in Ids
           /\ request[c].body \in Bodies
           /\ pc[c] \in Storing => draft[c] \in Record
           /\ pc[c] \in Storing => EntryFor(c) \in Entry
           /\ Stored(c) \in Record \cup {NoFile}
  <1>1. request[c] \in Requests /\ (pc[c] \in Storing => draft[c] \in Record)
    BY DEF TypeOK
  <1>2. request[c].layer \in Layers /\ request[c].id \in Ids /\ request[c].body \in Bodies
    BY <1>1, RequestFields
  <1>3. pc[c] \in Storing => EntryFor(c) \in Entry
    BY <1>1, <1>2, RecordFields DEF EntryFor, Entry
  <1>4. Stored(c) \in Record \cup {NoFile}
    BY <1>2 DEF Stored, TypeOK
  <1> QED
    BY <1>1, <1>2, <1>3, <1>4

LEMMA DeriveTypes ==
    ASSUME TypeOK, NEW c \in Callers, pc[c] = "derive", Derivable(request[c]),
           request[c].layer # 0,
           draft' = [draft EXCEPT ![c] =
                [scope |-> DerivedScope(request[c]), body |-> request[c].body,
                 refs |-> request[c].refs, relates |-> request[c].relates,
                 dated |-> request[c].dated]],
           pc' = [pc EXCEPT ![c] = "check_record"],
           UNCHANGED <<store, request, mutated, acked, crashes>>
    PROVE  TypeOK'
  <1>1. request[c] \in Requests
    BY CallHas
  <1>2. DerivedScope(request[c]) \in Scopes
    BY <1>1, DerivedType
  <1>3. [scope |-> DerivedScope(request[c]), body |-> request[c].body,
         refs |-> request[c].refs, relates |-> request[c].relates,
         dated |-> request[c].dated] \in Record
    BY <1>1, <1>2, RecordOf, RequestFields
  <1> QED
    BY <1>3 DEF TypeOK, store, Phases, Storing, Capturing, Deriving

LEMMA WorkTypes ==
    ASSUME TypeOK, NEW c \in Callers, Work(c)
    PROVE  TypeOK'
  <1> USE DEF Phases, Storing, Capturing, Deriving, store
  <1>0. pc[c] # "idle" /\ crashes \in Nat /\ acked \subseteq Requests
    BY DEF TypeOK, Work, CheckRaw, CheckExisting, CheckMeta, TestRaw, PutRaw, TestMeta,
           Derive, CheckRecord, PutRecord, ReadIndex, AppendIndex, AppendEvent, Answer
  <1>1. ASSUME Refuse(c) PROVE TypeOK'
    BY <1>0, <1>1, EndCallTypes DEF Refuse
  <1>2. ASSUME NEW phase \in Phases \ {"idle"}, Goto(c, phase), pc[c] \in Storing,
               phase \in Capturing => pc[c] \in Capturing,
               phase \in Deriving => pc[c] \in Deriving,
               UNCHANGED <<store, acked, crashes>>
        PROVE  TypeOK'
    <2>1. /\ raw' \in [Ids -> Bodies \cup {NoFile}]
          /\ file' \in [Layers -> [Ids -> Record \cup {NoFile}]]
          /\ index' \subseteq Entry /\ journal' \subseteq [id : Ids, layer : Layers]
      BY <1>2 DEF TypeOK
    <2> QED
      BY <1>0, <1>2, <2>1, GotoTypes
  <1>3. CASE CheckRaw(c)
    BY <1>1, <1>2, <1>3 DEF CheckRaw
  <1>4. CASE CheckExisting(c)
    BY <1>1, <1>2, <1>4 DEF CheckExisting
  <1>5. CASE CheckMeta(c)
    BY <1>1, <1>2, <1>5 DEF CheckMeta
  <1>6. CASE TestRaw(c)
    BY <1>2, <1>6 DEF TestRaw
  <1>7. CASE PutRaw(c)
    BY <1>0, <1>7, CallHas DEF PutRaw, TypeOK
  <1>8. CASE TestMeta(c)
    BY <1>2, <1>8 DEF TestMeta
  <1>9. CASE Derive(c)
    <2>1. request[c].layer # 0
      BY <1>9 DEF Derive, TypeOK
    <2> QED
      BY <1>1, <1>9, <2>1, DeriveTypes DEF Derive
  <1>10. CASE CheckRecord(c)
    BY <1>1, <1>2, <1>10 DEF CheckRecord
  <1>11. CASE PutRecord(c)
    <2>1. file' \in [Layers -> [Ids -> Record \cup {NoFile}]]
      BY <1>0, <1>11, CallHas DEF PutRecord, TypeOK
    <2> QED
      BY <1>11, <2>1 DEF PutRecord, TypeOK
  <1>12. CASE ReadIndex(c)
    BY <1>1, <1>2, <1>12 DEF ReadIndex, AfterIndex
  <1>13. CASE AppendIndex(c)
    <2>1. index' \subseteq Entry
      BY <1>0, <1>13, CallHas DEF AppendIndex, TypeOK
    <2>2. /\ AfterIndex(c) \in Phases \ (Capturing \cup Deriving \cup {"idle"})
          /\ pc[c] \in Storing
      BY <1>13 DEF AfterIndex, AppendIndex
    <2>3. Goto(c, AfterIndex(c)) /\ UNCHANGED <<raw, file, journal, acked, crashes>>
      BY <1>13 DEF AppendIndex
    <2> HIDE DEF Phases, Storing, Capturing, Deriving
    <2> QED
      BY <1>0, <2>1, <2>2, <2>3, GotoTypes DEF TypeOK
  <1>14. CASE AppendEvent(c)
    <2>1. [id |-> request[c].id, layer |-> request[c].layer] \in [id : Ids, layer : Layers]
      BY <1>0, CallHas
    <2>2. journal' \subseteq [id : Ids, layer : Layers]
      BY <1>14, <2>1 DEF AppendEvent, TypeOK
    <2>3. Goto(c, "answer") /\ UNCHANGED <<raw, file, index, acked, crashes>> /\ pc[c] \in Storing
      BY <1>14 DEF AppendEvent
    <2>4. "answer" \in Phases \ (Capturing \cup Deriving \cup {"idle"})
      OBVIOUS
    <2> HIDE DEF Phases, Storing, Capturing, Deriving
    <2> QED
      BY <1>0, <2>2, <2>3, <2>4, GotoTypes DEF TypeOK
  <1>15. CASE Answer(c)
    <2>1. acked' \subseteq Requests
      BY <1>0, <1>15, CallHas DEF Answer
    <2> QED
      BY <1>0, <1>15, <2>1, EndCallTypes DEF Answer
  <1> QED
    BY <1>3, <1>4, <1>5, <1>6, <1>7, <1>8, <1>9, <1>10, <1>11, <1>12, <1>13, <1>14, <1>15
       DEF Work

LEMMA MemoryTypeStep == TypeOK /\ [Next]_vars => TypeOK'
  <1> SUFFICES ASSUME TypeOK, [Next]_vars PROVE TypeOK'
    OBVIOUS
  <1>1. ASSUME NEW c \in Callers, Work(c) PROVE TypeOK'
    BY <1>1, WorkTypes
  <1>2. ASSUME NEW c \in Callers, Crash(c) PROVE TypeOK'
    <2>1. crashes' \in Nat /\ acked' \subseteq Requests
      BY <1>2 DEF Crash, TypeOK
    <2> QED
      BY <1>2, <2>1, EndCallTypes DEF Crash
  <1>3. ASSUME NEW c \in Callers, NEW r \in Requests, Start(c, r) PROVE TypeOK'
    BY <1>3, StartTypes
  <1>4. CASE UNCHANGED vars
    BY <1>4 DEF TypeOK, vars, store, callVars
  <1> QED
    BY <1>1, <1>2, <1>3, <1>4 DEF Next

\* Every variable has its type in every reachable state, and a call under way
\* has what its phase needs (TypeOK).
THEOREM MemoryTypeCorrect == Spec => []TypeOK
  BY MemoryTypeInit, MemoryTypeStep, PTL DEF Spec
=============================================================================
