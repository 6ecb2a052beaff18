--------------------------- MODULE ArchiveProofs ---------------------------
(***************************************************************************)
(* What the layered memory stores, proved for every set of callers and     *)
(* requests and any number of crashes, under ~Overlaps: of two calls that  *)
(* are under way together on one id, one repeats the other.                *)
(*                                                                         *)
(* The argument: between the test for a file and its writing only a        *)
(* repetition of the same call can write that file, and what it writes is  *)
(* the same, because a record is determined by its request and by parents  *)
(* that never change.                                                      *)
(***************************************************************************)
EXTENDS MemoryProofs

USE DEF Layers, Scopes, Public, Portable, Internal, Inherit

-----------------------------------------------------------------------------
(* The inductive invariant *)

\* Calls under way on one id are repetitions of one call.
Agree ==
    \A c, d \in Callers :
        pc[c] # "idle" /\ pc[d] # "idle" /\ request[c].id = request[d].id
            => request[c] = request[d]

\* A record f of layer l could be derived from what is stored.
Based(l, f) == \A j \in f.refs : file[l - 1][j] # NoFile /\ file[l - 1][j].scope <= f.scope

\* The draft of c is the one record its request and the stored parents allow.
FromRequest(c) ==
    LET r == request[c]
        f == draft[c]
    IN /\ f.body = r.body /\ f.refs = r.refs /\ f.relates = r.relates
       /\ f.dated = (IF r.layer = 0 THEN TRUE ELSE r.dated)
       /\ r.scope # Inherit => f.scope = r.scope
       /\ r.scope = Inherit => \E j \in r.refs : file[r.layer - 1][j].scope = f.scope
       /\ r.layer # 0 => Based(r.layer, f)

\* What the call of c has found out, or written, holds as long as it needs it.
RawSeen(c) ==
    /\ pc[c] \in {"check_meta", "test_raw", "put_raw"} =>
          raw[request[c].id] \in {NoFile, request[c].body}
    /\ /\ pc[c] \in {"check_existing", "test_meta", "put_record", "read_index",
                     "append_index", "append_event", "answer"}
       /\ request[c].layer = 0
       => raw[request[c].id] = request[c].body

FileSeen(c) ==
    /\ pc[c] \in {"test_raw", "put_raw", "test_meta", "put_record"} =>
          Stored(c) \in {NoFile, draft[c]}
    /\ pc[c] \in {"read_index", "append_index", "append_event", "answer"} =>
          Stored(c) = draft[c]

IndexSeen(c) ==
    /\ pc[c] = "append_index" =>
          Safe(draft[c].scope) /\ EntriesOf(request[c].id) \subseteq {EntryFor(c)}
    /\ pc[c] \in {"append_event", "answer"} /\ Safe(draft[c].scope) =>
          EntryFor(c) \in index

CallInv(c) ==
    /\ pc[c] \in Storing => FromRequest(c)
    /\ RawSeen(c) /\ FileSeen(c) /\ IndexSeen(c)

CallsInv == TypeOK /\ Agree /\ \A c \in Callers : CallInv(c)

StoreInv == EvidenceIntact /\ Derivations /\ IndexSound /\ AnswersHold

\* Nothing that is stored changes.
Grows ==
    /\ \A i \in Ids : raw[i] # NoFile => raw'[i] = raw[i]
    /\ \A l \in Layers, i \in Ids : file[l][i] # NoFile => file'[l][i] = file[l][i]
    /\ index \subseteq index'

-----------------------------------------------------------------------------
(* Lemmas *)

LEMMA CallsInit == Init => CallsInv /\ StoreInv
  <1> SUFFICES ASSUME Init PROVE CallsInv /\ StoreInv
    OBVIOUS
  <1>1. TypeOK
    BY MemoryTypeInit
  <1>2. Agree /\ \A c \in Callers : CallInv(c)
    BY DEF Init, Agree, CallInv, Storing, RawSeen, FileSeen, IndexSeen
  <1>3. StoreInv
    BY DEF Init, StoreInv, EvidenceIntact, Derivations, IndexSound, AnswersHold, Corrupt
  <1> QED
    BY <1>1, <1>2, <1>3 DEF CallsInv

\* Two repetitions of a call have the same draft.
LEMMA SameDraft ==
    ASSUME TypeOK, NEW c \in Callers, NEW d \in Callers,
           pc[c] \in Storing, pc[d] \in Storing,
           FromRequest(c), FromRequest(d), request[c] = request[d]
    PROVE  draft[c] = draft[d]
  <1> DEFINE r == request[c]
  <1>1. pc[c] # "idle" /\ pc[d] # "idle"
    BY DEF Storing
  <1>2. r \in Requests /\ draft[c] \in Record /\ draft[d] \in Record
    BY <1>1, CallHas
  <1>3. draft[c].scope = draft[d].scope
    <2>1. CASE r.scope # -1
      BY <2>1 DEF FromRequest
    <2>2. CASE r.scope = -1
      <3>1. r.layer # 0 /\ r.layer \in 0..3 /\ r.refs \subseteq Ids
        BY <1>2, <2>2, RequestFields
      <3>2. PICK i \in r.refs : file[r.layer - 1][i].scope = draft[c].scope
        BY <2>2 DEF FromRequest
      <3>3. PICK j \in r.refs : file[r.layer - 1][j].scope = draft[d].scope
        BY <2>2 DEF FromRequest
      <3>4. /\ file[r.layer - 1][j].scope <= draft[c].scope
            /\ file[r.layer - 1][i].scope <= draft[d].scope
        BY <3>1, <3>2, <3>3 DEF FromRequest, Based
      <3>5. draft[c].scope \in 0..2 /\ draft[d].scope \in 0..2
        BY <1>2, RecordFields
      <3> QED
        BY <3>2, <3>3, <3>4, <3>5
    <2> QED
      BY <2>1, <2>2
  <1>4. /\ draft[c].body = draft[d].body
        /\ draft[c].refs = draft[d].refs /\ draft[c].relates = draft[d].relates
        /\ draft[c].dated = draft[d].dated
    BY DEF FromRequest
  <1> QED
    BY <1>2, <1>3, <1>4, RecordFields

\* Parents do not change, so a draft stays what its request and parents allow.
LEMMA FromRequestKept ==
    ASSUME TypeOK, Grows, NEW c \in Callers, pc[c] \in Storing, FromRequest(c),
           request'[c] = request[c], draft'[c] = draft[c]
    PROVE  FromRequest(c)'
  <1> DEFINE r == request[c]
  <1>1. r \in Requests /\ draft[c] \in Record
    BY CallHas DEF Storing
  <1>2. CASE r.layer = 0
    BY <1>1, <1>2, RequestFields DEF FromRequest
  <1>3. CASE r.layer # 0
    <2>1. r.layer - 1 \in Layers /\ r.refs \subseteq Ids /\ draft[c].refs = r.refs
      BY <1>1, <1>3, RequestFields DEF FromRequest
    <2>2. \A j \in r.refs : file'[r.layer - 1][j] = file[r.layer - 1][j]
      BY <1>3, <2>1 DEF Grows, FromRequest, Based
    <2> QED
      BY <1>3, <2>1, <2>2 DEF FromRequest, Based
  <1> QED
    BY <1>2, <1>3

\* A call that does not move keeps what it has seen, if what is written under
\* its id is what it would write itself.
LEMMA OtherKept ==
    ASSUME TypeOK, Grows, NEW d \in Callers, CallInv(d),
           pc'[d] = pc[d], request'[d] = request[d], draft'[d] = draft[d],
           pc[d] # "idle" => raw'[request[d].id] \in {raw[request[d].id], request[d].body},
           pc[d] \in Storing => Stored(d)' \in {Stored(d), draft[d]},
           pc[d] \in Storing =>
               \A e \in index' \ index : e.id = request[d].id => e = EntryFor(d)
    PROVE  CallInv(d)'
  <1>1. CASE pc[d] \notin Storing
    BY <1>1 DEF CallInv, RawSeen, FileSeen, IndexSeen, Storing, Phases
  <1>2. CASE pc[d] \in Storing
    <2>1. /\ request[d] \in Requests /\ request[d].id \in Ids /\ request[d].layer \in Layers
          /\ request[d].body # NoFile /\ pc[d] # "idle"
      BY <1>2, CallHas, MemoryConstants DEF Storing
    <2>2. FromRequest(d)'
      BY <1>2, FromRequestKept DEF CallInv
    <2>3. RawSeen(d)'
      BY <2>1 DEF CallInv, RawSeen, Grows
    <2>4. FileSeen(d)'
      <3>1. Stored(d) # NoFile => Stored(d)' = Stored(d)
        BY <2>1 DEF Stored, Grows
      <3>2. draft[d] # NoFile
        BY <1>2, CallHas, RecordFields, <2>1
      <3>3. ASSUME pc[d] \in {"test_raw", "put_raw", "test_meta", "put_record"}
            PROVE  Stored(d)' \in {NoFile, draft[d]}
        BY <1>2, <3>3 DEF CallInv, FileSeen
      <3>4. ASSUME pc[d] \in {"read_index", "append_index", "append_event", "answer"}
            PROVE  Stored(d)' = draft[d]
        BY <3>1, <3>2, <3>4 DEF CallInv, FileSeen
      <3> QED
        BY <3>3, <3>4 DEF FileSeen
    <2>5. IndexSeen(d)'
      <3>1. EntryFor(d)' = EntryFor(d)
        BY DEF EntryFor
      <3>2. ASSUME EntriesOf(request[d].id) \subseteq {EntryFor(d)}
            PROVE  EntriesOf(request[d].id)' \subseteq {EntryFor(d)}
        BY <1>2, <3>2 DEF EntriesOf
      <3>3. index \subseteq index'
        BY DEF Grows
      <3> QED
        BY <3>1, <3>2, <3>3 DEF CallInv, IndexSeen
    <2> QED
      BY <2>2, <2>3, <2>4, <2>5 DEF CallInv
  <1> QED
    BY <1>1, <1>2

\* The calls on the id of c, when c is under way: repetitions of it.
LEMMA Repetitions ==
    ASSUME CallsInv, NEW c \in Callers, pc[c] # "idle",
           NEW d \in Callers, pc[d] # "idle", request[d].id = request[c].id
    PROVE  /\ request[d] = request[c]
           /\ pc[c] \in Storing /\ pc[d] \in Storing =>
                 /\ draft[d] = draft[c] /\ EntryFor(d) = EntryFor(c) /\ Stored(d) = Stored(c)
  <1>1. request[d] = request[c]
    BY DEF CallsInv, Agree
  <1>2. ASSUME pc[c] \in Storing, pc[d] \in Storing
        PROVE  draft[d] = draft[c]
    BY <1>1, <1>2, SameDraft DEF CallsInv, CallInv
  <1> QED
    BY <1>1, <1>2 DEF EntryFor, Stored

\* A step of one call that writes nothing leaves the other calls as they are.
LEMMA QuietForOthers ==
    ASSUME CallsInv, NEW c \in Callers, NEW d \in Callers \ {c},
           UNCHANGED store,
           pc'[d] = pc[d], request'[d] = request[d], draft'[d] = draft[d]
    PROVE  CallInv(d)'
  <1>1. Grows
    BY DEF Grows, store
  <1>2. Stored(d)' = Stored(d)
    BY DEF Stored, store
  <1> QED
    BY <1>1, <1>2, OtherKept DEF CallsInv, store

\* A step after which the call of c is over, or still the same, keeps the
\* agreement.
LEMMA AgreeKept ==
    ASSUME TypeOK, Agree, NEW c \in Callers,
           \A d \in Callers \ {c} : pc'[d] = pc[d] /\ request'[d] = request[d],
           pc'[c] = "idle" \/ (pc[c] # "idle" /\ request'[c] = request[c])
    PROVE  Agree'
  BY DEF Agree

\* What was answered keeps standing when nothing that is stored changes.
LEMMA AnswersKept ==
    ASSUME TypeOK, Grows, AnswersHold, acked' = acked
    PROVE  AnswersHold'
  <1> SUFFICES ASSUME NEW r \in acked
               PROVE  /\ file'[r.layer][r.id] = file[r.layer][r.id]
                      /\ r.layer = 0 => raw'[r.id] = raw[r.id]
                      /\ index \subseteq index'
    BY DEF AnswersHold
  <1>1. r \in Requests
    BY DEF TypeOK
  <1>2. r.layer \in Layers /\ r.id \in Ids /\ r.body # NoFile
    BY <1>1, RequestFields, MemoryConstants
  <1> QED
    BY <1>2 DEF Grows, AnswersHold

\* The store stays sound when it does not change.
LEMMA StoreKept ==
    ASSUME TypeOK, StoreInv, UNCHANGED <<store, acked>>
    PROVE  StoreInv'
  <1>1. Grows
    BY DEF Grows, store
  <1>2. AnswersHold'
    BY <1>1, AnswersKept DEF StoreInv
  <1> QED
    BY <1>2 DEF StoreInv, EvidenceIntact, Derivations, IndexSound, Corrupt, store

-----------------------------------------------------------------------------
(* Steps that write nothing *)

\* The end of a call, refused, answered or killed.
LEMMA EndStep ==
    ASSUME CallsInv, TypeOK', NEW c \in Callers, EndCall(c), UNCHANGED store
    PROVE  CallsInv'
  <1>1. /\ pc'[c] = "idle"
        /\ \A d \in Callers \ {c} :
              pc'[d] = pc[d] /\ request'[d] = request[d] /\ draft'[d] = draft[d]
    BY DEF EndCall, CallsInv, TypeOK
  <1>2. Agree'
    BY <1>1, AgreeKept DEF CallsInv
  <1>3. CallInv(c)'
    BY <1>1 DEF CallInv, RawSeen, FileSeen, IndexSeen, Storing
  <1>4. \A d \in Callers \ {c} : CallInv(d)'
    BY <1>1, QuietForOthers
  <1> QED
    BY <1>2, <1>3, <1>4 DEF CallsInv

\* The next phase of a call that writes nothing: the call must have seen what
\* the phase relies on.
LEMMA GotoStep ==
    ASSUME CallsInv, TypeOK', NEW c \in Callers, NEW phase \in Phases \ {"idle"},
           pc[c] \in Storing, phase \in Storing, Goto(c, phase), UNCHANGED store,
           RawSeen(c)', FileSeen(c)', IndexSeen(c)'
    PROVE  CallsInv'
  <1>1. /\ pc[c] # "idle" /\ pc'[c] = phase /\ request'[c] = request[c] /\ draft'[c] = draft[c]
        /\ \A d \in Callers \ {c} :
              pc'[d] = pc[d] /\ request'[d] = request[d] /\ draft'[d] = draft[d]
    BY DEF Goto, CallsInv, TypeOK, Storing
  <1>2. Agree'
    BY <1>1, AgreeKept DEF CallsInv
  <1>3. CallInv(c)'
    <2>1. Grows
      BY DEF Grows, store
    <2>2. FromRequest(c)'
      BY <1>1, <2>1, FromRequestKept DEF CallsInv, CallInv
    <2> QED
      BY <2>2 DEF CallInv
  <1>4. \A d \in Callers \ {c} : CallInv(d)'
    BY <1>1, QuietForOthers
  <1> QED
    BY <1>2, <1>3, <1>4 DEF CallsInv

LEMMA StartStep ==
    ASSUME ~Overlaps, CallsInv, TypeOK', NEW c \in Callers, NEW r \in Requests, Start(c, r)
    PROVE  CallsInv'
  <1>1. /\ pc[c] = "idle" /\ request'[c] = r
        /\ pc'[c] = (IF r.layer = 0 THEN "check_raw" ELSE "derive")
        /\ draft'[c] = (IF r.layer = 0 THEN CaptureRecord(r) ELSE NoRecord)
        /\ \A d \in Callers \ {c} :
              pc'[d] = pc[d] /\ request'[d] = request[d] /\ draft'[d] = draft[d]
        /\ UNCHANGED store
    BY DEF Start, CallsInv, TypeOK
  <1>2. Agree'
    <2>1. \A d \in Callers : pc[d] # "idle" => request[d].id # r.id \/ request[d] = r
      BY DEF Start, MayStart
    <2> QED
      BY <1>1, <2>1 DEF CallsInv, Agree
  <1>3. CallInv(c)'
    <2>1. CASE r.layer = 0
      <3>1. r.scope # -1 /\ r.refs = {} /\ r.relates = {}
        BY <2>1, RequestFields
      <3>2. FromRequest(c)'
        BY <1>1, <2>1, <3>1 DEF FromRequest, CaptureRecord
      <3> QED
        BY <1>1, <2>1, <3>2 DEF CallInv, RawSeen, FileSeen, IndexSeen
    <2>2. CASE r.layer # 0
      BY <1>1, <2>2 DEF CallInv, RawSeen, FileSeen, IndexSeen, Storing
    <2> QED
      BY <2>1, <2>2
  <1>4. \A d \in Callers \ {c} : CallInv(d)'
    BY <1>1, QuietForOthers
  <1> QED
    BY <1>2, <1>3, <1>4 DEF CallsInv

\* The checks a capture makes before it writes.
LEMMA CheckStep ==
    ASSUME CallsInv, TypeOK', NEW c \in Callers,
           \/ CheckRaw(c) \/ CheckExisting(c) \/ CheckMeta(c) \/ TestRaw(c) \/ TestMeta(c)
           \/ CheckRecord(c)
    PROVE  CallsInv' /\ UNCHANGED <<store, acked>>
  <1> USE DEF Phases, Storing
  <1>1. pc[c] \in Storing /\ request[c].body # NoFile /\ draft[c] # NoFile
    <2>1. pc[c] \in Storing
      BY DEF CheckRaw, CheckExisting, CheckMeta, TestRaw, TestMeta, CheckRecord
    <2>2. request[c] \in Requests /\ draft[c] \in Record
      BY <2>1, CallHas DEF CallsInv
    <2> QED
      BY <2>1, <2>2, RequestFields, RecordFields, MemoryConstants
  <1>2. RawSeen(c) /\ FileSeen(c) /\ TypeOK
    BY DEF CallsInv, CallInv
  <1>3. CASE Refuse(c)
    BY <1>3, EndStep DEF Refuse
  <1>4. ASSUME NEW phase \in Phases \ {"idle"}, phase \in Storing, Goto(c, phase),
               UNCHANGED <<store, acked>>
        PROVE  /\ pc'[c] = phase /\ request'[c] = request[c] /\ draft'[c] = draft[c]
               /\ raw' = raw /\ Stored(c)' = Stored(c) /\ index' = index
    BY <1>2, <1>4 DEF Goto, store, Stored, TypeOK
  <1>5. CASE CheckRaw(c) /\ ~Refuse(c)
    <2>1. PICK phase \in {"check_meta", "check_existing"} :
             /\ Goto(c, phase) /\ UNCHANGED <<store, acked>>
             /\ raw[request[c].id] = IF phase = "check_meta" THEN NoFile ELSE request[c].body
      BY <1>5 DEF CheckRaw
    <2>2. RawSeen(c)' /\ FileSeen(c)' /\ IndexSeen(c)'
      BY <1>4, <2>1 DEF RawSeen, FileSeen, IndexSeen
    <2> QED
      BY <1>1, <2>1, <2>2, GotoStep
  <1>6. CASE CheckExisting(c) /\ ~Refuse(c)
    <2>1. PICK phase \in {"check_meta", "read_index"} :
             /\ Goto(c, phase) /\ UNCHANGED <<store, acked>>
             /\ phase = "read_index" => Stored(c) = draft[c]
      BY <1>6 DEF CheckExisting
    <2>2. raw[request[c].id] = request[c].body
      BY <1>2, <1>6 DEF CheckExisting, RawSeen, TypeOK, Capturing
    <2>3. RawSeen(c)' /\ FileSeen(c)' /\ IndexSeen(c)'
      BY <1>4, <2>1, <2>2 DEF RawSeen, FileSeen, IndexSeen
    <2> QED
      BY <1>1, <2>1, <2>3, GotoStep
  <1>7. CASE CheckMeta(c) /\ ~Refuse(c)
    <2>1. /\ Goto(c, "test_raw") /\ UNCHANGED <<store, acked>>
          /\ Stored(c) \in {NoFile, draft[c]} /\ pc[c] = "check_meta"
      BY <1>7 DEF CheckMeta
    <2>2. RawSeen(c)' /\ FileSeen(c)' /\ IndexSeen(c)'
      BY <1>2, <1>4, <2>1 DEF RawSeen, FileSeen, IndexSeen
    <2> QED
      BY <1>1, <2>1, <2>2, GotoStep
  <1>8. CASE TestRaw(c)
    <2>1. PICK phase \in {"put_raw", "test_meta"} :
             /\ Goto(c, phase) /\ UNCHANGED <<store, acked>> /\ pc[c] = "test_raw"
             /\ phase = "test_meta" => raw[request[c].id] # NoFile
      BY <1>8 DEF TestRaw
    <2>2. RawSeen(c)' /\ FileSeen(c)' /\ IndexSeen(c)'
      BY <1>2, <1>4, <2>1 DEF RawSeen, FileSeen, IndexSeen
    <2> QED
      BY <1>1, <2>1, <2>2, GotoStep
  <1>9. CASE TestMeta(c)
    <2>1. PICK phase \in {"put_record", "read_index"} :
             /\ Goto(c, phase) /\ UNCHANGED <<store, acked>> /\ pc[c] = "test_meta"
             /\ phase = "read_index" => Stored(c) # NoFile
      BY <1>9 DEF TestMeta
    <2>2. RawSeen(c)' /\ FileSeen(c)' /\ IndexSeen(c)'
      BY <1>2, <1>4, <2>1 DEF RawSeen, FileSeen, IndexSeen
    <2> QED
      BY <1>1, <2>1, <2>2, GotoStep
  <1>10. CASE CheckRecord(c) /\ ~Refuse(c)
    <2>1. PICK phase \in {"put_record", "read_index"} :
             /\ Goto(c, phase) /\ UNCHANGED <<store, acked>> /\ pc[c] = "check_record"
             /\ Stored(c) = IF phase = "put_record" THEN NoFile ELSE draft[c]
      BY <1>10 DEF CheckRecord
    <2>2. request[c].layer # 0
      BY <1>2, <2>1 DEF TypeOK, Deriving
    <2>3. RawSeen(c)' /\ FileSeen(c)' /\ IndexSeen(c)'
      BY <1>4, <2>1, <2>2 DEF RawSeen, FileSeen, IndexSeen
    <2> QED
      BY <1>1, <2>1, <2>3, GotoStep
  <1> QED
    BY <1>3, <1>5, <1>6, <1>7, <1>8, <1>9, <1>10 DEF Refuse

LEMMA DeriveStep ==
    ASSUME CallsInv, TypeOK', NEW c \in Callers, Derive(c)
    PROVE  CallsInv' /\ UNCHANGED <<store, acked>>
  <1> DEFINE r == request[c]
  <1>1. CASE ~Derivable(r)
    BY <1>1, EndStep DEF Derive, Refuse
  <1>2. CASE Derivable(r)
    <2>1. /\ pc[c] = "derive" /\ r \in Requests /\ r.layer # 0 /\ UNCHANGED <<store, acked>>
      BY <1>2, CallHas DEF Derive, Refuse, CallsInv, TypeOK, Deriving
    <2>2. /\ pc'[c] = "check_record" /\ request'[c] = r
          /\ draft'[c] = [scope |-> DerivedScope(r), body |-> r.body,
                          refs |-> r.refs, relates |-> r.relates, dated |-> r.dated]
          /\ \A d \in Callers \ {c} :
                pc'[d] = pc[d] /\ request'[d] = request[d] /\ draft'[d] = draft[d]
      BY <1>2 DEF Derive, CallsInv, TypeOK
    <2>3. Agree'
      BY <2>1, <2>2, AgreeKept DEF CallsInv
    <2>4. \A d \in Callers \ {c} : CallInv(d)'
      BY <2>1, <2>2, QuietForOthers
    <2>5. /\ \A j \in r.refs : /\ file[r.layer - 1][j] \in Record
                               /\ file[r.layer - 1][j].scope <= DerivedScope(r)
          /\ r.scope # -1 => DerivedScope(r) = r.scope
          /\ r.scope = -1 => \E j \in r.refs : file[r.layer - 1][j].scope = DerivedScope(r)
      BY <1>2, <2>1, DerivedType DEF CallsInv
    <2>6. \A j \in r.refs : file[r.layer - 1][j] # NoFile
      BY <2>5, RecordFields
    <2>7. FromRequest(c)'
      BY <2>1, <2>2, <2>5, <2>6 DEF FromRequest, Based, store
    <2>8. CallInv(c)'
      BY <2>2, <2>7 DEF CallInv, RawSeen, FileSeen, IndexSeen
    <2> QED
      BY <2>1, <2>3, <2>4, <2>8 DEF CallsInv
  <1> QED
    BY <1>1, <1>2

\* A call reads in the index that its record is listed, or that its id is not.
LEMMA ReadIndexStep ==
    ASSUME CallsInv, TypeOK', NEW c \in Callers, ReadIndex(c)
    PROVE  CallsInv' /\ UNCHANGED <<store, acked>>
  <1>1. CASE Refuse(c)
    BY <1>1, EndStep DEF Refuse
  <1>2. CASE ~Refuse(c)
    <2>1. PICK phase \in {"append_index", "append_event", "answer"} :
             /\ Goto(c, phase) /\ UNCHANGED <<store, acked>> /\ pc[c] = "read_index"
             /\ phase = "append_index" =>
                   Safe(draft[c].scope) /\ EntriesOf(request[c].id) = {}
             /\ phase # "append_index" /\ Safe(draft[c].scope) =>
                   EntriesOf(request[c].id) = {EntryFor(c)}
      BY <1>2 DEF ReadIndex, AfterIndex
    <2>2. /\ pc'[c] = phase /\ request' = request /\ draft' = draft
          /\ raw' = raw /\ file' = file /\ index' = index
      BY <2>1 DEF Goto, CallsInv, TypeOK, store
    <2>3. RawSeen(c)' /\ FileSeen(c)'
      BY <2>1, <2>2 DEF CallsInv, CallInv, RawSeen, FileSeen, Stored
    <2>4. IndexSeen(c)'
      BY <2>1, <2>2 DEF IndexSeen, EntriesOf, EntryFor
    <2>5. phase \in Phases \ {"idle"} /\ phase \in Storing /\ pc[c] \in Storing
      BY <2>1 DEF Phases, Storing
    <2> QED
      BY <2>1, <2>3, <2>4, <2>5, GotoStep
  <1> QED
    BY <1>1, <1>2

-----------------------------------------------------------------------------
(* Steps that write *)

\* A step of c within its call, after which what is stored has grown under its
\* id by what a repetition of the call would write too.
LEMMA WriteStep ==
    ASSUME CallsInv, TypeOK', Grows, NEW c \in Callers,
           pc[c] \in Storing, pc'[c] \in Storing, pc' = [pc EXCEPT ![c] = pc'[c]],
           UNCHANGED <<request, draft>>,
           \A i \in Ids : raw'[i] # raw[i] => i = request[c].id /\ raw'[i] = request[c].body,
           \A l \in Layers, i \in Ids : file'[l][i] # file[l][i] =>
               l = request[c].layer /\ i = request[c].id /\ file'[l][i] = draft[c],
           \A e \in index' \ index : e = EntryFor(c),
           RawSeen(c)', FileSeen(c)', IndexSeen(c)'
    PROVE  CallsInv'
  <1>1. pc[c] # "idle" /\ TypeOK
    BY DEF Storing, CallsInv
  <1>2. \A d \in Callers \ {c} : pc'[d] = pc[d]
    BY <1>1 DEF TypeOK
  <1>3. Agree'
    BY <1>1, <1>2, AgreeKept DEF CallsInv
  <1>4. CallInv(c)'
    BY <1>1, FromRequestKept DEF CallsInv, CallInv
  <1>5. ASSUME NEW d \in Callers \ {c} PROVE CallInv(d)'
    <2>1. pc[d] # "idle" => request[d].id \in Ids /\ request[d].layer \in Layers
      BY <1>1, CallHas
    <2>2. pc[d] # "idle" => raw'[request[d].id] \in {raw[request[d].id], request[d].body}
      <3>1. ASSUME pc[d] # "idle", raw'[request[d].id] # raw[request[d].id]
            PROVE  raw'[request[d].id] = request[d].body
        BY <1>1, <2>1, <3>1, Repetitions
      <3> QED
        BY <3>1
    <2>3. pc[d] \in Storing => Stored(d)' \in {Stored(d), draft[d]}
      <3>1. ASSUME pc[d] \in Storing, Stored(d)' # Stored(d)
            PROVE  Stored(d)' = draft[d]
        <4>1. pc[d] # "idle"
          BY <3>1 DEF Storing
        <4>2. request[c].id = request[d].id /\ Stored(d)' = draft[c]
          BY <2>1, <3>1, <4>1 DEF Stored
        <4> QED
          BY <1>1, <3>1, <4>1, <4>2, Repetitions
      <3> QED
        BY <3>1
    <2>4. pc[d] \in Storing =>
             \A e \in index' \ index : e.id = request[d].id => e = EntryFor(d)
      <3>1. ASSUME pc[d] \in Storing, NEW e \in index' \ index, e.id = request[d].id
            PROVE  e = EntryFor(d)
        <4>1. pc[d] # "idle"
          BY <3>1 DEF Storing
        <4>2. e = EntryFor(c) /\ request[d].id = request[c].id
          BY <3>1 DEF EntryFor
        <4> QED
          BY <1>1, <3>1, <4>1, <4>2, Repetitions
      <3> QED
        BY <3>1
    <2> QED
      BY <1>1, <1>2, <2>2, <2>3, <2>4, OtherKept DEF CallsInv
  <1> QED
    BY <1>3, <1>4, <1>5 DEF CallsInv

\* Evidence stays intact when what is stored only grows and a new description
\* tells the digest of the evidence.
LEMMA EvidenceKept ==
    ASSUME TypeOK, Grows, EvidenceIntact,
           \A i \in Ids : file'[0][i] # file[0][i] => raw'[i] = file'[0][i].body
    PROVE  EvidenceIntact'
  <1> SUFFICES ASSUME NEW i \in Ids, file'[0][i] # NoFile
               PROVE  raw'[i] = file'[0][i].body
    BY DEF EvidenceIntact
  <1>1. CASE file'[0][i] = file[0][i]
    <2>1. file[0][i] \in Record
      BY <1>1 DEF TypeOK
    <2>2. raw[i] = file[0][i].body /\ raw[i] # NoFile
      BY <1>1, <2>1, RecordFields, MemoryConstants DEF EvidenceIntact
    <2> QED
      BY <1>1, <2>2 DEF Grows
  <1> QED
    BY <1>1

\* Derivations hold when a new record is based on what was there.
LEMMA DerivationsKept ==
    ASSUME TypeOK, Grows, Derivations,
           \A l \in 1..3, i \in Ids : file'[l][i] # file[l][i] =>
               file'[l][i].refs \subseteq Ids /\ Based(l, file'[l][i])
    PROVE  Derivations'
  <1> SUFFICES ASSUME NEW l \in 1..3, NEW i \in Ids, file'[l][i] # NoFile,
                      NEW j \in file'[l][i].refs
               PROVE  file'[l - 1][j] # NoFile /\ file'[l - 1][j].scope <= file'[l][i].scope
    BY DEF Derivations
  <1>1. /\ file[l - 1][j] # NoFile /\ file[l - 1][j].scope <= file'[l][i].scope
        /\ j \in Ids
    <2>1. CASE file'[l][i] = file[l][i]
      <3>1. file[l][i] \in Record
        BY <2>1 DEF TypeOK
      <3> QED
        BY <2>1, <3>1, RecordFields DEF Derivations
    <2>2. CASE file'[l][i] # file[l][i]
      BY <2>2 DEF Based
    <2> QED
      BY <2>1, <2>2
  <1>2. l - 1 \in Layers
    OBVIOUS
  <1>3. file'[l - 1][j] = file[l - 1][j]
    BY <1>1, <1>2 DEF Grows
  <1> QED
    BY <1>1, <1>3

\* The index stays sound when a new entry tells what is stored under an id
\* that was not listed.
LEMMA IndexKept ==
    ASSUME TypeOK, Grows, IndexSound, NEW n \in Entry, index' \subseteq index \cup {n},
           n \in index' => /\ Safe(n.scope) /\ file'[n.layer][n.id] # NoFile
                           /\ file'[n.layer][n.id].scope = n.scope
                           /\ \A e \in index : e.id = n.id => e = n
    PROVE  IndexSound'
  <1>1. ~Corrupt'
    BY DEF IndexSound, Corrupt
  <1>2. ASSUME NEW e \in index
        PROVE  Safe(e.scope) /\ file'[e.layer][e.id] # NoFile /\ file'[e.layer][e.id].scope = e.scope
    <2>1. e.layer \in Layers /\ e.id \in Ids
      BY DEF TypeOK, Entry
    <2> QED
      BY <2>1 DEF IndexSound, Grows
  <1> QED
    BY <1>1, <1>2 DEF IndexSound

LEMMA PutRawStep ==
    ASSUME CallsInv, StoreInv, TypeOK', NEW c \in Callers, PutRaw(c)
    PROVE  CallsInv' /\ StoreInv' /\ UNCHANGED <<file, index>>
  <1>1. /\ pc[c] = "put_raw" /\ TypeOK /\ request[c] \in Requests /\ request[c].id \in Ids
        /\ raw[request[c].id] \in {NoFile, request[c].body}
        /\ Stored(c) \in {NoFile, draft[c]}
    BY CallHas DEF PutRaw, CallsInv, CallInv, RawSeen, FileSeen
  <1>2. /\ pc'[c] = "test_meta" /\ pc' = [pc EXCEPT ![c] = pc'[c]]
        /\ raw' = [raw EXCEPT ![request[c].id] = request[c].body]
        /\ UNCHANGED <<file, index, request, draft, acked>>
    BY <1>1 DEF PutRaw, TypeOK
  <1>3. /\ raw'[request[c].id] = request[c].body
        /\ \A i \in Ids \ {request[c].id} : raw'[i] = raw[i]
    BY <1>1, <1>2 DEF TypeOK
  <1>4. Grows
    BY <1>1, <1>2, <1>3 DEF Grows
  <1>5. RawSeen(c)' /\ FileSeen(c)' /\ IndexSeen(c)'
    BY <1>1, <1>2, <1>3 DEF RawSeen, FileSeen, IndexSeen, Stored
  <1>6. CallsInv'
    <2>1. pc[c] \in Storing /\ pc'[c] \in Storing
      BY <1>1, <1>2 DEF Storing, Phases
    <2> QED
      BY <1>2, <1>3, <1>4, <1>5, <2>1, WriteStep
  <1>7. EvidenceIntact' /\ Derivations' /\ IndexSound' /\ AnswersHold'
    <2>1. EvidenceIntact'
      BY <1>1, <1>2, <1>4, EvidenceKept DEF StoreInv
    <2>2. Derivations' /\ IndexSound'
      BY <1>2 DEF StoreInv, Derivations, IndexSound, Corrupt
    <2> QED
      BY <1>1, <1>2, <1>4, <2>1, <2>2, AnswersKept DEF StoreInv
  <1> QED
    BY <1>2, <1>6, <1>7 DEF StoreInv

LEMMA PutRecordStep ==
    ASSUME CallsInv, StoreInv, TypeOK', NEW c \in Callers, PutRecord(c)
    PROVE  /\ CallsInv' /\ StoreInv' /\ UNCHANGED <<raw, index>>
           /\ file' = [file EXCEPT ![request[c].layer][request[c].id] = draft[c]]
           /\ draft[c] \in Record
           /\ IF request[c].layer = 0 THEN raw[request[c].id] = draft[c].body
                                      ELSE Based(request[c].layer, draft[c])
  <1> DEFINE r == request[c]
  <1>1. /\ pc[c] = "put_record" /\ TypeOK /\ pc[c] \in Storing
        /\ Stored(c) \in {NoFile, draft[c]}
        /\ r.layer = 0 => raw[r.id] = r.body
        /\ FromRequest(c)
    <2>1. pc[c] = "put_record" /\ pc[c] \in Storing
      BY DEF PutRecord, Storing, Phases
    <2> QED
      BY <2>1 DEF CallsInv, CallInv, RawSeen, FileSeen
  <1>2. /\ r \in Requests /\ r.id \in Ids /\ r.layer \in Layers /\ draft[c] \in Record
        /\ draft[c] # NoFile /\ draft[c].refs \subseteq Ids
    <2>1. pc[c] # "idle"
      BY <1>1
    <2>2. r \in Requests /\ r.id \in Ids /\ r.layer \in Layers /\ draft[c] \in Record
      BY <1>1, <2>1, CallHas
    <2> QED
      BY <2>2, RecordFields
  <1>3. /\ pc'[c] = "read_index" /\ pc' = [pc EXCEPT ![c] = pc'[c]]
        /\ file' = [file EXCEPT ![r.layer][r.id] = draft[c]]
        /\ UNCHANGED <<raw, index, request, draft, acked>>
    BY <1>1 DEF PutRecord, TypeOK
  <1>4. /\ file'[r.layer][r.id] = draft[c]
        /\ \A l \in Layers, i \in Ids :
              file'[l][i] # file[l][i] => l = r.layer /\ i = r.id /\ file'[l][i] = draft[c]
    BY <1>1, <1>2, <1>3 DEF TypeOK
  <1>5. Grows
    <2>1. ASSUME NEW l \in Layers, NEW i \in Ids, file[l][i] # NoFile
          PROVE  file'[l][i] = file[l][i]
      BY <1>1, <1>4, <2>1 DEF Stored
    <2> QED
      BY <1>3, <2>1 DEF Grows
  <1>6. RawSeen(c)' /\ FileSeen(c)' /\ IndexSeen(c)'
    BY <1>1, <1>3, <1>4 DEF RawSeen, FileSeen, IndexSeen, Stored
  <1>7. CallsInv'
    <2>1. pc'[c] \in Storing
      BY <1>3 DEF Storing, Phases
    <2> QED
      BY <1>1, <1>3, <1>4, <1>5, <1>6, <2>1, WriteStep
  <1>8. IF r.layer = 0 THEN raw[r.id] = draft[c].body ELSE Based(r.layer, draft[c])
    BY <1>1 DEF FromRequest
  <1>9. EvidenceIntact'
    BY <1>1, <1>3, <1>4, <1>5, <1>8, EvidenceKept DEF StoreInv
  <1>10. Derivations'
    BY <1>1, <1>2, <1>4, <1>5, <1>8, DerivationsKept DEF StoreInv
  <1>11. IndexSound'
    <2>1. ~Corrupt'
      BY <1>3 DEF StoreInv, IndexSound, Corrupt
    <2>2. ASSUME NEW e \in index
          PROVE  /\ Safe(e.scope) /\ file'[e.layer][e.id] # NoFile
                 /\ file'[e.layer][e.id].scope = e.scope
      <3>1. e.layer \in Layers /\ e.id \in Ids
        BY <1>1 DEF TypeOK, Entry
      <3> QED
        BY <1>5, <3>1 DEF StoreInv, IndexSound, Grows
    <2> QED
      BY <1>3, <2>1, <2>2 DEF IndexSound
  <1>12. AnswersHold'
    BY <1>1, <1>3, <1>5, AnswersKept DEF StoreInv
  <1> QED
    BY <1>2, <1>3, <1>7, <1>8, <1>9, <1>10, <1>11, <1>12 DEF StoreInv

LEMMA AppendIndexStep ==
    ASSUME CallsInv, StoreInv, TypeOK', NEW c \in Callers, AppendIndex(c)
    PROVE  /\ CallsInv' /\ StoreInv' /\ UNCHANGED <<raw, file>>
           /\ index' = index \cup {EntryFor(c)}
           /\ request[c].layer \in Layers /\ request[c].id \in Ids
           /\ Stored(c) = draft[c] /\ draft[c] # NoFile /\ Safe(draft[c].scope)
           /\ EntriesOf(request[c].id) \subseteq {EntryFor(c)}
  <1> DEFINE n == EntryFor(c)
  <1>1. /\ pc[c] = "append_index" /\ TypeOK /\ pc[c] \in Storing /\ Stored(c) = draft[c]
        /\ request[c].layer = 0 => raw[request[c].id] = request[c].body
        /\ Safe(draft[c].scope) /\ EntriesOf(request[c].id) \subseteq {n}
    <2>1. pc[c] = "append_index" /\ pc[c] \in Storing
      BY DEF AppendIndex, Storing, Phases
    <2> QED
      BY <2>1 DEF CallsInv, CallInv, RawSeen, FileSeen, IndexSeen
  <1>2. /\ n \in Entry /\ draft[c] # NoFile
        /\ request[c].layer \in Layers /\ request[c].id \in Ids
    <2>1. pc[c] # "idle"
      BY <1>1
    <2>2. n \in Entry /\ draft[c] \in Record
      BY <1>1, <2>1, CallHas
    <2> QED
      BY <1>1, <2>1, <2>2, RecordFields, CallHas
  <1>3. /\ pc'[c] \in {"append_event", "answer"} /\ pc' = [pc EXCEPT ![c] = pc'[c]]
        /\ index' = index \cup {n}
        /\ UNCHANGED <<raw, file, request, draft, acked>>
    BY <1>1 DEF AppendIndex, Goto, AfterIndex, TypeOK
  <1>4. Grows
    BY <1>3 DEF Grows
  <1>5. RawSeen(c)' /\ FileSeen(c)' /\ IndexSeen(c)'
    BY <1>1, <1>3 DEF RawSeen, FileSeen, IndexSeen, Stored, EntryFor
  <1>6. CallsInv'
    <2>1. pc'[c] \in Storing
      BY <1>3 DEF Storing, Phases
    <2> QED
      BY <1>1, <1>3, <1>4, <1>5, <2>1, WriteStep
  <1>7. IndexSound'
    <2>1. /\ n.layer = request[c].layer /\ n.id = request[c].id /\ n.scope = draft[c].scope
          /\ file'[n.layer][n.id] = draft[c]
      BY <1>1, <1>3 DEF EntryFor, Stored
    <2>2. \A e \in index : e.id = n.id => e = n
      BY <1>1, <2>1 DEF EntriesOf
    <2> QED
      BY <1>1, <1>2, <1>3, <1>4, <2>1, <2>2, IndexKept DEF StoreInv
  <1>8. EvidenceIntact' /\ Derivations'
    BY <1>3 DEF StoreInv, EvidenceIntact, Derivations
  <1>9. AnswersHold'
    BY <1>1, <1>3, <1>4, AnswersKept DEF StoreInv
  <1> QED
    BY <1>1, <1>2, <1>3, <1>6, <1>7, <1>8, <1>9 DEF StoreInv

LEMMA AppendEventStep ==
    ASSUME CallsInv, StoreInv, TypeOK', NEW c \in Callers, AppendEvent(c)
    PROVE  CallsInv' /\ StoreInv' /\ UNCHANGED <<raw, file, index>>
  <1>1. /\ pc[c] = "append_event" /\ TypeOK /\ pc[c] \in Storing
        /\ pc'[c] = "answer" /\ pc' = [pc EXCEPT ![c] = pc'[c]]
        /\ UNCHANGED <<raw, file, index, request, draft, acked>>
    BY DEF AppendEvent, Goto, CallsInv, TypeOK, Storing, Phases
  <1>2. Grows
    BY <1>1 DEF Grows
  <1>3. RawSeen(c)' /\ FileSeen(c)' /\ IndexSeen(c)'
    BY <1>1 DEF CallsInv, CallInv, RawSeen, FileSeen, IndexSeen, Stored, EntryFor
  <1>4. CallsInv'
    <2>1. pc'[c] \in Storing
      BY <1>1 DEF Storing, Phases
    <2> QED
      BY <1>1, <1>2, <1>3, <2>1, WriteStep
  <1>5. AnswersHold'
    BY <1>1, <1>2, AnswersKept DEF StoreInv
  <1> QED
    BY <1>1, <1>4, <1>5 DEF StoreInv, EvidenceIntact, Derivations, IndexSound, Corrupt

\* What is answered is stored: the call has seen or written all of it.
LEMMA AnswerStep ==
    ASSUME CallsInv, StoreInv, TypeOK', NEW c \in Callers, Answer(c)
    PROVE  CallsInv' /\ StoreInv' /\ UNCHANGED <<raw, file, index>>
  <1> DEFINE r == request[c]
  <1>1. /\ pc[c] = "answer" /\ TypeOK /\ pc[c] \in Storing
        /\ EndCall(c) /\ UNCHANGED store /\ acked' = acked \cup {r}
    BY DEF Answer, CallsInv, Storing, Phases
  <1>2. CallsInv'
    BY <1>1, EndStep
  <1>3. /\ r \in Requests /\ draft[c] # NoFile /\ Stored(c) = draft[c]
        /\ draft[c].body = r.body /\ draft[c].refs = r.refs
        /\ r.layer = 0 => raw[r.id] = r.body
        /\ Safe(draft[c].scope) => EntryFor(c) \in index
    <2>1. pc[c] # "idle"
      BY <1>1
    <2>2. r \in Requests /\ draft[c] \in Record
      BY <1>1, <2>1, CallHas
    <2>3. draft[c] # NoFile
      BY <2>2, RecordFields
    <2> QED
      BY <1>1, <2>2, <2>3 DEF CallsInv, CallInv, FromRequest, RawSeen, FileSeen, IndexSeen
  <1>4. AnswersHold'
    <2>1. UNCHANGED <<raw, file, index>>
      BY <1>1 DEF store
    <2> QED
      BY <1>1, <1>3, <2>1 DEF StoreInv, AnswersHold, Stored, EntryFor
  <1> QED
    BY <1>1, <1>2, <1>4 DEF store, StoreInv, EvidenceIntact, Derivations, IndexSound, Corrupt

LEMMA CrashStep ==
    ASSUME CallsInv, TypeOK', NEW c \in Callers, Crash(c)
    PROVE  CallsInv' /\ UNCHANGED <<store, acked>>
  BY EndStep DEF Crash

-----------------------------------------------------------------------------
(* All steps *)

\* A step of one of the kinds that write nothing that is stored or answered.
Quiet == UNCHANGED <<store, acked>>

LEMMA ArchiveStep ==
    ASSUME ~Overlaps, CallsInv, StoreInv, [Next]_vars
    PROVE  CallsInv' /\ StoreInv'
  <1>1. TypeOK'
    BY MemoryTypeStep DEF CallsInv
  <1>2. ASSUME Quiet PROVE StoreInv'
    BY <1>2, StoreKept DEF Quiet, CallsInv
  <1>3. ASSUME NEW c \in Callers, Work(c) PROVE CallsInv' /\ StoreInv'
    <2>1. CASE \/ CheckRaw(c) \/ CheckExisting(c) \/ CheckMeta(c) \/ TestRaw(c)
               \/ TestMeta(c) \/ CheckRecord(c)
      BY <1>1, <1>2, <2>1, CheckStep DEF Quiet
    <2>2. CASE Derive(c)
      BY <1>1, <1>2, <2>2, DeriveStep DEF Quiet
    <2>3. CASE ReadIndex(c)
      BY <1>1, <1>2, <2>3, ReadIndexStep DEF Quiet
    <2>4. CASE PutRaw(c)
      BY <1>1, <2>4, PutRawStep
    <2>5. CASE PutRecord(c)
      BY <1>1, <2>5, PutRecordStep
    <2>6. CASE AppendIndex(c)
      BY <1>1, <2>6, AppendIndexStep
    <2>7. CASE AppendEvent(c)
      BY <1>1, <2>7, AppendEventStep
    <2>8. CASE Answer(c)
      BY <1>1, <2>8, AnswerStep
    <2> QED
      BY <1>3, <2>1, <2>2, <2>3, <2>4, <2>5, <2>6, <2>7, <2>8 DEF Work
  <1>4. ASSUME NEW c \in Callers, Crash(c) PROVE CallsInv' /\ StoreInv'
    BY <1>1, <1>2, <1>4, CrashStep DEF Quiet
  <1>5. ASSUME NEW c \in Callers, NEW r \in Requests, Start(c, r)
        PROVE  CallsInv' /\ StoreInv'
    BY <1>1, <1>2, <1>5, StartStep DEF Quiet, Start
  <1>6. CASE UNCHANGED vars
    <2>1. StoreInv'
      BY <1>2, <1>6 DEF Quiet, vars
    <2>2. Agree' /\ \A c \in Callers : CallInv(c)'
      BY <1>6 DEF vars, store, callVars, CallsInv, Agree, CallInv, FromRequest, Based,
                  RawSeen, FileSeen, IndexSeen, Stored, EntryFor, EntriesOf
    <2> QED
      BY <1>1, <2>1, <2>2 DEF CallsInv
  <1> QED
    BY <1>3, <1>4, <1>5, <1>6 DEF Next

\* The inductive invariant of the store and of the calls under way.
LEMMA ArchiveInvariant == ~Overlaps => (Spec => [](CallsInv /\ StoreInv))
  <1> SUFFICES ASSUME ~Overlaps PROVE Spec => [](CallsInv /\ StoreInv)
    OBVIOUS
  <1>1. CallsInv /\ StoreInv /\ [Next]_vars => (CallsInv /\ StoreInv)'
    BY ArchiveStep
  <1> QED
    BY <1>1, CallsInit, PTL DEF Spec

\* Raw evidence and the digest in its metadata agree in every reachable state
\* (EvidenceIntact), whatever is killed, if calls that overlap on an id repeat
\* each other: memory_overlap shows that they must.
THEOREM EvidenceStaysIntact == ~Overlaps => (Spec => []EvidenceIntact)
  <1>1. CallsInv /\ StoreInv => EvidenceIntact
    BY DEF StoreInv
  <1> QED
    BY <1>1, ArchiveInvariant, PTL

\* What a record is derived from is stored and no more restricted than the
\* record (Derivations), so that scopes propagate through all the layers.
THEOREM DerivationsHold == ~Overlaps => (Spec => []Derivations)
  <1>1. CallsInv /\ StoreInv => Derivations
    BY DEF StoreInv
  <1> QED
    BY <1>1, ArchiveInvariant, PTL

\* The index never contradicts itself or the records (IndexSound), so that a
\* read through it is never blocked.
THEOREM IndexStaysSound == ~Overlaps => (Spec => []IndexSound)
  <1>1. CallsInv /\ StoreInv => IndexSound
    BY DEF StoreInv
  <1> QED
    BY <1>1, ArchiveInvariant, PTL

\* A call that was answered ok has its record, its evidence and its index entry
\* stored for good (AnswersHold), whatever part of it a killed call had left.
THEOREM AnsweredIsStored == ~Overlaps => (Spec => []AnswersHold)
  <1>1. CallsInv /\ StoreInv => AnswersHold
    BY DEF StoreInv
  <1> QED
    BY <1>1, ArchiveInvariant, PTL

-----------------------------------------------------------------------------
(* The refinement of MemoryArchive *)

LEMMA ArchiveSimulation ==
    ASSUME ~Overlaps, CallsInv, StoreInv, [Next]_vars
    PROVE  [Archive!Next]_(Archive!vars)
  <1>1. TypeOK' /\ TypeOK
    BY MemoryTypeStep DEF CallsInv
  <1>2. ASSUME UNCHANGED <<raw, file, index>> PROVE UNCHANGED Archive!vars
    BY <1>2 DEF Archive!vars
  <1>3. ASSUME NEW c \in Callers, PutRaw(c) PROVE [Archive!Next]_(Archive!vars)
    <2> DEFINE r == request[c]
    <2>1. /\ raw' = [raw EXCEPT ![r.id] = r.body] /\ UNCHANGED <<file, index>>
          /\ raw[r.id] \in {NoFile, r.body}
          /\ r.id \in Ids /\ r.body \in Bodies
      BY <1>1, <1>3, CallHas DEF PutRaw, CallsInv, CallInv, RawSeen
    <2>2. CASE raw[r.id] = NoFile
      <3>1. Archive!Preserve(r.id, r.body)
        BY <2>1, <2>2 DEF Archive!Preserve
      <3> QED
        BY <2>1, <3>1 DEF Archive!Next
    <2>3. CASE raw[r.id] = r.body
      <3>1. raw' = raw
        BY <1>1, <2>1, <2>3 DEF TypeOK
      <3> QED
        BY <1>2, <2>1, <3>1
    <2> QED
      BY <2>1, <2>2, <2>3
  <1>4. ASSUME NEW c \in Callers, PutRecord(c) PROVE [Archive!Next]_(Archive!vars)
    <2> DEFINE r == request[c]
    <2>1. /\ UNCHANGED <<raw, index>> /\ file' = [file EXCEPT ![r.layer][r.id] = draft[c]]
          /\ draft[c] \in Record
          /\ IF r.layer = 0 THEN raw[r.id] = draft[c].body ELSE Based(r.layer, draft[c])
      BY <1>1, <1>4, PutRecordStep
    <2>2. /\ r.layer \in 0..3 /\ r.id \in Ids
          /\ file[r.layer][r.id] \in {NoFile, draft[c]}
      BY <1>1, <1>4, CallHas DEF PutRecord, CallsInv, CallInv, FileSeen, Stored
    <2>3. CASE file[r.layer][r.id] = NoFile
      <3>1. file'[r.layer][r.id] = draft[c]
        BY <1>1, <2>1, <2>2 DEF TypeOK
      <3>2. Archive!Describe(r.layer, r.id)
        BY <2>1, <2>3, <3>1 DEF Archive!Describe, Based
      <3> QED
        BY <2>1, <2>2, <3>2 DEF Archive!Next
    <2>4. CASE file[r.layer][r.id] = draft[c]
      <3>1. file' = file
        BY <1>1, <2>1, <2>2, <2>4 DEF TypeOK
      <3> QED
        BY <1>2, <2>1, <3>1
    <2> QED
      BY <2>2, <2>3, <2>4
  <1>5. ASSUME NEW c \in Callers, AppendIndex(c) PROVE [Archive!Next]_(Archive!vars)
    <2> DEFINE r == request[c]
    <2>1. /\ UNCHANGED <<raw, file>> /\ index' = index \cup {EntryFor(c)}
          /\ r.layer \in 0..3 /\ r.id \in Ids
          /\ file[r.layer][r.id] = draft[c] /\ draft[c] # NoFile /\ Safe(draft[c].scope)
          /\ EntriesOf(r.id) \subseteq {EntryFor(c)}
      BY <1>1, <1>5, AppendIndexStep DEF Stored
    <2>2. CASE EntryFor(c) \in index
      BY <1>2, <2>1, <2>2
    <2>3. CASE EntryFor(c) \notin index
      <3>1. \A e \in index : e.id # r.id
        BY <2>1, <2>3 DEF EntriesOf
      <3>2. Archive!List(r.layer, r.id)
        BY <2>1, <3>1 DEF Archive!List, EntryFor, Safe
      <3> QED
        BY <2>1, <3>2 DEF Archive!Next
    <2> QED
      BY <2>2, <2>3
  <1>6. ASSUME NEW c \in Callers, Work(c) PROVE [Archive!Next]_(Archive!vars)
    <2>1. CASE \/ CheckRaw(c) \/ CheckExisting(c) \/ CheckMeta(c) \/ TestRaw(c)
               \/ TestMeta(c) \/ CheckRecord(c)
      BY <1>1, <1>2, <2>1, CheckStep DEF store
    <2>2. CASE Derive(c) \/ ReadIndex(c)
      BY <1>1, <1>2, <2>2, DeriveStep, ReadIndexStep DEF store
    <2>3. CASE AppendEvent(c) \/ Answer(c)
      BY <1>1, <1>2, <2>3, AppendEventStep, AnswerStep
    <2> QED
      BY <1>3, <1>4, <1>5, <1>6, <2>1, <2>2, <2>3 DEF Work
  <1>7. ASSUME NEW c \in Callers, Crash(c) \/ \E r \in Requests : Start(c, r)
        PROVE  [Archive!Next]_(Archive!vars)
    BY <1>2, <1>7 DEF Crash, Start, store
  <1>8. CASE UNCHANGED vars
    BY <1>2, <1>8 DEF vars, store
  <1> QED
    BY <1>6, <1>7, <1>8 DEF Next

\* The controller implements the archive (ImplementsArchive): it only ever adds
\* evidence, records that stand on what is there, and entries of stored records.
THEOREM MemoryImplementsArchive == ~Overlaps => (Spec => ImplementsArchive)
  <1> SUFFICES ASSUME ~Overlaps PROVE Spec => ImplementsArchive
    OBVIOUS
  <1>1. Init => Archive!Init
    BY DEF Init, Archive!Init
  <1>2. CallsInv /\ StoreInv /\ [Next]_vars => [Archive!Next]_(Archive!vars)
    BY ArchiveSimulation
  <1>3. Spec => [](CallsInv /\ StoreInv)
    BY ArchiveInvariant
  <1> QED
    BY <1>1, <1>2, <1>3, PTL DEF Spec, ImplementsArchive, Archive!Spec
=============================================================================
