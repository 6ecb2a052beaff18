--------------------------- MODULE LayeredMemory ---------------------------
(***************************************************************************)
(* The layered memory controller                                           *)
(* (Tools/LayeredMemoryController/layered_memory_controller.py): raw       *)
(* evidence and its metadata (layer 0), and records derived from it        *)
(* (layers 1 to 3: atoms, scenarios, candidates), one file each, with an   *)
(* index of the records that any profile may see and a journal.            *)
(*                                                                         *)
(* Every call is a process of its own, without a lock.  An access to a     *)
(* file is one step, but for Derive; between two of them other calls run,  *)
(* and the process may be killed, by the timeout of its caller for one.    *)
(***************************************************************************)
EXTENDS Integers, FiniteSets

CONSTANTS Callers,
          Ids,           \* evidence ids and memory ids: one name space
          Bodies,        \* what a file says: for raw evidence its digest
          Requests,      \* the writing calls that may be made
          Overlaps,      \* calls under way at one time may disagree about an id
          MaxCrashes,    \* bound
          NoFile, NoRequest, NoRecord

VARIABLES raw,        \* Evidence/raw: the content of each file
          file,       \* STATE/memory/L0..L3: the record in each file
          index,      \* safe-index.jsonl: its entries
          journal,    \* events.jsonl: the records it tells of
          pc, request, draft, mutated,   \* of each caller's call
          acked,      \* requests that were answered ok
          crashes

store == <<raw, file, index, journal>>
callVars == <<pc, request, draft, mutated>>
vars == <<store, callVars, acked, crashes>>

-----------------------------------------------------------------------------
(* Data *)

Layers == 0..3

\* Scopes by rank.
Public == 0
Portable == 1
Internal == 2
Scopes == Public..Internal
Inherit == -1          \* the request leaves the scope to the parents

Safe(scope) == scope <= Portable

\* relates: supersedes and conflicts_with.  personal: the profile is
\* personal_full_control.  dated: the request says when the record was created;
\* otherwise that is the time of the call, to the microsecond.
Request == [layer : Layers, id : Ids, personal : BOOLEAN, scope : Scopes \cup {Inherit},
            body : Bodies, refs : SUBSET Ids, relates : SUBSET Ids, dated : BOOLEAN]

\* Texts, confidence, tags and the other fields are the body.
Record == {[scope |-> s, body |-> r.body, refs |-> r.refs, relates |-> r.relates, dated |-> d] :
              s \in Scopes, r \in Requests, d \in BOOLEAN}

Entry == [id : Ids, layer : Layers, scope : Scopes]

Phases == {"idle", "check_raw", "check_existing", "check_meta", "test_raw", "put_raw",
           "test_meta", "derive", "check_record", "put_record",
           "read_index", "append_index", "append_event", "answer"}

ASSUME MemoryConstants ==
    /\ Requests \subseteq Request
    /\ \A r \in Requests :
          IF r.layer = 0 THEN r.scope # Inherit /\ r.refs = {} /\ r.relates = {}
                         ELSE r.refs # {}
    /\ NoFile \notin Bodies \cup Record /\ NoRequest \notin Request /\ NoRecord \notin Record
    /\ Overlaps \in BOOLEAN /\ MaxCrashes \in Nat

-----------------------------------------------------------------------------
(* Reading *)

\* The index cannot be read once two of its entries contradict each other.
Corrupt == \E e, f \in index : e.id = f.id /\ e # f

\* The layer from which a record is loaded: with the personal profile the
\* first that has a file of that name, otherwise the one the index tells, if
\* the record there is what the index says.  Empty: the read is refused.
LoadedFrom(i, personal) ==
    IF personal
      THEN {l \in Layers : file[l][i] # NoFile /\ \A k \in 0..(l - 1) : file[k][i] = NoFile}
      ELSE {e.layer : e \in {x \in index :
                /\ ~Corrupt
                /\ x.id = i
                /\ file[x.layer][i] # NoFile
                /\ file[x.layer][i].scope = x.scope}}

\* The strictest scope of the records r is derived from.
InheritedScope(r) ==
    CHOOSE s \in Scopes :
        /\ \E i \in r.refs : file[r.layer - 1][i].scope = s
        /\ \A i \in r.refs : file[r.layer - 1][i].scope <= s

\* Mutant: a scope that is left out is stored as it is.
ScopeAsGiven(r) == r.scope

DerivedScope(r) == IF r.scope = Inherit THEN InheritedScope(r) ELSE r.scope

\* Mutant: the scope asked for is taken as it is.
DerivableAnyScope(r) ==
    /\ \A i \in r.refs : LoadedFrom(i, r.personal) = {r.layer - 1}
    /\ r.personal \/ Safe(DerivedScope(r))

Derivable(r) ==
    /\ \A i \in r.refs : LoadedFrom(i, r.personal) = {r.layer - 1}
    /\ r.scope # Inherit => r.scope >= InheritedScope(r)
    /\ r.personal \/ Safe(DerivedScope(r))
    /\ \A i \in r.relates : LoadedFrom(i, r.personal) # {}
    /\ r.id \notin r.relates

-----------------------------------------------------------------------------
(* A call *)

Init ==
    /\ raw = [i \in Ids |-> NoFile]
    /\ file = [l \in Layers |-> [i \in Ids |-> NoFile]]
    /\ index = {} /\ journal = {}
    /\ pc = [c \in Callers |-> "idle"]
    /\ request = [c \in Callers |-> NoRequest]
    /\ draft = [c \in Callers |-> NoRecord]
    /\ mutated = [c \in Callers |-> FALSE]
    /\ acked = {} /\ crashes = 0

Goto(c, phase) ==
    /\ pc' = [pc EXCEPT ![c] = phase]
    /\ UNCHANGED <<request, draft, mutated>>

EndCall(c) ==
    /\ pc' = [pc EXCEPT ![c] = "idle"]
    /\ request' = [request EXCEPT ![c] = NoRequest]
    /\ draft' = [draft EXCEPT ![c] = NoRecord]
    /\ mutated' = [mutated EXCEPT ![c] = FALSE]

\* The record file of the call of c.
Stored(c) == file[request[c].layer][request[c].id]

\* What a capture wants in metadata: digest and scope; dates are not compared.
CaptureRecord(r) ==
    [scope |-> r.scope, body |-> r.body, refs |-> {}, relates |-> {}, dated |-> TRUE]

\* Calls that are under way together agree on what an id stands for, as the
\* repetition of a call does whose first process is still running.
MayStart(r) ==
    \/ Overlaps
    \/ \A d \in Callers :
          pc[d] # "idle" =>
              request[d].id # r.id \/ (request[d] = r /\ (r.layer = 0 \/ r.dated))

\* A capture is refused at once when the profile may not see its scope.
Start(c, r) ==
    /\ pc[c] = "idle" /\ MayStart(r)
    /\ r.layer = 0 => r.personal \/ Safe(r.scope)
    /\ pc' = [pc EXCEPT ![c] = IF r.layer = 0 THEN "check_raw" ELSE "derive"]
    /\ request' = [request EXCEPT ![c] = r]
    /\ draft' = [draft EXCEPT ![c] = IF r.layer = 0 THEN CaptureRecord(r) ELSE NoRecord]
    /\ UNCHANGED <<store, mutated, acked, crashes>>

Refuse(c) == EndCall(c) /\ UNCHANGED <<store, acked, crashes>>

-----------------------------------------------------------------------------
(* capture_raw *)

\* Mutants: raw evidence that is there is not compared, or never completed.
CheckRawUnread(c) ==
    /\ pc[c] = "check_raw"
    /\ Goto(c, "check_meta") /\ UNCHANGED <<store, acked, crashes>>
CheckRawStrictly(c) ==
    /\ pc[c] = "check_raw"
    /\ IF raw[request[c].id] # NoFile /\ Stored(c) = NoFile
         THEN Refuse(c)
         ELSE Goto(c, "check_meta") /\ UNCHANGED <<store, acked, crashes>>

CheckRaw(c) ==
    /\ pc[c] = "check_raw"
    /\ \/ /\ raw[request[c].id] = NoFile
          /\ Goto(c, "check_meta") /\ UNCHANGED <<store, acked, crashes>>
       \/ /\ raw[request[c].id] = request[c].body
          /\ Goto(c, "check_existing") /\ UNCHANGED <<store, acked, crashes>>
       \/ /\ raw[request[c].id] \notin {NoFile, request[c].body}
          /\ Refuse(c)

\* Both files are there already: only the index may be missing.
CheckExisting(c) ==
    /\ pc[c] = "check_existing"
    /\ \/ /\ Stored(c) = NoFile
          /\ Goto(c, "check_meta") /\ UNCHANGED <<store, acked, crashes>>
       \/ /\ Stored(c) = draft[c]
          /\ Goto(c, "read_index") /\ UNCHANGED <<store, acked, crashes>>
       \/ /\ Stored(c) \notin {NoFile, draft[c]}
          /\ Refuse(c)

CheckMeta(c) ==
    /\ pc[c] = "check_meta"
    /\ \/ /\ Stored(c) \in {NoFile, draft[c]}
          /\ Goto(c, "test_raw") /\ UNCHANGED <<store, acked, crashes>>
       \/ /\ Stored(c) \notin {NoFile, draft[c]}
          /\ Refuse(c)

TestRaw(c) ==
    /\ pc[c] = "test_raw"
    /\ Goto(c, IF raw[request[c].id] = NoFile THEN "put_raw" ELSE "test_meta")
    /\ UNCHANGED <<store, acked, crashes>>

\* A file is written under another name and moved into its place.
PutRaw(c) ==
    /\ pc[c] = "put_raw"
    /\ raw' = [raw EXCEPT ![request[c].id] = request[c].body]
    /\ mutated' = [mutated EXCEPT ![c] = TRUE]
    /\ pc' = [pc EXCEPT ![c] = "test_meta"]
    /\ UNCHANGED <<file, index, journal, request, draft, acked, crashes>>

TestMeta(c) ==
    /\ pc[c] = "test_meta"
    /\ Goto(c, IF Stored(c) = NoFile THEN "put_record" ELSE "read_index")
    /\ UNCHANGED <<store, acked, crashes>>

-----------------------------------------------------------------------------
(* create_atom, create_scenario, create_candidate *)

\* The references are loaded and the record is put together.  One step stands for
\* reading the index and each file: what is found is never changed or removed.
Derive(c) ==
    LET r == request[c]
    IN /\ pc[c] = "derive"
       /\ \/ /\ Derivable(r)
             /\ draft' = [draft EXCEPT ![c] =
                    [scope |-> DerivedScope(r), body |-> r.body,
                     refs |-> r.refs, relates |-> r.relates, dated |-> r.dated]]
             /\ pc' = [pc EXCEPT ![c] = "check_record"]
             /\ UNCHANGED <<store, request, mutated, acked, crashes>>
          \/ ~Derivable(r) /\ Refuse(c)

\* Mutant: a record of that name is written over.
CheckNothing(c) ==
    /\ pc[c] = "check_record"
    /\ Goto(c, "put_record") /\ UNCHANGED <<store, acked, crashes>>

\* The whole record is compared, with the time of its creation.
CheckRecord(c) ==
    LET same == Stored(c) = draft[c] /\ draft[c].dated
    IN /\ pc[c] = "check_record"
       /\ \/ /\ Stored(c) = NoFile
             /\ Goto(c, "put_record") /\ UNCHANGED <<store, acked, crashes>>
          \/ same /\ Goto(c, "read_index") /\ UNCHANGED <<store, acked, crashes>>
          \/ Stored(c) # NoFile /\ ~same /\ Refuse(c)

-----------------------------------------------------------------------------
(* What all writing calls end with *)

PutRecord(c) ==
    /\ pc[c] = "put_record"
    /\ file' = [file EXCEPT ![request[c].layer][request[c].id] = draft[c]]
    /\ mutated' = [mutated EXCEPT ![c] = TRUE]
    /\ pc' = [pc EXCEPT ![c] = "read_index"]
    /\ UNCHANGED <<raw, index, journal, request, draft, acked, crashes>>

EntryFor(c) == [id |-> request[c].id, layer |-> request[c].layer, scope |-> draft[c].scope]

EntriesOf(i) == {e \in index : e.id = i}

AfterIndex(c) == IF mutated[c] THEN "append_event" ELSE "answer"

\* Mutants: what the index says of the id is not looked at; the record is
\* answered for and not indexed.
ReadIndexBlindly(c) ==
    /\ pc[c] = "read_index"
    /\ Goto(c, IF Safe(draft[c].scope) THEN "append_index" ELSE AfterIndex(c))
    /\ UNCHANGED <<store, acked, crashes>>
IndexOnlyNew(c) ==
    /\ pc[c] = "read_index"
    /\ Goto(c, IF Safe(draft[c].scope) /\ mutated[c] THEN "append_index" ELSE AfterIndex(c))
    /\ UNCHANGED <<store, acked, crashes>>

\* Records that not every profile may see are not indexed.
ReadIndex(c) ==
    LET skip == ~Safe(draft[c].scope) \/ (~Corrupt /\ EntriesOf(request[c].id) = {EntryFor(c)})
        new  == Safe(draft[c].scope) /\ ~Corrupt /\ EntriesOf(request[c].id) = {}
    IN /\ pc[c] = "read_index"
       /\ \/ skip /\ Goto(c, AfterIndex(c)) /\ UNCHANGED <<store, acked, crashes>>
          \/ new /\ Goto(c, "append_index") /\ UNCHANGED <<store, acked, crashes>>
          \/ ~skip /\ ~new /\ Refuse(c)

AppendIndex(c) ==
    /\ pc[c] = "append_index"
    /\ index' = index \cup {EntryFor(c)}
    /\ Goto(c, AfterIndex(c))
    /\ UNCHANGED <<raw, file, journal, acked, crashes>>

AppendEvent(c) ==
    /\ pc[c] = "append_event"
    /\ journal' = journal \cup {[id |-> request[c].id, layer |-> request[c].layer]}
    /\ Goto(c, "answer")
    /\ UNCHANGED <<raw, file, index, acked, crashes>>

Answer(c) ==
    /\ pc[c] = "answer"
    /\ acked' = acked \cup {request[c]}
    /\ EndCall(c)
    /\ UNCHANGED <<store, crashes>>

\* The process is killed.
Crash(c) ==
    /\ pc[c] # "idle"
    /\ crashes < MaxCrashes
    /\ crashes' = crashes + 1
    /\ EndCall(c)
    /\ UNCHANGED <<store, acked>>

Work(c) ==
    \/ CheckRaw(c) \/ CheckExisting(c) \/ CheckMeta(c) \/ TestRaw(c) \/ PutRaw(c) \/ TestMeta(c)
    \/ Derive(c) \/ CheckRecord(c)
    \/ PutRecord(c) \/ ReadIndex(c) \/ AppendIndex(c) \/ AppendEvent(c) \/ Answer(c)

Next == \E c \in Callers : Work(c) \/ Crash(c) \/ \E r \in Requests : Start(c, r)

Spec == Init /\ [][Next]_vars

\* A call that runs goes on, and whoever wants something stored asks again.
FairSpec ==
    /\ Spec
    /\ \A c \in Callers : WF_vars(Work(c))
    /\ \A r \in Requests : SF_vars(\E c \in Callers : Start(c, r))

-----------------------------------------------------------------------------
(* Properties *)

Storing == Phases \ {"idle", "derive"}
Capturing == {"check_raw", "check_existing", "check_meta", "test_raw", "put_raw", "test_meta"}
Deriving == {"derive", "check_record"}

\* Every variable has its type; a call under way has its request, and past the
\* reading of its references the record it is going to store.
TypeOK ==
    /\ raw \in [Ids -> Bodies \cup {NoFile}]
    /\ file \in [Layers -> [Ids -> Record \cup {NoFile}]]
    /\ index \subseteq Entry
    /\ journal \subseteq [id : Ids, layer : Layers]
    /\ pc \in [Callers -> Phases]
    /\ request \in [Callers -> Requests \cup {NoRequest}]
    /\ draft \in [Callers -> Record \cup {NoRecord}]
    /\ mutated \in [Callers -> BOOLEAN]
    /\ acked \subseteq Requests
    /\ crashes \in Nat
    /\ \A c \in Callers :
          /\ pc[c] # "idle" => request[c] \in Requests
          /\ pc[c] \in Storing => draft[c] \in Record
          /\ pc[c] \in Capturing => request[c].layer = 0
          /\ pc[c] \in Deriving => request[c].layer # 0

\* The digest in the metadata of raw evidence is that of the evidence, after any
\* crash and whatever repetitions of the capture ran at the same time.
EvidenceIntact == \A i \in Ids : file[0][i] # NoFile => raw[i] = file[0][i].body

\* What a record is derived from is there, in the layer below, and no record is
\* less restricted than that: scopes propagate to the top.
Derivations ==
    \A l \in 1..3, i \in Ids :
        file[l][i] # NoFile =>
            \A j \in file[l][i].refs :
                file[l - 1][j] # NoFile /\ file[l - 1][j].scope <= file[l][i].scope

\* The index never contradicts itself nor the records, so that reading through
\* it is never blocked, and it lists nothing internal.
IndexSound ==
    /\ ~Corrupt
    /\ \A e \in index : Safe(e.scope) /\ file[e.layer][e.id] # NoFile
                          /\ file[e.layer][e.id].scope = e.scope

\* A call that was answered ok has its record stored with all it stands on, and
\* indexed if it may be seen by all, although the call may have found part of
\* it there from a call that was killed.
AnswersHold ==
    \A r \in acked :
        /\ file[r.layer][r.id] # NoFile
        /\ file[r.layer][r.id].body = r.body /\ file[r.layer][r.id].refs = r.refs
        /\ r.layer = 0 => raw[r.id] = r.body
        /\ Safe(file[r.layer][r.id].scope) =>
              [id |-> r.id, layer |-> r.layer, scope |-> file[r.layer][r.id].scope] \in index

\* The controller implements the archive it promises.
Archive == INSTANCE MemoryArchive WITH
               Records <- Record, Nothing <- NoFile,
               evidence <- raw, record <- file, listed <- index

ImplementsArchive == Archive!Spec

\* Whoever repeats a call that was killed is answered ok in the end: what a
\* killed call leaves behind never stands in the way of its repetition, if the
\* request says when the record was created.
RetriesSucceed == \A r \in Requests : r.layer = 0 \/ r.dated => <>(r \in acked)
=============================================================================
