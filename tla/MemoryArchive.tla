--------------------------- MODULE MemoryArchive ---------------------------
(***************************************************************************)
(* What the layered memory promises, whatever calls run together or are    *)
(* killed (policies/memory-layering.yaml, `invariants' and `safe_index'):  *)
(* nothing is overwritten; a record appears only after what it is derived  *)
(* from, and is no less restricted; the index lists stored records of safe *)
(* scopes, one to an id.  LayeredMemory implements this specification.     *)
(***************************************************************************)
EXTENDS Integers

CONSTANTS Ids, Bodies, Records, Nothing

VARIABLES evidence,    \* the raw evidence of each id
          record,      \* the record of each layer and id
          listed       \* the entries of the index

vars == <<evidence, record, listed>>

Init ==
    /\ evidence = [i \in Ids |-> Nothing]
    /\ record = [l \in 0..3 |-> [i \in Ids |-> Nothing]]
    /\ listed = {}

Preserve(i, b) ==
    /\ evidence[i] = Nothing
    /\ evidence' = [evidence EXCEPT ![i] = b]
    /\ UNCHANGED <<record, listed>>

Describe(l, i) ==
    LET r == record'[l][i]
    IN /\ record[l][i] = Nothing
       /\ r \in Records
       /\ IF l = 0
            THEN evidence[i] = r.body
            ELSE \A j \in r.refs : record[l - 1][j] # Nothing /\ record[l - 1][j].scope <= r.scope
       /\ record' = [record EXCEPT ![l][i] = r]
       /\ UNCHANGED <<evidence, listed>>

List(l, i) ==
    /\ record[l][i] # Nothing /\ record[l][i].scope <= 1
    /\ \A e \in listed : e.id # i
    /\ listed' = listed \cup {[id |-> i, layer |-> l, scope |-> record[l][i].scope]}
    /\ UNCHANGED <<evidence, record>>

Next ==
    \E i \in Ids :
        \/ \E b \in Bodies : Preserve(i, b)
        \/ \E l \in 0..3 : List(l, i) \/ Describe(l, i)

Spec == Init /\ [][Next]_vars
=============================================================================
