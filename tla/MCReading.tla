----------------------------- MODULE MCReading -----------------------------
(* Small instances of MemoryReading for TLC: the callers of MCMemory and a  *)
(* reader.                                                                  *)
EXTENDS MemoryReading, MCMemory

CONSTANT q1

RetrieveBy(personal, layers, wanted, items) ==
    [operation |-> "retrieve", personal |-> personal, layers |-> layers,
     wanted |-> wanted, items |-> items]
DrillDown(i, personal) == [operation |-> "drilldown", personal |-> personal, root |-> i]

\* Everything that all may see, the atoms with a query, and what
\* the records of each id stand on.
Questions ==
    {RetrieveBy(FALSE, Layers, MCBodies, 3), RetrieveBy(TRUE, {1}, {b1}, 1),
     DrillDown(x, FALSE), DrillDown(y, FALSE), DrillDown(z, TRUE)}

MCReaders == {q1}

\* While there is a reader, one writer is under way at a time; before, both are.
\* What follows a call that was shown nothing is what happens without it.
OneBesideReader ==
    \/ \A q \in Readers : stage[q] = "idle"
    \/ /\ \E c \in Callers : pc[c] = "idle"
       /\ \A q \in Readers : stage[q] # "refused" /\ (stage[q] = "answered" => shown[q] # {})

=============================================================================
