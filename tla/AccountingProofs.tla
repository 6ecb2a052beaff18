--------------------------- MODULE AccountingProofs ---------------------------
(***************************************************************************)
(* The accounting of slices in ControlPlane is correct for every number of *)
(* workers, slices, todos and slots: evidence comes first, the total is    *)
(* the sum of what was charged and within the quota, no slice is charged   *)
(* twice, and every charge is justified; and so are its leases: the        *)
(* projected claims of concurrent workers, computed from older copies of   *)
(* the state, keep the live leases of one another, and the tickets that    *)
(* are good for the state name different todos (both need todo ids that    *)
(* are distinct at first).                                                 *)
(***************************************************************************)
EXTENDS ControlPlaneProofs

USE DEF Phases, Preparing, Finalizing

-----------------------------------------------------------------------------
(* Evidence *)

\* EvidenceFirst and ReferencesDurable made inductive: what finalize holds in
\* its hands refers to preserved evidence of an admitted slice.
EvidenceOf(w) ==
    /\ pc[w] \in Finalizing =>
          /\ result[w].slice \in admitted
          /\ snap[w].previous_slice.evidence_refs \subseteq evidence
    /\ pc[w] \in {"captured", "accounting", "patching", "written"}
          => result[w].slice \in evidence \cap admitted
    /\ pc[w] = "patching" => patch[w].previous_slice.evidence_refs \subseteq evidence

EvidenceInv ==
    /\ ReferencesDurable
    /\ \A s \in Slices : charges[s] > 0 => s \in evidence \cap admitted
    /\ \A w \in Workers : EvidenceOf(w)

LEMMA EvidenceInit == Init => EvidenceInv
<1> SUFFICES ASSUME Init PROVE EvidenceInv
  OBVIOUS
<1>1. ReferencesDurable
  BY ConstantsOK DEF Init, ReferencesDurable, NoPreviousSlice, NullPreviousSlice
<1>2. \A s \in Slices : charges[s] > 0 => s \in evidence \cap admitted
  BY DEF Init
<1>3. \A w \in Workers : EvidenceOf(w)
  BY DEF Init, EvidenceOf
<1>4. QED
  BY <1>1, <1>2, <1>3 DEF EvidenceInv

\* The state, the charges and the worker's part in them stay as they are, and
\* evidence and admissions only grow.
LEMMA EvidenceKept ==
    ASSUME EvidenceInv, charges' = charges,
           current'.previous_slice.evidence_refs \subseteq current.previous_slice.evidence_refs,
           evidence \subseteq evidence', admitted \subseteq admitted',
           \A w \in Workers : EvidenceOf(w)'
    PROVE  EvidenceInv'
BY DEF EvidenceInv, ReferencesDurable

LEMMA EvidenceStep == TypeOK /\ EvidenceInv /\ [Next]_vars => EvidenceInv'
<1> SUFFICES ASSUME TypeOK, EvidenceInv, [Next]_vars PROVE EvidenceInv'
  OBVIOUS
<1> USE DEF TypeOK, EvidenceOf
<1>1. ASSUME NEW w \in Workers, PrepareEvaluate(w) PROVE EvidenceInv'
  <2>1. \A v \in Workers : EvidenceOf(v)'
    BY <1>1 DEF PrepareEvaluate, EvidenceInv, ledgerVars
  <2>2. QED
    BY <1>1, <2>1, EvidenceKept DEF PrepareEvaluate, ledgerVars
<1>2. ASSUME NEW w \in Workers, PrepareClaim(w) PROVE EvidenceInv'
  <2>1. \A v \in Workers : EvidenceOf(v)'
    BY <1>2 DEF PrepareClaim, EvidenceInv, ledgerVars
  <2>2. QED
    BY <1>2, <2>1, EvidenceKept DEF PrepareClaim, ledgerVars
<1>3. ASSUME NEW w \in Workers, IssueTicket(w) PROVE EvidenceInv'
  <2>1. \A v \in Workers : EvidenceOf(v)'
    BY <1>3 DEF IssueTicket, EvidenceInv, EndCall, ledgerVars
  <2>2. QED
    BY <1>3, <2>1, EvidenceKept DEF IssueTicket, EndCall, ledgerVars
<1>4. ASSUME NEW w \in Workers, PrepareReturns(w) PROVE EvidenceInv'
  <2>1. \A v \in Workers : EvidenceOf(v)'
    BY <1>4 DEF PrepareReturns, EvidenceInv, EndCall, ledgerVars
  <2>2. QED
    BY <1>4, <2>1, EvidenceKept DEF PrepareReturns, EndCall, ledgerVars
<1>5. ASSUME NEW w \in Workers, WriteClaim(w) PROVE EvidenceInv'
  <2>1. \A v \in Workers : EvidenceOf(v)'
    BY <1>5 DEF WriteClaim, EvidenceInv, EndCall, ledgerVars
  <2>2. QED
    BY <1>5, <2>1, EvidenceKept DEF WriteClaim, EndCall, ledgerVars
<1>6. ASSUME NEW w \in Workers, WriteRefused(w) PROVE EvidenceInv'
  <2>1. \A v \in Workers : EvidenceOf(v)'
    BY <1>6 DEF WriteRefused, EvidenceInv, EndCall, ledgerVars
  <2>2. QED
    BY <1>6, <2>1, EvidenceKept DEF WriteRefused, EndCall, ledgerVars
<1>7. ASSUME NEW w \in Workers, ExecuteSlice(w) PROVE EvidenceInv'
  <2>1. \A v \in Workers : EvidenceOf(v)'
    BY <1>7 DEF ExecuteSlice, EvidenceInv, ledgerVars
  <2>2. QED
    BY <1>7, <2>1, EvidenceKept DEF ExecuteSlice, ledgerVars
<1>8. ASSUME NEW w \in Workers, FinalizeBegin(w) PROVE EvidenceInv'
  <2>1. \A v \in Workers : EvidenceOf(v)'
    BY <1>8 DEF FinalizeBegin, EvidenceInv, Validated, ledgerVars, ReferencesDurable
  <2>2. QED
    BY <1>8, <2>1, EvidenceKept DEF FinalizeBegin, Validated, ledgerVars, ReferencesDurable
<1>9. ASSUME NEW w \in Workers, CaptureRaw(w) PROVE EvidenceInv'
  <2>1. \A v \in Workers : EvidenceOf(v)'
    BY <1>9 DEF CaptureRaw, EvidenceInv, ledgerVars
  <2>2. QED
    BY <1>9, <2>1, EvidenceKept DEF CaptureRaw, ledgerVars
<1>10. ASSUME NEW w \in Workers, CaptureFails(w) PROVE EvidenceInv'
  <2>1. \A v \in Workers : EvidenceOf(v)'
    BY <1>10 DEF CaptureFails, EvidenceInv, EndCall, ledgerVars
  <2>2. QED
    BY <1>10, <2>1, EvidenceKept DEF CaptureFails, EndCall, ledgerVars
<1>11. ASSUME NEW w \in Workers, CreateAtom(w) PROVE EvidenceInv'
  <2>1. \A v \in Workers : EvidenceOf(v)'
    BY <1>11 DEF CreateAtom, EvidenceInv, ledgerVars
  <2>2. QED
    BY <1>11, <2>1, EvidenceKept DEF CreateAtom, ledgerVars
<1>12. ASSUME NEW w \in Workers, CreateAtomFails(w) PROVE EvidenceInv'
  <2>1. \A v \in Workers : EvidenceOf(v)'
    BY <1>12 DEF CreateAtomFails, EvidenceInv, EndCall, ledgerVars
  <2>2. QED
    BY <1>12, <2>1, EvidenceKept DEF CreateAtomFails, EndCall, ledgerVars
<1>13. ASSUME NEW w \in Workers, FinalizeRefused(w) \/ SpendFails(w) PROVE EvidenceInv'
  <2>1. \A v \in Workers : EvidenceOf(v)'
    BY <1>13 DEF FinalizeRefused, SpendFails, Spending, EvidenceInv, EndCall, ledgerVars
  <2>2. QED
    BY <1>13, <2>1, EvidenceKept DEF FinalizeRefused, SpendFails, Spending, EndCall, ledgerVars
<1>14. ASSUME NEW w \in Workers, FinalizeSpend(w) PROVE EvidenceInv'
  <2>1. \A v \in Workers : EvidenceOf(v)'
    BY <1>14 DEF FinalizeSpend, Spending, EvidenceInv, SpendState, ledgerVars
  <2>2. QED
    BY <1>14, <2>1, EvidenceKept DEF FinalizeSpend, Spending, SpendState, ledgerVars
<1>15. ASSUME NEW w \in Workers, Crash(w) PROVE EvidenceInv'
  <2>1. \A v \in Workers : EvidenceOf(v)'
    BY <1>15 DEF Crash, EvidenceInv, EndCall, ledgerVars
  <2>2. QED
    BY <1>15, <2>1, EvidenceKept DEF Crash, EndCall, ledgerVars
<1>16. ASSUME NEW w \in Workers, NEW kept, Finish(w, kept) PROVE EvidenceInv'
  <2>1. \A v \in Workers : EvidenceOf(v)'
    BY <1>16 DEF Finish, EndCall, EvidenceInv
  <2>2. QED
    BY <1>16, <2>1, EvidenceKept DEF Finish, EndCall, ledgerVars
<1>17. ASSUME NEW s \in Slices, Admit(s) PROVE EvidenceInv'
  <2>1. \A v \in Workers : EvidenceOf(v)'
    BY <1>17 DEF Admit, EvidenceInv, workerVars
  <2>2. QED
    BY <1>17, <2>1, EvidenceKept DEF Admit, ledgerVars
<1>18. ASSUME NEW w \in Workers, WriteFinal(w) PROVE EvidenceInv'
  <2>1. \A v \in Workers : EvidenceOf(v)'
    BY <1>18 DEF WriteFinal, EndCall, EvidenceInv
  <2>2. /\ result[w].slice \in evidence \cap admitted
        /\ patch[w].previous_slice.evidence_refs \subseteq evidence
    BY <1>18 DEF WriteFinal, EvidenceInv
  <2>3. ReferencesDurable'
    BY <1>18, <2>2 DEF WriteFinal, ReferencesDurable, State
  <2>4. ASSUME NEW s \in Slices, charges'[s] > 0 PROVE (s \in evidence \cap admitted)'
    BY <1>18, <2>2, <2>4 DEF WriteFinal, EvidenceInv
  <2>5. QED
    BY <2>1, <2>3, <2>4 DEF EvidenceInv
<1>19. CASE \/ Tick \/ RetireMarker \/ NewWindow \/ UNCHANGED vars
            \/ \E g \in ChangingGates : ChangeGate(g)
            \/ \E i \in Positions : CompleteTodo(i)
  <2>1. UNCHANGED <<pc, snap, result, patch, evidence, admitted, charges>>
    BY <1>19 DEF Tick, RetireMarker, NewWindow, ChangeGate, CompleteTodo, ChangeState, vars,
               workerVars, ledgerVars
  <2>2. \A v \in Workers : EvidenceOf(v)'
    BY <2>1 DEF EvidenceInv
  <2>3. current'.previous_slice.evidence_refs \subseteq current.previous_slice.evidence_refs
    BY <1>19 DEF Tick, RetireMarker, NewWindow, ChangeGate, CompleteTodo, ChangeState, vars,
               State, NoPreviousSlice
  <2>4. QED
    BY <2>1, <2>2, <2>3, EvidenceKept
<1>20. ASSUME NEW w \in Workers,
          \/ FinalizeReplay(w) \/ FinalizeReprepare(w) \/ Acknowledge(w) \/ Abandon(w)
   PROVE  EvidenceInv'
  BY <1>20, <1>16 DEF FinalizeReplay, FinalizeReprepare, Acknowledge, Abandon
<1>21. ASSUME NEW w \in Workers,
             Prepare(w) \/ ExecuteSlice(w) \/ Finalize(w) \/ Writeback(w) \/ Crash(w) \/ Abandon(w)
      PROVE  EvidenceInv'
  BY <1>21, <1>1, <1>2, <1>3, <1>4, <1>5, <1>6, <1>7, <1>8, <1>9, <1>10, <1>11, <1>12, <1>13, <1>14, <1>15,
     <1>18, <1>20 DEF Prepare, Finalize, Writeback
<1>22. QED
  BY <1>17, <1>19, <1>21 DEF Next

\* Whatever finalize answers once it has captured, the raw evidence of the slice
\* is durable and the slice was admitted; so it is with every slice charged.
THEOREM EvidenceComesFirst == Spec => []EvidenceFirst
<1>1. EvidenceInv => EvidenceFirst
  BY DEF EvidenceInv, EvidenceFirst, EvidenceOf
<1>2. QED
  BY EvidenceInit, EvidenceStep, TypeCorrect, <1>1, PTL DEF Spec

\* The state refers to preserved evidence only.
THEOREM ReferencesAreDurable == Spec => []ReferencesDurable
<1>1. EvidenceInv => ReferencesDurable
  BY DEF EvidenceInv
<1>2. QED
  BY EvidenceInit, EvidenceStep, TypeCorrect, <1>1, PTL DEF Spec

-----------------------------------------------------------------------------
(* Tickets *)

\* A state no gate of which keeps a worker from running.
Open(s) ==
    /\ \A g \in GateNames : ~s.gate[g]
    /\ s.compute_share # 0
    /\ QuotaEligible(s)

\* With several workers, todo i of the state is leased to w.
Holds(w, s, i) == MultipleWorkers => s.todos[i].lease.owner = w

\* A ticket is issued to its worker for an open state in which the worker holds
\* the todo, and what finalize returns was computed from that very state.
TicketOf(w) ==
    /\ pc[w] \in Preparing => Open(snap[w])
    /\ pc[w] = "verifying" => Holds(w, snap[w], offer[w].todo)
    /\ ticket[w] # NoTicket =>
          /\ ticket[w].worker = w
          /\ Open(ticket[w].state)
          /\ \E i \in Positions : /\ ticket[w].todo = ticket[w].state.todos[i].id
                                  /\ Holds(w, ticket[w].state, i)
    /\ pc[w] \in Finalizing => result[w].todo = ticket[w].todo
    /\ pc[w] = "patching" => StateMatchesTicket(w)

TicketInv == \A w \in Workers : TicketOf(w)

LEMMA TicketInit == Init => TicketInv
BY DEF Init, TicketInv, TicketOf

\* The steps of other workers and of the rest of the world leave a ticket alone.
LEMMA TicketKept ==
    ASSUME NEW v \in Workers, TicketOf(v),
           pc'[v] = pc[v], snap'[v] = snap[v], offer'[v] = offer[v],
           ticket'[v] = ticket[v], result'[v] = result[v]
    PROVE  TicketOf(v)'
BY DEF TicketOf, StateMatchesTicket

LEMMA TicketStep ==
    ASSUME TypeOK, TicketInv, [Next]_vars
    PROVE  TicketInv'
<1>1. ASSUME NEW w \in Workers, PrepareEvaluate(w) PROVE TicketInv'
  <2>1. current \in State /\ Evaluate(current, Worker(w), now).should_run
    BY <1>1 DEF PrepareEvaluate, TypeOK
  <2>2. Open(current)
    BY <2>1, TodosOfState, RunsOnlyWhenOpen DEF Open
  <2>3. TicketOf(w)'
    BY <1>1, <2>2 DEF PrepareEvaluate, TicketInv, TicketOf, Holds, TypeOK
  <2>4. ASSUME NEW v \in Workers \ {w} PROVE TicketOf(v)'
    BY <1>1, TicketKept DEF PrepareEvaluate, TicketInv, TypeOK
  <2>5. QED
    BY <2>3, <2>4 DEF TicketInv
<1>2. ASSUME NEW w \in Workers, PrepareClaim(w) PROVE TicketInv'
  <2>1. TicketOf(w)'
    BY <1>2 DEF PrepareClaim, ClaimConfirmed, TicketInv, TicketOf, Holds, TypeOK
  <2>2. ASSUME NEW v \in Workers \ {w} PROVE TicketOf(v)'
    BY <1>2, TicketKept DEF PrepareClaim, TicketInv, TypeOK
  <2>3. QED
    BY <2>1, <2>2 DEF TicketInv
<1>3. ASSUME NEW w \in Workers, IssueTicket(w) PROVE TicketInv'
  <2>1. /\ Open(snap[w]) /\ Holds(w, snap[w], offer[w].todo)
        /\ offer[w].todo \in Positions /\ result'[w] = result[w]
    BY <1>3 DEF IssueTicket, TicketInv, TicketOf, TypeOK, HasWhatItNeeds
  <2>2. /\ ticket'[w] = [todo |-> snap[w].todos[offer[w].todo].id, worker |-> w,
                         state |-> snap[w]]
        /\ pc'[w] \in {"ticketed", "sliced"}
    BY <1>3 DEF IssueTicket, EndCall, TypeOK
  <2>3. TicketOf(w)'
    BY <2>1, <2>2 DEF TicketOf
  <2>4. ASSUME NEW v \in Workers \ {w} PROVE TicketOf(v)'
    BY <1>3, TicketKept DEF IssueTicket, EndCall, TicketInv, TypeOK
  <2>5. QED
    BY <2>3, <2>4 DEF TicketInv
<1>4. ASSUME NEW w \in Workers, PrepareReturns(w) PROVE TicketInv'
  <2>1. TicketOf(w)'
    BY <1>4 DEF PrepareReturns, EndCall, TicketInv, TicketOf, TypeOK, HasWhatItNeeds
  <2>2. ASSUME NEW v \in Workers \ {w} PROVE TicketOf(v)'
    BY <1>4, TicketKept DEF PrepareReturns, EndCall, TicketInv, TypeOK
  <2>3. QED
    BY <2>1, <2>2 DEF TicketInv
<1>5. ASSUME NEW w \in Workers, WriteClaim(w) PROVE TicketInv'
  <2>1. TicketOf(w)'
    BY <1>5 DEF WriteClaim, EndCall, TicketInv, TicketOf, TypeOK, HasWhatItNeeds
  <2>2. ASSUME NEW v \in Workers \ {w} PROVE TicketOf(v)'
    BY <1>5, TicketKept DEF WriteClaim, EndCall, TicketInv, TypeOK
  <2>3. QED
    BY <2>1, <2>2 DEF TicketInv
<1>6. ASSUME NEW w \in Workers, WriteFinal(w) PROVE TicketInv'
  <2>1. TicketOf(w)'
    BY <1>6 DEF WriteFinal, EndCall, TicketInv, TicketOf, TypeOK, HasWhatItNeeds
  <2>2. ASSUME NEW v \in Workers \ {w} PROVE TicketOf(v)'
    BY <1>6, TicketKept DEF WriteFinal, EndCall, TicketInv, TypeOK
  <2>3. QED
    BY <2>1, <2>2 DEF TicketInv
<1>7. ASSUME NEW w \in Workers, WriteRefused(w) PROVE TicketInv'
  <2>1. TicketOf(w)'
    BY <1>7 DEF WriteRefused, EndCall, TicketInv, TicketOf, TypeOK, HasWhatItNeeds
  <2>2. ASSUME NEW v \in Workers \ {w} PROVE TicketOf(v)'
    BY <1>7, TicketKept DEF WriteRefused, EndCall, TicketInv, TypeOK
  <2>3. QED
    BY <2>1, <2>2 DEF TicketInv
<1>8. ASSUME NEW w \in Workers, ExecuteSlice(w) PROVE TicketInv'
  <2>1. TicketOf(w)'
    BY <1>8 DEF ExecuteSlice, TicketInv, TicketOf, TypeOK, HasWhatItNeeds
  <2>2. ASSUME NEW v \in Workers \ {w} PROVE TicketOf(v)'
    BY <1>8, TicketKept DEF ExecuteSlice, TicketInv, TypeOK
  <2>3. QED
    BY <2>1, <2>2 DEF TicketInv
<1>9. ASSUME NEW w \in Workers, FinalizeBegin(w) PROVE TicketInv'
  <2>1. TicketOf(w)'
    BY <1>9 DEF FinalizeBegin, TicketInv, TicketOf, TypeOK, HasWhatItNeeds
  <2>2. ASSUME NEW v \in Workers \ {w} PROVE TicketOf(v)'
    BY <1>9, TicketKept DEF FinalizeBegin, TicketInv, TypeOK
  <2>3. QED
    BY <2>1, <2>2 DEF TicketInv
<1>10. ASSUME NEW w \in Workers, CaptureRaw(w) PROVE TicketInv'
  <2>1. TicketOf(w)'
    BY <1>10 DEF CaptureRaw, TicketInv, TicketOf, TypeOK, HasWhatItNeeds
  <2>2. ASSUME NEW v \in Workers \ {w} PROVE TicketOf(v)'
    BY <1>10, TicketKept DEF CaptureRaw, TicketInv, TypeOK
  <2>3. QED
    BY <2>1, <2>2 DEF TicketInv
<1>11. ASSUME NEW w \in Workers, CaptureFails(w) PROVE TicketInv'
  <2>1. TicketOf(w)'
    BY <1>11 DEF CaptureFails, EndCall, TicketInv, TicketOf, TypeOK, HasWhatItNeeds
  <2>2. ASSUME NEW v \in Workers \ {w} PROVE TicketOf(v)'
    BY <1>11, TicketKept DEF CaptureFails, EndCall, TicketInv, TypeOK
  <2>3. QED
    BY <2>1, <2>2 DEF TicketInv
<1>12. ASSUME NEW w \in Workers, CreateAtom(w) PROVE TicketInv'
  <2>1. TicketOf(w)'
    BY <1>12 DEF CreateAtom, TicketInv, TicketOf, TypeOK, HasWhatItNeeds
  <2>2. ASSUME NEW v \in Workers \ {w} PROVE TicketOf(v)'
    BY <1>12, TicketKept DEF CreateAtom, TicketInv, TypeOK
  <2>3. QED
    BY <2>1, <2>2 DEF TicketInv
<1>13. ASSUME NEW w \in Workers, CreateAtomFails(w) PROVE TicketInv'
  <2>1. TicketOf(w)'
    BY <1>13 DEF CreateAtomFails, EndCall, TicketInv, TicketOf, TypeOK, HasWhatItNeeds
  <2>2. ASSUME NEW v \in Workers \ {w} PROVE TicketOf(v)'
    BY <1>13, TicketKept DEF CreateAtomFails, EndCall, TicketInv, TypeOK
  <2>3. QED
    BY <2>1, <2>2 DEF TicketInv
<1>14. ASSUME NEW w \in Workers, FinalizeRefused(w) \/ SpendFails(w) PROVE TicketInv'
  <2>1. TicketOf(w)'
    BY <1>14 DEF FinalizeRefused, SpendFails, Spending, EndCall, TicketInv, TicketOf, TypeOK, HasWhatItNeeds
  <2>2. ASSUME NEW v \in Workers \ {w} PROVE TicketOf(v)'
    BY <1>14, TicketKept DEF FinalizeRefused, SpendFails, Spending, EndCall, TicketInv, TypeOK
  <2>3. QED
    BY <2>1, <2>2 DEF TicketInv
<1>15. ASSUME NEW w \in Workers, FinalizeSpend(w) PROVE TicketInv'
  <2>1. TicketOf(w)'
    BY <1>15 DEF FinalizeSpend, Spending, StateMatchesTicket, TicketInv, TicketOf, TypeOK, HasWhatItNeeds
  <2>2. ASSUME NEW v \in Workers \ {w} PROVE TicketOf(v)'
    BY <1>15, TicketKept DEF FinalizeSpend, Spending, StateMatchesTicket, TicketInv, TypeOK
  <2>3. QED
    BY <2>1, <2>2 DEF TicketInv
<1>16. ASSUME NEW w \in Workers, Crash(w) PROVE TicketInv'
  <2>1. TicketOf(w)'
    BY <1>16 DEF Crash, EndCall, TicketInv, TicketOf, TypeOK, HasWhatItNeeds
  <2>2. ASSUME NEW v \in Workers \ {w} PROVE TicketOf(v)'
    BY <1>16, TicketKept DEF Crash, EndCall, TicketInv, TypeOK
  <2>3. QED
    BY <2>1, <2>2 DEF TicketInv
<1>17. ASSUME NEW w \in Workers, NEW kept, Finish(w, kept) PROVE TicketInv'
  <2>1. TicketOf(w)'
    BY <1>17 DEF Finish, EndCall, TicketInv, TicketOf, TypeOK, HasWhatItNeeds
  <2>2. ASSUME NEW v \in Workers \ {w} PROVE TicketOf(v)'
    BY <1>17, TicketKept DEF Finish, EndCall, TicketInv, TypeOK
  <2>3. QED
    BY <2>1, <2>2 DEF TicketInv
<1>18. ASSUME NEW s \in Slices, Admit(s) PROVE TicketInv'
  <2>1. UNCHANGED workerVars
    BY <1>18 DEF Admit
  <2>2. ASSUME NEW v \in Workers PROVE TicketOf(v)'
    BY <2>1, TicketKept DEF TicketInv, workerVars
  <2>3. QED
    BY <2>2 DEF TicketInv
<1>19. CASE \/ Tick \/ RetireMarker \/ NewWindow \/ UNCHANGED vars
            \/ \E g \in ChangingGates : ChangeGate(g)
            \/ \E i \in Positions : CompleteTodo(i)
  <2>1. UNCHANGED workerVars
    BY <1>19 DEF Tick, RetireMarker, NewWindow, ChangeGate, CompleteTodo, ChangeState, vars
  <2>2. ASSUME NEW v \in Workers PROVE TicketOf(v)'
    BY <2>1, TicketKept DEF TicketInv, workerVars
  <2>3. QED
    BY <2>2 DEF TicketInv
<1>20. ASSUME NEW w \in Workers,
             FinalizeReplay(w) \/ FinalizeReprepare(w) \/ Acknowledge(w) \/ Abandon(w)
      PROVE  TicketInv'
  BY <1>20, <1>17 DEF FinalizeReplay, FinalizeReprepare, Acknowledge, Abandon
<1>21. ASSUME NEW w \in Workers,
             Prepare(w) \/ ExecuteSlice(w) \/ Finalize(w) \/ Writeback(w) \/ Crash(w) \/ Abandon(w)
      PROVE  TicketInv'
  BY <1>21, <1>1, <1>2, <1>3, <1>4, <1>5, <1>6, <1>7, <1>8, <1>9,
     <1>10, <1>11, <1>12, <1>13, <1>14, <1>15, <1>16, <1>20
     DEF Prepare, Finalize, Writeback
<1>22. QED
  BY <1>18, <1>19, <1>21 DEF Next

-----------------------------------------------------------------------------
(* The total *)

\* What finalize returns is the total of the state it was handed plus the slots
\* of the slice, within that state's quota; and the state's quota is fixed.
TotalOf(w) ==
    /\ pc[w] \in Preparing \cup Finalizing =>
          snap[w].allowed_slots = InitialState.allowed_slots
    /\ pc[w] = "patching" =>
          /\ patch[w].spent_slots = snap[w].spent_slots + patch[w].slots
          /\ patch[w].spent_slots <= InitialState.allowed_slots
          /\ patch[w].slots \in SlotCounts \ {0}

TotalInv ==
    /\ current.allowed_slots = InitialState.allowed_slots
    /\ SpentIsCharged
    /\ WithinQuota
    /\ \A w \in Workers : TotalOf(w)

LEMMA TotalInit == Init => TotalInv
<1> SUFFICES ASSUME Init PROVE TotalInv
  OBVIOUS
<1>1. \A w \in Workers : TotalOf(w)
  BY DEF Init, TotalOf
<1>2. QED
  BY <1>1, ConstantsOK DEF Init, TotalInv, SpentIsCharged, WithinQuota

LEMMA TotalKept ==
    ASSUME TotalInv, current'.allowed_slots = current.allowed_slots,
           current'.spent_slots = current.spent_slots, windowTotal' = windowTotal,
           \A w \in Workers : TotalOf(w)'
    PROVE  TotalInv'
BY DEF TotalInv, SpentIsCharged, WithinQuota

LEMMA QuotaOfState ==
    ASSUME NEW s \in State
    PROVE  AllowedSlots(s) = s.allowed_slots
BY DEF State, AllowedSlots, Unset

LEMMA TotalStep ==
    ASSUME StoreCompares, TypeOK, TotalInv, [Next]_vars
    PROVE  TotalInv'
<1>1. ASSUME NEW w \in Workers, PrepareEvaluate(w) PROVE TotalInv'
  <2>1. \A v \in Workers : TotalOf(v)'
    BY <1>1 DEF PrepareEvaluate, TotalInv, TotalOf, TypeOK
  <2>2. QED
    BY <1>1, <2>1, TotalKept DEF PrepareEvaluate, ledgerVars
<1>2. ASSUME NEW w \in Workers, PrepareClaim(w) PROVE TotalInv'
  <2>1. \A v \in Workers : TotalOf(v)'
    BY <1>2 DEF PrepareClaim, TotalInv, TotalOf, TypeOK
  <2>2. QED
    BY <1>2, <2>1, TotalKept DEF PrepareClaim, ledgerVars
<1>3. ASSUME NEW w \in Workers, IssueTicket(w) PROVE TotalInv'
  <2>1. \A v \in Workers : TotalOf(v)'
    BY <1>3 DEF IssueTicket, EndCall, TotalInv, TotalOf, TypeOK
  <2>2. QED
    BY <1>3, <2>1, TotalKept DEF IssueTicket, EndCall, ledgerVars
<1>4. ASSUME NEW w \in Workers, PrepareReturns(w) PROVE TotalInv'
  <2>1. \A v \in Workers : TotalOf(v)'
    BY <1>4 DEF PrepareReturns, EndCall, TotalInv, TotalOf, TypeOK
  <2>2. QED
    BY <1>4, <2>1, TotalKept DEF PrepareReturns, EndCall, ledgerVars
<1>5. ASSUME NEW w \in Workers, WriteClaim(w) PROVE TotalInv'
  <2>1. \A v \in Workers : TotalOf(v)'
    BY <1>5 DEF WriteClaim, EndCall, TotalInv, TotalOf, TypeOK
  <2>2. current' = [current EXCEPT !.todos[offer[w].todo].lease = offer[w].lease,
                                   !.todos[offer[w].todo].status = "claimed"]
    BY <1>5 DEF WriteClaim
  <2>3. current'.allowed_slots = current.allowed_slots /\ current'.spent_slots = current.spent_slots
    BY <2>2 DEF TypeOK, State
  <2>4. QED
    BY <1>5, <2>1, <2>3, TotalKept DEF WriteClaim, ledgerVars
<1>6. ASSUME NEW w \in Workers, WriteFinal(w) PROVE TotalInv'
  <2>1. \A v \in Workers : TotalOf(v)'
    BY <1>6 DEF WriteFinal, EndCall, TotalInv, TotalOf, TypeOK
  <2>2. /\ patch[w].spent_slots = current.spent_slots + patch[w].slots
        /\ patch[w].spent_slots <= InitialState.allowed_slots
    BY <1>6 DEF WriteFinal, Accepts, TotalInv, TotalOf
  <2>3. current'.spent_slots = patch[w].spent_slots /\ current'.allowed_slots = current.allowed_slots
    BY <1>6 DEF WriteFinal, TypeOK, State
  <2>4. windowTotal' = windowTotal + patch[w].slots
    BY <1>6 DEF WriteFinal
  <2>5. QED
    BY <2>1, <2>2, <2>3, <2>4 DEF TotalInv, SpentIsCharged, WithinQuota
<1>7. ASSUME NEW w \in Workers, WriteRefused(w) PROVE TotalInv'
  <2>1. \A v \in Workers : TotalOf(v)'
    BY <1>7 DEF WriteRefused, EndCall, TotalInv, TotalOf, TypeOK
  <2>2. QED
    BY <1>7, <2>1, TotalKept DEF WriteRefused, EndCall, ledgerVars
<1>8. ASSUME NEW w \in Workers, ExecuteSlice(w) PROVE TotalInv'
  <2>1. \A v \in Workers : TotalOf(v)'
    BY <1>8 DEF ExecuteSlice, TotalInv, TotalOf, TypeOK
  <2>2. QED
    BY <1>8, <2>1, TotalKept DEF ExecuteSlice, ledgerVars
<1>9. ASSUME NEW w \in Workers, FinalizeBegin(w) PROVE TotalInv'
  <2>1. \A v \in Workers : TotalOf(v)'
    BY <1>9 DEF FinalizeBegin, TotalInv, TotalOf, TypeOK
  <2>2. QED
    BY <1>9, <2>1, TotalKept DEF FinalizeBegin, ledgerVars
<1>10. ASSUME NEW w \in Workers, CaptureRaw(w) PROVE TotalInv'
  <2>1. \A v \in Workers : TotalOf(v)'
    BY <1>10 DEF CaptureRaw, TotalInv, TotalOf, TypeOK
  <2>2. QED
    BY <1>10, <2>1, TotalKept DEF CaptureRaw, ledgerVars
<1>11. ASSUME NEW w \in Workers, CaptureFails(w) PROVE TotalInv'
  <2>1. \A v \in Workers : TotalOf(v)'
    BY <1>11 DEF CaptureFails, EndCall, TotalInv, TotalOf, TypeOK
  <2>2. QED
    BY <1>11, <2>1, TotalKept DEF CaptureFails, EndCall, ledgerVars
<1>12. ASSUME NEW w \in Workers, CreateAtom(w) PROVE TotalInv'
  <2>1. \A v \in Workers : TotalOf(v)'
    BY <1>12 DEF CreateAtom, TotalInv, TotalOf, TypeOK
  <2>2. QED
    BY <1>12, <2>1, TotalKept DEF CreateAtom, ledgerVars
<1>13. ASSUME NEW w \in Workers, CreateAtomFails(w) PROVE TotalInv'
  <2>1. \A v \in Workers : TotalOf(v)'
    BY <1>13 DEF CreateAtomFails, EndCall, TotalInv, TotalOf, TypeOK
  <2>2. QED
    BY <1>13, <2>1, TotalKept DEF CreateAtomFails, EndCall, ledgerVars
<1>14. ASSUME NEW w \in Workers, FinalizeRefused(w) \/ SpendFails(w) PROVE TotalInv'
  <2>1. \A v \in Workers : TotalOf(v)'
    BY <1>14 DEF FinalizeRefused, SpendFails, Spending, EndCall, TotalInv, TotalOf, TypeOK
  <2>2. QED
    BY <1>14, <2>1, TotalKept DEF FinalizeRefused, SpendFails, Spending, EndCall, ledgerVars
<1>15. ASSUME NEW w \in Workers, FinalizeSpend(w) PROVE TotalInv'
  <2>1. snap[w] \in State /\ result[w].slice \in Slices
    BY <1>15 DEF FinalizeSpend, Spending, TypeOK, HasWhatItNeeds
  <2>2. /\ SpendState(w) \in State
        /\ SpendState(w).spent_slots = snap[w].spent_slots
        /\ SpendState(w).allowed_slots = snap[w].allowed_slots
    BY <2>1, SpendStateType DEF SpendState, State
  <2> DEFINE slots == result[w].slots
  <2>3. /\ slots \in SlotCounts \ {0} /\ slots \in Nat
        /\ SpendRefusal(SpendState(w), slots) = "none"
        /\ patch'[w].spent_slots = SpentAfter(SpendState(w), slots)
        /\ patch'[w].slots = slots
    BY <1>15, ConstantsOK DEF FinalizeSpend, Spending, TypeOK, Result
  <2> HIDE DEF slots
  <2>4. SpendState(w).spent_slots + slots <= AllowedSlots(SpendState(w))
    <3>1. ~(SpendState(w).spent_slots + slots > AllowedSlots(SpendState(w)))
      BY <2>3 DEF SpendRefusal
    <3>2. AllowedSlots(SpendState(w)) \in Nat /\ SpendState(w).spent_slots \in Nat
      BY <2>2, QuotaOfState, TodosOfState
    <3>3. QED
      BY <2>3, <3>1, <3>2
  <2>5. TotalOf(w)'
    <3>1. snap[w].allowed_slots = InitialState.allowed_slots
      BY <1>15 DEF FinalizeSpend, Spending, TotalInv, TotalOf
    <3>2. snap' = snap
      BY <1>15 DEF FinalizeSpend, Spending
    <3>3. QED
      BY <2>2, <2>3, <2>4, <3>1, <3>2, QuotaOfState DEF TotalOf, SpentAfter
  <2>6. ASSUME NEW v \in Workers \ {w} PROVE TotalOf(v)'
    BY <1>15 DEF FinalizeSpend, Spending, TotalInv, TotalOf, TypeOK
  <2>7. QED
    BY <1>15, <2>5, <2>6, TotalKept DEF FinalizeSpend, Spending, ledgerVars
<1>16. ASSUME NEW w \in Workers, Crash(w) PROVE TotalInv'
  <2>1. \A v \in Workers : TotalOf(v)'
    BY <1>16 DEF Crash, EndCall, TotalInv, TotalOf, TypeOK
  <2>2. QED
    BY <1>16, <2>1, TotalKept DEF Crash, EndCall, ledgerVars
<1>17. ASSUME NEW w \in Workers, NEW kept, Finish(w, kept) PROVE TotalInv'
  <2>1. \A v \in Workers : TotalOf(v)'
    BY <1>17 DEF Finish, EndCall, TotalInv, TotalOf, TypeOK
  <2>2. QED
    BY <1>17, <2>1, TotalKept DEF Finish, EndCall, ledgerVars
<1>18. ASSUME NEW s \in Slices, Admit(s) PROVE TotalInv'
  <2>1. \A v \in Workers : TotalOf(v)'
    BY <1>18 DEF Admit, workerVars, TotalInv, TotalOf, TypeOK
  <2>2. QED
    BY <1>18, <2>1, TotalKept DEF Admit, workerVars, ledgerVars
<1>19. CASE \/ Tick \/ RetireMarker \/ NewWindow \/ UNCHANGED vars
            \/ \E g \in ChangingGates : ChangeGate(g)
            \/ \E i \in Positions : CompleteTodo(i)
  <2>1. UNCHANGED workerVars
    BY <1>19 DEF Tick, RetireMarker, NewWindow, ChangeGate, CompleteTodo, ChangeState, vars
  <2>2. \A v \in Workers : TotalOf(v)'
    BY <2>1 DEF TotalInv, TotalOf, workerVars
  <2>3. CASE NewWindow
    BY <2>2, <2>3, ConstantsOK DEF NewWindow, ChangeState, TotalInv, SpentIsCharged, WithinQuota,
                                   TypeOK, State
  <2>4. CASE ~NewWindow
    <3>1. /\ current'.allowed_slots = current.allowed_slots
          /\ current'.spent_slots = current.spent_slots
          /\ windowTotal' = windowTotal
      BY <1>19, <2>4 DEF Tick, RetireMarker, ChangeGate, CompleteTodo, ChangeState, vars, ledgerVars,
                        TypeOK, State
    <3>2. QED
      BY <2>2, <3>1, TotalKept
  <2>5. QED
    BY <2>3, <2>4
<1>20. ASSUME NEW w \in Workers,
             FinalizeReplay(w) \/ FinalizeReprepare(w) \/ Acknowledge(w) \/ Abandon(w)
      PROVE  TotalInv'
  BY <1>20, <1>17 DEF FinalizeReplay, FinalizeReprepare, Acknowledge, Abandon
<1>21. ASSUME NEW w \in Workers,
             Prepare(w) \/ ExecuteSlice(w) \/ Finalize(w) \/ Writeback(w) \/ Crash(w) \/ Abandon(w)
      PROVE  TotalInv'
  BY <1>21, <1>1, <1>2, <1>3, <1>4, <1>5, <1>6, <1>7, <1>8, <1>9,
     <1>10, <1>11, <1>12, <1>13, <1>14, <1>15, <1>16, <1>20
     DEF Prepare, Finalize, Writeback
<1>22. QED
  BY <1>18, <1>19, <1>21 DEF Next

\* Where the store refuses a writeback computed from another state, the total in
\* the state is the sum of what was charged in the window: no accounting is lost
\* to a concurrent one and none counts twice, although patches carry totals.
THEOREM TotalIsSumOfCharges == ASSUME StoreCompares PROVE Spec => []SpentIsCharged
<1>1. TotalInv => SpentIsCharged
  BY DEF TotalInv
<1>2. TypeOK /\ TotalInv /\ [Next]_vars => TotalInv'
  BY TotalStep
<1>3. QED
  BY TotalInit, <1>1, <1>2, TypeCorrect, PTL DEF Spec

\* And then the quota is never overspent.
THEOREM NeverOverspent == ASSUME StoreCompares PROVE Spec => []WithinQuota
<1>1. TotalInv => WithinQuota
  BY DEF TotalInv
<1>2. TypeOK /\ TotalInv /\ [Next]_vars => TotalInv'
  BY TotalStep
<1>3. QED
  BY TotalInit, <1>1, <1>2, TypeCorrect, PTL DEF Spec

-----------------------------------------------------------------------------
(* Once *)

\* The id of a spend is none, or the slice of a charge that was made.
Known(id) == id = NoSlice \/ (id \in Slices /\ charges[id] > 0)

\* The worker has a slice only after its execution.  Once the slice is charged
\* its ticket names an earlier last spend than the state does: the state can
\* never be the ticket's again.
OnceOf(w) ==
    /\ pc[w] \in {"idle", "ticketed"} \cup Preparing => result[w] = NoResult
    /\ pc[w] \in Preparing \cup Finalizing => Known(snap[w].last_quota_spend_id)
    /\ ticket[w] # NoTicket => Known(ticket[w].state.last_quota_spend_id)
    /\ pc[w] = "patching" => patch[w].last_quota_spend_id = result[w].slice
    /\ result[w] # NoResult /\ charges[result[w].slice] > 0
          => ticket[w].state.last_quota_spend_id # current.last_quota_spend_id

OnceInv ==
    /\ ChargedAtMostOnce
    /\ \A s \in Slices : charges[s] > 0 => s \in begun
    /\ Known(current.last_quota_spend_id)
    /\ \A v, w \in Workers :
          v # w /\ result[v] # NoResult /\ result[w] # NoResult
             => result[v].slice # result[w].slice
    /\ \A w \in Workers : OnceOf(w)

LEMMA OnceInit == Init => OnceInv
<1> SUFFICES ASSUME Init PROVE OnceInv
  OBVIOUS
<1>1. \A w \in Workers : OnceOf(w)
  BY DEF Init, OnceOf
<1>2. Known(current.last_quota_spend_id)
  BY ConstantsOK DEF Init, Known
<1>3. QED
  BY <1>1, <1>2 DEF Init, OnceInv, ChargedAtMostOnce

\* Steps that charge nothing and start no slice.
LEMMA OnceKept ==
    ASSUME OnceInv, charges' = charges, begun \subseteq begun',
           current'.last_quota_spend_id = current.last_quota_spend_id,
           \A w \in Workers : result'[w] \in {result[w], NoResult},
           \A w \in Workers : OnceOf(w)'
    PROVE  OnceInv'
BY DEF OnceInv, ChargedAtMostOnce, Known

LEMMA OnceStep ==
    ASSUME StoreCompares, ~Resubmits, TypeOK, TicketInv, OnceInv, [Next]_vars
    PROVE  OnceInv'
<1>1. ASSUME NEW w \in Workers, PrepareEvaluate(w) PROVE OnceInv'
  <2>1. \A v \in Workers : OnceOf(v)'
    BY <1>1 DEF PrepareEvaluate, OnceInv, OnceOf, Known, TypeOK, HasWhatItNeeds, ledgerVars
  <2>2. QED
    BY <1>1, <2>1, OnceKept DEF PrepareEvaluate, TypeOK, ledgerVars
<1>2. ASSUME NEW w \in Workers, PrepareClaim(w) PROVE OnceInv'
  <2>1. \A v \in Workers : OnceOf(v)'
    BY <1>2 DEF PrepareClaim, OnceInv, OnceOf, Known, TypeOK, HasWhatItNeeds, ledgerVars
  <2>2. QED
    BY <1>2, <2>1, OnceKept DEF PrepareClaim, TypeOK, ledgerVars
<1>3. ASSUME NEW w \in Workers, IssueTicket(w) PROVE OnceInv'
  <2>1. \A v \in Workers : OnceOf(v)'
    BY <1>3 DEF IssueTicket, EndCall, OnceInv, OnceOf, Known, TypeOK, HasWhatItNeeds, ledgerVars
  <2>2. QED
    BY <1>3, <2>1, OnceKept DEF IssueTicket, EndCall, TypeOK, ledgerVars
<1>4. ASSUME NEW w \in Workers, PrepareReturns(w) PROVE OnceInv'
  <2>1. \A v \in Workers : OnceOf(v)'
    BY <1>4 DEF PrepareReturns, EndCall, OnceInv, OnceOf, Known, TypeOK, HasWhatItNeeds, ledgerVars
  <2>2. QED
    BY <1>4, <2>1, OnceKept DEF PrepareReturns, EndCall, TypeOK, ledgerVars
<1>5. ASSUME NEW w \in Workers, WriteClaim(w) PROVE OnceInv'
  <2>1. current'.last_quota_spend_id = current.last_quota_spend_id
    <3>1. current' = [current EXCEPT !.todos[offer[w].todo].lease = offer[w].lease,
                                     !.todos[offer[w].todo].status = "claimed"]
      BY <1>5 DEF WriteClaim
    <3>2. QED
      BY <3>1 DEF TypeOK, State
  <2>2. \A v \in Workers : OnceOf(v)'
    BY <1>5, <2>1 DEF WriteClaim, EndCall, OnceInv, OnceOf, Known, TypeOK, HasWhatItNeeds, ledgerVars
  <2>3. QED
    BY <1>5, <2>1, <2>2, OnceKept DEF WriteClaim, EndCall, TypeOK, ledgerVars
<1>6. ASSUME NEW w \in Workers, WriteFinal(w) PROVE OnceInv'
  <2> DEFINE s == result[w].slice
  <2>1. /\ pc[w] = "patching" /\ s \in Slices /\ s \in begun /\ result[w] # NoResult
        /\ ticket[w] \in Ticket
    BY <1>6 DEF WriteFinal, TypeOK, HasWhatItNeeds
  <2>2. ticket[w].state = current
    BY <1>6 DEF WriteFinal, Accepts, TicketInv, TicketOf, StateMatchesTicket
  <2>3. charges[s] = 0
    BY <2>1, <2>2 DEF OnceInv, OnceOf, TypeOK
  <2>4. s # NoSlice
    BY <2>1, ConstantsOK
  <2>5. patch[w].last_quota_spend_id = s
    BY <2>1 DEF OnceInv, OnceOf
  <2>6. /\ current'.last_quota_spend_id = s
        /\ charges' = [charges EXCEPT ![s] = charges[s] + 1]
        /\ begun' = begun /\ result' = result /\ ticket' = ticket
        /\ EndCall(w, "written")
    BY <1>6, <2>5 DEF WriteFinal, TypeOK, State
  <2>7. /\ charges'[s] = 1
        /\ \A r \in Slices : r # s => charges'[r] = charges[r]
    BY <2>1, <2>3, <2>6 DEF TypeOK
  <2> HIDE DEF s
  <2>8. ASSUME NEW id, id = NoSlice \/ (id \in Slices /\ charges[id] > 0)
        PROVE  id # s /\ (id = NoSlice \/ (id \in Slices /\ charges'[id] > 0))
    BY <2>3, <2>4, <2>7, <2>8 DEF TypeOK
  <2>9. ASSUME NEW v \in Workers PROVE OnceOf(v)'
    <3>1. /\ pc'[v] \in {"idle", "ticketed"} \cup Preparing => result'[v] = NoResult
          /\ pc'[v] = "patching" => patch'[v].last_quota_spend_id = result'[v].slice
      BY <2>6 DEF EndCall, OnceInv, OnceOf, TypeOK
    <3>2. /\ pc'[v] \in Preparing \cup Finalizing => Known(snap'[v].last_quota_spend_id)
          /\ ticket[v] # NoTicket => Known(ticket[v].state.last_quota_spend_id)
      BY <2>6 DEF EndCall, OnceInv, OnceOf, TypeOK
    <3>3. ASSUME result[v] # NoResult, charges'[result[v].slice] > 0
          PROVE  ticket[v].state.last_quota_spend_id # s
      <4>1. ticket[v] \in Ticket
        BY <3>3 DEF OnceInv, OnceOf, TypeOK, HasWhatItNeeds
      <4>2. Known(ticket[v].state.last_quota_spend_id)
        BY <4>1, <3>2, ConstantsOK
      <4>3. QED
        BY <4>2, <2>8 DEF Known
    <3>4. /\ pc'[v] \in Preparing \cup Finalizing => Known(snap[v].last_quota_spend_id)'
          /\ ticket'[v] # NoTicket => Known(ticket[v].state.last_quota_spend_id)'
      BY <3>2, <2>8, <2>6 DEF Known
    <3>5. QED
      BY <3>1, <3>3, <3>4, <2>6 DEF OnceOf
  <2>10. ChargedAtMostOnce' /\ \A r \in Slices : charges'[r] > 0 => r \in begun'
    BY <2>1, <2>6, <2>7 DEF OnceInv, ChargedAtMostOnce
  <2>11. Known(current.last_quota_spend_id)'
    BY <2>1, <2>6, <2>7 DEF Known
  <2>12. QED
    BY <2>6, <2>9, <2>10, <2>11 DEF OnceInv
<1>7. ASSUME NEW w \in Workers, WriteRefused(w) PROVE OnceInv'
  <2>1. \A v \in Workers : OnceOf(v)'
    BY <1>7 DEF WriteRefused, EndCall, OnceInv, OnceOf, Known, TypeOK, HasWhatItNeeds, ledgerVars
  <2>2. QED
    BY <1>7, <2>1, OnceKept DEF WriteRefused, EndCall, TypeOK, ledgerVars
<1>8. ASSUME NEW w \in Workers, ExecuteSlice(w) PROVE OnceInv'
  <2>1. PICK s \in Slices \ begun, n \in SlotCounts :
           /\ begun' = begun \cup {s}
           /\ result' = [result EXCEPT ![w] =
                            [slice |-> s, todo |-> ticket[w].todo, slots |-> n]]
    BY <1>8 DEF ExecuteSlice
  <2>2. ~(charges[s] > 0)
    BY <2>1 DEF OnceInv
  <2>3. UNCHANGED <<current, snap, ticket, patch, charges>> /\ pc' = [pc EXCEPT ![w] = "sliced"]
    BY <1>8 DEF ExecuteSlice, ledgerVars
  <2>4. ASSUME NEW v \in Workers PROVE OnceOf(v)'
    <3>1. CASE v = w
      BY <1>8, <2>1, <2>2, <2>3, <3>1 DEF ExecuteSlice, OnceInv, OnceOf, Known, TypeOK
    <3>2. CASE v # w
      BY <2>1, <2>3, <3>2 DEF OnceInv, OnceOf, Known, TypeOK
    <3>3. QED
      BY <3>1, <3>2
  <2>5. ASSUME NEW u \in Workers, NEW v \in Workers, u # v,
               result'[u] # NoResult, result'[v] # NoResult
        PROVE  result'[u].slice # result'[v].slice
    BY <2>1, <2>5 DEF OnceInv, TypeOK, HasWhatItNeeds
  <2>6. QED
    BY <2>1, <2>3, <2>4, <2>5 DEF OnceInv, ChargedAtMostOnce, Known
<1>9. ASSUME NEW w \in Workers, FinalizeBegin(w) PROVE OnceInv'
  <2>1. \A v \in Workers : OnceOf(v)'
    BY <1>9 DEF FinalizeBegin, OnceInv, OnceOf, Known, TypeOK, HasWhatItNeeds, ledgerVars
  <2>2. QED
    BY <1>9, <2>1, OnceKept DEF FinalizeBegin, TypeOK, ledgerVars
<1>10. ASSUME NEW w \in Workers, CaptureRaw(w) PROVE OnceInv'
  <2>1. \A v \in Workers : OnceOf(v)'
    BY <1>10 DEF CaptureRaw, OnceInv, OnceOf, Known, TypeOK, HasWhatItNeeds, ledgerVars
  <2>2. QED
    BY <1>10, <2>1, OnceKept DEF CaptureRaw, TypeOK, ledgerVars
<1>11. ASSUME NEW w \in Workers, CaptureFails(w) PROVE OnceInv'
  <2>1. \A v \in Workers : OnceOf(v)'
    BY <1>11 DEF CaptureFails, EndCall, OnceInv, OnceOf, Known, TypeOK, HasWhatItNeeds, ledgerVars
  <2>2. QED
    BY <1>11, <2>1, OnceKept DEF CaptureFails, EndCall, TypeOK, ledgerVars
<1>12. ASSUME NEW w \in Workers, CreateAtom(w) PROVE OnceInv'
  <2>1. \A v \in Workers : OnceOf(v)'
    BY <1>12 DEF CreateAtom, OnceInv, OnceOf, Known, TypeOK, HasWhatItNeeds, ledgerVars
  <2>2. QED
    BY <1>12, <2>1, OnceKept DEF CreateAtom, TypeOK, ledgerVars
<1>13. ASSUME NEW w \in Workers, CreateAtomFails(w) PROVE OnceInv'
  <2>1. \A v \in Workers : OnceOf(v)'
    BY <1>13 DEF CreateAtomFails, EndCall, OnceInv, OnceOf, Known, TypeOK, HasWhatItNeeds, ledgerVars
  <2>2. QED
    BY <1>13, <2>1, OnceKept DEF CreateAtomFails, EndCall, TypeOK, ledgerVars
<1>14. ASSUME NEW w \in Workers, FinalizeRefused(w) \/ SpendFails(w) PROVE OnceInv'
  <2>1. \A v \in Workers : OnceOf(v)'
    BY <1>14 DEF FinalizeRefused, SpendFails, Spending, EndCall, OnceInv, OnceOf, Known, TypeOK, HasWhatItNeeds, ledgerVars
  <2>2. QED
    BY <1>14, <2>1, OnceKept DEF FinalizeRefused, SpendFails, Spending, EndCall, TypeOK, ledgerVars
<1>15. ASSUME NEW w \in Workers, FinalizeSpend(w) PROVE OnceInv'
  <2>1. \A v \in Workers : OnceOf(v)'
    BY <1>15 DEF FinalizeSpend, Spending, SpendId, OnceInv, OnceOf, Known, TypeOK, HasWhatItNeeds, ledgerVars
  <2>2. QED
    BY <1>15, <2>1, OnceKept DEF FinalizeSpend, Spending, SpendId, TypeOK, ledgerVars
<1>16. ASSUME NEW w \in Workers, Crash(w) PROVE OnceInv'
  <2>1. \A v \in Workers : OnceOf(v)'
    BY <1>16 DEF Crash, EndCall, OnceInv, OnceOf, Known, TypeOK, HasWhatItNeeds, ledgerVars
  <2>2. QED
    BY <1>16, <2>1, OnceKept DEF Crash, EndCall, TypeOK, ledgerVars
<1>17. ASSUME NEW w \in Workers, NEW kept, Finish(w, kept), kept = NoResult \/ (Resubmits /\ kept = result[w]) PROVE OnceInv'
  <2>1. \A v \in Workers : OnceOf(v)'
    BY <1>17 DEF Finish, EndCall, OnceInv, OnceOf, Known, TypeOK, HasWhatItNeeds, ledgerVars
  <2>2. QED
    BY <1>17, <2>1, OnceKept DEF Finish, EndCall, TypeOK, ledgerVars
<1>18. ASSUME NEW s \in Slices, Admit(s) PROVE OnceInv'
  <2>1. \A v \in Workers : OnceOf(v)'
    BY <1>18 DEF Admit, workerVars, OnceInv, OnceOf, Known, TypeOK, HasWhatItNeeds, ledgerVars
  <2>2. QED
    BY <1>18, <2>1, OnceKept DEF Admit, workerVars, TypeOK, ledgerVars
<1>19. CASE \/ Tick \/ RetireMarker \/ NewWindow \/ UNCHANGED vars
            \/ \E g \in ChangingGates : ChangeGate(g)
            \/ \E i \in Positions : CompleteTodo(i)
  <2>1. UNCHANGED <<pc, snap, ticket, result, patch, begun, charges>>
    BY <1>19 DEF Tick, RetireMarker, NewWindow, ChangeGate, CompleteTodo, ChangeState, vars,
               workerVars, ledgerVars
  <2>2. current'.last_quota_spend_id = current.last_quota_spend_id
    BY <1>19 DEF Tick, RetireMarker, NewWindow, ChangeGate, CompleteTodo, ChangeState, vars,
               TypeOK, State
  <2>3. \A v \in Workers : OnceOf(v)'
    BY <2>1, <2>2 DEF OnceInv, OnceOf, Known
  <2>4. QED
    BY <2>1, <2>2, <2>3, OnceKept
<1>20. ASSUME NEW w \in Workers,
             FinalizeReplay(w) \/ FinalizeReprepare(w) \/ Acknowledge(w) \/ Abandon(w)
      PROVE  OnceInv'
  BY <1>20, <1>17 DEF FinalizeReplay, FinalizeReprepare, Acknowledge, Abandon
<1>21. ASSUME NEW w \in Workers,
             Prepare(w) \/ ExecuteSlice(w) \/ Finalize(w) \/ Writeback(w) \/ Crash(w) \/ Abandon(w)
      PROVE  OnceInv'
  BY <1>21, <1>1, <1>2, <1>3, <1>4, <1>5, <1>6, <1>7, <1>8, <1>9,
     <1>10, <1>11, <1>12, <1>13, <1>14, <1>15, <1>16, <1>20
     DEF Prepare, Finalize, Writeback
<1>22. QED
  BY <1>18, <1>19, <1>21 DEF Next

\* Where the store refuses a writeback computed from another state, and no worker
\* finalizes a slice again under a new ticket, a slice is charged at most once,
\* after any number of crashes, retries, retired markers and quota windows.
THEOREM ChargedOnce == ASSUME StoreCompares, ~Resubmits PROVE Spec => []ChargedAtMostOnce
<1>1. OnceInv => ChargedAtMostOnce
  BY DEF OnceInv
<1>2. TypeOK /\ TicketInv /\ [Next]_vars => TicketInv'
  BY TicketStep
<1>3. TypeOK /\ TicketInv /\ OnceInv /\ [Next]_vars => OnceInv'
  BY OnceStep
<1>4. QED
  BY TicketInit, OnceInit, <1>1, <1>2, <1>3, TypeCorrect, PTL DEF Spec

-----------------------------------------------------------------------------
(* Justification *)

\* Only the writeback of a finalization charges, and it charges one slice.
LEMMA OnlyWritebackCharges ==
    ASSUME TypeOK, [Next]_vars, charges' # charges
    PROVE  \E w \in Workers : WriteFinal(w)
<1>1. ASSUME NEW w \in Workers,
             \/ Prepare(w) \/ ExecuteSlice(w) \/ Finalize(w) \/ Crash(w) \/ Abandon(w)
             \/ WriteClaim(w) \/ WriteRefused(w) \/ Acknowledge(w)
      PROVE  charges' = charges
  BY <1>1 DEF Prepare, PrepareEvaluate, PrepareClaim, IssueTicket, PrepareReturns, ExecuteSlice,
              Finalize, FinalizeBegin, CaptureRaw, CaptureFails, CreateAtom, CreateAtomFails,
              FinalizeReplay, FinalizeReprepare, FinalizeRefused, SpendFails, Spending, FinalizeSpend, Crash, Abandon,
              WriteClaim, WriteRefused, Acknowledge, Finish, ledgerVars
<1>2. ~ \/ Tick \/ RetireMarker \/ NewWindow \/ UNCHANGED vars
        \/ \E s \in Slices : Admit(s)
        \/ \E g \in ChangingGates : ChangeGate(g)
        \/ \E i \in Positions : CompleteTodo(i)
  BY DEF Tick, RetireMarker, NewWindow, ChangeGate, CompleteTodo, ChangeState, Admit, vars, ledgerVars
<1>3. QED
  BY <1>1, <1>2 DEF Next, Writeback

LEMMA ChargeStep ==
    ASSUME StoreCompares, TypeOK, TicketInv, [Next]_vars,
           NEW s \in Slices, charges'[s] # charges[s]
    PROVE  /\ \A g \in GateNames : ~current.gate[g]
           /\ current.compute_share > 0
           /\ MultipleWorkers =>
                 \E w \in Workers, i \in Positions :
                    /\ result[w].slice = s /\ result[w].todo = current.todos[i].id
                    /\ current.todos[i].lease.owner = w
<1>1. PICK w \in Workers : WriteFinal(w)
  BY OnlyWritebackCharges
<1>2. result[w].slice = s
  BY <1>1 DEF WriteFinal, TypeOK
<1>3. pc[w] = "patching" /\ current = snap[w] /\ ticket[w] \in Ticket
  BY <1>1 DEF WriteFinal, Accepts, TypeOK, HasWhatItNeeds
<1>4. current = ticket[w].state /\ result[w].todo = ticket[w].todo
  BY <1>3 DEF TicketInv, TicketOf, StateMatchesTicket
<1>5. /\ Open(current)
      /\ \E i \in Positions : ticket[w].todo = current.todos[i].id /\ Holds(w, current, i)
  BY <1>3, <1>4, ConstantsOK DEF TicketInv, TicketOf
<1>6. current.compute_share > 0
  BY <1>5 DEF Open, TypeOK, State
<1>7. ASSUME MultipleWorkers
      PROVE  \E i \in Positions : /\ result[w].slice = s /\ result[w].todo = current.todos[i].id
                                  /\ current.todos[i].lease.owner = w
  <2>1. PICK i \in Positions : ticket[w].todo = current.todos[i].id /\ Holds(w, current, i)
    BY <1>5
  <2>2. result[w] \in Result
    BY DEF TypeOK
  <2>3. result[w].slice = s /\ result[w].todo = current.todos[i].id
    BY <1>2, <1>4, <2>1, <2>2 DEF Result
  <2>4. QED
    BY <1>7, <2>1, <2>3 DEF Holds
<1>8. QED
  BY <1>5, <1>6, <1>7 DEF Open

\* Where the store refuses a writeback computed from another state, a gate closed
\* or a todo taken over during a slice keeps the slice from being charged.
THEOREM ChargesAreJustified == ASSUME StoreCompares PROVE Spec => ChargeJustified
<1>1. TypeOK /\ TicketInv /\ [Next]_vars => TicketInv'
  BY TicketStep
<1>2. TypeOK /\ TicketInv /\ [Next]_vars
        => [\A s \in Slices :
              charges'[s] # charges[s]
                => /\ \A g \in GateNames : ~current.gate[g]
                   /\ current.compute_share > 0
                   /\ MultipleWorkers =>
                         \E w \in Workers, i \in Positions :
                            /\ result[w].slice = s /\ result[w].todo = current.todos[i].id
                            /\ current.todos[i].lease.owner = w]_vars
  BY ChargeStep
<1>3. QED
  BY TicketInit, <1>1, <1>2, TypeCorrect, PTL DEF Spec, ChargeJustified

\* As long as the state is that of the ticket, a slice of one slot is affordable:
\* the quota evaluate saw is the quota spend looks at.
THEOREM TicketsAreAffordable == Spec => []TicketAffordable
<1>1. ASSUME TypeOK, TicketInv, NEW w \in Workers, pc[w] = "accounting", StateMatchesTicket(w)
      PROVE  SpendRefusal(SpendState(w), 1) = "none"
  <2>1. snap[w] \in State /\ result[w].slice \in Slices /\ ticket[w] \in Ticket
    BY <1>1 DEF TypeOK, HasWhatItNeeds
  <2>2. QuotaEligible(snap[w])
    BY <1>1, <2>1, ConstantsOK DEF TicketInv, TicketOf, StateMatchesTicket, Open
  <2>3. /\ SpendState(w).previous_slice.writeback_complete
        /\ SpendState(w).previous_slice.validated
        /\ SpendState(w).previous_slice.evidence_refs # {}
        /\ SpendState(w).spent_slots = snap[w].spent_slots
        /\ AllowedSlots(SpendState(w)) = snap[w].allowed_slots
    <3>1. snap[w].previous_slice \in PreviousSlice
      BY <2>1, TodosOfState
    <3>2. SpendState(w) \in State
      BY <2>1, SpendStateType
    <3>3. QED
      BY <2>1, <3>1, <3>2, QuotaOfState DEF SpendState, State, PreviousSlice
  <2>4. snap[w].spent_slots + 1 <= snap[w].allowed_slots
    BY <2>1, <2>2, QuotaOfState DEF QuotaEligible, State
  <2>5. ~(SpendState(w).spent_slots + 1 > AllowedSlots(SpendState(w)))
    BY <2>1, <2>3, <2>4 DEF State
  <2>6. QED
    BY <2>3, <2>5 DEF SpendRefusal
<1>2. TypeOK /\ TicketInv => TicketAffordable
  BY <1>1 DEF TicketAffordable
<1>3. TypeOK /\ TicketInv /\ [Next]_vars => TicketInv'
  BY TicketStep
<1>4. QED
  BY TicketInit, <1>2, <1>3, TypeCorrect, PTL DEF Spec

-----------------------------------------------------------------------------
(* Refinement *)

\* Steps that keep what the ledger sees.
LEMMA LedgerStutters ==
    ASSUME current'.spent_slots = current.spent_slots,
           UNCHANGED <<evidence, admitted, charges>>
    PROVE  UNCHANGED Ledger!vars
BY DEF Ledger!vars

LEMMA LedgerPreserves ==
    ASSUME EvidenceInv, NEW w \in Workers, pc[w] \in Finalizing, result[w].slice \in Slices,
           evidence' = evidence \cup {result[w].slice},
           UNCHANGED <<current, admitted, charges>>
    PROVE  Ledger!Next
<1>1. result[w].slice \in admitted
  BY DEF EvidenceInv, EvidenceOf
<1>2. Ledger!Preserve(result[w].slice)
  BY <1>1 DEF Ledger!Preserve
<1>3. QED
  BY <1>2 DEF Ledger!Next

LEMMA LedgerCharges ==
    ASSUME StoreCompares, TypeOK, EvidenceInv, TotalInv, TicketInv, OnceInv,
           NEW w \in Workers, WriteFinal(w)
    PROVE  Ledger!Next
<1> DEFINE s == result[w].slice
<1>1. pc[w] = "patching" /\ s \in Slices /\ result[w] # NoResult
  BY DEF WriteFinal, TypeOK, HasWhatItNeeds
<1>2. ticket[w].state = current /\ snap[w] = current
  BY DEF WriteFinal, Accepts, TicketInv, TicketOf, StateMatchesTicket
<1>3. charges[s] = 0
  BY <1>1, <1>2 DEF OnceInv, OnceOf, TypeOK
<1>4. s \in evidence \cap admitted
  BY <1>1 DEF EvidenceInv, EvidenceOf
<1>5. /\ patch[w].spent_slots = current.spent_slots + patch[w].slots
      /\ patch[w].spent_slots <= InitialState.allowed_slots
      /\ patch[w].slots \in SlotCounts \ {0}
  BY <1>1, <1>2 DEF TotalInv, TotalOf
<1>6. /\ current'.spent_slots = patch[w].spent_slots
      /\ charges' = [charges EXCEPT ![s] = charges[s] + 1]
      /\ UNCHANGED <<evidence, admitted>>
  BY DEF WriteFinal, TypeOK, State
<1> HIDE DEF s
<1>7. {r \in Slices : charges'[r] > 0} = {r \in Slices : charges[r] > 0} \cup {s}
  BY <1>1, <1>3, <1>6 DEF TypeOK
<1>8. PICK r \in Slices, n \in SlotCounts \ {0} : r = s /\ n = patch[w].slots
  BY <1>1, <1>5
<1>9. Ledger!Charge(r, n)
  BY <1>3, <1>4, <1>5, <1>6, <1>7, <1>8 DEF Ledger!Charge
<1>10. QED
  BY <1>9 DEF Ledger!Next

LEMMA LedgerStep ==
    ASSUME StoreCompares, TypeOK, EvidenceInv, TotalInv, TicketInv, OnceInv, [Next]_vars
    PROVE  [Ledger!Next]_(Ledger!vars)
<1>1. ASSUME NEW w \in Workers,
             \/ Prepare(w) \/ ExecuteSlice(w) \/ FinalizeBegin(w) \/ CreateAtom(w)
             \/ CreateAtomFails(w) \/ FinalizeReplay(w) \/ FinalizeReprepare(w)
             \/ FinalizeRefused(w) \/ SpendFails(w) \/ FinalizeSpend(w)
             \/ WriteRefused(w) \/ Acknowledge(w) \/ Crash(w) \/ Abandon(w)
      PROVE  UNCHANGED Ledger!vars
  BY <1>1, LedgerStutters
     DEF Prepare, PrepareEvaluate, PrepareClaim, IssueTicket, PrepareReturns, ExecuteSlice,
         FinalizeBegin, CreateAtom, CreateAtomFails, FinalizeReplay, FinalizeReprepare,
         FinalizeRefused, SpendFails, Spending, FinalizeSpend, WriteRefused, Acknowledge, Crash, Abandon, Finish,
         ledgerVars
<1>2. ASSUME NEW w \in Workers, WriteClaim(w) PROVE UNCHANGED Ledger!vars
  <2>1. current' = [current EXCEPT !.todos[offer[w].todo].lease = offer[w].lease,
                                   !.todos[offer[w].todo].status = "claimed"]
    BY <1>2 DEF WriteClaim
  <2>2. current'.spent_slots = current.spent_slots
    BY <2>1 DEF TypeOK, State
  <2>3. QED
    BY <1>2, <2>2, LedgerStutters DEF WriteClaim, ledgerVars
<1>3. ASSUME NEW w \in Workers, CaptureRaw(w) \/ CaptureFails(w)
      PROVE  Ledger!Next \/ UNCHANGED Ledger!vars
  <2>1. pc[w] \in Finalizing /\ result[w].slice \in Slices
    BY <1>3 DEF CaptureRaw, CaptureFails, TypeOK, HasWhatItNeeds
  <2>2. /\ evidence' \in {evidence, evidence \cup {result[w].slice}}
        /\ UNCHANGED <<current, admitted, charges>>
    BY <1>3 DEF CaptureRaw, CaptureFails, ledgerVars
  <2>3. QED
    BY <2>1, <2>2, LedgerPreserves, LedgerStutters
<1>4. ASSUME NEW s \in Slices, Admit(s) PROVE Ledger!Next
  <2>1. Ledger!Admit(s)
    BY <1>4 DEF Admit, Ledger!Admit, ledgerVars
  <2>2. QED
    BY <2>1 DEF Ledger!Next
<1>5. CASE NewWindow
  <2>1. Ledger!NewWindow
    BY <1>5 DEF NewWindow, ChangeState, TypeOK, State, Ledger!NewWindow
  <2>2. QED
    BY <2>1 DEF Ledger!Next
<1>6. CASE \/ Tick \/ RetireMarker \/ UNCHANGED vars
           \/ \E g \in ChangingGates : ChangeGate(g)
           \/ \E i \in Positions : CompleteTodo(i)
  <2>1. current'.spent_slots = current.spent_slots /\ UNCHANGED <<evidence, admitted, charges>>
    BY <1>6 DEF Tick, RetireMarker, ChangeGate, CompleteTodo, ChangeState, vars, ledgerVars,
                TypeOK, State
  <2>2. QED
    BY <2>1, LedgerStutters
<1>7. ASSUME NEW w \in Workers,
             Prepare(w) \/ ExecuteSlice(w) \/ Finalize(w) \/ Writeback(w) \/ Crash(w) \/ Abandon(w)
      PROVE  Ledger!Next \/ UNCHANGED Ledger!vars
  BY <1>1, <1>2, <1>3, <1>7, LedgerCharges DEF Finalize, Writeback
<1>8. QED
  BY <1>4, <1>5, <1>6, <1>7 DEF Next

LEMMA LedgerInit == Init => Ledger!Init
<1> SUFFICES ASSUME Init PROVE Ledger!Init
  OBVIOUS
<1>1. current.spent_slots \in 0..InitialState.allowed_slots
  BY ConstantsOK, TodosOfState DEF Init
<1>2. {s \in Slices : charges[s] > 0} = {}
  BY DEF Init
<1>3. QED
  BY <1>1, <1>2 DEF Init, Ledger!Init

\* Under the same two assumptions the handshake implements the promised ledger:
\* a slice is admitted, preserved, then charged, once and within the quota.
THEOREM HandshakeImplementsLedger ==
    ASSUME StoreCompares, ~Resubmits PROVE Spec => ImplementsLedger
<1>1. TypeOK /\ TicketInv /\ [Next]_vars => TicketInv'
  BY TicketStep
<1>2. TypeOK /\ TicketInv /\ OnceInv /\ [Next]_vars => OnceInv'
  BY OnceStep
<1>3. TypeOK /\ TotalInv /\ [Next]_vars => TotalInv'
  BY TotalStep
<1>4. TypeOK /\ EvidenceInv /\ TotalInv /\ TicketInv /\ OnceInv /\ [Next]_vars
        => [Ledger!Next]_(Ledger!vars)
  BY LedgerStep
<1>5. QED
  BY TicketInit, OnceInit, TotalInit, EvidenceInit, EvidenceStep, LedgerInit, TypeCorrect,
     <1>1, <1>2, <1>3, <1>4, PTL DEF Spec, ImplementsLedger, Ledger!Spec

-----------------------------------------------------------------------------
(* Leases *)

\* The ids of the todos are those of the initial state.
SameIds(s) == \A i \in Positions : s.todos[i].id = InitialState.todos[i].id

\* A claim waiting to be written replaces no lease that is live in the state it
\* was computed from.
ClaimOf(w) ==
    /\ pc[w] \in {"claiming", "claim_due"} => MultipleWorkers
    /\ pc[w] \in Preparing \cup Finalizing => SameIds(snap[w])
    /\ ticket[w] # NoTicket => SameIds(ticket[w].state)
    /\ pc[w] = "claim_due" =>
          LET replaced == snap[w].todos[offer[w].todo].lease
          IN  offer[w].lease # replaced => replaced = NoLease \/ Expired(replaced, now)

LeaseInv == SameIds(current) /\ \A w \in Workers : ClaimOf(w)

LEMMA DistinctInState ==
    ASSUME DistinctIds(InitialState), NEW s \in State, SameIds(s)
    PROVE  DistinctIds(s)
BY TodosOfState DEF DistinctIds, SameIds, Positions

LEMMA LeaseInit == Init => LeaseInv
BY DEF Init, LeaseInv, ClaimOf, SameIds

\* A lease that has expired stays so.
LEMMA ExpiredForGood ==
    ASSUME TypeOK, NEW lease \in Lease, Expired(lease, now), now' \in {now, now + 1}
    PROVE  Expired(lease, now')
BY DEF Expired, TypeOK, Lease, Never

LEMMA ClaimKept ==
    ASSUME TypeOK, NEW v \in Workers, ClaimOf(v), now' \in {now, now + 1},
           pc'[v] = pc[v], snap'[v] = snap[v], offer'[v] = offer[v], ticket'[v] = ticket[v]
    PROVE  ClaimOf(v)'
<1>1. CASE pc[v] = "claim_due"
  <2>1. snap[v].todos[offer[v].todo].lease \in Lease
    BY <1>1, TodosOfState DEF TypeOK, HasWhatItNeeds, Todo
  <2>2. QED
    BY <1>1, <2>1, ExpiredForGood DEF ClaimOf, SameIds
<1>2. CASE pc[v] # "claim_due"
  BY <1>2 DEF ClaimOf, SameIds
<1>3. QED
  BY <1>1, <1>2

LEMMA LeaseStep ==
    ASSUME DistinctIds(InitialState), TypeOK, LeaseInv, [Next]_vars
    PROVE  LeaseInv'
<1>1. ASSUME NEW w \in Workers, PrepareEvaluate(w) PROVE LeaseInv'
  <2>1. ClaimOf(w)'
    BY <1>1 DEF PrepareEvaluate, LeaseInv, ClaimOf, SameIds, TypeOK, HasWhatItNeeds
  <2>2. ASSUME NEW v \in Workers \ {w} PROVE ClaimOf(v)'
    BY <1>1, ClaimKept DEF PrepareEvaluate, LeaseInv, TypeOK
  <2>3. SameIds(current)'
    BY <1>1 DEF PrepareEvaluate, LeaseInv, SameIds
  <2>4. QED
    BY <2>1, <2>2, <2>3 DEF LeaseInv
<1>2. ASSUME NEW w \in Workers, PrepareClaim(w) PROVE LeaseInv'
  <2> DEFINE claim == Claim(snap[w], Worker(w), now, LeaseLength)
             replaced == snap[w].todos[claim.selected].lease
  <2>1. snap[w] \in State /\ MultipleWorkers /\ claim.selected # 0
    BY <1>2 DEF PrepareClaim, TypeOK, HasWhatItNeeds, LeaseInv, ClaimOf
  <2>2. DistinctIds(snap[w]) /\ DOMAIN snap[w].todos \subseteq Nat \ {0}
    BY <1>2, <2>1, DistinctInState, TodosOfState, PositionsAreNaturals
       DEF PrepareClaim, LeaseInv, ClaimOf
  <2>3. claim.lease # replaced => replaced = NoLease \/ Expired(replaced, now)
    BY <2>1, <2>2, ClaimKeepsLiveLeases DEF Worker
  <2> HIDE DEF claim
  <2>4. /\ pc[w] = "claiming" /\ UNCHANGED <<snap, ticket, now>>
        /\ \/ pc' = [pc EXCEPT ![w] = "verifying"]
           \/ /\ pc' = [pc EXCEPT ![w] = "claim_due"]
              /\ offer' = [offer EXCEPT ![w] = [todo |-> claim.selected, lease |-> claim.lease]]
    BY <1>2 DEF PrepareClaim, claim
  <2>5. ClaimOf(w)'
    BY <2>3, <2>4 DEF LeaseInv, ClaimOf, SameIds, TypeOK
  <2>6. ASSUME NEW v \in Workers \ {w} PROVE ClaimOf(v)'
    BY <1>2, ClaimKept DEF PrepareClaim, LeaseInv, TypeOK
  <2>7. QED
    BY <1>2, <2>5, <2>6 DEF PrepareClaim, LeaseInv, SameIds
<1>3. ASSUME NEW w \in Workers, IssueTicket(w) PROVE LeaseInv'
  <2>1. ClaimOf(w)'
    BY <1>3 DEF IssueTicket, EndCall, LeaseInv, ClaimOf, SameIds, TypeOK, HasWhatItNeeds
  <2>2. ASSUME NEW v \in Workers \ {w} PROVE ClaimOf(v)'
    BY <1>3, ClaimKept DEF IssueTicket, EndCall, LeaseInv, TypeOK
  <2>3. SameIds(current)'
    BY <1>3 DEF IssueTicket, LeaseInv, SameIds
  <2>4. QED
    BY <2>1, <2>2, <2>3 DEF LeaseInv
<1>4. ASSUME NEW w \in Workers, PrepareReturns(w) PROVE LeaseInv'
  <2>1. ClaimOf(w)'
    BY <1>4 DEF PrepareReturns, EndCall, LeaseInv, ClaimOf, SameIds, TypeOK, HasWhatItNeeds
  <2>2. ASSUME NEW v \in Workers \ {w} PROVE ClaimOf(v)'
    BY <1>4, ClaimKept DEF PrepareReturns, EndCall, LeaseInv, TypeOK
  <2>3. SameIds(current)'
    BY <1>4 DEF PrepareReturns, LeaseInv, SameIds
  <2>4. QED
    BY <2>1, <2>2, <2>3 DEF LeaseInv
<1>5. ASSUME NEW w \in Workers, WriteClaim(w) PROVE LeaseInv'
  <2>1. \A v \in Workers : ClaimOf(v)'
    BY <1>5, ClaimKept DEF WriteClaim, EndCall, LeaseInv, ClaimOf, SameIds, TypeOK
  <2>2. current' = [current EXCEPT !.todos[offer[w].todo].lease = offer[w].lease,
                                   !.todos[offer[w].todo].status = "claimed"]
    BY <1>5 DEF WriteClaim
  <2>3. \A i \in Positions : current'.todos[i].id = current.todos[i].id
    BY <2>2, TodosOfState DEF TypeOK, State, Todo
  <2>4. QED
    BY <2>1, <2>3 DEF LeaseInv, SameIds
<1>6. ASSUME NEW w \in Workers, WriteFinal(w) PROVE LeaseInv'
  <2>1. \A v \in Workers : ClaimOf(v)'
    BY <1>6, ClaimKept DEF WriteFinal, EndCall, LeaseInv, ClaimOf, SameIds, TypeOK
  <2>2. current'.todos = current.todos
    BY <1>6 DEF WriteFinal, TypeOK, State
  <2>3. QED
    BY <2>1, <2>2 DEF LeaseInv, SameIds
<1>7. ASSUME NEW w \in Workers, WriteRefused(w) PROVE LeaseInv'
  <2>1. ClaimOf(w)'
    BY <1>7 DEF WriteRefused, EndCall, LeaseInv, ClaimOf, SameIds, TypeOK, HasWhatItNeeds
  <2>2. ASSUME NEW v \in Workers \ {w} PROVE ClaimOf(v)'
    BY <1>7, ClaimKept DEF WriteRefused, EndCall, LeaseInv, TypeOK
  <2>3. SameIds(current)'
    BY <1>7 DEF WriteRefused, LeaseInv, SameIds
  <2>4. QED
    BY <2>1, <2>2, <2>3 DEF LeaseInv
<1>8. ASSUME NEW w \in Workers, ExecuteSlice(w) PROVE LeaseInv'
  <2>1. ClaimOf(w)'
    BY <1>8 DEF ExecuteSlice, LeaseInv, ClaimOf, SameIds, TypeOK, HasWhatItNeeds
  <2>2. ASSUME NEW v \in Workers \ {w} PROVE ClaimOf(v)'
    BY <1>8, ClaimKept DEF ExecuteSlice, LeaseInv, TypeOK
  <2>3. SameIds(current)'
    BY <1>8 DEF ExecuteSlice, LeaseInv, SameIds
  <2>4. QED
    BY <2>1, <2>2, <2>3 DEF LeaseInv
<1>9. ASSUME NEW w \in Workers, FinalizeBegin(w) PROVE LeaseInv'
  <2>1. ClaimOf(w)'
    BY <1>9 DEF FinalizeBegin, LeaseInv, ClaimOf, SameIds, TypeOK, HasWhatItNeeds
  <2>2. ASSUME NEW v \in Workers \ {w} PROVE ClaimOf(v)'
    BY <1>9, ClaimKept DEF FinalizeBegin, LeaseInv, TypeOK
  <2>3. SameIds(current)'
    BY <1>9 DEF FinalizeBegin, LeaseInv, SameIds
  <2>4. QED
    BY <2>1, <2>2, <2>3 DEF LeaseInv
<1>10. ASSUME NEW w \in Workers, CaptureRaw(w) PROVE LeaseInv'
  <2>1. ClaimOf(w)'
    BY <1>10 DEF CaptureRaw, LeaseInv, ClaimOf, SameIds, TypeOK, HasWhatItNeeds
  <2>2. ASSUME NEW v \in Workers \ {w} PROVE ClaimOf(v)'
    BY <1>10, ClaimKept DEF CaptureRaw, LeaseInv, TypeOK
  <2>3. SameIds(current)'
    BY <1>10 DEF CaptureRaw, LeaseInv, SameIds
  <2>4. QED
    BY <2>1, <2>2, <2>3 DEF LeaseInv
<1>11. ASSUME NEW w \in Workers, CaptureFails(w) PROVE LeaseInv'
  <2>1. ClaimOf(w)'
    BY <1>11 DEF CaptureFails, EndCall, LeaseInv, ClaimOf, SameIds, TypeOK, HasWhatItNeeds
  <2>2. ASSUME NEW v \in Workers \ {w} PROVE ClaimOf(v)'
    BY <1>11, ClaimKept DEF CaptureFails, EndCall, LeaseInv, TypeOK
  <2>3. SameIds(current)'
    BY <1>11 DEF CaptureFails, LeaseInv, SameIds
  <2>4. QED
    BY <2>1, <2>2, <2>3 DEF LeaseInv
<1>12. ASSUME NEW w \in Workers, CreateAtom(w) PROVE LeaseInv'
  <2>1. ClaimOf(w)'
    BY <1>12 DEF CreateAtom, LeaseInv, ClaimOf, SameIds, TypeOK, HasWhatItNeeds
  <2>2. ASSUME NEW v \in Workers \ {w} PROVE ClaimOf(v)'
    BY <1>12, ClaimKept DEF CreateAtom, LeaseInv, TypeOK
  <2>3. SameIds(current)'
    BY <1>12 DEF CreateAtom, LeaseInv, SameIds
  <2>4. QED
    BY <2>1, <2>2, <2>3 DEF LeaseInv
<1>13. ASSUME NEW w \in Workers, CreateAtomFails(w) PROVE LeaseInv'
  <2>1. ClaimOf(w)'
    BY <1>13 DEF CreateAtomFails, EndCall, LeaseInv, ClaimOf, SameIds, TypeOK, HasWhatItNeeds
  <2>2. ASSUME NEW v \in Workers \ {w} PROVE ClaimOf(v)'
    BY <1>13, ClaimKept DEF CreateAtomFails, EndCall, LeaseInv, TypeOK
  <2>3. SameIds(current)'
    BY <1>13 DEF CreateAtomFails, LeaseInv, SameIds
  <2>4. QED
    BY <2>1, <2>2, <2>3 DEF LeaseInv
<1>14. ASSUME NEW w \in Workers, FinalizeRefused(w) \/ SpendFails(w) PROVE LeaseInv'
  <2>1. ClaimOf(w)'
    BY <1>14 DEF FinalizeRefused, SpendFails, Spending, EndCall, LeaseInv, ClaimOf, SameIds, TypeOK, HasWhatItNeeds
  <2>2. ASSUME NEW v \in Workers \ {w} PROVE ClaimOf(v)'
    BY <1>14, ClaimKept DEF FinalizeRefused, SpendFails, Spending, EndCall, LeaseInv, TypeOK
  <2>3. SameIds(current)'
    BY <1>14 DEF FinalizeRefused, SpendFails, Spending, LeaseInv, SameIds
  <2>4. QED
    BY <2>1, <2>2, <2>3 DEF LeaseInv
<1>15. ASSUME NEW w \in Workers, FinalizeSpend(w) PROVE LeaseInv'
  <2>1. ClaimOf(w)'
    BY <1>15 DEF FinalizeSpend, Spending, LeaseInv, ClaimOf, SameIds, TypeOK, HasWhatItNeeds
  <2>2. ASSUME NEW v \in Workers \ {w} PROVE ClaimOf(v)'
    BY <1>15, ClaimKept DEF FinalizeSpend, Spending, LeaseInv, TypeOK
  <2>3. SameIds(current)'
    BY <1>15 DEF FinalizeSpend, Spending, LeaseInv, SameIds
  <2>4. QED
    BY <2>1, <2>2, <2>3 DEF LeaseInv
<1>16. ASSUME NEW w \in Workers, Crash(w) PROVE LeaseInv'
  <2>1. ClaimOf(w)'
    BY <1>16 DEF Crash, EndCall, LeaseInv, ClaimOf, SameIds, TypeOK, HasWhatItNeeds
  <2>2. ASSUME NEW v \in Workers \ {w} PROVE ClaimOf(v)'
    BY <1>16, ClaimKept DEF Crash, EndCall, LeaseInv, TypeOK
  <2>3. SameIds(current)'
    BY <1>16 DEF Crash, LeaseInv, SameIds
  <2>4. QED
    BY <2>1, <2>2, <2>3 DEF LeaseInv
<1>17. ASSUME NEW w \in Workers, NEW kept, Finish(w, kept) PROVE LeaseInv'
  <2>1. ClaimOf(w)'
    BY <1>17 DEF Finish, EndCall, LeaseInv, ClaimOf, SameIds, TypeOK, HasWhatItNeeds
  <2>2. ASSUME NEW v \in Workers \ {w} PROVE ClaimOf(v)'
    BY <1>17, ClaimKept DEF Finish, EndCall, LeaseInv, TypeOK
  <2>3. SameIds(current)'
    BY <1>17 DEF Finish, LeaseInv, SameIds
  <2>4. QED
    BY <2>1, <2>2, <2>3 DEF LeaseInv
<1>18. ASSUME NEW s \in Slices, Admit(s) PROVE LeaseInv'
  <2>1. \A v \in Workers : ClaimOf(v)'
    BY <1>18, ClaimKept DEF Admit, workerVars, LeaseInv
  <2>2. QED
    BY <1>18, <2>1 DEF Admit, LeaseInv, SameIds
<1>19. CASE \/ Tick \/ RetireMarker \/ NewWindow \/ UNCHANGED vars
            \/ \E g \in ChangingGates : ChangeGate(g)
            \/ \E i \in Positions : CompleteTodo(i)
  <2>1. UNCHANGED workerVars /\ now' \in {now, now + 1}
    BY <1>19 DEF Tick, RetireMarker, NewWindow, ChangeGate, CompleteTodo, ChangeState, vars
  <2>2. \A v \in Workers : ClaimOf(v)'
    BY <2>1, ClaimKept DEF workerVars, LeaseInv
  <2>3. \A i \in Positions : current'.todos[i].id = current.todos[i].id
    <3>1. CASE \E i \in Positions : CompleteTodo(i)
      BY <3>1, TodosOfState DEF CompleteTodo, ChangeState, TypeOK, State, Todo
    <3>2. CASE ~\E i \in Positions : CompleteTodo(i)
      BY <1>19, <3>2 DEF Tick, RetireMarker, NewWindow, ChangeGate, ChangeState, vars, TypeOK, State
    <3>3. QED
      BY <3>1, <3>2
  <2>4. QED
    BY <2>2, <2>3 DEF LeaseInv, SameIds
<1>20. ASSUME NEW w \in Workers,
             FinalizeReplay(w) \/ FinalizeReprepare(w) \/ Acknowledge(w) \/ Abandon(w)
      PROVE  LeaseInv'
  BY <1>20, <1>17 DEF FinalizeReplay, FinalizeReprepare, Acknowledge, Abandon
<1>21. ASSUME NEW w \in Workers,
             Prepare(w) \/ ExecuteSlice(w) \/ Finalize(w) \/ Writeback(w) \/ Crash(w) \/ Abandon(w)
      PROVE  LeaseInv'
  BY <1>21, <1>1, <1>2, <1>3, <1>4, <1>5, <1>6, <1>7, <1>8, <1>9,
     <1>10, <1>11, <1>12, <1>13, <1>14, <1>15, <1>16, <1>20
     DEF Prepare, Finalize, Writeback
<1>22. QED
  BY <1>18, <1>19, <1>21 DEF Next

-----------------------------------------------------------------------------
(* Live leases are respected *)

LEMMA OnlyClaimsChangeLeases ==
    ASSUME TypeOK, [Next]_vars, NEW i \in Positions,
           current'.todos[i].lease # current.todos[i].lease
    PROVE  \E w \in Workers : WriteClaim(w)
<1>1. ASSUME NEW w \in Workers,
             \/ Prepare(w) \/ ExecuteSlice(w) \/ Finalize(w) \/ Crash(w) \/ Abandon(w)
             \/ WriteFinal(w) \/ WriteRefused(w) \/ Acknowledge(w)
      PROVE  current'.todos = current.todos
  BY <1>1 DEF Prepare, PrepareEvaluate, PrepareClaim, IssueTicket, PrepareReturns, ExecuteSlice,
              Finalize, FinalizeBegin, CaptureRaw, CaptureFails, CreateAtom, CreateAtomFails,
              FinalizeReplay, FinalizeReprepare, FinalizeRefused, SpendFails, Spending, FinalizeSpend, Crash, Abandon,
              WriteFinal, WriteRefused, Acknowledge, Finish, TypeOK, State
<1>2. ~ \/ Tick \/ RetireMarker \/ NewWindow \/ UNCHANGED vars
        \/ \E s \in Slices : Admit(s)
        \/ \E g \in ChangingGates : ChangeGate(g)
  BY DEF Tick, RetireMarker, NewWindow, ChangeGate, ChangeState, Admit, vars, TypeOK, State
<1>3. ~ \E j \in Positions : CompleteTodo(j)
  BY TodosOfState DEF CompleteTodo, ChangeState, TypeOK, State, Todo
<1>4. QED
  BY <1>1, <1>2, <1>3 DEF Next, Writeback

LEMMA LeaseChange ==
    ASSUME StoreCompares, TypeOK, LeaseInv, [Next]_vars, NEW i \in Positions,
           current'.todos[i].lease # current.todos[i].lease
    PROVE  current.todos[i].lease = NoLease \/ Expired(current.todos[i].lease, now)
<1>1. PICK w \in Workers : WriteClaim(w)
  BY OnlyClaimsChangeLeases
<1>2. pc[w] = "claim_due" /\ snap[w] = current /\ offer[w].todo \in Positions
  BY <1>1 DEF WriteClaim, Accepts, TypeOK, HasWhatItNeeds
<1>3. current' = [current EXCEPT !.todos[offer[w].todo].lease = offer[w].lease,
                                 !.todos[offer[w].todo].status = "claimed"]
  BY <1>1 DEF WriteClaim
<1>4. i = offer[w].todo /\ current'.todos[i].lease = offer[w].lease
  BY <1>2, <1>3, TodosOfState DEF TypeOK, State, Todo
<1>5. QED
  BY <1>2, <1>4 DEF LeaseInv, ClaimOf

\* Where ids are distinct and the store refuses a writeback computed from another
\* state, no claim ever takes a live lease from the worker that holds it.
THEOREM LeasesAreRespected ==
    ASSUME StoreCompares, DistinctIds(InitialState) PROVE Spec => LeaseRespected
<1>1. TypeOK /\ LeaseInv /\ [Next]_vars => LeaseInv'
  BY LeaseStep
<1>2. TypeOK /\ LeaseInv /\ [Next]_vars
        => [\A i \in Positions :
              current'.todos[i].lease # current.todos[i].lease
                => \/ current.todos[i].lease = NoLease
                   \/ Expired(current.todos[i].lease, now)]_vars
  BY LeaseChange
<1>3. QED
  BY LeaseInit, <1>1, <1>2, TypeCorrect, PTL DEF Spec, LeaseRespected

-----------------------------------------------------------------------------
(* Live tickets are for different todos *)

\* Where ids are distinct, two workers never both hold tickets that are good for
\* the state and name the same todo, whatever the store does with writebacks.
THEOREM TicketsAreDisjoint ==
    ASSUME DistinctIds(InitialState) PROVE Spec => []LiveTicketsDisjoint
<1>1. ASSUME TypeOK, TicketInv, LeaseInv, NEW v \in Workers, NEW w \in Workers,
             MultipleWorkers, v # w, ticket[v] # NoTicket, ticket[w] # NoTicket,
             ticket[v].state = current, ticket[w].state = current
      PROVE  ticket[v].todo # ticket[w].todo
  <2>1. PICK i \in Positions : /\ ticket[v].todo = current.todos[i].id
                               /\ current.todos[i].lease.owner = v
    BY <1>1 DEF TicketInv, TicketOf, Holds
  <2>2. PICK j \in Positions : /\ ticket[w].todo = current.todos[j].id
                               /\ current.todos[j].lease.owner = w
    BY <1>1 DEF TicketInv, TicketOf, Holds
  <2>3. i # j
    BY <1>1, <2>1, <2>2
  <2>4. DistinctIds(current) /\ DOMAIN current.todos = Positions
    BY <1>1, DistinctInState, TodosOfState DEF TypeOK, LeaseInv
  <2>5. QED
    BY <2>1, <2>2, <2>3, <2>4 DEF DistinctIds
<1>2. TypeOK /\ TicketInv /\ LeaseInv => LiveTicketsDisjoint
  BY <1>1 DEF LiveTicketsDisjoint
<1>3. TypeOK /\ LeaseInv /\ [Next]_vars => LeaseInv'
  BY LeaseStep
<1>4. TypeOK /\ TicketInv /\ [Next]_vars => TicketInv'
  BY TicketStep
<1>5. QED
  BY LeaseInit, TicketInit, <1>2, <1>3, <1>4, TypeCorrect, PTL DEF Spec
=============================================================================
