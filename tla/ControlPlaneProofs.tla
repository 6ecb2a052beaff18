-------------------------- MODULE ControlPlaneProofs --------------------------
(***************************************************************************)
(* Proofs about ControlPlane for every number of workers, slices, todos    *)
(* and slots, and for unbounded time, windows and crashes; before them,    *)
(* what the continuation controller answers, for every state.              *)
(***************************************************************************)
EXTENDS ControlPlane, WellFoundedInduction, TLAPS

\* The least element of a set of naturals is one of them.
LEMMA FirstIsLeast ==
    ASSUME NEW S, S \subseteq Nat, S # {}
    PROVE  First(S) \in S /\ \A j \in S : First(S) <= j
<1> DEFINE Less == {ss \in Nat \X Nat : ss[1] < ss[2]}
<1>1. IsWellFoundedOn(Less, Nat)
  BY NatLessThanWellFounded DEF OpToRel
<1> HIDE DEF Less
<1>2. PICK i \in S : \A j \in S : ~(<<j, i>> \in Less)
  BY <1>1, WFMin
<1>3. ASSUME NEW j \in S PROVE i <= j
  BY <1>2, i \in Nat, j \in Nat, <<j, i>> \in Nat \X Nat DEF Less
<1>4. QED
  BY <1>3 DEF First

-----------------------------------------------------------------------------
(* evaluate *)

\* Every closed gate stops the worker.
LEMMA GatesStop ==
    ASSUME NEW s, NEW g \in 1..10
    PROVE  /\ GateSequence(s)[g].verdict.should_run = FALSE
           /\ GateSequence(s)[g].verdict.selected = 0
<1>1. g \in {1, 2, 3, 4, 5, 6, 7, 8, 9, 10}
  OBVIOUS
<1>2. QED
  BY <1>1 DEF GateSequence, Stop

LEMMA ClosedGateDecides ==
    ASSUME NEW s, NEW worker, NEW time, ClosedGates(s) # {}
    PROVE  /\ Evaluate(s, worker, time).should_run = FALSE
           /\ Evaluate(s, worker, time).selected = 0
<1>1. First(ClosedGates(s)) \in 1..10
  <2>1. ClosedGates(s) \subseteq 1..10
    BY DEF ClosedGates
  <2>2. QED
    BY <2>1, FirstIsLeast
<1>2. QED
  BY <1>1, GatesStop DEF Evaluate

\* evaluate lets a worker run only when no gate blocks: nothing a person or
\* another system closed, a previous slice, if the state has one, that was
\* written back and validated, and quota left in the window.
THEOREM RunsOnlyWhenOpen ==
    ASSUME NEW s, s.gate \in [GateNames -> BOOLEAN], NEW worker, NEW time,
           Evaluate(s, worker, time).should_run
    PROVE  /\ \A g \in GateNames : ~s.gate[g]
           /\ s.previous_slice.kind = "object"
                => s.previous_slice.writeback_complete /\ s.previous_slice.validated
           /\ s.compute_share # 0
           /\ QuotaEligible(s)
<1>1. ClosedGates(s) = {}
  BY ClosedGateDecides, Zenon
<1>2. \A g \in 1..10 : ~GateSequence(s)[g].closed
  BY <1>1 DEF ClosedGates
<1>3. /\ ~s.gate["goal_complete"] /\ ~s.gate["health"] /\ ~s.gate["human_gate"]
      /\ ~s.gate["evidence_wait"] /\ ~s.gate["focus_wait"] /\ ~s.gate["budget"]
      /\ s.compute_share # 0 /\ QuotaEligible(s)
  BY <1>2, 1 \in 1..10, 2 \in 1..10, 3 \in 1..10, 6 \in 1..10, 7 \in 1..10,
     8 \in 1..10, 9 \in 1..10, 10 \in 1..10 DEF GateSequence
<1>4. s.previous_slice.kind = "object" => s.previous_slice.writeback_complete
  <2>1. GateSequence(s)[4].closed
          = (s.previous_slice.kind = "object" /\ ~s.previous_slice.writeback_complete)
    BY DEF GateSequence
  <2>2. QED
    BY <1>2, <2>1, 4 \in 1..10, Zenon
<1>5. s.previous_slice.kind = "object" => s.previous_slice.validated
  <2>1. GateSequence(s)[5].closed
          = (s.previous_slice.kind = "object" /\ ~s.previous_slice.validated)
    BY DEF GateSequence
  <2>2. QED
    BY <1>2, <2>1, 5 \in 1..10, Zenon
<1>6. QED
  BY <1>3, <1>4, <1>5 DEF GateNames

\* The todo evaluate selects is an open advancement todo, and carries the id of
\* one that is runnable for this worker.
THEOREM SelectsCandidate ==
    ASSUME NEW s, DOMAIN s.todos \subseteq Nat \ {0}, NEW worker, NEW time,
           Evaluate(s, worker, time).selected # 0
    PROVE  LET i == Evaluate(s, worker, time).selected
           IN  /\ i \in Advancement(s)
               /\ \E j \in Runnable(s, worker, time) : s.todos[j].id = s.todos[i].id
<1>1. Evaluate(s, worker, time) = WorkLane(s, worker, time)
  BY ClosedGateDecides DEF Evaluate
<1>2. Runnable(s, worker, time) # {}
  BY <1>1 DEF WorkLane, Stop, Run
<1>3. Evaluate(s, worker, time).selected = SelectedTodo(s, worker, time)
  BY <1>1, <1>2 DEF WorkLane, Run
<1>4. Runnable(s, worker, time) \subseteq Advancement(s) /\ Advancement(s) \subseteq Nat
  BY DEF Runnable, Candidates, Advancement, OpenTodos
<1> DEFINE j == First(Runnable(s, worker, time))
           Same == {i \in Advancement(s) : s.todos[i].id = s.todos[j].id}
<1>5. j \in Runnable(s, worker, time)
  BY <1>2, <1>4, FirstIsLeast
<1>6. First(Same) \in Same
  BY <1>4, <1>5, FirstIsLeast
<1>7. QED
  BY <1>3, <1>5, <1>6 DEF SelectedTodo

-----------------------------------------------------------------------------
(* claim *)

DistinctIds(s) ==
    \A i, j \in DOMAIN s.todos : s.todos[i].id = s.todos[j].id => i = j

\* Among several workers a claim is never projected over the live lease of
\* another worker, and a live lease of the worker itself is left as it is: a
\* lease only changes where there is none or where it has expired.  It takes
\* ids that are distinct, which nothing in the controller enforces.
THEOREM ClaimKeepsLiveLeases ==
    ASSUME NEW s, DOMAIN s.todos \subseteq Nat \ {0}, DistinctIds(s),
           NEW worker, worker.multiple_workers, NEW time, NEW seconds,
           Claim(s, worker, time, seconds).selected # 0
    PROVE  LET i     == Claim(s, worker, time, seconds).selected
               lease == Claim(s, worker, time, seconds).lease
           IN  lease # s.todos[i].lease
                 => s.todos[i].lease = NoLease \/ Expired(s.todos[i].lease, time)
<1> DEFINE i == Evaluate(s, worker, time).selected
<1>1. Claim(s, worker, time, seconds).selected = i /\ i # 0
  BY DEF Claim
<1>2. Claim(s, worker, time, seconds).lease = ProjectedLease(s, i, worker, time, seconds)
  BY <1>1 DEF Claim
<1>3. i \in Runnable(s, worker, time)
  <2>1. PICK j \in Runnable(s, worker, time) : s.todos[j].id = s.todos[i].id
    BY <1>1, SelectsCandidate
  <2>2. i \in DOMAIN s.todos /\ j \in DOMAIN s.todos
    BY <1>1, SelectsCandidate DEF Runnable, Candidates, Advancement, OpenTodos
  <2>3. QED
    BY <2>1, <2>2 DEF DistinctIds
<1>4. LeaseState(s.todos[i].lease, worker.id, time) # "owned_by_other"
  BY <1>3 DEF Runnable, Candidates
<1> HIDE DEF i
<1>5. ProjectedLease(s, i, worker, time, seconds) # s.todos[i].lease
        => LeaseState(s.todos[i].lease, worker.id, time) \in {"free", "expired"}
  BY <1>4 DEF ProjectedLease, LeaseState
<1>6. QED
  BY <1>1, <1>2, <1>5 DEF LeaseState

USE DEF Phases, Preparing, Finalizing

-----------------------------------------------------------------------------
(* Positions and states *)

LEMMA PositionsAreNaturals == Positions \subseteq Nat \ {0}
<1>1. InitialState.todos \in Seq(Todo)
  BY ConstantsOK
<1>2. QED
  BY <1>1 DEF Positions

LEMMA TodosOfState ==
    ASSUME NEW s \in State
    PROVE  /\ DOMAIN s.todos = Positions
           /\ s.gate \in [GateNames -> BOOLEAN]
           /\ s.allowed_slots \in Nat /\ s.spent_slots \in Nat
           /\ s.compute_share \in 0..100
           /\ s.previous_slice \in PreviousSlice
           /\ \A i \in Positions : s.todos[i] \in Todo
BY DEF State

LEMMA SelectedPosition ==
    ASSUME NEW s \in State, NEW w, NEW t, Evaluate(s, Worker(w), t).selected # 0
    PROVE  Evaluate(s, Worker(w), t).selected \in Positions
<1>1. DOMAIN s.todos = Positions /\ DOMAIN s.todos \subseteq Nat \ {0}
  BY TodosOfState, PositionsAreNaturals
<1>2. Evaluate(s, Worker(w), t).selected \in Advancement(s)
  BY <1>1, SelectsCandidate
<1>3. QED
  BY <1>1, <1>2 DEF Advancement, OpenTodos

LEMMA ClaimType ==
    ASSUME NEW s \in State, NEW w \in Workers, NEW t \in Nat,
           Claim(s, Worker(w), t, LeaseLength).selected # 0
    PROVE  /\ Claim(s, Worker(w), t, LeaseLength).selected \in Positions
           /\ Claim(s, Worker(w), t, LeaseLength).lease \in Lease
<1> DEFINE i == Evaluate(s, Worker(w), t).selected
<1>1. i \in Positions /\ i # 0
  BY SelectedPosition DEF Claim
<1>2. s.todos[i].lease \in Lease
  BY <1>1, TodosOfState DEF Todo
<1>3. [owner |-> w, expires_at |-> t + LeaseLength] \in Lease
  BY ConstantsOK DEF Lease
<1>4. Claim(s, Worker(w), t, LeaseLength).selected = i
  BY DEF Claim
<1>5. Claim(s, Worker(w), t, LeaseLength).lease = ProjectedLease(s, i, Worker(w), t, LeaseLength)
  BY <1>1 DEF Claim
<1> HIDE DEF i
<1>6. ProjectedLease(s, i, Worker(w), t, LeaseLength) \in Lease
  BY <1>2, <1>3 DEF ProjectedLease, Worker
<1>7. QED
  BY <1>1, <1>4, <1>5, <1>6

LEMMA ClaimedState ==
    ASSUME NEW s \in State, NEW i \in Positions, NEW lease \in Lease
    PROVE  [s EXCEPT !.todos[i].lease = lease, !.todos[i].status = "claimed"] \in State
<1>1. [s.todos[i] EXCEPT !.lease = lease, !.status = "claimed"] \in Todo
  BY TodosOfState DEF Todo, TodoStatuses
<1>2. QED
  BY <1>1 DEF State

LEMMA SpentType ==
    ASSUME NEW s \in State, NEW slots \in Nat
    PROVE  SpentAfter(s, slots) \in Nat
BY ConstantsOK DEF SpentAfter, State

LEMMA SpendStateType ==
    ASSUME NEW w \in Workers, snap[w] \in State, result[w].slice \in Slices
    PROVE  SpendState(w) \in State
<1>1. snap[w].previous_slice \in PreviousSlice
  BY TodosOfState
<1>2. [snap[w].previous_slice EXCEPT
         !.kind = "object", !.slice = result[w].slice, !.writeback_complete = TRUE,
         !.validated = TRUE,
         !.evidence_refs = snap[w].previous_slice.evidence_refs \cup {result[w].slice}]
       \in PreviousSlice
  BY <1>1 DEF PreviousSlice
<1>3. QED
  BY <1>2 DEF SpendState, State

-----------------------------------------------------------------------------
(* Type correctness *)

LEMMA TypeInit == Init => TypeOK
<1> SUFFICES ASSUME Init PROVE TypeOK
  OBVIOUS
<1>1. InitialState \in State /\ InitialState.spent_slots \in Nat
  BY ConstantsOK, TodosOfState
<1>2. NoOffer \in Offer
  BY DEF NoOffer, Offer, NoLease, Never, Lease
<1>3. NoResult \in Result
  BY DEF NoResult, Result
<1>4. \A w \in Workers : HasWhatItNeeds(w)
  BY DEF Init, HasWhatItNeeds
<1>5. QED
  BY <1>1, <1>2, <1>3, <1>4 DEF Init, TypeOK

\* A call that ends leaves the types as they are, whatever else it does to
\* ticket and result.
LEMMA EndCallTypes ==
    ASSUME TypeOK, NEW w \in Workers,
           NEW phase \in Phases \ (Preparing \cup Finalizing), EndCall(w, phase),
           ticket' \in [Workers -> Ticket \cup {NoTicket}],
           result' \in [Workers -> Result], begun' = begun,
           \A v \in Workers \ {w} : ticket'[v] = ticket[v] /\ result'[v] = result[v],
           phase # "idle" => ticket'[w] \in Ticket,
           phase \in {"sliced", "written"} => result'[w] # NoResult,
           result'[w] \in {result[w], NoResult}
    PROVE  /\ pc' \in [Workers -> Phases]
           /\ snap' \in [Workers -> State \cup {NoState}]
           /\ offer' \in [Workers -> Offer]
           /\ patch' \in [Workers -> Patch \cup {NoPatch}]
           /\ \A v \in Workers : HasWhatItNeeds(v)'
<1>1. NoOffer \in Offer
  BY DEF NoOffer, Offer, NoLease, Never, Lease
<1>2. /\ pc' \in [Workers -> Phases]
      /\ snap' \in [Workers -> State \cup {NoState}]
      /\ offer' \in [Workers -> Offer]
      /\ patch' \in [Workers -> Patch \cup {NoPatch}]
  BY <1>1 DEF EndCall, TypeOK
<1>3. ASSUME NEW v \in Workers PROVE HasWhatItNeeds(v)'
  <2>1. CASE v = w
    BY <2>1 DEF EndCall, TypeOK, HasWhatItNeeds
  <2>2. CASE v # w
    BY <2>2 DEF EndCall, TypeOK, HasWhatItNeeds
  <2>3. QED
    BY <2>1, <2>2
<1>4. QED
  BY <1>2, <1>3

\* Actions of a worker that go on with a call, one lemma for prepare, one for
\* finalize; then those that end one, and the rest of the world.
LEMMA PrepareTypes ==
    ASSUME TypeOK, NEW w \in Workers,
           PrepareEvaluate(w) \/ PrepareClaim(w)
    PROVE  TypeOK'
<1>1. CASE PrepareEvaluate(w)
  <2>1. Evaluate(current, Worker(w), now).selected \in Positions
    BY <1>1, SelectedPosition DEF PrepareEvaluate, TypeOK
  <2>2. Evaluate(current, Worker(w), now).selected \in Nat
    BY <2>1, PositionsAreNaturals
  <2>3. [todo |-> Evaluate(current, Worker(w), now).selected, lease |-> NoLease] \in Offer
    BY <2>2 DEF Offer, NoLease, Never, Lease
  <2>4. \A v \in Workers : HasWhatItNeeds(v)'
    BY <1>1, <2>1 DEF PrepareEvaluate, TypeOK, HasWhatItNeeds
  <2>5. QED
    BY <1>1, <2>3, <2>4 DEF PrepareEvaluate, TypeOK, ledgerVars
<1>2. CASE PrepareClaim(w)
  <2> DEFINE claim == Claim(snap[w], Worker(w), now, LeaseLength)
  <2>1. snap[w] \in State /\ claim.selected # 0 /\ now \in Nat
    BY <1>2 DEF PrepareClaim, TypeOK, HasWhatItNeeds
  <2>2. claim.selected \in Positions /\ claim.lease \in Lease
    BY <2>1, ClaimType
  <2> HIDE DEF claim
  <2>3. [todo |-> claim.selected, lease |-> claim.lease] \in Offer
    BY <2>2, PositionsAreNaturals DEF Offer
  <2>4. /\ pc[w] = "claiming"
        /\ \/ pc' = [pc EXCEPT ![w] = "verifying"] /\ offer' = offer
           \/ /\ pc' = [pc EXCEPT ![w] = "claim_due"]
              /\ offer' = [offer EXCEPT ![w] = [todo |-> claim.selected, lease |-> claim.lease]]
        /\ UNCHANGED <<current, now, snap, ticket, result, patch, evidence, begun, admitted,
                       ledgerVars, windows, crashes>>
    BY <1>2 DEF PrepareClaim, TypeOK, claim
  <2>5. \A v \in Workers : HasWhatItNeeds(v)'
    BY <2>2, <2>4 DEF TypeOK, HasWhatItNeeds
  <2>6. QED
    BY <2>3, <2>4, <2>5 DEF TypeOK, ledgerVars
<1>3. QED
  BY <1>1, <1>2

LEMMA FinalizeTypes ==
    ASSUME TypeOK, NEW w \in Workers,
           FinalizeBegin(w) \/ CaptureRaw(w) \/ CreateAtom(w) \/ FinalizeSpend(w)
    PROVE  TypeOK'
<1>1. CASE FinalizeBegin(w)
  <2>1. \A v \in Workers : HasWhatItNeeds(v)'
    BY <1>1 DEF FinalizeBegin, TypeOK, HasWhatItNeeds
  <2>2. QED
    BY <1>1, <2>1 DEF FinalizeBegin, TypeOK, ledgerVars
<1>2. CASE CaptureRaw(w)
  <2>1. \A v \in Workers : HasWhatItNeeds(v)'
    BY <1>2 DEF CaptureRaw, TypeOK, HasWhatItNeeds
  <2>2. result[w].slice \in Slices
    BY <1>2 DEF CaptureRaw, TypeOK, HasWhatItNeeds
  <2>3. QED
    BY <1>2, <2>1, <2>2 DEF CaptureRaw, TypeOK, ledgerVars
<1>3. CASE CreateAtom(w)
  <2>1. \A v \in Workers : HasWhatItNeeds(v)'
    BY <1>3 DEF CreateAtom, TypeOK, HasWhatItNeeds
  <2>2. QED
    BY <1>3, <2>1 DEF CreateAtom, TypeOK, ledgerVars
<1>4. CASE FinalizeSpend(w)
  <2>1. patch' = [patch EXCEPT ![w] =
           [previous_slice |-> [SpendState(w).previous_slice EXCEPT
                                   !.todo = result[w].todo, !.quota_spent = TRUE],
            spent_slots |-> SpentAfter(SpendState(w), result[w].slots),
            last_quota_spend_id |-> SpendId(w),
            slots |-> result[w].slots]]
    BY <1>4 DEF FinalizeSpend, Spending
  <2>2. /\ snap[w] \in State /\ result[w].slice \in Slices
        /\ result[w].todo \in Nat /\ result[w].slots \in Nat
    BY <1>4, ConstantsOK DEF FinalizeSpend, Spending, TypeOK, HasWhatItNeeds, Result
  <2>3. SpendState(w) \in State
    BY <2>2, SpendStateType
  <2>4. [SpendState(w).previous_slice EXCEPT !.todo = result[w].todo, !.quota_spent = TRUE]
          \in PreviousSlice
    BY <2>2, <2>3, TodosOfState DEF PreviousSlice
  <2>5. patch'[w] \in Patch /\ \A v \in Workers \ {w} : patch'[v] = patch[v]
    BY <2>1, <2>2, <2>3, <2>4, SpentType, ConstantsOK DEF Patch, TypeOK, SpendId
  <2>6. patch' \in [Workers -> Patch \cup {NoPatch}]
    BY <2>1, <2>5 DEF TypeOK
  <2>7. \A v \in Workers : HasWhatItNeeds(v)'
    BY <1>4, <2>5 DEF FinalizeSpend, Spending, TypeOK, HasWhatItNeeds
  <2>8. QED
    BY <1>4, <2>6, <2>7 DEF FinalizeSpend, Spending, TypeOK, ledgerVars
<1>5. QED
  BY <1>1, <1>2, <1>3, <1>4

\* A call, or a worker's use of a slice, ends without a write.
LEMMA EndTypes ==
    ASSUME TypeOK, NEW w \in Workers,
           \/ PrepareReturns(w) \/ WriteRefused(w)
           \/ CaptureFails(w) \/ CreateAtomFails(w) \/ FinalizeRefused(w) \/ SpendFails(w) \/ Crash(w)
    PROVE  TypeOK'
<1>1. PICK phase \in {"idle", "sliced"} :
         /\ EndCall(w, phase)
         /\ phase = "sliced" => pc[w] \in Finalizing \cup {"written"}
         /\ UNCHANGED <<current, now, ticket, result, begun, admitted, charges, windowTotal, windows>>
         /\ crashes' \in {crashes, crashes + 1}
         /\ evidence' \in {evidence, evidence \cup {result[w].slice}}
         /\ evidence' # evidence => pc[w] \in Finalizing
  BY DEF PrepareReturns, WriteRefused, CaptureFails, CreateAtomFails, FinalizeRefused, SpendFails, Spending, Crash,
         ledgerVars
<1>2. evidence' \subseteq Slices
  BY <1>1 DEF TypeOK, HasWhatItNeeds
<1>3. phase \in Phases \ (Preparing \cup Finalizing)
  BY <1>1
<1>4. /\ pc' \in [Workers -> Phases]
      /\ snap' \in [Workers -> State \cup {NoState}]
      /\ offer' \in [Workers -> Offer]
      /\ patch' \in [Workers -> Patch \cup {NoPatch}]
      /\ \A v \in Workers : HasWhatItNeeds(v)'
  BY <1>1, <1>3, EndCallTypes DEF TypeOK, HasWhatItNeeds
<1>5. QED
  BY <1>1, <1>2, <1>4 DEF TypeOK

LEMMA FinishTypes ==
    ASSUME TypeOK, NEW w \in Workers,
           FinalizeReplay(w) \/ FinalizeReprepare(w) \/ Acknowledge(w) \/ Abandon(w)
    PROVE  TypeOK'
<1>1. PICK kept \in {result[w], NoResult} : Finish(w, kept)
  BY DEF FinalizeReplay, FinalizeReprepare, Acknowledge, Abandon
<1>2. NoResult \in Result
  BY DEF NoResult, Result
<1>3. /\ ticket' \in [Workers -> Ticket \cup {NoTicket}]
      /\ result' \in [Workers -> Result]
      /\ \A v \in Workers \ {w} : ticket'[v] = ticket[v] /\ result'[v] = result[v]
      /\ result'[w] \in {result[w], NoResult}
  BY <1>1, <1>2 DEF Finish, TypeOK
<1>4. /\ pc' \in [Workers -> Phases]
      /\ snap' \in [Workers -> State \cup {NoState}]
      /\ offer' \in [Workers -> Offer]
      /\ patch' \in [Workers -> Patch \cup {NoPatch}]
      /\ \A v \in Workers : HasWhatItNeeds(v)'
  BY <1>1, <1>3, EndCallTypes DEF Finish
<1>5. QED
  BY <1>1, <1>3, <1>4 DEF Finish, TypeOK, ledgerVars

LEMMA IssueTypes ==
    ASSUME TypeOK, NEW w \in Workers, IssueTicket(w)
    PROVE  TypeOK'
<1> DEFINE issued == [todo |-> snap[w].todos[offer[w].todo].id, worker |-> w, state |-> snap[w]]
<1>1. issued \in Ticket
  <2>1. snap[w] \in State /\ offer[w].todo \in Positions
    BY DEF IssueTicket, TypeOK, HasWhatItNeeds
  <2>2. snap[w].todos[offer[w].todo] \in Todo
    BY <2>1, TodosOfState
  <2>3. QED
    BY <2>1, <2>2 DEF Ticket, Todo
<1>2. PICK phase \in {"ticketed", "sliced"} :
         EndCall(w, phase) /\ (phase = "sliced" => result[w] # NoResult)
  BY DEF IssueTicket
<1>3. ticket' = [ticket EXCEPT ![w] = issued]
  BY DEF IssueTicket
<1> HIDE DEF issued
<1>4. /\ ticket' \in [Workers -> Ticket \cup {NoTicket}] /\ ticket'[w] \in Ticket
      /\ \A v \in Workers \ {w} : ticket'[v] = ticket[v]
  BY <1>1, <1>3 DEF TypeOK
<1>5. UNCHANGED <<current, now, result, evidence, begun, admitted, charges, windowTotal,
                  windows, crashes>>
  BY DEF IssueTicket, ledgerVars
<1>6. /\ pc' \in [Workers -> Phases]
      /\ snap' \in [Workers -> State \cup {NoState}]
      /\ offer' \in [Workers -> Offer]
      /\ patch' \in [Workers -> Patch \cup {NoPatch}]
      /\ \A v \in Workers : HasWhatItNeeds(v)'
  BY <1>2, <1>4, <1>5, EndCallTypes DEF TypeOK
<1>7. QED
  BY <1>4, <1>5, <1>6 DEF TypeOK

LEMMA WriteTypes ==
    ASSUME TypeOK, NEW w \in Workers, WriteClaim(w) \/ WriteFinal(w)
    PROVE  TypeOK'
<1>1. CASE WriteClaim(w)
  <2>1. offer[w].todo \in Positions /\ offer[w].lease \in Lease /\ current \in State
    BY <1>1 DEF WriteClaim, TypeOK, HasWhatItNeeds, Offer
  <2>2. current' \in State
    BY <1>1, <2>1, ClaimedState DEF WriteClaim
  <2>3. /\ EndCall(w, "idle")
        /\ UNCHANGED <<now, ticket, result, evidence, begun, admitted, charges, windowTotal,
                       windows, crashes>>
    BY <1>1 DEF WriteClaim, ledgerVars
  <2>4. /\ pc' \in [Workers -> Phases]
        /\ snap' \in [Workers -> State \cup {NoState}]
        /\ offer' \in [Workers -> Offer]
        /\ patch' \in [Workers -> Patch \cup {NoPatch}]
        /\ \A v \in Workers : HasWhatItNeeds(v)'
    BY <2>3, EndCallTypes DEF TypeOK
  <2>5. QED
    BY <2>2, <2>3, <2>4 DEF TypeOK
<1>2. CASE WriteFinal(w)
  <2>1. patch[w] \in Patch /\ current \in State /\ result[w] # NoResult /\ ticket[w] \in Ticket
    BY <1>2 DEF WriteFinal, TypeOK, HasWhatItNeeds
  <2>2. current' \in State
    BY <1>2, <2>1 DEF WriteFinal, Patch, State
  <2>3. charges' \in [Slices -> Nat]
    <3>1. result[w].slice \in Slices /\ charges[result[w].slice] \in Nat
      BY <2>1 DEF TypeOK, HasWhatItNeeds
    <3>2. QED
      BY <1>2, <3>1 DEF WriteFinal, TypeOK
  <2>4. windowTotal' \in Nat
    BY <1>2, <2>1 DEF WriteFinal, TypeOK, Patch
  <2>5. /\ EndCall(w, "written")
        /\ UNCHANGED <<now, ticket, result, evidence, begun, admitted, windows, crashes>>
    BY <1>2 DEF WriteFinal
  <2>6. /\ pc' \in [Workers -> Phases]
        /\ snap' \in [Workers -> State \cup {NoState}]
        /\ offer' \in [Workers -> Offer]
        /\ patch' \in [Workers -> Patch \cup {NoPatch}]
        /\ \A v \in Workers : HasWhatItNeeds(v)'
    BY <2>1, <2>5, EndCallTypes DEF TypeOK
  <2>7. QED
    BY <2>2, <2>3, <2>4, <2>5, <2>6 DEF TypeOK
<1>3. QED
  BY <1>1, <1>2

LEMMA SliceTypes ==
    ASSUME TypeOK, (\E w \in Workers : ExecuteSlice(w)) \/ (\E s \in Slices : Admit(s))
    PROVE  TypeOK'
<1>1. CASE \E w \in Workers : ExecuteSlice(w)
  <2>1. PICK w \in Workers : ExecuteSlice(w)
    BY <1>1
  <2>2. PICK s \in Slices \ begun, n \in SlotCounts :
           /\ begun' = begun \cup {s}
           /\ result' = [result EXCEPT ![w] =
                            [slice |-> s, todo |-> ticket[w].todo, slots |-> n]]
    BY <2>1 DEF ExecuteSlice
  <2>3. ticket[w] \in Ticket
    BY <2>1 DEF ExecuteSlice, TypeOK, HasWhatItNeeds
  <2>4. /\ [slice |-> s, todo |-> ticket[w].todo, slots |-> n] \in Result
        /\ [slice |-> s, todo |-> ticket[w].todo, slots |-> n] # NoResult
    BY <2>3, ConstantsOK DEF Result, NoResult, Ticket
  <2>5. \A v \in Workers : HasWhatItNeeds(v)'
    BY <2>1, <2>2, <2>3, <2>4 DEF ExecuteSlice, TypeOK, HasWhatItNeeds
  <2>6. QED
    BY <2>1, <2>2, <2>4, <2>5 DEF ExecuteSlice, TypeOK, ledgerVars
<1>2. CASE \E s \in Slices : Admit(s)
  <2>1. \A v \in Workers : HasWhatItNeeds(v)'
    BY <1>2 DEF Admit, TypeOK, HasWhatItNeeds, workerVars
  <2>2. QED
    BY <1>2, <2>1 DEF Admit, TypeOK, workerVars, ledgerVars
<1>3. QED
  BY <1>1, <1>2

LEMMA WorldTypes ==
    ASSUME TypeOK,
           \/ Tick \/ RetireMarker \/ NewWindow
           \/ \E g \in ChangingGates : ChangeGate(g)
           \/ \E i \in Positions : CompleteTodo(i)
    PROVE  TypeOK'
<1>1. current \in State
  BY DEF TypeOK
<1>2. current' \in State
  <2>1. CASE Tick
    BY <1>1, <2>1 DEF Tick
  <2>2. CASE RetireMarker
    BY <1>1, <2>2 DEF RetireMarker, ChangeState, State, PreviousSlice, NoPreviousSlice
  <2>3. CASE NewWindow
    BY <1>1, <2>3 DEF NewWindow, ChangeState, State
  <2>4. ASSUME NEW g \in ChangingGates, ChangeGate(g) PROVE current' \in State
    <3>1. current' = [current EXCEPT !.gate = [current.gate EXCEPT ![g] = ~current.gate[g]]]
      BY <2>4, <1>1 DEF ChangeGate, ChangeState, State
    <3>2. g \in GateNames
      BY ConstantsOK
    <3>3. [current.gate EXCEPT ![g] = ~current.gate[g]] \in [GateNames -> BOOLEAN]
      BY <1>1, <3>2 DEF State
    <3>4. QED
      BY <1>1, <3>1, <3>3 DEF State
  <2>5. ASSUME NEW i \in Positions, CompleteTodo(i) PROVE current' \in State
    <3>1. [current.todos[i] EXCEPT !.status = "completed"] \in Todo
      BY <1>1, TodosOfState DEF Todo, TodoStatuses
    <3>2. QED
      BY <1>1, <2>5, <3>1 DEF CompleteTodo, ChangeState, State
  <2>6. QED
    BY <2>1, <2>2, <2>3, <2>4, <2>5
<1>3. /\ now' \in Nat /\ windowTotal' \in Nat /\ windows' \in Nat
      /\ UNCHANGED <<workerVars, evidence, begun, admitted, charges, crashes>>
  BY DEF Tick, RetireMarker, NewWindow, ChangeGate, CompleteTodo, ChangeState, ledgerVars, TypeOK
<1>4. \A v \in Workers : HasWhatItNeeds(v)'
  BY <1>3 DEF TypeOK, HasWhatItNeeds, workerVars
<1>5. QED
  BY <1>2, <1>3, <1>4 DEF TypeOK, workerVars

LEMMA TypeStep == TypeOK /\ [Next]_vars => TypeOK'
<1> SUFFICES ASSUME TypeOK, [Next]_vars PROVE TypeOK'
  OBVIOUS
<1>1. ASSUME NEW w \in Workers,
             Prepare(w) \/ ExecuteSlice(w) \/ Finalize(w) \/ Writeback(w) \/ Crash(w) \/ Abandon(w)
      PROVE  TypeOK'
  BY <1>1, PrepareTypes, FinalizeTypes, EndTypes, FinishTypes, IssueTypes, WriteTypes, SliceTypes
     DEF Prepare, Finalize, Writeback
<1>2. CASE \E s \in Slices : Admit(s)
  BY <1>2, SliceTypes
<1>3. CASE UNCHANGED vars
  <2>1. \A v \in Workers : HasWhatItNeeds(v)'
    BY <1>3 DEF TypeOK, HasWhatItNeeds, vars, workerVars
  <2>2. QED
    BY <1>3, <2>1 DEF TypeOK, vars, workerVars, ledgerVars
<1>4. QED
  BY <1>1, <1>2, <1>3, WorldTypes DEF Next

\* Through every interleaving of calls, writebacks, crashes and changes made by
\* people, each variable keeps its type and each phase of the handshake has the
\* state, todo, ticket, slice and writeback it works with.
THEOREM TypeCorrect == Spec => []TypeOK
<1>1. Init => TypeOK
  BY TypeInit
<1>2. TypeOK /\ [Next]_vars => TypeOK'
  BY TypeStep
<1>3. QED
  BY <1>1, <1>2, PTL DEF Spec
=============================================================================
