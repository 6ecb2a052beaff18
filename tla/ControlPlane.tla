---------------------------- MODULE ControlPlane ----------------------------
(***************************************************************************)
(* The execution control plane: several workers take bounded slices of one *)
(* goal through the prepare/finalize handshake of the execution            *)
(* orchestrator (Tools/ExecutionOrchestrator/execution_orchestrator.py),   *)
(* which consults the continuation controller (module Continuation) and    *)
(* preserves evidence through the memory controller.                       *)
(*                                                                         *)
(* The orchestrator is a process run once per call: it is handed a copy of *)
(* the authoritative state (STATE/current.yaml), writes nothing to it and  *)
(* returns the writeback its caller must apply.  Between the copy and the  *)
(* writeback every other worker, the people who move the gates and the     *)
(* clock may act.  The store and the caller are not in the repository:     *)
(* three constants say what is assumed of them.                            *)
(***************************************************************************)
EXTENDS Continuation

CONSTANTS Workers,
          Slices,            \* slice ids callers may give
          Capabilities,
          InitialState,      \* what STATE/current.yaml holds at first
          MultipleWorkers,   \* worker.multiple_workers
          LeaseLength,       \* lease_seconds
          SlotCounts,        \* the numbers of slots a slice_result may report
          ChangingGates,     \* gates that people open and close
          StoreCompares,     \* a writeback is applied only to the state it was computed from
          RetiresMarker,     \* the caller removes an accounted previous_slice before new work
          Resubmits,         \* told to reprepare, a worker finalizes the same slice again
          MaxTime, MaxWindows, MaxCrashes,   \* bounds
          NoState, NoTicket, NoPatch

VARIABLES current,     \* the authoritative state
          now,         \* the clock
          pc,          \* how far each worker is in the handshake
          snap,        \* the state handed to the orchestrator call in progress
          offer,       \* selected todo and projected lease of the prepare in progress
          ticket,      \* the execution ticket a worker holds
          result,      \* the slice_result of the slice a worker has executed
          patch,       \* the final writeback returned to the worker
          evidence,    \* slices whose raw evidence is in layer L0
          begun,       \* slice ids in use
          admitted,    \* slices the evidence admission authority validated
          charges,     \* how many accountings of each slice reached the state
          windowTotal, \* slots those accountings were for, in this window
          windows, crashes   \* counters for the bounds

workerVars == <<pc, snap, offer, ticket, result, patch>>
ledgerVars == <<charges, windowTotal>>
vars == <<current, now, workerVars, evidence, begun, admitted, ledgerVars, windows, crashes>>

-----------------------------------------------------------------------------
(* Types *)

Phases == {"idle", "claiming", "claim_due", "verifying", "ticketed", "sliced",
           "capturing", "captured", "accounting", "patching", "written"}

\* Phases of a prepare call, of a finalize call, and of the caller after it.
Preparing  == {"claiming", "claim_due", "verifying"}
Finalizing == {"capturing", "captured", "accounting", "patching"}

Positions == DOMAIN InitialState.todos

Lease == [owner : Workers \cup {NoOne}, expires_at : Int]

Todo == [id : Nat, status : TodoStatuses, task_class : TaskClasses,
         required_capabilities : SUBSET Capabilities, lease : Lease]

PreviousSlice ==
    [kind : {"absent", "null", "object"}, slice : Slices \cup {NoSlice}, todo : Nat,
     writeback_complete : BOOLEAN, validated : BOOLEAN,
     evidence_refs : SUBSET Slices, quota_spent : BOOLEAN]

\* The fields the handshake reads.  A state whose safety fields are missing or
\* out of bounds never gets past _validate_control_state.
State == [gate : [GateNames -> BOOLEAN], compute_share : 0..100,
          allowed_slots : Nat, spent_slots : Nat,
          previous_slice : PreviousSlice, last_quota_spend_id : Slices \cup {NoSlice},
          todos : [Positions -> Todo], todos_truncated : BOOLEAN,
          available_capabilities : SUBSET Capabilities]

Ticket == [todo : Nat, worker : Workers, state : State]

\* The parts of the writeback the handshake reads again.  The memory projection
\* and the other fields of orchestration enter the fingerprint too, so that two
\* states the code tells apart may be one here: then a ticket is good for more
\* states than in the code.
Patch == [previous_slice : PreviousSlice, spent_slots : Nat,
          last_quota_spend_id : Slices \cup {NoSlice}, slots : Nat]

Offer == [todo : Nat, lease : Lease]
NoOffer == [todo |-> 0, lease |-> NoLease]

Result == [slice : Slices \cup {NoSlice}, todo : Nat, slots : SlotCounts \cup {0}]
NoResult == [slice |-> NoSlice, todo |-> 0, slots |-> 0]

ASSUME ConstantsOK ==
    /\ NoOne \notin Workers /\ NoSlice \notin Slices
    /\ InitialState \in State
    /\ InitialState.todos \in Seq(Todo)
    /\ InitialState.previous_slice \in {NoPreviousSlice, NullPreviousSlice}
    /\ InitialState.last_quota_spend_id = NoSlice
    /\ InitialState.spent_slots <= InitialState.allowed_slots
    /\ NoState \notin State /\ NoTicket \notin Ticket /\ NoPatch \notin Patch
    /\ LeaseLength \in Nat \ {0} /\ SlotCounts \subseteq Nat
    /\ ChangingGates \subseteq GateNames
    /\ {MultipleWorkers, StoreCompares, RetiresMarker, Resubmits} \subseteq BOOLEAN
    /\ {MaxTime, MaxWindows, MaxCrashes} \subseteq Nat

Worker(w) == [id |-> w, multiple_workers |-> MultipleWorkers]

Init ==
    /\ current = InitialState
    /\ now = 0
    /\ pc = [w \in Workers |-> "idle"]
    /\ snap = [w \in Workers |-> NoState]
    /\ offer = [w \in Workers |-> NoOffer]
    /\ ticket = [w \in Workers |-> NoTicket]
    /\ result = [w \in Workers |-> NoResult]
    /\ patch = [w \in Workers |-> NoPatch]
    /\ evidence = {} /\ begun = {} /\ admitted = {}
    /\ charges = [s \in Slices |-> 0]
    /\ windowTotal = InitialState.spent_slots
    /\ windows = 0 /\ crashes = 0

-----------------------------------------------------------------------------
(* prepare.  Only the calls that get past a stop appear: a prepare that     *)
(* stops earlier returns without a ticket and leaves everything as it was.  *)

\* The call of worker w ends; the state it was handed is forgotten.
EndCall(w, phase) ==
    /\ pc' = [pc EXCEPT ![w] = phase]
    /\ snap' = [snap EXCEPT ![w] = NoState]
    /\ offer' = [offer EXCEPT ![w] = NoOffer]
    /\ patch' = [patch EXCEPT ![w] = NoPatch]

\* The caller loads the state and prepare evaluates it: should_run holds and
\* a concrete todo is selected.
PrepareEvaluate(w) ==
    LET decision == Evaluate(current, Worker(w), now)
    IN /\ pc[w] = "idle"
       /\ decision.should_run /\ decision.selected # 0
       /\ pc' = [pc EXCEPT ![w] = IF MultipleWorkers THEN "claiming" ELSE "verifying"]
       /\ snap' = [snap EXCEPT ![w] = current]
       /\ offer' = [offer EXCEPT ![w] = [todo |-> decision.selected, lease |-> NoLease]]
       /\ UNCHANGED <<current, now, ticket, result, patch, evidence, begun, admitted,
                      ledgerVars, windows, crashes>>

\* Mutant: any lease on the todo confirms the claim.
SomeoneClaimed(s, i, w, lease) == s.todos[i].lease # NoLease

\* The claim the controller projects is confirmed when it is the very lease
\* the selected todo carries in the state that was handed over.
ClaimConfirmed(s, i, w, lease) ==
    /\ s.todos[i].lease # NoLease
    /\ s.todos[i].lease = lease
    /\ s.todos[i].lease.owner = w

\* With several workers prepare asks for the claim, in a second run of the
\* controller that looks at the clock again.  A claim that is not in the state
\* already is returned for the caller to write.
PrepareClaim(w) ==
    LET claim == Claim(snap[w], Worker(w), now, LeaseLength)
        confirmed == ClaimConfirmed(snap[w], offer[w].todo, w, claim.lease)
    IN /\ pc[w] = "claiming"
       /\ claim.selected # 0
       /\ pc' = [pc EXCEPT ![w] = IF confirmed THEN "verifying" ELSE "claim_due"]
       /\ offer' = [offer EXCEPT ![w] =
                       IF confirmed THEN @ ELSE [todo |-> claim.selected, lease |-> claim.lease]]
       /\ UNCHANGED <<current, now, snap, ticket, result, patch, evidence, begun, admitted,
                      ledgerVars, windows, crashes>>

\* Memory projection and code navigation only add context, so what is left is
\* source verification: once it is complete the ticket is issued, bound to the
\* worker and to the fingerprint of the state.  A worker that still holds a
\* slice goes on with it.
IssueTicket(w) ==
    /\ pc[w] = "verifying"
    /\ ticket' = [ticket EXCEPT ![w] =
                     [todo |-> snap[w].todos[offer[w].todo].id, worker |-> w, state |-> snap[w]]]
    /\ EndCall(w, IF result[w] = NoResult THEN "ticketed" ELSE "sliced")
    /\ UNCHANGED <<current, now, result, evidence, begun, admitted, ledgerVars, windows, crashes>>

\* prepare returns without a ticket: source verification is not complete, or
\* a controller failed, timed out or broke its contract.
PrepareReturns(w) ==
    /\ pc[w] \in {"claiming", "verifying"}
    /\ EndCall(w, "idle")
    /\ UNCHANGED <<current, now, ticket, result, evidence, begun, admitted,
                   ledgerVars, windows, crashes>>

-----------------------------------------------------------------------------
(* The store applies what a caller writes back *)

Accepts(w) == StoreCompares => current = snap[w]

WriteClaim(w) ==
    /\ pc[w] = "claim_due" /\ Accepts(w)
    /\ current' = [current EXCEPT !.todos[offer[w].todo].lease = offer[w].lease,
                                  !.todos[offer[w].todo].status = "claimed"]
    /\ EndCall(w, "idle")
    /\ UNCHANGED <<now, ticket, result, evidence, begun, admitted, ledgerVars, windows, crashes>>

\* The finalization patch replaces previous_slice, the total of spent slots and
\* the id of the last spend.
WriteFinal(w) ==
    /\ pc[w] = "patching" /\ Accepts(w)
    /\ current' = [current EXCEPT !.previous_slice = patch[w].previous_slice,
                                  !.spent_slots = patch[w].spent_slots,
                                  !.last_quota_spend_id = patch[w].last_quota_spend_id]
    /\ charges' = [charges EXCEPT ![result[w].slice] = @ + 1]
    /\ windowTotal' = windowTotal + patch[w].slots
    /\ EndCall(w, "written")
    /\ UNCHANGED <<now, ticket, result, evidence, begun, admitted, windows, crashes>>

\* The state has moved on: the caller starts over, with its slice if it has one.
WriteRefused(w) ==
    /\ pc[w] \in {"claim_due", "patching"} /\ ~Accepts(w)
    /\ EndCall(w, IF pc[w] = "patching" THEN "sliced" ELSE "idle")
    /\ UNCHANGED <<current, now, ticket, result, evidence, begun, admitted,
                   ledgerVars, windows, crashes>>

-----------------------------------------------------------------------------
(* The bounded slice and the evidence admission authority *)

\* The worker executes one slice under its ticket, gives it an unused id, says
\* how many slots it took and puts its evidence in a file.
ExecuteSlice(w) ==
    /\ pc[w] = "ticketed"
    /\ \E s \in Slices \ begun, slots \in SlotCounts :
          /\ begun' = begun \cup {s}
          /\ result' = [result EXCEPT ![w] =
                           [slice |-> s, todo |-> ticket[w].todo, slots |-> slots]]
    /\ pc' = [pc EXCEPT ![w] = "sliced"]
    /\ UNCHANGED <<current, now, snap, offer, ticket, patch, evidence, admitted,
                   ledgerVars, windows, crashes>>

\* validated=true is the authority's word, not the worker's.
Admit(s) ==
    /\ s \in begun \ admitted
    /\ admitted' = admitted \cup {s}
    /\ UNCHANGED <<current, now, workerVars, evidence, begun, ledgerVars, windows, crashes>>

-----------------------------------------------------------------------------
(* finalize *)

\* Mutant: the authority is not waited for.
SelfApproved(w) == TRUE

Validated(w) == result[w].slice \in admitted

TakesPreviousSlice(s) == s.previous_slice.kind # "null"

\* Everything finalize refuses before it touches memory leaves the worker with
\* its ticket and its slice: a result that is not validated, another todo than
\* the ticket's, a previous_slice that is not an object.
FinalizeBegin(w) ==
    /\ pc[w] = "sliced"
    /\ result[w].todo = ticket[w].todo
    /\ Validated(w)
    /\ TakesPreviousSlice(current)
    /\ pc' = [pc EXCEPT ![w] = "capturing"]
    /\ snap' = [snap EXCEPT ![w] = current]
    /\ UNCHANGED <<current, now, offer, ticket, result, patch, evidence, begun, admitted,
                   ledgerVars, windows, crashes>>

\* capture_raw.  Its process may be killed by the timeout, or fail, after the
\* evidence is written: then the call is blocked all the same.
CaptureRaw(w) ==
    /\ pc[w] = "capturing"
    /\ evidence' = evidence \cup {result[w].slice}
    /\ pc' = [pc EXCEPT ![w] = "captured"]
    /\ UNCHANGED <<current, now, snap, offer, ticket, result, patch, begun, admitted,
                   ledgerVars, windows, crashes>>

\* Mutant: a failed capture does not block the call.
CaptureFailsOpen(w) ==
    /\ pc[w] = "capturing"
    /\ pc' = [pc EXCEPT ![w] = "captured"]
    /\ UNCHANGED <<current, now, snap, offer, ticket, result, patch, evidence, begun, admitted,
                   ledgerVars, windows, crashes>>

CaptureFails(w) ==
    /\ pc[w] = "capturing"
    /\ evidence' \in {evidence, evidence \cup {result[w].slice}}
    /\ EndCall(w, "sliced")
    /\ UNCHANGED <<current, now, ticket, result, begun, admitted, ledgerVars, windows, crashes>>

\* create_atom, where the result asks for one; a failure blocks the call.
CreateAtom(w) ==
    /\ pc[w] = "captured"
    /\ pc' = [pc EXCEPT ![w] = "accounting"]
    /\ UNCHANGED <<current, now, snap, offer, ticket, result, patch, evidence, begun, admitted,
                   ledgerVars, windows, crashes>>

CreateAtomFails(w) ==
    /\ pc[w] = "captured"
    /\ EndCall(w, "sliced")
    /\ UNCHANGED <<current, now, ticket, result, evidence, begun, admitted,
                   ledgerVars, windows, crashes>>

\* The worker has no more use for its ticket, nor for its slice unless kept.
Finish(w, kept) ==
    /\ EndCall(w, "idle")
    /\ ticket' = [ticket EXCEPT ![w] = NoTicket]
    /\ result' = [result EXCEPT ![w] = kept]
    /\ UNCHANGED <<current, now, evidence, begun, admitted, ledgerVars, windows, crashes>>

\* A state in which a slice is marked as accounted.
Marked(s) == s.previous_slice.quota_spent

\* Mutants: the state is not compared; only the work in it is compared.
TicketOfWorker(w) == ticket[w].worker = w
WorkMatchesTicket(w) ==
    /\ snap[w].todos = ticket[w].state.todos
    /\ snap[w].last_quota_spend_id = ticket[w].state.last_quota_spend_id

StateMatchesTicket(w) == ticket[w].worker = w /\ snap[w] = ticket[w].state

\* The slice is the one marked: an idempotent replay, with nothing to write.
FinalizeReplay(w) ==
    /\ pc[w] = "accounting"
    /\ Marked(snap[w]) /\ snap[w].previous_slice.slice = result[w].slice
    /\ Finish(w, NoResult)

\* Another slice is marked (quota_accounting_conflict), or the state is not the
\* one the ticket was issued for (stale_execution_state): the evidence stays,
\* nothing is charged, and the worker is told to reprepare.
Conflicting(w) == Marked(snap[w]) /\ snap[w].previous_slice.slice # result[w].slice

Stale(w) == ~Marked(snap[w]) /\ ~StateMatchesTicket(w)

\* Mutant: the worker keeps the ticket that is stale.
FinalizeRetries(w) ==
    /\ pc[w] = "accounting" /\ (Conflicting(w) \/ Stale(w))
    /\ EndCall(w, "sliced")
    /\ UNCHANGED <<current, now, ticket, result, evidence, begun, admitted,
                   ledgerVars, windows, crashes>>

FinalizeReprepare(w) ==
    /\ pc[w] = "accounting"
    /\ Conflicting(w) \/ Stale(w)
    /\ Finish(w, IF Resubmits THEN result[w] ELSE NoResult)

\* The state spend is asked about: previous_slice updated with this slice.
SpendState(w) ==
    LET id == result[w].slice
        previous == snap[w].previous_slice
    IN [snap[w] EXCEPT !.previous_slice =
          [previous EXCEPT !.kind = "object", !.slice = id, !.writeback_complete = TRUE,
                           !.validated = TRUE,
                           !.evidence_refs = previous.evidence_refs \cup {id}]]

\* The call gets as far as the spend.
Spending(w) == pc[w] = "accounting" /\ ~Marked(snap[w]) /\ StateMatchesTicket(w)

\* A slice that reports no slots is invalid; one that the quota does not pay for
\* is refused by spend.  Nothing in the result changes, so that every further
\* call on this state ends alike.
FinalizeRefused(w) ==
    /\ Spending(w)
    /\ result[w].slots = 0 \/ SpendRefusal(SpendState(w), result[w].slots) # "none"
    /\ EndCall(w, "sliced")
    /\ UNCHANGED <<current, now, ticket, result, evidence, begun, admitted,
                   ledgerVars, windows, crashes>>

\* The continuation controller is a child process: it fails, or the timeout ends
\* it.  It has written nothing.
SpendFails(w) ==
    /\ Spending(w) /\ result[w].slots > 0
    /\ EndCall(w, "sliced")
    /\ UNCHANGED <<current, now, ticket, result, evidence, begun, admitted,
                   ledgerVars, windows, crashes>>

\* Mutant: the id of the spend is not written back.
NoSpendId(w) == NoSlice

\* The spend id is a digest of ticket and slice.  Here the slice stands for it,
\* which tells no two states apart that the code does not.
SpendId(w) == result[w].slice

\* The spend is accepted and the final writeback is returned.
FinalizeSpend(w) ==
    /\ Spending(w) /\ result[w].slots > 0
    /\ SpendRefusal(SpendState(w), result[w].slots) = "none"
    /\ patch' = [patch EXCEPT ![w] =
          [previous_slice |-> [SpendState(w).previous_slice EXCEPT
                                  !.todo = result[w].todo, !.quota_spent = TRUE],
           spent_slots |-> SpentAfter(SpendState(w), result[w].slots),
           last_quota_spend_id |-> SpendId(w),
           slots |-> result[w].slots]]
    /\ pc' = [pc EXCEPT ![w] = "patching"]
    /\ UNCHANGED <<current, now, snap, offer, ticket, result, evidence, begun, admitted,
                   ledgerVars, windows, crashes>>

-----------------------------------------------------------------------------
(* The caller's side, and the rest of the world *)

\* The writeback is applied and the worker knows it.
Acknowledge(w) == pc[w] = "written" /\ Finish(w, NoResult)

\* The caller fails before it knows of the end of the call.  Ticket and slice
\* result are files; it finalizes again.
Crash(w) ==
    /\ pc[w] \in Finalizing \cup {"written"}
    /\ crashes < MaxCrashes
    /\ crashes' = crashes + 1
    /\ EndCall(w, "sliced")
    /\ UNCHANGED <<current, now, ticket, result, evidence, begun, admitted, ledgerVars, windows>>

\* A worker gives up its ticket and its slice.
Abandon(w) == pc[w] \in {"ticketed", "sliced"} /\ Finish(w, NoResult)

Tick ==
    /\ now < MaxTime
    /\ now' = now + 1
    /\ UNCHANGED <<current, workerVars, evidence, begun, admitted, ledgerVars, windows, crashes>>

ChangeState(new) ==
    /\ current' = new
    /\ UNCHANGED <<now, workerVars, evidence, begun, admitted, charges, crashes>>

ChangeGate(g) ==
    /\ ChangeState([current EXCEPT !.gate[g] = ~@])
    /\ UNCHANGED <<windowTotal, windows>>

\* The caller takes the accounted slice out of the state before it goes on.
RetireMarker ==
    /\ RetiresMarker /\ Marked(current)
    /\ ChangeState([current EXCEPT !.previous_slice = NoPreviousSlice])
    /\ UNCHANGED <<windowTotal, windows>>

NewWindow ==
    /\ windows < MaxWindows
    /\ windows' = windows + 1
    /\ windowTotal' = 0
    /\ ChangeState([current EXCEPT !.spent_slots = 0])

CompleteTodo(i) ==
    /\ Marked(current) /\ current.previous_slice.todo = current.todos[i].id
    /\ current.todos[i].status # "completed"
    /\ ChangeState([current EXCEPT !.todos[i].status = "completed"])
    /\ UNCHANGED <<windowTotal, windows>>

Prepare(w) == PrepareEvaluate(w) \/ PrepareClaim(w) \/ IssueTicket(w) \/ PrepareReturns(w)

Finalize(w) ==
    \/ FinalizeBegin(w) \/ CaptureRaw(w) \/ CaptureFails(w)
    \/ CreateAtom(w) \/ CreateAtomFails(w)
    \/ FinalizeReplay(w) \/ FinalizeReprepare(w)
    \/ FinalizeRefused(w) \/ SpendFails(w) \/ FinalizeSpend(w)

Writeback(w) == WriteClaim(w) \/ WriteFinal(w) \/ WriteRefused(w) \/ Acknowledge(w)

Next ==
    \/ \E w \in Workers :
          Prepare(w) \/ ExecuteSlice(w) \/ Finalize(w) \/ Writeback(w) \/ Crash(w) \/ Abandon(w)
    \/ \E s \in Slices : Admit(s)
    \/ Tick \/ RetireMarker \/ NewWindow
    \/ \E g \in ChangingGates : ChangeGate(g)
    \/ \E i \in Positions : CompleteTodo(i)

Spec == Init /\ [][Next]_vars

-----------------------------------------------------------------------------
(* Fairness: the workers keep calling, the authority judges every slice, and  *)
(* a controller that may succeed does not fail for ever.                      *)

Judge(w) ==
    \/ FinalizeReplay(w) \/ FinalizeReprepare(w)
    \/ FinalizeRefused(w) \/ SpendFails(w) \/ FinalizeSpend(w)

Fairness ==
    /\ \A w \in Workers :
          /\ WF_vars(FinalizeBegin(w)) /\ SF_vars(CaptureRaw(w)) /\ SF_vars(CreateAtom(w))
          /\ WF_vars(Judge(w)) /\ SF_vars(FinalizeSpend(w)) /\ WF_vars(Writeback(w))
    /\ \A s \in Slices : WF_vars(Admit(s))

FairSpec == Spec /\ Fairness

-----------------------------------------------------------------------------
(* Properties *)

\* What the phase worker w is in relies on: a state, a selected todo, a ticket,
\* a slice, a writeback.
HasWhatItNeeds(w) ==
    /\ pc[w] \in Preparing \cup Finalizing => snap[w] \in State
    /\ pc[w] \in Preparing => offer[w].todo \in Positions
    /\ pc[w] \notin {"idle"} \cup Preparing => ticket[w] \in Ticket
    /\ pc[w] \in {"sliced", "written"} \cup Finalizing => result[w] # NoResult
    /\ result[w] # NoResult => result[w].slice \in begun
    /\ pc[w] = "patching" => patch[w] \in Patch

\* Every variable has its type, and no phase lacks what it relies on.
TypeOK ==
    /\ current \in State
    /\ now \in Nat
    /\ pc \in [Workers -> Phases]
    /\ snap \in [Workers -> State \cup {NoState}]
    /\ offer \in [Workers -> Offer]
    /\ ticket \in [Workers -> Ticket \cup {NoTicket}]
    /\ result \in [Workers -> Result]
    /\ patch \in [Workers -> Patch \cup {NoPatch}]
    /\ begun \subseteq Slices /\ admitted \subseteq begun /\ evidence \subseteq Slices
    /\ charges \in [Slices -> Nat]
    /\ windowTotal \in Nat /\ windows \in Nat /\ crashes \in Nat
    /\ \A w \in Workers : HasWhatItNeeds(w)

\* The slots the state says are spent are the slots of the accountings that
\* reached it in this window: none is lost to another worker's writeback and
\* none counts twice, although every patch carries a total and not a delta.
SpentIsCharged == current.spent_slots = windowTotal

\* The quota is never overspent, whichever workers judged it eligible.
WithinQuota == current.spent_slots <= current.allowed_slots

\* However often finalize is called for it, after crashes, refused writebacks
\* and retired markers, a slice is charged at most once.
ChargedAtMostOnce == \A s \in Slices : charges[s] <= 1

\* Evidence is durable before finalize judges the accounting, so it is there
\* when the answer is to charge, to reprepare or to retry; and it was admitted.
EvidenceFirst ==
    /\ \A w \in Workers :
          pc[w] \in {"captured", "accounting", "patching", "written"}
              => result[w].slice \in evidence \cap admitted
    /\ \A s \in Slices : charges[s] > 0 => s \in evidence \cap admitted

\* The authoritative state never refers to evidence that was not preserved.
ReferencesDurable == current.previous_slice.evidence_refs \subseteq evidence

\* A slice is charged to a state whose gates are all open and, with several
\* workers, only while the worker that executed it holds the todo: a gate
\* closed or a todo taken over during the slice keeps it from being charged.
ChargeJustified ==
    [][\A s \in Slices :
          charges'[s] # charges[s]
              => /\ \A g \in GateNames : ~current.gate[g]
                 /\ current.compute_share > 0
                 /\ MultipleWorkers =>
                       \E w \in Workers, i \in Positions :
                          /\ result[w].slice = s /\ result[w].todo = current.todos[i].id
                          /\ current.todos[i].lease.owner = w]_vars

\* A lease that has not expired is never replaced by another one, although the
\* claim was computed from an older copy of the state and an earlier time.
LeaseRespected ==
    [][\A i \in Positions :
          current'.todos[i].lease # current.todos[i].lease
              => \/ current.todos[i].lease = NoLease
                 \/ Expired(current.todos[i].lease, now)]_vars

\* Of two workers whose tickets are both good for the state as it is, each has
\* a todo of its own.
LiveTicketsDisjoint ==
    \A v, w \in Workers :
        /\ MultipleWorkers /\ v # w
        /\ ticket[v] # NoTicket /\ ticket[w] # NoTicket
        /\ ticket[v].state = current /\ ticket[w].state = current
        => ticket[v].todo # ticket[w].todo

\* The quota a ticket was issued under pays for a slice of one slot: as long as
\* the state is that of the ticket, finalize does not refuse the spend.
TicketAffordable ==
    \A w \in Workers :
        pc[w] = "accounting" /\ ~Marked(snap[w]) /\ StateMatchesTicket(w)
            => SpendRefusal(SpendState(w), 1) = "none"

\* The handshake implements the promised accounting of slices.
Ledger == INSTANCE SliceLedger WITH
              Allowed   <- InitialState.allowed_slots,
              preserved <- evidence,
              charged   <- {s \in Slices : charges[s] > 0},
              spent     <- current.spent_slots

ImplementsLedger == Ledger!Spec

\* What finalize can settle in the end: a slice whose ticket is stale; one of one
\* slot, which every ticket pays for; a larger one as long as the quota left pays
\* for it.  It refuses the others at every call, and every slice while
\* previous_slice is null: nothing settles those.
Accountable(w) ==
    /\ TakesPreviousSlice(current)
    /\ \/ ticket[w].state # current
       \/ result[w].slots = 1
       \/ result[w].slots \in 1..(AllowedSlots(current) - current.spent_slots)

\* Once people leave the gates alone, no worker goes on finalizing a slice that
\* stays accountable for ever: through failing controllers, crashes and refused
\* writebacks the slice is charged, or its worker is told to reprepare.
SliceSettled ==
    <>[][current'.gate = current.gate]_vars =>
        \A w \in Workers : ~<>[](result[w] # NoResult /\ Accountable(w))

\* A ticket for the state as it is can be accounted on that state.
TicketAccountable ==
    \A w \in Workers :
        pc[w] = "accounting" /\ StateMatchesTicket(w) => ~Conflicting(w)

=============================================================================
