---------------------------- MODULE Continuation ----------------------------
(***************************************************************************)
(* The native continuation controller                                      *)
(* (Tools/ContinuationController/continuation_controller.py): three pure   *)
(* projections of one authoritative state, `evaluate', `claim' and         *)
(* `spend'.  It writes nothing; whoever called it owns the state.          *)
(*                                                                         *)
(* A state s is a record with the fields                                   *)
(*   gate              [GateNames -> BOOLEAN], TRUE where the gate blocks  *)
(*   compute_share     hundredths of the compute quota, 0..100             *)
(*   window_hours, slot_minutes, allowed_slots, spent_slots                *)
(*   previous_slice    the record of the last slice, see PreviousSlice     *)
(*   todos             a sequence of todo records, in the list's order     *)
(*   todos_truncated, available_capabilities                               *)
(* and a worker is [id, multiple_workers].  Times are integers.            *)
(***************************************************************************)
EXTENDS Integers, Sequences, FiniteSets

CONSTANTS NoOne,     \* the owner of a todo that has no lease
          NoSlice    \* the slice named by a previous_slice that names none

-----------------------------------------------------------------------------
(* Data *)

Never == -1          \* expires_at of a lease that does not expire
Unset == -1          \* allowed_slots when the state leaves it to the window

NoLease == [owner |-> NoOne, expires_at |-> Never]

TodoStatuses == {"unclaimed", "claimed", "running", "waiting", "completed", "blocked"}
TaskClasses  == {"advancement_task", "continuous_monitor"}
OwnerHeldCapabilities == {"credentials", "production_access", "human_review"}

\* The gates a person or another system opens and closes in the state; a
\* human gate blocks while it is required and not satisfied.
GateNames == {"goal_complete", "health", "human_gate",
              "evidence_wait", "focus_wait", "budget"}

\* previous_slice may be missing, null, or an object.
NoPreviousSlice ==
    [kind |-> "absent", slice |-> NoSlice, todo |-> 0, writeback_complete |-> FALSE,
     validated |-> FALSE, evidence_refs |-> {}, quota_spent |-> FALSE]

NullPreviousSlice == [NoPreviousSlice EXCEPT !.kind = "null"]

-----------------------------------------------------------------------------
(* Quota *)

AllowedSlots(s) ==
    IF s.allowed_slots # Unset
      THEN s.allowed_slots
      ELSE (((s.window_hours * 60) \div s.slot_minutes) * s.compute_share) \div 100

\* Mutant: the last slot taken still counts as free.
EligibleWhenSpent(s) == s.compute_share > 0 /\ s.spent_slots <= AllowedSlots(s)

QuotaEligible(s) == s.compute_share > 0 /\ s.spent_slots < AllowedSlots(s)

-----------------------------------------------------------------------------
(* Leases *)

Expired(lease, now) == lease.expires_at # Never /\ lease.expires_at <= now

LeaseState(lease, id, now) ==
    IF lease = NoLease THEN "free"
    ELSE IF Expired(lease, now) THEN "expired"
    ELSE IF lease.owner = id THEN "owned_by_self" ELSE "owned_by_other"

-----------------------------------------------------------------------------
(* evaluate *)

Stop(decision, reason, action) ==
    [decision |-> decision, reason_code |-> reason, effective_action |-> action,
     should_run |-> FALSE, selected |-> 0]

Run(reason, action, i) ==
    [decision |-> "run", reason_code |-> reason, effective_action |-> action,
     should_run |-> TRUE, selected |-> i]

\* The gates in the order evaluate tries them: the first closed one decides.
GateSequence(s) ==
    LET gate(closed, verdict) == [closed |-> closed, verdict |-> verdict]
        object == s.previous_slice.kind = "object"
    IN << gate(s.gate["goal_complete"], Stop("complete", "goal_complete", "none")),
          gate(s.gate["health"], Stop("blocked", "health_blocked", "repair_or_escalate_health")),
          gate(s.gate["human_gate"], Stop("ask_human", "human_gate_required", "request_human_decision")),
          gate(object /\ ~s.previous_slice.writeback_complete,
               Stop("blocked", "writeback_incomplete", "complete_writeback")),
          gate(object /\ ~s.previous_slice.validated,
               Stop("wait", "previous_slice_unvalidated", "validate_previous_slice")),
          gate(s.gate["evidence_wait"], Stop("wait", "evidence_wait", "wait_for_evidence")),
          gate(s.gate["focus_wait"], Stop("wait", "focus_wait", "wait_for_focus_transition")),
          gate(s.gate["budget"], Stop("blocked", "budget_exhausted", "request_budget_or_replan")),
          gate(s.compute_share = 0, Stop("wait", "quota_paused", "quota_pause")),
          gate(~QuotaEligible(s), Stop("wait", "quota_exhausted", "wait_for_quota_window")) >>

ClosedGates(s) == {g \in 1..10 : GateSequence(s)[g].closed}

First(S) == CHOOSE i \in S : \A j \in S : i <= j

OpenTodos(s) ==
    {i \in DOMAIN s.todos : s.todos[i].status \notin {"completed", "blocked", "waiting"}}

Advancement(s) == {i \in OpenTodos(s) : s.todos[i].task_class = "advancement_task"}
Monitors(s)    == {i \in OpenTodos(s) : s.todos[i].task_class = "continuous_monitor"}

Missing(s, i) == s.todos[i].required_capabilities \ s.available_capabilities

\* Mutant: leases of other workers are not looked at.
CandidatesOfAnyone(s, worker, now) == Advancement(s)

\* Advancement todos this worker may take: with several workers, those that
\* another worker leases are passed over.
Candidates(s, worker, now) ==
    {i \in Advancement(s) :
        ~ /\ worker.multiple_workers
          /\ LeaseState(s.todos[i].lease, worker.id, now) = "owned_by_other"}

Runnable(s, worker, now) == {i \in Candidates(s, worker, now) : Missing(s, i) = {}}

\* The candidate chosen is the first runnable one, but the todo returned is
\* the first advancement todo that carries its id.
SelectedTodo(s, worker, now) ==
    First({i \in Advancement(s) :
              s.todos[i].id = s.todos[First(Runnable(s, worker, now))].id})

\* What evaluate answers once every gate is open.
WorkLane(s, worker, now) ==
    LET blocked == {i \in Candidates(s, worker, now) : Missing(s, i) # {}}
        missing == UNION {Missing(s, i) : i \in blocked}
    IN IF Runnable(s, worker, now) # {}
         THEN Run("advancement_todo_runnable", "run_bounded_slice",
                  SelectedTodo(s, worker, now))
       ELSE IF missing \cap OwnerHeldCapabilities # {}
         THEN Stop("ask_human", "owner_capability_required", "request_required_capability")
       ELSE IF blocked # {}
         THEN Stop("blocked", "capability_repair_required", "capability_repair")
       ELSE IF s.todos_truncated
         THEN Run("hidden_todo_conservative_advance",
                  "materialize_advancement_todo_or_blocker", 0)
       ELSE IF Monitors(s) # {}
         THEN Stop("wait", "monitor_quiet", "monitor_quiet_skip")
       ELSE Stop("wait", "no_executable_todo", "materialize_todo_or_blocker")

Evaluate(s, worker, now) ==
    IF ClosedGates(s) # {}
      THEN GateSequence(s)[First(ClosedGates(s))].verdict
      ELSE WorkLane(s, worker, now)

-----------------------------------------------------------------------------
(* claim *)

\* The lease claim projects on todo i: a live lease of this worker is kept as
\* it is, never extended; anything else is replaced by a new one.  The ids of
\* leases are random, so a new lease is never the one it replaces.
ProjectedLease(s, i, worker, now, seconds) ==
    IF LeaseState(s.todos[i].lease, worker.id, now) = "owned_by_self"
      THEN s.todos[i].lease
      ELSE [owner |-> worker.id, expires_at |-> now + seconds]

\* selected = 0 is the answer invalid_transition.
Claim(s, worker, now, seconds) ==
    LET i == Evaluate(s, worker, now).selected
    IN [selected |-> i,
        lease |-> IF i = 0 THEN NoLease ELSE ProjectedLease(s, i, worker, now, seconds)]

-----------------------------------------------------------------------------
(* spend *)

\* Mutant: the quota is not looked at again.
SpendUnchecked(s, slots) == IF ~s.previous_slice.validated THEN "slice_unvalidated" ELSE "none"

SpendRefusal(s, slots) ==
    LET p == s.previous_slice
    IN IF ~p.writeback_complete THEN "writeback_incomplete"
       ELSE IF ~p.validated THEN "slice_unvalidated"
       ELSE IF p.evidence_refs = {} THEN "evidence_missing"
       ELSE IF s.spent_slots + slots > AllowedSlots(s) THEN "quota_overspend"
       ELSE "none"

\* Mutants: the increment instead of the total; the slots given back.
SlotsOfThis(s, slots) == slots
SlotsReturned(s, slots) == s.spent_slots - slots

\* spend returns the new total, not the increment.
SpentAfter(s, slots) == s.spent_slots + slots
=============================================================================
