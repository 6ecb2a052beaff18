--------------------------- MODULE MCControlPlane ---------------------------
(* Small instances of ControlPlane for TLC. *)
EXTENDS ControlPlane, TLC

CONSTANTS w1, w2, s1, s2, AllowedAtFirst, TodosAtFirst

MCTodo(i, class, needs) ==
    [id |-> i, status |-> "unclaimed", task_class |-> class,
     required_capabilities |-> needs, lease |-> NoLease]

\* One advancement todo between a monitor and one that lacks a capability.
OneTodo == << MCTodo(1, "continuous_monitor", {}),
              MCTodo(2, "advancement_task", {"shell"}),
              MCTodo(3, "advancement_task", {"unity_editor"}) >>

\* Two advancement todos, both runnable.
TwoTodos == << MCTodo(1, "advancement_task", {"shell"}),
               MCTodo(2, "advancement_task", {}) >>

MCInitialState(previous) ==
    [gate |-> [g \in GateNames |-> FALSE],
     compute_share |-> 100,
     allowed_slots |-> AllowedAtFirst, spent_slots |-> 0,
     previous_slice |-> previous, last_quota_spend_id |-> NoSlice,
     todos |-> IF TodosAtFirst = 1 THEN OneTodo ELSE TwoTodos,
     todos_truncated |-> FALSE,
     available_capabilities |-> {"shell"}]

FreshState == MCInitialState(NoPreviousSlice)

MCWorkers == {w1, w2}
OneWorker == {w1}
TwoSlices == {s1, s2}
MCCapabilities == {"shell", "unity_editor"}

Symmetry == Permutations(Workers) \cup Permutations(Slices)
=============================================================================
