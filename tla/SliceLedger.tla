---------------------------- MODULE SliceLedger -----------------------------
(***************************************************************************)
(* What the execution control plane promises about the accounting of       *)
(* bounded slices, without saying how (policies/execution-orchestration    *)
(* .yaml, `invariants' and `idempotency'): a slice is first admitted by    *)
(* the evidence admission authority, then its raw evidence is preserved,   *)
(* then it is charged to the quota window, once, and never past the        *)
(* allowed slots.  ControlPlane implements this specification.             *)
(***************************************************************************)
EXTENDS Integers

CONSTANTS Slices,        \* identities of bounded slices
          Allowed,       \* slots of one quota window
          SlotCounts     \* what slices may report to have cost

VARIABLES admitted,      \* slices whose result was validated
          preserved,     \* slices whose raw evidence is durable
          charged,       \* slices charged to the quota
          spent          \* slots charged in the current window

vars == <<admitted, preserved, charged, spent>>

Init ==
    /\ admitted = {}
    /\ preserved = {}
    /\ charged = {}
    /\ spent \in 0..Allowed

Admit(s) ==
    /\ admitted' = admitted \cup {s}
    /\ UNCHANGED <<preserved, charged, spent>>

Preserve(s) ==
    /\ s \in admitted
    /\ preserved' = preserved \cup {s}
    /\ UNCHANGED <<admitted, charged, spent>>

Charge(s, n) ==
    /\ s \in preserved \ charged
    /\ spent + n <= Allowed
    /\ charged' = charged \cup {s}
    /\ spent' = spent + n
    /\ UNCHANGED <<admitted, preserved>>

NewWindow ==
    /\ spent' = 0
    /\ UNCHANGED <<admitted, preserved, charged>>

Next ==
    \/ \E s \in Slices : Admit(s) \/ Preserve(s) \/ \E n \in SlotCounts \ {0} : Charge(s, n)
    \/ NewWindow

Spec == Init /\ [][Next]_vars
=============================================================================
