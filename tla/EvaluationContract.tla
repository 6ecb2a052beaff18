------------------------ MODULE EvaluationContract ------------------------
(***************************************************************************)
(* What one evaluation promises to whoever reads its output directory,     *)
(* without processes, signals and clocks: one attempt, made over a clean   *)
(* directory; one verdict about it, never better than the attempt and      *)
(* never revised; files that arrive one at a time beside what was there,   *)
(* which nothing is written over; and one answer, after which all stays as *)
(* it is.  A file that arrives in part is the last one, and the answer     *)
(* says so.  What a collected file holds, and files that are there at first*)
(* under names that are not managed, are no part of the promise.           *)
(* EvaluationRun implements it.                                            *)
(***************************************************************************)
CONSTANTS
  Name,        \* the files of a bundle
  Managed,     \* those a clean directory does not hold; not the logs of Codex
  None,        \* no verdict
  Verdict      \* [status, class, observed]: what an envelope may say

VARIABLES
  attempt,     \* "open", then what it came to
  verdict,     \* what the envelope says
  bundle,      \* the files that were collected with it
  output,      \* where each file of the output directory comes from
  answer       \* "none", "delivered" or "refused"

contractVars == <<attempt, verdict, bundle, output, answer>>

\* An attempt that has earned a success; one whose answer was judged; neither.
Outcome == {"earned", "judged", "failed"}

Clean == \A n \in Managed : output[n] # "old"
Delivered == \A n \in Name : output[n] = "new" <=> n \in bundle

ContractInit ==
  /\ attempt = "open" /\ verdict = None /\ bundle = {} /\ answer = "none"
  /\ output \in [Name -> {"none", "old"}]

EndAttempt ==
  /\ attempt = "open" /\ answer = "none" /\ Clean
  /\ attempt' \in Outcome
  /\ UNCHANGED <<verdict, bundle, output, answer>>

Judge ==
  /\ attempt # "open" /\ verdict = None /\ answer = "none"
  /\ verdict' \in Verdict /\ bundle' \in (SUBSET Name) \ {{}}
  /\ verdict'.status = "completed" => attempt = "earned"
  /\ verdict'.observed => attempt \in {"earned", "judged"}
  /\ UNCHANGED <<attempt, output, answer>>

Arrives(n, how) == output[n] = "none" /\ output' = [output EXCEPT ![n] = how]

Deliver ==
  /\ verdict # None /\ answer = "none"
  /\ \E n \in bundle : Arrives(n, "new")
  /\ UNCHANGED <<attempt, verdict, bundle, answer>>

Answer ==
  /\ answer = "none"
  /\ \/ answer' = "refused"
     \/ answer' = "delivered" /\ verdict # None /\ Delivered /\ Clean
  /\ UNCHANGED <<attempt, verdict, bundle, output>>

\* The delivery breaks off.
BreakOff ==
  /\ verdict # None /\ answer = "none"
  /\ answer' = "refused"
  /\ \E n \in bundle, how \in {"new", "torn"} : Arrives(n, how)
  /\ UNCHANGED <<attempt, verdict, bundle>>

ContractNext == EndAttempt \/ Judge \/ Deliver \/ Answer \/ BreakOff

ContractSpec == ContractInit /\ [][ContractNext]_contractVars

=============================================================================
