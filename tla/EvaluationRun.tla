--------------------------- MODULE EvaluationRun ---------------------------
(***************************************************************************)
(* One run of behavior_eval_adapter_v2.py with codex_production_agent_v2.py*)
(* as its production agent: the adapter starts the agent with a timeout,   *)
(* collects what it finds in the staging directory, completes it after a   *)
(* timeout, classifies the attempt in an envelope, and moves the bundle    *)
(* file by file into an output directory that may not be empty.            *)
(***************************************************************************)
EXTENDS CodexAgent

CONSTANT Leftovers    \* what the output directory may hold at first

\* "codex-events" stands for codex-events.jsonl and codex-stderr.txt, and
\* "execution-envelope" for it and for the two logs of the agent's output.
Name == File \cup {"codex-events", "execution-envelope"}
Required == {"response", "artifact-index"}
Managed == Name \ {"codex-events"}
Sorted == <<"artifact-index", "codex-events", "execution-envelope", "metrics",
            "response">>
InfrastructureFailures ==
  {"runtime_timeout", "runtime_protocol_failure", "evaluator_contract_failure"}

ASSUME LeftoversAssumption == Leftovers \subseteq SUBSET Name

VARIABLES
  adapter,      \* the progress of the adapter
  output        \* where each file of the output directory comes from

vars == <<runtimeVars, agentVars, adapter, output>>

NoEnvelope == [status |-> "none", class |-> "none", observed |-> FALSE]

AdapterState ==
  [at : {"start", "ready", "running", "publishing", "exited"}, rc : {0, 1, 30, Killed},
   bundle : SUBSET Name, todo : SUBSET Name,
   envelope : {NoEnvelope} \cup
              [status : Status, class : FailureClass, observed : BOOLEAN]]

EvaluationTypeOK ==
  /\ adapter \in AdapterState
  /\ output \in [Name -> {"none", "old", "new", "torn"}]

\* Type correctness: every variable has the shape the steps rely on.
TypeOK == RuntimeTypeOK /\ AgentTypeOK /\ EvaluationTypeOK

Init ==
  /\ RuntimeInit({"adapter"})
  /\ AgentInit
  /\ adapter = [at |-> "start", rc |-> Killed, bundle |-> {}, todo |-> {},
                envelope |-> NoEnvelope]
  /\ \E old \in Leftovers :
       output = [n \in Name |-> IF n \in old THEN "old" ELSE "none"]

-----------------------------------------------------------------------------
(* The adapter.                                                            *)

AdapterAt(phase) == proc["adapter"] = "running" /\ adapter.at = phase

AdapterLeaves(rc) ==
  /\ adapter' = [adapter EXCEPT !.at = "exited", !.rc = rc, !.todo = {}]
  /\ Ends("adapter")
  /\ UNCHANGED <<session, call>>

AssertCleanOutput ==
  /\ AdapterAt("start")
  /\ IF \E n \in Managed : output[n] # "none"
     THEN AdapterLeaves(30)
     ELSE adapter' = [adapter EXCEPT !.at = "ready"] /\ UNCHANGED runtimeVars
  /\ UNCHANGED <<agentVars, output>>

RunAgent ==
  /\ AdapterAt("ready")
  /\ Begin("outer")
  /\ adapter' = [adapter EXCEPT !.at = "running"]
  /\ UNCHANGED <<agentVars, output>>

\* The request is refused, the fixture cannot be copied, or the agent cannot be
\* started.
RunAgentFails ==
  /\ AdapterAt("start") \/ AdapterAt("ready")
  /\ AdapterLeaves(30)
  /\ UNCHANGED <<agentVars, output>>

AgentNotReaped ==
  /\ AdapterAt("running") /\ call["outer"].at = "raised"
  /\ AdapterLeaves(1)
  /\ UNCHANGED <<agentVars, output>>

TimedOut == call["outer"].timed_out
ReturnCode == IF TimedOut THEN 124 ELSE agent.rc

\* _ensure_failure_bundle: after a timeout the missing files are added, and the
\* class is set whatever the agent had written.
Completed ==
  [f \in File |-> IF TimedOut /\ f \in Required /\ staging[f] = "none"
                  THEN "adapter" ELSE staging[f]]
\* Mutant: what the agent has written is kept after a timeout.
MetadataKept ==
  IF metadata = NoMetadata
  THEN [status |-> IF TimedOut THEN "unavailable" ELSE "completed",
        class |-> IF TimedOut THEN "runtime_timeout" ELSE "none"]
  ELSE [status |-> metadata.status, class |-> metadata.class]

MetadataRead ==
  LET empty == metadata = NoMetadata
      status == IF ~empty THEN metadata.status
                ELSE IF TimedOut THEN "unavailable" ELSE "completed"
      class == IF TimedOut THEN "runtime_timeout"
               ELSE IF empty THEN "none" ELSE metadata.class
  IN  [status |-> status, class |-> class]

\* _enforce_mutation_noop_classification
NoopEnforced(m) ==
  IF /\ request.work_kind = "mutation" /\ ReturnCode \in {0, 10}
     /\ m.class \notin InfrastructureFailures
     /\ staging["metrics"] # "none" /\ agent.changed = {}
  THEN [status |-> "failed", class |-> "agent_behavior_regression"]
  ELSE m

\* _write_envelope_v2
Envelope(m) ==
  LET class == IF m.class # "none" \/ ReturnCode = 0 THEN m.class
               ELSE IF ReturnCode = 10 THEN "agent_behavior_regression"
               ELSE "runtime_protocol_failure"
      status == IF class = "runtime_timeout" THEN "unavailable"
                ELSE IF class = "agent_behavior_regression" \/ ReturnCode # 0
                THEN "failed" ELSE m.status
  IN  [status |-> status, class |-> class,
       observed |-> class \notin InfrastructureFailures]

\* The evidence is refused when a required file is missing, or, if that is asked
\* for, when the agent has not identified itself.
Collectable(require_identity) ==
  /\ \A f \in Required : Completed[f] # "none"
  /\ require_identity /\ ~TimedOut => metadata # NoMetadata

Bundle ==
  {f \in File : Completed[f] # "none"} \cup {"execution-envelope"}
  \cup (IF call["inner"].at = "idle" THEN {} ELSE {"codex-events"})

Collect ==
  /\ AdapterAt("running") /\ call["outer"].at = "returned"
  /\ \E require_identity \in BOOLEAN :
     IF Collectable(require_identity)
     THEN /\ adapter' = [adapter EXCEPT
               !.at = "publishing", !.bundle = Bundle,
               !.todo = Bundle,
               !.envelope = Envelope(NoopEnforced(MetadataRead))]
          /\ staging' = Completed
          /\ UNCHANGED runtimeVars
     ELSE AdapterLeaves(30) /\ UNCHANGED staging
  /\ UNCHANGED <<request, workspace, codex, agent, metadata, output>>

\* A file cannot be read, completed or copied, or git cannot be run. What was
\* staged is removed with the temporary directory.
CollectFails ==
  /\ AdapterAt("running") /\ call["outer"].at = "returned"
  /\ AdapterLeaves(30)
  /\ UNCHANGED <<agentVars, output>>

\* The files of the bundle are moved in the order of their names.
FirstOf(todo) == Sorted[CHOOSE i \in DOMAIN Sorted :
                          /\ Sorted[i] \in todo
                          /\ \A j \in 1..i - 1 : Sorted[j] \notin todo]

\* Mutant: a file that exists is skipped.
PublishMissing ==
  /\ AdapterAt("publishing") /\ adapter.todo # {}
  /\ LET n == FirstOf(adapter.todo)
     IN /\ output' = [output EXCEPT ![n] = IF @ = "none" THEN "new" ELSE @]
        /\ adapter' = [adapter EXCEPT !.todo = @ \ {n}]
  /\ UNCHANGED <<runtimeVars, agentVars>>

PublishNext ==
  /\ AdapterAt("publishing") /\ adapter.todo # {}
  /\ LET n == FirstOf(adapter.todo)
     IN IF output[n] # "none"
        THEN AdapterLeaves(30) /\ UNCHANGED output
        ELSE /\ output' = [output EXCEPT ![n] = "new"]
             /\ adapter' = [adapter EXCEPT !.todo = @ \ {n}]
             /\ UNCHANGED runtimeVars
  /\ UNCHANGED agentVars

\* The move of a file fails: nothing has arrived, a part of it, or the whole of
\* it, which could not be removed at its source.
PublishFails ==
  /\ AdapterAt("publishing") /\ adapter.todo # {}
  /\ LET n == FirstOf(adapter.todo)
     IN /\ output[n] = "none"
        /\ \E arrived \in {"none", "torn", "new"} :
             output' = [output EXCEPT ![n] = arrived]
  /\ AdapterLeaves(30)
  /\ UNCHANGED agentVars

\* The removal of the temporary directory fails when a process that is left
\* writes to it.
AdapterExits ==
  /\ AdapterAt("publishing") /\ adapter.todo = {}
  /\ \/ AdapterLeaves(0)
     \/ (\E p \in Process \ {"adapter"} : Alive(p)) /\ AdapterLeaves(30)
  /\ UNCHANGED <<agentVars, output>>

-----------------------------------------------------------------------------
AdapterSteps ==
  \/ AssertCleanOutput \/ RunAgent \/ RunAgentFails \/ AgentNotReaped
  \/ Collect \/ CollectFails \/ PublishNext \/ PublishFails \/ AdapterExits

RuntimeSteps ==
  \/ \E f \in Forks : Fork(f[1], f[2])
  \/ \E p \in Process \ {"agent"} : Die(p)
  \/ \E c \in Call : TimeoutFires(c) \/ Waiting(c)

CodexSteps ==
  \/ CodexAnswers \/ CodexExits
  \/ \E p \in Process : HelperExits(p) \/ \E path \in Path \cup {Control} : Touch(p, path)

Next ==
  \/ AdapterSteps
  \/ RuntimeSteps /\ UNCHANGED <<agentVars, adapter, output>>
  \/ /\ \/ CodexSteps
        \/ SetupFails \/ SetupEnds \/ AgentSteps \/ AgentDies
     /\ UNCHANGED <<adapter, output>>

Spec == Init /\ [][Next]_vars

(***************************************************************************)
(* Fairness.  Signals that kill do kill, the runtime goes on, the agent    *)
(* goes on once Codex is being run, and so does the adapter.  Nothing is   *)
(* assumed of Codex, of the agent's preparations, or of the outer timer.   *)
(***************************************************************************)
FairSpec ==
  /\ Spec
  /\ \A p \in Process \ {"agent"} :
       WF_vars(Die(p) /\ UNCHANGED <<agentVars, adapter, output>>)
  /\ WF_vars(proc["agent"] = "dying" /\ AgentDies /\ UNCHANGED <<adapter, output>>)
  /\ \A c \in Call : WF_vars(Waiting(c) /\ UNCHANGED <<agentVars, adapter, output>>)
  /\ WF_vars(TimeoutFires("inner") /\ UNCHANGED <<agentVars, adapter, output>>)
  /\ WF_vars(AgentSteps /\ UNCHANGED <<adapter, output>>)
  /\ WF_vars(AdapterSteps)

-----------------------------------------------------------------------------
(* Properties.                                                             *)

\* An envelope says "completed" only of an attempt in which Codex ended by
\* itself and well, within both timeouts, with an answer that could be used,
\* changes within the scope, every required gate passed by trusted evidence or
\* by its report, and the files of that answer written whole.
\* (codex_production_agent_v2.py:435-488, behavior_eval_adapter_v2.py:135-157)
GatePassed(g) ==
  IF g \in GatesOf(request.trusted)
  THEN LastOf(request.trusted, g).status = "passed"
  ELSE /\ g \in GatesOf(codex.final.reports)
       /\ LastOf(codex.final.reports, g).status = "passed"

Earned ==
  /\ call["inner"].at = "returned" /\ codex.rc = 0
  /\ \A c \in Call : ~call[c].timed_out
  /\ codex.final.kind = "structured"
  /\ \A g \in RequiredGates(request) : GatePassed(g)
  /\ ~ScopeError(request, agent.changed)
  /\ \A f \in Required : staging[f] = "success"

CompletedIsEarned ==
  adapter.envelope.status = "completed" => proc["codex"] = "gone" /\ Earned

\* An attempt is said to be observed only if the agent has judged an answer of
\* Codex within both timeouts and has ended by itself; one that was killed or
\* could not write its evidence counts only if it had found the scope violated.
\* (behavior_eval_adapter_v2.py:26-32, 144-157)
AnswerCounts ==
  /\ agent.completed /\ ~TimedOut
  /\ \/ agent.at = "exited" /\ agent.rc \in {0, 10}
     \/ ScopeError(request, agent.changed)

InfrastructureUnobserved == adapter.envelope.observed => AnswerCounts

\* When the adapter returns zero, each file of its bundle has arrived whole,
\* and nothing older is there under a managed name; the logs of Codex, which are
\* not managed, may be older where the bundle has none. A consequence of
\* ImplementsContract below. (behavior_eval_adapter.py:38-45, 159-166, 300-305)
ZeroMeansPublished ==
  adapter.rc = 0 =>
    \A n \in Name : /\ (output[n] = "new") <=> (n \in adapter.bundle)
                    /\ output[n] = "old" => n \notin Managed

\* What the adapter has collected is not written to any more: the agent is gone
\* whichever way its call has returned. (process_runtime.py:164-169,
\* behavior_eval_adapter_v2.py:284-311)
EvidenceSettled ==
  [][adapter.bundle # {} => UNCHANGED <<staging, metadata>>]_vars

(***************************************************************************)
(* The evaluation as its reader sees it: the attempt ends when the         *)
(* adapter's call of the agent returns, the answer is the exit code.       *)
(***************************************************************************)
Attempt ==
  IF call["outer"].at # "returned" THEN "open"
  ELSE IF Earned THEN "earned"
  ELSE IF AnswerCounts THEN "judged" ELSE "failed"

ExitAnswer ==
  IF adapter.at # "exited" THEN "none"
  ELSE IF adapter.rc = 0 THEN "delivered" ELSE "refused"

Promise == INSTANCE EvaluationContract
  WITH attempt <- Attempt, verdict <- adapter.envelope, bundle <- adapter.bundle,
       answer <- ExitAnswer, None <- NoEnvelope,
       Verdict <- [status : Status, class : FailureClass, observed : BOOLEAN]

\* An evaluation keeps its contract: an attempt over a directory without managed
\* files, one verdict that the attempt has earned when the attempt is over, a
\* bundle that is fixed with the verdict and delivered beside older files, never
\* over them, and an exit code of zero only when every file of it has arrived.
\* That is less than the documents say: see the property that follows.
\* (behavior_eval_adapter_v2.py:232-321, behavior_eval_adapter.py:159-166, 300-305)
ImplementsContract == Promise!ContractSpec

\* "timeout produces no partial published bundle" and "stale output is rejected":
\* an evaluation that is answered with zero leaves no file of an older one in its
\* directory, and after a timeout none that the agent had opened when it was killed
\* and not written. (docs/actual-behavior-production-smoke.md:152-153)
OutputWholeAndNew ==
  adapter.rc = 0 =>
    /\ \A n \in Name : output[n] # "old"
    /\ TimedOut => \A f \in adapter.bundle \cap File : staging[f] # "torn"

\* Once Codex is being run the evaluation ends, whatever Codex and its
\* processes do with the timeout, with SIGTERM and with the pipes, without help
\* of the outer timeout: joins and waits are bounded. (process_runtime.py:161-172)
EvaluationEnds == (agent.at = "running") ~> (proc["adapter"] = "gone")

\* With the outer timeout, the adapter ends even if the agent hangs in its
\* preparations. (process_runtime.py:163-167)
AdapterReturns ==
  WF_vars(TimeoutFires("outer") /\ UNCHANGED <<agentVars, adapter, output>>)
    => ((adapter.at = "running") ~> (proc["adapter"] = "gone"))

\* "terminates the whole process group/tree on timeout": when a call has
\* returned after a timeout, no process under its root runs on.
\* (process_runtime.py:4-5)
Tree(c) == Process \ (IF c = "outer" THEN {"adapter"} ELSE {"adapter", "agent"})
NothingSurvivesTimeout ==
  \A c \in Call : call[c].at = "returned" /\ call[c].timed_out =>
                    \A p \in Tree(c) : proc[p] # "running"

=============================================================================
