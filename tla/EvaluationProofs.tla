-------------------------- MODULE EvaluationProofs --------------------------
(***************************************************************************)
(* EvaluationRun for every set of processes, requests, answers and gates:  *)
(* types, the envelope that says "completed" or "observed", the evidence   *)
(* that is not written to any more, and the publication.                   *)
(*                                                                         *)
(* The inductive invariant has three parts.  The processes: a call that    *)
(* has returned has collected its root.  The agent: what it has decided    *)
(* agrees with what Codex left, and what it has written with what it has   *)
(* decided.  The adapter: what it holds was taken from an agent that is    *)
(* gone, and what it has published is a part of that.                      *)
(***************************************************************************)
EXTENDS EvaluationRun, WellFoundedInduction, TLAPS

USE DEF ProcState, Phase, Status, FailureClass, File, Written, Killed, Name, Required,
        Managed, NoFinal, NoEnvelope, Alive

CallInv(c) ==
  /\ proc[Root[c]] = "unborn" <=> call[c].at = "idle"
  /\ call[c].at \in {"joining", "returned"} => proc[Root[c]] = "gone"
ProcInv == \A c \in Call : CallInv(c)

\* What is behind an answer the agent has judged, and what it has made of it.
Judged ==
  /\ agent.at \in {"writing", "exited"} /\ agent.completed
  /\ call["inner"].at = "returned" /\ ~call["inner"].timed_out
  /\ codex.rc = 0 /\ codex.final.kind = "structured"
  /\ IF ScopeError(request, agent.changed)
     THEN /\ agent.class = "agent_behavior_regression" /\ agent.status = "failed"
          /\ agent.rc \in {10, Killed}
     ELSE /\ agent.class = "none" /\ agent.rc \in {0, Killed}
          /\ agent.status = StatusOf(ResolveGates(request, codex.final.reports))

Undecided ==
  agent.at \in {"setup", "ready", "running", "judging"} =>
    /\ metadata = NoMetadata /\ agent.kind = "none" /\ agent.class = "none"
    /\ agent.rc = Killed /\ agent.written = 0 /\ ~agent.handling
Decided ==
  /\ agent.at = "judging" => call["inner"].at = "returned" /\ ~call["inner"].timed_out
  /\ agent.kind = "success" => Judged
  /\ agent.handling => agent.kind = "failure"
  /\ agent.class = "agent_behavior_regression" => agent.kind = "success"
  /\ agent.rc = 0 => agent.kind = "success"
  /\ agent.rc = 10 => agent.kind = "success" \/ agent.class = "runtime_protocol_failure"
Gone ==
  /\ proc["agent"] = "gone" => agent.at = "exited" \/ agent.rc = Killed
  /\ agent.at = "exited" => proc["agent"] = "gone"

\* The class in the metadata that stands for behaviour.
Regression ==
  metadata # NoMetadata /\ metadata.class = "agent_behavior_regression" =>
    agent.completed /\ ScopeError(request, agent.changed)
\* What has been written so far.
Progress ==
  agent.at = "writing" /\ proc["agent"] # "gone" =>
    /\ agent.written >= 1 => staging["response"] = agent.kind
    /\ agent.written >= 2 => staging["artifact-index"] = agent.kind
    /\ agent.written = 3 => metadata = [status |-> agent.status, class |-> "none"]
    /\ agent.written >= 4 => metadata = [status |-> agent.status, class |-> agent.class]
WrittenWhole ==
  agent.at = "exited" /\ agent.rc \in {0, 10} =>
    /\ metadata = [status |-> agent.status, class |-> agent.class]
    /\ \A f \in Required : agent.kind = "success" => staging[f] = "success"

AgentInv == Undecided /\ Decided /\ Gone /\ Regression /\ Progress /\ WrittenWhole

Before == {"start", "ready", "running"}
Held ==
  /\ adapter.at \in Before => adapter.bundle = {} /\ adapter.todo = {}
  /\ adapter.at = "publishing" => adapter.bundle # {}
  /\ adapter.bundle = {} => adapter.envelope = NoEnvelope /\ adapter.rc # 0
  /\ adapter.bundle # {} => call["outer"].at = "returned" /\ proc["agent"] = "gone"
Published ==
  /\ adapter.at \in Before => \A n \in Name : output[n] # "new"
  /\ adapter.at \in {"ready", "running", "publishing"} =>
        \A n \in Managed : output[n] # "old"
  /\ adapter.at = "publishing" =>
        /\ adapter.todo \subseteq adapter.bundle
        /\ \A n \in Name : output[n] = "new" <=> n \in adapter.bundle \ adapter.todo
  /\ adapter.at # "exited" => adapter.rc = Killed

AdapterInv ==
  Held /\ Published /\ CompletedIsEarned /\ InfrastructureUnobserved /\ ZeroMeansPublished

Inv == TypeOK /\ ProcInv /\ AgentInv /\ AdapterInv

-----------------------------------------------------------------------------
(* The gates.                                                              *)

LEMMA LastEntry ==
    ASSUME NEW S, NEW items \in Seq(S), NEW g, g \in GatesOf(items)
    PROVE  \E i \in DOMAIN items : items[i].gate = g /\ LastOf(items, g) = items[i]
<1> DEFINE at == {i \in DOMAIN items : items[i].gate = g}
           mirror == {k \in Nat : Len(items) - k \in at}
<1>1. \A i \in at : i \in 1..Len(items) /\ Len(items) \in Nat
  OBVIOUS
<1>2. mirror # {}
  <2>1. PICK i \in at : TRUE
    BY DEF GatesOf
  <2>2. Len(items) - i \in Nat /\ Len(items) - (Len(items) - i) = i
    BY <1>1
  <2>3. Len(items) - i \in mirror
    BY <2>1, <2>2
  <2>4. QED
    BY <2>3
<1>3. IsWellFoundedOn(OpToRel(<, Nat), Nat)
  BY NatLessThanWellFounded
<1>4. PICK k \in mirror : \A l \in mirror : <<l, k>> \notin OpToRel(<, Nat)
  BY <1>2, <1>3, WFMin
<1>5. \A l \in mirror : k <= l
  <2>1. SUFFICES ASSUME NEW l \in mirror PROVE ~(l < k)
    OBVIOUS
  <2>2. l < k => <<l, k>> \in OpToRel(<, Nat)
    BY DEF OpToRel
  <2>3. QED
    BY <1>4, <2>2
<1>6. \A j \in at : j <= Len(items) - k
  <2>1. SUFFICES ASSUME NEW j \in at PROVE j <= Len(items) - k
    OBVIOUS
  <2>2. Len(items) - j \in mirror
    BY <1>1, <2>1
  <2>3. QED
    BY <1>1, <1>5, <2>1, <2>2
<1>7. \E i \in at : \A j \in at : j <= i
  BY <1>4, <1>6
<1>8. QED
  BY <1>7 DEF LastOf

\* A verdict of "passed" has trusted evidence or a report behind every required gate.
LEMMA PassedIsEarned ==
    ASSUME NEW r \in Request, NEW reports \in Seq(Report),
           ResolveGates(r, reports) = "passed", NEW g \in RequiredGates(r)
    PROVE  IF g \in GatesOf(r.trusted)
           THEN LastOf(r.trusted, g).status = "passed"
           ELSE g \in GatesOf(reports) /\ LastOf(reports, g).status = "passed"
<1> DEFINE gates == ResolvedGates(r, reports)
<1>1. r.trusted \in Seq(Trusted)
  BY DEF Request
<1>2. "failed" \notin BlockingStatus(r, reports) /\ "unavailable" \notin BlockingStatus(r, reports)
  BY DEF ResolveGates
<1>3. g \in DOMAIN gates
  BY DEF ResolvedGates
<1>4. gates[g].requirement = "required" => gates[g].status \notin {"failed", "unavailable"}
  BY <1>2, <1>3 DEF BlockingStatus
<1>5. CASE g \in GatesOf(r.trusted)
  <2>1. gates[g] = Entry("required", LastOf(r.trusted, g).status)
    BY <1>3, <1>5 DEF ResolvedGates
  <2>2. LastOf(r.trusted, g) \in Trusted
    BY <1>1, <1>5, LastEntry
  <2>3. QED
    BY <1>4, <1>5, <2>1, <2>2 DEF Entry, Trusted, GateStatus
<1>6. CASE g \notin GatesOf(r.trusted) /\ g \in GatesOf(reports)
  <2>1. LastOf(reports, g) \in Report /\ LastOf(reports, g).gate = g
    BY <1>6, LastEntry
  <2>2. gates[g] = Entry("required", LastOf(reports, g).status)
    BY <1>3, <1>6, <2>1 DEF ResolvedGates, LevelOf
  <2>3. QED
    BY <1>4, <1>6, <2>1, <2>2 DEF Entry, Report, GateStatus
<1>7. CASE g \notin GatesOf(r.trusted) /\ g \notin GatesOf(reports)
  <2>1. gates[g] = Entry("required", "unavailable")
    BY <1>3, <1>7 DEF ResolvedGates
  <2>2. QED
    BY <1>4, <2>1 DEF Entry
<1>8. QED
  BY <1>5, <1>6, <1>7

LEMMA FirstIsOne ==
    ASSUME NEW todo \in SUBSET Name, todo # {}
    PROVE  FirstOf(todo) \in todo
<1> DEFINE First(i) == /\ Sorted[i] \in todo
                       /\ \A j \in 1..i - 1 : Sorted[j] \notin todo
<1>1. \E i \in DOMAIN Sorted : First(i)
  <2>1. DOMAIN Sorted = 1..5 /\ \A n \in Name : \E i \in 1..5 : Sorted[i] = n
    BY DEF Sorted
  <2>2. CASE Sorted[1] \in todo
    BY <2>1, <2>2
  <2>3. CASE Sorted[1] \notin todo /\ Sorted[2] \in todo
    <3>1. First(2)
      BY <2>3
    <3>2. QED
      BY <2>1, <3>1
  <2>4. CASE Sorted[1] \notin todo /\ Sorted[2] \notin todo /\ Sorted[3] \in todo
    <3>1. First(3)
      BY <2>4
    <3>2. QED
      BY <2>1, <3>1
  <2>5. CASE Sorted[1] \notin todo /\ Sorted[2] \notin todo /\ Sorted[3] \notin todo
             /\ Sorted[4] \in todo
    <3>1. First(4)
      BY <2>5
    <3>2. QED
      BY <2>1, <3>1
  <2>6. CASE Sorted[1] \notin todo /\ Sorted[2] \notin todo /\ Sorted[3] \notin todo
             /\ Sorted[4] \notin todo /\ Sorted[5] \in todo
    <3>1. First(5)
      BY <2>6
    <3>2. QED
      BY <2>1, <3>1
  <2>7. \E i \in 1..5 : Sorted[i] \in todo
    BY <2>1
  <2>8. \E i \in {1, 2, 3, 4, 5} : Sorted[i] \in todo
    BY <2>7
  <2>9. QED
    BY <2>2, <2>3, <2>4, <2>5, <2>6, <2>8
<1>2. First(CHOOSE i \in DOMAIN Sorted : First(i))
  BY <1>1
<1>3. FirstOf(todo) = Sorted[CHOOSE i \in DOMAIN Sorted : First(i)]
  BY DEF FirstOf
<1>4. QED
  BY <1>2, <1>3

-----------------------------------------------------------------------------
(* The processes and the calls.                                            *)

\* What a step may do to them.
Moves ==
  \/ UNCHANGED runtimeVars
  \/ \E p \in Process : Alive(p) /\ Ends(p) /\ UNCHANGED <<session, call>>
  \/ \E c \in Call : Begin(c) \/ TimeoutFires(c) \/ Waiting(c)
  \/ \E f \in Forks : Fork(f[1], f[2])

LEMMA EveryStepMoves == Next => Moves
<1>1. {"adapter", "agent", "codex"} \subseteq Process /\ {"outer", "inner"} \subseteq Call
  BY AgentAssumption
<1>2. AdapterSteps => Moves
  BY <1>1 DEF AdapterSteps, AssertCleanOutput, RunAgent, RunAgentFails, AgentNotReaped,
              Collect, CollectFails, PublishNext, PublishFails, AdapterExits, AdapterAt,
              AdapterLeaves, Moves
<1>3. RuntimeSteps => Moves
  BY DEF RuntimeSteps, Die, Moves
<1>4. CodexSteps => Moves
  BY <1>1 DEF CodexSteps, CodexAnswers, CodexExits, HelperExits, Touch, Moves
<1>5. SetupFails \/ SetupEnds \/ AgentDies => Moves
  BY <1>1 DEF SetupFails, SetupEnds, AgentDies, AgentAt, Leaves, Moves
<1>6. AgentSteps => Moves
  BY <1>1 DEF AgentSteps, RunCodex, CodexTimedOut, CodexNotReaped, SnapshotAfter,
              WorkspaceUnreadable, ControlModified, CodexFailed, AnswerRefused,
              AnswerJudged, AgentWrites, AgentWriteFails, AgentExits, AgentAt, Leaves, Moves
<1>7. QED
  BY <1>2, <1>3, <1>4, <1>5, <1>6 DEF Next

LEMMA CallStep ==
    ASSUME RuntimeTypeOK, ProcInv, NEW c \in Call, TimeoutFires(c) \/ Waiting(c)
    PROVE  /\ RuntimeTypeOK' /\ session' = session
           /\ \A d \in Call \ {c} : call'[d] = call[d]
           /\ call[c].at \notin {"idle", "returned"} /\ call'[c].at # "idle"
           /\ call'[c].at \in {"joining", "returned"} => proc[Root[c]] = "gone"
           /\ \A p \in Process : \/ proc'[p] = proc[p]
                                 \/ Alive(p) /\ proc'[p] = "dying"
           /\ Works(c)
<1> USE DEF RuntimeTypeOK, Result, At, Goes, Polled
<1>1. CallInv(c) /\ Root[c] \in Process
  BY RuntimeAssumption DEF ProcInv
<1>2. CASE TimeoutFires(c)
  BY <1>2 DEF TimeoutFires
<1>3. CASE WaitEnds(c)
  BY <1>3 DEF WaitEnds
<1>4. CASE NothingToTerminate(c)
  BY <1>4 DEF NothingToTerminate
<1>5. CASE Terminate(c)
  BY <1>5 DEF Terminate, Signalled, Group
<1>6. CASE Kill(c)
  BY <1>6 DEF Kill, Signalled, Group
<1>7. CASE Terminated(c)
  BY <1>7 DEF Terminated
<1>8. CASE ReapFails(c)
  BY <1>8 DEF ReapFails
<1>9. CASE JoinEnds(c)
  BY <1>1, <1>9 DEF JoinEnds, CallInv
<1>10. QED
  BY <1>2, <1>3, <1>4, <1>5, <1>6, <1>7, <1>8, <1>9 DEF Waiting

\* What has ended stays so; a call goes on only while its caller runs.
Lasting ==
  /\ \A p \in Process : proc[p] = "gone" => proc'[p] = "gone"
  /\ \A c \in Call : call[c].at = "returned" \/ ~Works(c) => call'[c] = call[c]

LEMMA MovesKeep ==
    ASSUME RuntimeTypeOK, ProcInv, Moves
    PROVE  RuntimeTypeOK' /\ ProcInv' /\ Lasting
<1>1. \A c \in Call : Root[c] \in Process /\ CallInv(c)
  BY RuntimeAssumption DEF ProcInv
<1>2. CASE UNCHANGED runtimeVars
  BY <1>1, <1>2 DEF RuntimeTypeOK, runtimeVars, ProcInv, CallInv, Lasting
<1>3. ASSUME NEW p \in Process, Alive(p), Ends(p), UNCHANGED <<session, call>>
      PROVE  RuntimeTypeOK' /\ ProcInv' /\ Lasting
  BY <1>1, <1>3 DEF RuntimeTypeOK, Ends, ProcInv, CallInv, Lasting
<1>4. ASSUME NEW c \in Call, Begin(c)
      PROVE  RuntimeTypeOK' /\ ProcInv' /\ Lasting
  <2>1. \A d \in Call \ {c} : Root[d] # Root[c]
    BY RuntimeAssumption
  <2>2. QED
    BY <1>1, <1>4, <2>1 DEF RuntimeTypeOK, Result, Begin, At, Goes, ProcInv, CallInv, Lasting
<1>5. ASSUME NEW c \in Call, TimeoutFires(c) \/ Waiting(c)
      PROVE  RuntimeTypeOK' /\ ProcInv' /\ Lasting
  <2>1. /\ RuntimeTypeOK'
        /\ \A d \in Call \ {c} : call'[d] = call[d]
        /\ call[c].at \notin {"idle", "returned"} /\ call'[c].at # "idle"
        /\ call'[c].at \in {"joining", "returned"} => proc[Root[c]] = "gone"
        /\ \A p \in Process : \/ proc'[p] = proc[p]
                              \/ Alive(p) /\ proc'[p] = "dying"
        /\ Works(c)
    BY <1>5, CallStep
  <2>2. \A d \in Call : CallInv(d)'
    BY <1>1, <2>1 DEF CallInv
  <2>3. QED
    BY <2>1, <2>2 DEF ProcInv, Lasting
<1>6. ASSUME NEW f \in Forks, Fork(f[1], f[2])
      PROVE  RuntimeTypeOK' /\ ProcInv' /\ Lasting
  <2>1. f[1] \in Process /\ f[2] \in Process /\ \A c \in Call : f[2] # Root[c]
    BY RuntimeAssumption, AgentAssumption
  <2>2. QED
    BY <1>1, <1>6, <2>1 DEF RuntimeTypeOK, Fork, ProcInv, CallInv, Lasting
<1>7. QED
  BY <1>2, <1>3, <1>4, <1>5, <1>6 DEF Moves

-----------------------------------------------------------------------------
(* Types.                                                                  *)

LEMMA FiveWrites ==
    /\ Len(Writes) = 5 /\ 0 \in 0..Len(Writes)
    /\ Writes[1] = "response" /\ Writes[2] = "artifact-index" /\ Writes[3] = "metadata"
    /\ Writes[4] = "patch" /\ Writes[5] = "metrics"
BY DEF Writes

LEMMA InitTypes == Init => TypeOK
<1> SUFFICES ASSUME Init PROVE TypeOK
  OBVIOUS
<1>1. RuntimeTypeOK
  BY DEF Init, RuntimeInit, RuntimeTypeOK, Result
<1>2. AgentTypeOK
  BY FiveWrites DEF Init, AgentInit, AgentTypeOK, AgentState, Metadata
<1>3. EvaluationTypeOK
  BY DEF Init, EvaluationTypeOK, AdapterState
<1>4. QED
  BY <1>1, <1>2, <1>3 DEF TypeOK

LEMMA WriteTypes ==
    ASSUME AgentTypeOK, Progress, proc["agent"] # "gone", Writing,
           Stored(NextWrite) \/ Torn(NextWrite)
    PROVE  /\ staging' \in [File -> Written] /\ metadata' \in Metadata
           /\ agent.written + 1 \in 0..Len(Writes)
<1>1. /\ agent.written \in {0, 1, 2, 3, 4} /\ agent.kind \in Written
      /\ agent.status \in Status /\ agent.class \in FailureClass
      /\ staging \in [File -> Written] /\ metadata \in Metadata
  BY FiveWrites DEF AgentTypeOK, AgentState, Writing
<1>2. NextWrite \in File \cup {"metadata", "patch"} /\ (NextWrite = "patch" => agent.written = 3)
  BY <1>1, FiveWrites DEF NextWrite
<1>3. NextWrite = "patch" => metadata = [status |-> agent.status, class |-> "none"]
  BY <1>2 DEF Progress, Writing
<1>4. CASE Stored(NextWrite)
  <2>1. staging' \in [File -> Written]
    BY <1>1, <1>4 DEF Stored
  <2>2. NextWrite = "patch" => metadata' = [status |-> agent.status, class |-> agent.class]
    BY <1>3, <1>4 DEF Stored
  <2>3. NextWrite = "metadata" => metadata' = [status |-> agent.status, class |-> "none"]
    BY <1>4 DEF Stored
  <2>4. NextWrite \notin {"metadata", "patch"} => metadata' = metadata
    BY <1>4 DEF Stored
  <2>5. QED
    BY <1>1, <2>1, <2>2, <2>3, <2>4, FiveWrites DEF Metadata
<1>5. CASE Torn(NextWrite)
  BY <1>1, <1>5, FiveWrites DEF Torn, Metadata
<1>6. QED
  BY <1>1, <1>4, <1>5

LEMMA RaisesTypes ==
    ASSUME agent \in AgentState, NEW completed \in BOOLEAN, RaisesAfter(completed)
    PROVE  agent' \in AgentState
BY FiveWrites DEF RaisesAfter, AgentState

LEMMA FailsTypes ==
    ASSUME agent \in AgentState, NEW class \in FailureClass,
           NEW rc \in {1, 10, 124, Killed}, Fails(class, rc)
    PROVE  agent' \in AgentState
BY FiveWrites DEF Fails, AgentState

LEMMA LeavesTypes ==
    ASSUME agent \in AgentState, NEW rc \in {0, 1, 10, 30, 124, Killed}, Leaves(rc)
    PROVE  agent' \in AgentState
BY FiveWrites DEF Leaves, AgentState

LEMMA AgentTypes ==
    ASSUME AgentTypeOK, Progress, Next
    PROVE  AgentTypeOK'
<1>1. CASE AdapterSteps
  <2>1. ASSUME Collect PROVE AgentTypeOK'
    <3>1. Completed \in [File -> Written]
      BY DEF Completed, AgentTypeOK
    <3>2. QED
      BY <2>1, <3>1 DEF Collect, AgentTypeOK
  <2>2. QED
    BY <1>1, <2>1 DEF AdapterSteps, AssertCleanOutput, RunAgent, RunAgentFails,
                      AgentNotReaped, CollectFails, PublishNext, PublishFails, AdapterExits,
                      agentVars, AgentTypeOK
<1>2. CASE UNCHANGED agentVars
  BY <1>2 DEF agentVars, AgentTypeOK
<1>3. CASE CodexSteps
  BY <1>3 DEF CodexSteps, CodexAnswers, CodexExits, HelperExits, Touch, codexVars, AgentTypeOK
<1>4. CASE SetupFails
  <2>1. agent.completed \in BOOLEAN
    BY DEF AgentTypeOK, AgentState
  <2>2. agent' \in AgentState
    BY <1>4, <2>1, LeavesTypes, RaisesTypes DEF SetupFails, Raises, AgentTypeOK
  <2>3. QED
    BY <1>4, <2>2 DEF SetupFails, AgentTypeOK
<1>5. CASE SetupEnds
  BY <1>5 DEF SetupEnds, AgentTypeOK, AgentState
<1>6. CASE AgentDies
  <2>1. agent' \in AgentState
    <3>1. agent \in AgentState /\ agent' = [agent EXCEPT !.rc = Killed, !.written = 0]
      BY <1>6 DEF AgentDies, AgentTypeOK
    <3>2. 0 \in 0..Len(Writes)
      BY FiveWrites
    <3>3. QED
      BY <3>1, <3>2 DEF AgentState
  <2>2. staging' \in [File -> Written] /\ metadata' \in Metadata
    BY <1>6, WriteTypes DEF AgentDies, AgentTypeOK
  <2>3. QED
    BY <1>6, <2>1, <2>2 DEF AgentDies, AgentTypeOK
<1>7. CASE AgentSteps
  <2>1. CASE RunCodex
    BY <2>1 DEF RunCodex, AgentTypeOK, AgentState
  <2>2. CASE CodexTimedOut
    BY <2>2, FailsTypes DEF CodexTimedOut, AgentTypeOK
  <2>3. CASE CodexNotReaped
    BY <2>3, LeavesTypes DEF CodexNotReaped, AgentTypeOK
  <2>4. CASE SnapshotAfter
    <3>1. agent' \in AgentState
      BY <2>4 DEF SnapshotAfter, AgentTypeOK, AgentState
    <3>2. QED
      BY <2>4, <3>1 DEF SnapshotAfter, AgentTypeOK
  <2>5. CASE WorkspaceUnreadable \/ ControlModified \/ AnswerRefused
    <3>1. agent.completed \in BOOLEAN /\ (codex.final.kind = "unsupported") \in BOOLEAN
      BY DEF AgentTypeOK, AgentState
    <3>2. agent' \in AgentState
      BY <2>5, <3>1, RaisesTypes
         DEF WorkspaceUnreadable, ControlModified, AnswerRefused, Raises, AgentTypeOK
    <3>3. QED
      BY <2>5, <3>2 DEF WorkspaceUnreadable, ControlModified, AnswerRefused, AgentTypeOK
  <2>6. CASE CodexFailed
    <3>1. codex.rc \in {1, 10, 124, Killed}
      BY <2>6 DEF CodexFailed, AgentTypeOK
    <3>2. QED
      BY <2>6, <3>1, FailsTypes DEF CodexFailed, AgentTypeOK
  <2>7. CASE AnswerJudged
    <3>1. StatusOf(ResolveGates(request, codex.final.reports)) \in Status
      BY DEF StatusOf, ResolveGates
    <3>2. PICK class \in FailureClass, status \in Status, rc \in {0, 10} :
            agent' = [agent EXCEPT !.at = "writing", !.completed = TRUE,
                                   !.kind = "success", !.class = class,
                                   !.status = status, !.rc = rc, !.written = 0]
      BY <2>7, <3>1 DEF AnswerJudged
    <3>3. agent' \in AgentState
      BY <3>2, FiveWrites DEF AgentTypeOK, AgentState
    <3>4. QED
      BY <2>7, <3>3 DEF AnswerJudged, AgentTypeOK
  <2>8. CASE AgentWrites
    <3>1. /\ staging' \in [File -> Written] /\ metadata' \in Metadata
          /\ agent.written + 1 \in 0..Len(Writes)
      BY <2>8, WriteTypes DEF AgentWrites
    <3>2. agent' \in AgentState
      BY <2>8, <3>1 DEF AgentWrites, AgentTypeOK, AgentState
    <3>3. QED
      BY <2>8, <3>1, <3>2 DEF AgentWrites, AgentTypeOK
  <2>9. CASE AgentWriteFails
    <3>1. agent.completed \in BOOLEAN
      BY DEF AgentTypeOK, AgentState
    <3>2. agent' \in AgentState
      BY <2>9, <3>1, LeavesTypes, RaisesTypes DEF AgentWriteFails, Raises, AgentTypeOK
    <3>3. staging' \in [File -> Written] /\ metadata' \in Metadata
      BY <2>9, WriteTypes DEF AgentWriteFails
    <3>4. QED
      BY <2>9, <3>2, <3>3 DEF AgentWriteFails, AgentTypeOK
  <2>10. CASE AgentExits
    <3>1. agent.rc \in {0, 1, 10, 30, 124, Killed}
      BY DEF AgentTypeOK, AgentState
    <3>2. QED
      BY <2>10, <3>1, LeavesTypes DEF AgentExits, AgentTypeOK
  <2>11. QED
    BY <1>7, <2>1, <2>2, <2>3, <2>4, <2>5, <2>6, <2>7, <2>8, <2>9, <2>10 DEF AgentSteps
<1>8. QED
  BY <1>1, <1>2, <1>3, <1>4, <1>5, <1>6, <1>7 DEF Next

LEMMA EnvelopeTypes ==
    ASSUME AgentTypeOK
    PROVE  Envelope(NoopEnforced(MetadataRead)) \in
             [status : Status, class : FailureClass, observed : BOOLEAN]
<1>1. MetadataRead \in [status : Status, class : FailureClass]
  BY DEF MetadataRead, AgentTypeOK, Metadata
<1>2. NoopEnforced(MetadataRead) \in [status : Status, class : FailureClass]
  BY <1>1 DEF NoopEnforced
<1>3. ASSUME NEW m \in [status : Status, class : FailureClass]
      PROVE  Envelope(m) \in [status : Status, class : FailureClass, observed : BOOLEAN]
  <2>1. m.status \in Status /\ m.class \in FailureClass
    BY <1>3
  <2> DEFINE class == IF m.class # "none" \/ ReturnCode = 0 THEN m.class
                      ELSE IF ReturnCode = 10 THEN "agent_behavior_regression"
                      ELSE "runtime_protocol_failure"
             status == IF class = "runtime_timeout" THEN "unavailable"
                       ELSE IF class = "agent_behavior_regression" \/ ReturnCode # 0
                       THEN "failed" ELSE m.status
  <2>2. class \in FailureClass
    BY <2>1
  <2>3. status \in Status
    BY <2>1
  <2>4. Envelope(m) = [status |-> status, class |-> class,
                       observed |-> class \notin InfrastructureFailures]
    BY DEF Envelope
  <2> HIDE DEF class, status
  <2>5. (class \notin InfrastructureFailures) \in BOOLEAN
    OBVIOUS
  <2>6. QED
    BY <2>2, <2>3, <2>4, <2>5
<1>4. QED
  BY <1>2, <1>3

LEMMA AdapterLeavesTypes ==
    ASSUME adapter \in AdapterState, NEW rc \in {0, 1, 30}, AdapterLeaves(rc)
    PROVE  adapter' \in AdapterState
BY DEF AdapterLeaves, AdapterState

LEMMA EvaluationTypes ==
    ASSUME AgentTypeOK, EvaluationTypeOK, Next
    PROVE  EvaluationTypeOK'
<1>1. CASE AssertCleanOutput
  <2>1. adapter' \in AdapterState
    BY <1>1, AdapterLeavesTypes DEF AssertCleanOutput, EvaluationTypeOK, AdapterState
  <2>2. QED
    BY <1>1, <2>1 DEF AssertCleanOutput, EvaluationTypeOK
<1>2. CASE RunAgent
  BY <1>2 DEF RunAgent, EvaluationTypeOK, AdapterState
<1>3. CASE RunAgentFails \/ AgentNotReaped \/ CollectFails \/ AdapterExits
  BY <1>3, AdapterLeavesTypes
     DEF RunAgentFails, AgentNotReaped, CollectFails, AdapterExits, EvaluationTypeOK
<1>4. CASE Collect
  <2>1. Bundle \subseteq Name
    BY DEF Bundle
  <2> DEFINE envelope == Envelope(NoopEnforced(MetadataRead))
  <2>2. envelope \in [status : Status, class : FailureClass, observed : BOOLEAN]
    BY EnvelopeTypes
  <2>3. CASE adapter' = [adapter EXCEPT !.at = "publishing", !.bundle = Bundle,
                                        !.todo = Bundle, !.envelope = envelope]
    <3> HIDE DEF envelope
    <3>1. adapter' \in AdapterState
      BY <2>1, <2>2, <2>3 DEF EvaluationTypeOK, AdapterState
    <3>2. QED
      BY <1>4, <3>1 DEF Collect, EvaluationTypeOK
  <2>4. CASE AdapterLeaves(30)
    BY <1>4, <2>4, AdapterLeavesTypes DEF Collect, EvaluationTypeOK
  <2>5. QED
    BY <1>4, <2>3, <2>4 DEF Collect
<1>5. CASE PublishNext
  <2>1. FirstOf(adapter.todo) \in Name
    BY <1>5, FirstIsOne DEF PublishNext, EvaluationTypeOK, AdapterState
  <2>2. adapter' \in AdapterState
    BY <1>5, AdapterLeavesTypes DEF PublishNext, EvaluationTypeOK, AdapterState
  <2>3. output' \in [Name -> {"none", "old", "new", "torn"}]
    BY <1>5, <2>1 DEF PublishNext, EvaluationTypeOK
  <2>4. QED
    BY <2>2, <2>3 DEF EvaluationTypeOK
<1>6. CASE PublishFails
  <2>1. FirstOf(adapter.todo) \in Name
    BY <1>6, FirstIsOne DEF PublishFails, EvaluationTypeOK, AdapterState
  <2>2. adapter' \in AdapterState
    BY <1>6, AdapterLeavesTypes DEF PublishFails, EvaluationTypeOK
  <2>3. output' \in [Name -> {"none", "old", "new", "torn"}]
    BY <1>6, <2>1 DEF PublishFails, EvaluationTypeOK
  <2>4. QED
    BY <2>2, <2>3 DEF EvaluationTypeOK
<1>7. CASE UNCHANGED <<adapter, output>>
  BY <1>7 DEF EvaluationTypeOK
<1>8. QED
  BY <1>1, <1>2, <1>3, <1>4, <1>5, <1>6, <1>7 DEF Next, AdapterSteps

-----------------------------------------------------------------------------
(* The agent.                                                              *)

USE DEF AgentInv, Undecided, Decided, Gone, Regression, Progress, WrittenWhole

LEMMA InitAgent == Init => ProcInv /\ AgentInv
<1> SUFFICES ASSUME Init PROVE ProcInv /\ AgentInv
  OBVIOUS
<1>1. ProcInv
  BY RuntimeAssumption, AgentAssumption DEF Init, RuntimeInit, ProcInv, CallInv
<1>2. /\ agent.at = "setup" /\ agent.kind = "none" /\ agent.class = "none"
      /\ agent.rc = Killed /\ agent.written = 0 /\ ~agent.handling
      /\ metadata = NoMetadata /\ proc["agent"] # "gone"
  BY AgentAssumption DEF Init, RuntimeInit, AgentInit
<1>3. QED
  BY <1>1, <1>2

\* A step of somebody else leaves the agent what it knows.
LEMMA OthersKeep ==
    ASSUME TypeOK, ProcInv, AgentInv, Lasting, UNCHANGED <<request, agent, metadata>>,
           proc["agent"] = "gone" <=> proc'["agent"] = "gone",
           codex' = codex \/ proc["codex"] = "running",
           \/ staging' = staging
           \/ /\ proc["agent"] = "gone"
              /\ \A f \in File : staging[f] = "success" => staging'[f] = "success"
    PROVE  AgentInv'
<1>1. call["inner"].at = "returned" => codex' = codex /\ call'["inner"] = call["inner"]
  BY AgentAssumption DEF ProcInv, CallInv, Lasting
<1>2. Judged => Judged'
  BY <1>1 DEF Judged
<1>3. Decided'
  BY <1>1, <1>2
<1>4. Progress' /\ WrittenWhole'
  OBVIOUS
<1>5. QED
  BY <1>3, <1>4

LEMMA RaisesKeep ==
    ASSUME TypeOK, AgentInv, NEW completed \in BOOLEAN, RaisesAfter(completed),
           proc["agent"] = "running", UNCHANGED <<proc, request>>,
           metadata' \in {metadata, NoMetadata},
           completed = agent.completed \/ metadata' = NoMetadata
    PROVE  AgentInv'
<1>1. agent \in AgentState
  BY DEF TypeOK, AgentTypeOK
<1>2. /\ agent'.at = "writing" /\ agent'.written = 0 /\ agent'.kind = "failure"
      /\ agent'.rc = 30 /\ agent'.changed = agent.changed
  BY <1>1 DEF RaisesAfter, AgentState
<1>3. agent'.class \in {"evaluator_contract_failure", "runtime_protocol_failure"}
  BY <1>1 DEF RaisesAfter, AgentState
<1>4. agent'.completed = completed
  BY <1>1 DEF RaisesAfter, AgentState
<1>5. Regression'
  BY <1>2, <1>4
<1>6. Undecided' /\ Decided' /\ Gone' /\ Progress' /\ WrittenWhole'
  BY <1>2, <1>3
<1>7. QED
  BY <1>5, <1>6

LEMMA FailsKeep ==
    ASSUME TypeOK, AgentInv, NEW class, NEW rc, Fails(class, rc),
           \/ class = "runtime_timeout" /\ rc = 124
           \/ class = "runtime_protocol_failure" /\ rc # 0,
           agent.at \in {"running", "judging"}, proc["agent"] = "running",
           UNCHANGED <<proc, metadata>>
    PROVE  AgentInv'
<1>1. agent \in AgentState
  BY DEF TypeOK, AgentTypeOK
<1>2. /\ agent'.at = "writing" /\ agent'.written = 0 /\ agent'.kind = "failure"
      /\ agent'.rc = rc /\ agent'.class = class
  BY <1>1 DEF Fails, AgentState
<1>3. QED
  BY <1>2

\* The agent leaves without having written an outcome.
LEMMA LeavesKeep ==
    ASSUME TypeOK, AgentInv, NEW rc \in {1, 30}, Leaves(rc), agent.kind # "success",
           UNCHANGED request, metadata' \in {metadata, NoMetadata}
    PROVE  AgentInv'
<1>1. agent \in AgentState /\ "agent" \in Process /\ proc \in [Process -> ProcState]
  BY AgentAssumption DEF TypeOK, AgentTypeOK, RuntimeTypeOK
<1>2. /\ agent'.at = "exited" /\ agent'.rc = rc /\ agent'.kind = agent.kind
      /\ agent'.class = agent.class /\ agent'.changed = agent.changed
      /\ proc'["agent"] = "gone"
  BY <1>1 DEF Leaves, Ends, AgentState
<1>3. agent'.completed = agent.completed /\ agent'.handling = agent.handling
  BY <1>1 DEF Leaves, AgentState
<1>4. QED
  BY <1>2, <1>3

LEMMA DiesKeep ==
    ASSUME TypeOK, AgentInv, AgentDies
    PROVE  AgentInv'
<1>1. agent \in AgentState /\ "agent" \in Process /\ proc \in [Process -> ProcState]
  BY AgentAssumption DEF TypeOK, AgentTypeOK, RuntimeTypeOK
<1>2. /\ agent'.at = agent.at /\ agent'.rc = Killed /\ agent'.kind = agent.kind
      /\ agent'.class = agent.class /\ agent'.changed = agent.changed
      /\ agent'.status = agent.status /\ agent'.written = 0
      /\ proc'["agent"] = "gone" /\ proc["agent"] # "gone"
  BY <1>1 DEF AgentDies, Ends, AgentState
<1>3. agent'.completed = agent.completed /\ agent'.handling = agent.handling
  BY <1>1 DEF AgentDies, AgentState
<1>4. metadata' \in {metadata, NoMetadata}
  BY DEF AgentDies, Torn
<1>5. Judged => Judged'
  BY <1>2, <1>3 DEF AgentDies, Judged
<1>6. Decided'
  BY <1>2, <1>3, <1>5 DEF AgentDies
<1>7. Undecided' /\ Gone' /\ Regression' /\ Progress' /\ WrittenWhole'
  BY <1>2, <1>3, <1>4 DEF AgentDies
<1>8. QED
  BY <1>6, <1>7

LEMMA JudgedKeep ==
    ASSUME TypeOK, AgentInv, AnswerJudged
    PROVE  AgentInv'
<1> DEFINE wrong == ScopeError(request, agent.changed)
<1>1. agent \in AgentState
  BY DEF TypeOK, AgentTypeOK
<1>2. /\ agent'.at = "writing" /\ agent'.written = 0 /\ agent'.kind = "success"
      /\ agent'.changed = agent.changed /\ agent'.completed
  BY <1>1 DEF AnswerJudged, AgentState
<1>3. wrong => /\ agent'.class = "agent_behavior_regression" /\ agent'.rc = 10
               /\ agent'.status = "failed"
  BY <1>1 DEF AnswerJudged, AgentState
<1>4. ~wrong => /\ agent'.class = "none" /\ agent'.rc = 0
                /\ agent'.status = StatusOf(ResolveGates(request, codex.final.reports))
  BY <1>1 DEF AnswerJudged, AgentState
<1>5. agent'.handling = agent.handling
  BY <1>1 DEF AnswerJudged, AgentState
<1>6. /\ UNCHANGED <<runtimeVars, request, codex, metadata>>
      /\ proc["agent"] = "running" /\ agent.at = "judging"
      /\ codex.rc = 0 /\ codex.final.kind = "structured"
  BY DEF AnswerJudged, AgentAt
<1>7. wrong' <=> wrong
  BY <1>2, <1>6
<1>8. Judged'
  BY <1>2, <1>3, <1>4, <1>6, <1>7 DEF Judged, runtimeVars
<1>9. Decided'
  BY <1>2, <1>3, <1>4, <1>5, <1>6, <1>8
<1>10. Undecided' /\ Gone' /\ Regression' /\ Progress' /\ WrittenWhole'
  BY <1>2, <1>6 DEF runtimeVars
<1>11. QED
  BY <1>9, <1>10

LEMMA WritesKeep ==
    ASSUME TypeOK, AgentInv, AgentWrites
    PROVE  AgentInv'
<1>1. /\ agent \in AgentState /\ staging \in [File -> Written]
      /\ agent.at = "writing" /\ proc["agent"] = "running"
      /\ UNCHANGED <<runtimeVars, request, codex>>
  BY DEF TypeOK, AgentTypeOK, AgentWrites, Writing
<1>2. /\ agent'.at = agent.at /\ agent'.rc = agent.rc /\ agent'.kind = agent.kind
      /\ agent'.class = agent.class /\ agent'.changed = agent.changed
      /\ agent'.status = agent.status /\ agent'.written = agent.written + 1
      /\ agent'.completed = agent.completed /\ agent'.handling = agent.handling
  BY <1>1 DEF AgentWrites, AgentState
<1>3. agent.written \in {0, 1, 2, 3, 4}
  BY FiveWrites DEF AgentWrites, Writing, TypeOK, AgentTypeOK, AgentState
<1>4. Judged => Judged'
  BY <1>1, <1>2 DEF Judged, runtimeVars
<1>5. Decided'
  BY <1>1, <1>2, <1>4
<1>6. Progress' /\ Regression'
  <2>1. CASE agent.written = 0
    <3>1. NextWrite = "response"
      BY <2>1, FiveWrites DEF NextWrite
    <3>2. staging'["response"] = agent.kind /\ metadata' = metadata /\ agent'.written = 1
      BY <1>1, <1>2, <2>1, <3>1 DEF AgentWrites, Stored
    <3>3. QED
      BY <1>1, <1>2, <3>2
  <2>2. CASE agent.written = 1
    <3>1. NextWrite = "artifact-index"
      BY <2>2, FiveWrites DEF NextWrite
    <3>2. /\ staging'["artifact-index"] = agent.kind /\ metadata' = metadata
          /\ staging'["response"] = staging["response"] /\ agent'.written = 2
      BY <1>1, <1>2, <2>2, <3>1 DEF AgentWrites, Stored
    <3>3. QED
      BY <1>1, <1>2, <2>2, <3>2
  <2>3. CASE agent.written = 2
    <3>1. NextWrite = "metadata"
      BY <2>3, FiveWrites DEF NextWrite
    <3>2. /\ staging' = staging /\ agent'.written = 3
          /\ metadata' = [status |-> agent.status, class |-> "none"]
      BY <1>1, <1>2, <2>3, <3>1 DEF AgentWrites, Stored
    <3>3. QED
      BY <1>1, <1>2, <2>3, <3>2
  <2>4. CASE agent.written = 3
    <3>1. NextWrite = "patch"
      BY <2>4, FiveWrites DEF NextWrite
    <3>2. /\ staging' = staging /\ agent'.written = 4
          /\ metadata' = [status |-> metadata.status, class |-> agent.class]
      BY <1>1, <1>2, <2>4, <3>1 DEF AgentWrites, Stored
    <3>3. metadata.status = agent.status
      BY <1>1, <2>4
    <3>4. agent.class = "agent_behavior_regression" =>
            agent.completed /\ ScopeError(request, agent.changed)
      BY DEF Judged
    <3>5. metadata'.class = agent.class
      BY <3>2
    <3>6. Regression'
      BY <1>1, <1>2, <3>4, <3>5
    <3>7. Progress'
      BY <1>1, <1>2, <2>4, <3>2, <3>3
    <3>8. QED
      BY <3>6, <3>7
  <2>5. CASE agent.written = 4
    <3>1. NextWrite = "metrics"
      BY <2>5, FiveWrites DEF NextWrite
    <3>2. /\ staging'["artifact-index"] = staging["artifact-index"] /\ metadata' = metadata
          /\ staging'["response"] = staging["response"] /\ agent'.written = 5
      BY <1>1, <1>2, <2>5, <3>1 DEF AgentWrites, Stored
    <3>3. QED
      BY <1>1, <1>2, <2>5, <3>2
  <2>6. QED
    BY <1>3, <2>1, <2>2, <2>3, <2>4, <2>5
<1>7. Undecided' /\ Gone' /\ WrittenWhole'
  BY <1>1, <1>2 DEF runtimeVars
<1>8. QED
  BY <1>5, <1>6, <1>7

LEMMA ExitsKeep ==
    ASSUME TypeOK, AgentInv, AgentExits
    PROVE  AgentInv'
<1>1. agent \in AgentState /\ "agent" \in Process /\ proc \in [Process -> ProcState]
  BY AgentAssumption DEF TypeOK, AgentTypeOK, RuntimeTypeOK
<1>2. /\ agent'.at = "exited" /\ agent'.rc = agent.rc /\ agent'.kind = agent.kind
      /\ agent'.class = agent.class /\ agent'.changed = agent.changed
      /\ agent'.status = agent.status /\ proc'["agent"] = "gone"
      /\ agent'.completed = agent.completed /\ agent'.handling = agent.handling
  BY <1>1 DEF AgentExits, Leaves, Ends, AgentState
<1>3. /\ agent.at = "writing" /\ agent.written = 5 /\ proc["agent"] = "running"
      /\ UNCHANGED <<call, request, codex, staging, metadata>>
  BY <1>1, FiveWrites DEF AgentExits, AgentAt, Writing, Leaves, AgentState
<1>4. Judged => Judged'
  BY <1>2, <1>3 DEF Judged
<1>5. Decided'
  BY <1>2, <1>3, <1>4
<1>6. /\ staging["response"] = agent.kind /\ staging["artifact-index"] = agent.kind
      /\ metadata = [status |-> agent.status, class |-> agent.class]
  BY <1>3
<1>7. Undecided' /\ Gone' /\ Regression' /\ Progress' /\ WrittenWhole'
  BY <1>2, <1>3, <1>6
<1>8. QED
  BY <1>5, <1>7

LEMMA AgentKeeps ==
    ASSUME TypeOK, ProcInv, AgentInv, AgentSteps \/ SetupFails \/ SetupEnds
    PROVE  AgentInv'
<1>1. agent \in AgentState /\ agent.completed \in BOOLEAN
  BY DEF TypeOK, AgentTypeOK, AgentState
<1>2. CASE SetupFails
  BY <1>1, <1>2, LeavesKeep, RaisesKeep DEF SetupFails, AgentAt, Raises, runtimeVars
<1>3. CASE SetupEnds \/ RunCodex
  <2>1. /\ agent'.at \in {"ready", "running"} /\ agent.at \in {"setup", "ready"}
        /\ agent'.rc = agent.rc /\ agent'.kind = agent.kind
        /\ agent'.class = agent.class /\ agent'.written = agent.written
        /\ agent'.handling = agent.handling /\ metadata' = metadata
    BY <1>1, <1>3 DEF SetupEnds, RunCodex, AgentAt, AgentState
  <2>2. proc["agent"] = "running" /\ proc'["agent"] = "running"
    BY <1>3, AgentAssumption
       DEF SetupEnds, RunCodex, AgentAt, Begin, runtimeVars, TypeOK, RuntimeTypeOK
  <2>3. QED
    BY <2>1, <2>2
<1>4. CASE CodexTimedOut
  BY <1>4, FailsKeep DEF CodexTimedOut, AgentAt, runtimeVars
<1>5. CASE CodexNotReaped
  BY <1>5, LeavesKeep DEF CodexNotReaped, AgentAt
<1>6. CASE SnapshotAfter
  <2>1. /\ agent'.at = "judging" /\ agent.at = "running"
        /\ agent'.rc = agent.rc /\ agent'.kind = agent.kind
        /\ agent'.class = agent.class /\ agent'.written = agent.written
        /\ agent'.handling = agent.handling /\ metadata' = metadata
    BY <1>1, <1>6 DEF SnapshotAfter, AgentAt, AgentState
  <2>2. QED
    BY <1>6, <2>1 DEF SnapshotAfter, AgentAt, runtimeVars
<1>7. CASE WorkspaceUnreadable \/ ControlModified \/ AnswerRefused
  <2>1. agent.at \in {"running", "judging"} /\ proc["agent"] = "running"
        /\ UNCHANGED <<proc, request, metadata>>
    BY <1>7 DEF WorkspaceUnreadable, ControlModified, AnswerRefused, AgentAt, runtimeVars
  <2>2. PICK completed \in BOOLEAN : RaisesAfter(completed)
    BY <1>1, <1>7 DEF WorkspaceUnreadable, ControlModified, AnswerRefused, Raises
  <2>3. QED
    BY <2>1, <2>2, RaisesKeep
<1>8. CASE CodexFailed
  BY <1>8, FailsKeep DEF CodexFailed, AgentAt, runtimeVars
<1>9. CASE AnswerJudged
  BY <1>9, JudgedKeep
<1>10. CASE AgentWrites
  BY <1>10, WritesKeep
<1>11. CASE AgentWriteFails
  <2>1. metadata' \in {metadata, NoMetadata} /\ UNCHANGED request
        /\ proc["agent"] = "running"
    BY <1>11 DEF AgentWriteFails, Torn
  <2>2. QED
    BY <1>1, <1>11, <2>1, LeavesKeep, RaisesKeep DEF AgentWriteFails, Raises, runtimeVars
<1>12. CASE AgentExits
  BY <1>12, ExitsKeep
<1>13. QED
  BY <1>2, <1>3, <1>4, <1>5, <1>6, <1>7, <1>8, <1>9, <1>10, <1>11, <1>12 DEF AgentSteps

-----------------------------------------------------------------------------
(* The adapter.                                                            *)

\* What the adapter may conclude from a return code of the agent.
LEMMA EndedByItself ==
    ASSUME TypeOK, AgentInv, proc["agent"] = "gone", agent.rc \in {0, 10}
    PROVE  /\ agent.at = "exited" /\ metadata # NoMetadata
           /\ metadata = [status |-> agent.status, class |-> agent.class]
           /\ agent.kind = "success" => Judged
           /\ agent.rc = 0 => agent.kind = "success"
           /\ agent.rc = 10 => agent.kind = "success"
                               \/ metadata.class = "runtime_protocol_failure"
<1>1. agent.at = "exited" /\ metadata = [status |-> agent.status, class |-> agent.class]
  OBVIOUS
<1>2. agent.status \in Status /\ agent.class \in FailureClass
  BY DEF TypeOK, AgentTypeOK, AgentState
<1>3. metadata # NoMetadata
  BY <1>1, <1>2, AgentAssumption
<1>4. metadata.class = agent.class
  BY <1>1
<1>5. QED
  BY <1>1, <1>3, <1>4

LEMMA CompletedEnvelope ==
    ASSUME TypeOK, ProcInv, AgentInv, proc["agent"] = "gone",
           Envelope(NoopEnforced(MetadataRead)).status = "completed"
    PROVE  proc["codex"] = "gone" /\ Earned
<1>1. /\ ReturnCode = 0 /\ NoopEnforced(MetadataRead).status = "completed"
  BY DEF Envelope
<1>2. ~TimedOut /\ agent.rc = 0
  BY <1>1 DEF ReturnCode
<1>3. /\ agent.at = "exited" /\ metadata # NoMetadata
      /\ metadata = [status |-> agent.status, class |-> agent.class]
      /\ agent.kind = "success" /\ Judged
  BY <1>2, EndedByItself
<1>4. /\ ~ScopeError(request, agent.changed)
      /\ agent.status = StatusOf(ResolveGates(request, codex.final.reports))
  BY <1>2, <1>3 DEF Judged
<1>5. MetadataRead.status = "completed"
  BY <1>1 DEF NoopEnforced
<1>6. agent.status = "completed"
  BY <1>3, <1>5 DEF MetadataRead
<1>7. ResolveGates(request, codex.final.reports) = "passed"
  BY <1>4, <1>6 DEF StatusOf, ResolveGates
<1>8. codex.final.kind = "structured" /\ codex.rc = 0
      /\ call["inner"].at = "returned" /\ ~call["inner"].timed_out
  BY <1>3 DEF Judged
<1>9. request \in Request /\ codex.final.reports \in Seq(Report)
  <2>1. request \in Request /\ codex.final \in Final
    BY <1>8, AgentAssumption DEF TypeOK, AgentTypeOK, Final
  <2>2. QED
    BY <1>8, <2>1 DEF Final
<1>10. \A g \in RequiredGates(request) : GatePassed(g)
  BY <1>7, <1>9, PassedIsEarned DEF GatePassed
<1>11. proc["codex"] = "gone"
  BY <1>8, AgentAssumption DEF ProcInv, CallInv
<1>12. \A f \in Required : staging[f] = "success"
  BY <1>2, <1>3
<1>13. \A c \in Call : ~call[c].timed_out
  BY <1>2, <1>8, AgentAssumption DEF TimedOut
<1>14. QED
  BY <1>4, <1>8, <1>10, <1>11, <1>12, <1>13 DEF Earned

LEMMA ObservedEnvelope ==
    ASSUME TypeOK, ProcInv, AgentInv, proc["agent"] = "gone",
           Envelope(NoopEnforced(MetadataRead)).observed
    PROVE  AnswerCounts
<1> DEFINE m == NoopEnforced(MetadataRead)
           class == IF m.class # "none" \/ ReturnCode = 0 THEN m.class
                    ELSE IF ReturnCode = 10 THEN "agent_behavior_regression"
                    ELSE "runtime_protocol_failure"
<1>1. class \notin InfrastructureFailures
  BY DEF Envelope
<1>2. ~TimedOut
  <2>1. SUFFICES ASSUME TimedOut PROVE FALSE
    OBVIOUS
  <2>2. ReturnCode = 124 /\ MetadataRead.class = "runtime_timeout"
    BY <2>1 DEF ReturnCode, MetadataRead
  <2>3. m = MetadataRead
    BY <2>2 DEF NoopEnforced
  <2>4. QED
    BY <1>1, <2>2, <2>3 DEF InfrastructureFailures
<1>3. ReturnCode = agent.rc
  BY <1>2 DEF ReturnCode
<1>4. CASE agent.rc \in {0, 10}
  <2>1. /\ agent.at = "exited" /\ metadata # NoMetadata
        /\ agent.kind = "success" => Judged
        /\ agent.kind = "success" \/ metadata.class = "runtime_protocol_failure"
    BY <1>4, EndedByItself
  <2>2. MetadataRead.class = metadata.class
    BY <1>2, <2>1 DEF MetadataRead
  <2>3. metadata.class # "runtime_protocol_failure"
    <3>1. SUFFICES ASSUME metadata.class = "runtime_protocol_failure" PROVE FALSE
      OBVIOUS
    <3>2. m = MetadataRead
      BY <2>2, <3>1 DEF NoopEnforced, InfrastructureFailures
    <3>3. class = "runtime_protocol_failure"
      BY <2>2, <3>1, <3>2
    <3>4. QED
      BY <1>1, <3>3 DEF InfrastructureFailures
  <2>4. QED
    BY <1>2, <1>4, <2>1, <2>3 DEF Judged, AnswerCounts
<1>5. CASE agent.rc \notin {0, 10}
  <2>1. m = MetadataRead
    BY <1>3, <1>5 DEF NoopEnforced
  <2>2. m.class # "none" /\ m.class \notin InfrastructureFailures
    BY <1>1, <1>3, <1>5 DEF InfrastructureFailures
  <2>3. metadata # NoMetadata /\ m.class = metadata.class
    BY <1>2, <2>1, <2>2 DEF MetadataRead
  <2>4. metadata.class \in FailureClass
    BY <2>3 DEF TypeOK, AgentTypeOK, Metadata
  <2>5. metadata.class = "agent_behavior_regression"
    BY <2>2, <2>3, <2>4 DEF InfrastructureFailures
  <2>6. QED
    BY <1>2, <2>3, <2>5 DEF AnswerCounts
<1>6. QED
  BY <1>4, <1>5

\* When the adapter's call has returned, what the attempt came to is settled.
LEMMA OutcomeSettled ==
    ASSUME TypeOK, ProcInv, Lasting, call["outer"].at = "returned",
           UNCHANGED <<request, codex, agent, staging>>
    PROVE  /\ call'["outer"] = call["outer"] /\ call'["inner"] = call["inner"]
           /\ Earned' <=> Earned
           /\ AnswerCounts' <=> AnswerCounts
<1>1. Call = {"outer", "inner"} /\ proc["agent"] = "gone"
  BY AgentAssumption DEF ProcInv, CallInv
<1>2. \A c \in Call : call'[c] = call[c]
  BY <1>1, AgentAssumption DEF Lasting, Works
<1>3. Earned' <=> Earned
  BY <1>1, <1>2 DEF Earned, GatePassed
<1>4. AnswerCounts' <=> AnswerCounts
  BY <1>1, <1>2 DEF AnswerCounts, TimedOut
<1>5. QED
  BY <1>1, <1>2, <1>3, <1>4

USE DEF AdapterInv, Held, Published, Before

LEMMA InitAdapter == Init => AdapterInv
<1> SUFFICES ASSUME Init PROVE AdapterInv
  OBVIOUS
<1>1. adapter = [at |-> "start", rc |-> Killed, bundle |-> {}, todo |-> {},
                 envelope |-> NoEnvelope]
  BY DEF Init
<1>2. \A n \in Name : output[n] # "new"
  BY DEF Init
<1>3. adapter.envelope.status = "none" /\ ~adapter.envelope.observed /\ adapter.rc # 0
  BY <1>1
<1>4. QED
  BY <1>1, <1>2, <1>3 DEF CompletedIsEarned, InfrastructureUnobserved, ZeroMeansPublished

\* What the envelope says of an agent that is gone stays true.
LEMMA EnvelopeKept ==
    ASSUME TypeOK, ProcInv, AdapterInv, Lasting, adapter'.envelope = adapter.envelope,
           adapter.bundle # {} => UNCHANGED agentVars
    PROVE  CompletedIsEarned' /\ InfrastructureUnobserved'
<1>1. CASE adapter.bundle = {}
  BY <1>1 DEF CompletedIsEarned, InfrastructureUnobserved
<1>2. CASE adapter.bundle # {}
  <2>1. /\ Earned' <=> Earned
        /\ AnswerCounts' <=> AnswerCounts
    BY <1>2, OutcomeSettled DEF agentVars
  <2>2. proc["codex"] = "gone" => proc'["codex"] = "gone"
    BY AgentAssumption DEF Lasting
  <2>3. QED
    BY <2>1, <2>2 DEF CompletedIsEarned, InfrastructureUnobserved
<1>3. QED
  BY <1>1, <1>2

\* A step that is not the adapter's.
LEMMA AdapterUntouched ==
    ASSUME TypeOK, ProcInv, AdapterInv, Lasting, UNCHANGED <<adapter, output>>,
           adapter.bundle # {} => UNCHANGED agentVars
    PROVE  AdapterInv'
<1>1. CompletedIsEarned' /\ InfrastructureUnobserved'
  BY EnvelopeKept
<1>2. Held'
  BY AgentAssumption DEF Lasting
<1>3. Published' /\ ZeroMeansPublished'
  BY DEF ZeroMeansPublished
<1>4. QED
  BY <1>1, <1>2, <1>3

\* The adapter leaves with an error.
LEMMA LeavesWithError ==
    ASSUME TypeOK, ProcInv, AdapterInv, Lasting, NEW rc \in {1, 30}, AdapterLeaves(rc),
           UNCHANGED agentVars
    PROVE  AdapterInv'
<1>1. /\ adapter'.at = "exited" /\ adapter'.rc = rc /\ adapter'.bundle = adapter.bundle
      /\ adapter'.envelope = adapter.envelope
  BY DEF AdapterLeaves, TypeOK, EvaluationTypeOK, AdapterState
<1>2. CompletedIsEarned' /\ InfrastructureUnobserved'
  BY <1>1, EnvelopeKept
<1>3. Held'
  BY <1>1, AgentAssumption DEF Lasting
<1>4. Published' /\ ZeroMeansPublished'
  BY <1>1 DEF ZeroMeansPublished
<1>5. QED
  BY <1>2, <1>3, <1>4

LEMMA CollectKeeps ==
    ASSUME TypeOK, ProcInv, AgentInv, AdapterInv, Lasting, Collect
    PROVE  AdapterInv'
<1> DEFINE envelope == Envelope(NoopEnforced(MetadataRead))
<1>1. /\ adapter.at = "running" /\ call["outer"].at = "returned"
      /\ UNCHANGED <<request, codex, agent, metadata, output>>
  BY DEF Collect, AdapterAt
<1>2. proc["agent"] = "gone" /\ Call = {"outer", "inner"}
  BY <1>1, AgentAssumption DEF ProcInv, CallInv
<1>3. CASE /\ adapter' = [adapter EXCEPT !.at = "publishing", !.bundle = Bundle,
                                         !.todo = Bundle, !.envelope = envelope]
           /\ staging' = Completed /\ UNCHANGED runtimeVars
  <2>1. /\ adapter'.at = "publishing" /\ adapter'.bundle = Bundle /\ adapter'.todo = Bundle
        /\ adapter'.envelope = envelope /\ adapter'.rc = adapter.rc
    BY <1>3 DEF TypeOK, EvaluationTypeOK, AdapterState
  <2>2. Bundle # {}
    BY DEF Bundle
  <2>3. Held' /\ Published'
    BY <1>1, <1>2, <1>3, <2>1, <2>2 DEF runtimeVars
  <2>4. ZeroMeansPublished'
    BY <1>1, <2>1 DEF ZeroMeansPublished
  <2>5. CompletedIsEarned'
    <3>1. SUFFICES ASSUME envelope.status = "completed" PROVE CompletedIsEarned'
      BY <2>1 DEF CompletedIsEarned
    <3>2. proc["codex"] = "gone" /\ Earned
      BY <1>2, <3>1, CompletedEnvelope
    <3>3. \A f \in Required : staging'[f] = "success"
      BY <1>3, <3>2 DEF Completed, Earned
    <3>4. QED
      BY <1>1, <1>2, <1>3, <3>2, <3>3 DEF CompletedIsEarned, Earned, GatePassed, runtimeVars
  <2>6. InfrastructureUnobserved'
    <3>1. SUFFICES ASSUME envelope.observed PROVE InfrastructureUnobserved'
      BY <2>1 DEF InfrastructureUnobserved
    <3>2. AnswerCounts
      BY <1>2, <3>1, ObservedEnvelope
    <3>3. QED
      BY <1>1, <1>3, <3>2
         DEF InfrastructureUnobserved, AnswerCounts, TimedOut, runtimeVars
  <2>7. QED
    BY <2>3, <2>4, <2>5, <2>6
<1>4. CASE AdapterLeaves(30) /\ UNCHANGED staging
  <2>1. adapter.bundle = {}
    BY <1>1
  <2>2. /\ adapter'.at = "exited" /\ adapter'.rc = 30 /\ adapter'.bundle = adapter.bundle
        /\ adapter'.envelope = adapter.envelope
    BY <1>4 DEF AdapterLeaves, TypeOK, EvaluationTypeOK, AdapterState
  <2>3. CompletedIsEarned' /\ InfrastructureUnobserved'
    BY <2>1, <2>2, EnvelopeKept
  <2>4. Held' /\ Published' /\ ZeroMeansPublished'
    BY <2>1, <2>2 DEF ZeroMeansPublished
  <2>5. QED
    BY <2>3, <2>4
<1>5. QED
  BY <1>3, <1>4 DEF Collect

LEMMA PublishKeeps ==
    ASSUME TypeOK, ProcInv, AdapterInv, Lasting, PublishNext
    PROVE  AdapterInv'
<1> DEFINE n == FirstOf(adapter.todo)
<1>1. adapter \in AdapterState /\ adapter.todo \subseteq Name
      /\ output \in [Name -> {"none", "old", "new", "torn"}]
  BY DEF TypeOK, EvaluationTypeOK, AdapterState
<1>2. n \in adapter.todo
  BY <1>1, FirstIsOne DEF PublishNext
<1>3. adapter.at = "publishing" /\ UNCHANGED agentVars
  BY DEF PublishNext, AdapterAt
<1> HIDE DEF n
<1>4. CASE /\ output' = [output EXCEPT ![n] = "new"]
           /\ adapter' = [adapter EXCEPT !.todo = @ \ {n}]
           /\ UNCHANGED runtimeVars /\ output[n] = "none"
  <2>1. /\ adapter'.at = "publishing" /\ adapter'.rc = adapter.rc
        /\ adapter'.bundle = adapter.bundle /\ adapter'.envelope = adapter.envelope
        /\ adapter'.todo = adapter.todo \ {n}
    BY <1>1, <1>3, <1>4 DEF AdapterState
  <2>2. CompletedIsEarned' /\ InfrastructureUnobserved'
    BY <1>3, <2>1, EnvelopeKept
  <2>3. Held'
    BY <1>3, <1>4, <2>1 DEF runtimeVars
  <2>4. n \in Name /\ n \in adapter.bundle
    BY <1>1, <1>2, <1>3
  <2>5. Published'
    BY <1>1, <1>2, <1>3, <1>4, <2>1, <2>4
  <2>6. ZeroMeansPublished'
    BY <1>3, <2>1 DEF ZeroMeansPublished
  <2>7. QED
    BY <2>2, <2>3, <2>5, <2>6
<1>5. CASE AdapterLeaves(30) /\ UNCHANGED output
  BY <1>3, <1>5, LeavesWithError
<1>6. QED
  BY <1>1, <1>2, <1>4, <1>5 DEF PublishNext, n

\* A step of the adapter other than Collect leaves the agent where it was.
LEMMA AgentUntouched ==
    ASSUME TypeOK, AdapterSteps
    PROVE  proc["agent"] = "gone" <=> proc'["agent"] = "gone"
<1>1. "agent" \in Process /\ "agent" # "adapter" /\ proc \in [Process -> ProcState]
  BY AgentAssumption DEF TypeOK, RuntimeTypeOK
<1>2. CASE UNCHANGED proc
  BY <1>2
<1>3. CASE Ends("adapter")
  BY <1>1, <1>3 DEF Ends
<1>4. CASE RunAgent
  BY <1>1, <1>4, AgentAssumption DEF RunAgent, Begin
<1>5. QED
  BY <1>2, <1>3, <1>4
     DEF AdapterSteps, AssertCleanOutput, RunAgentFails, AgentNotReaped, Collect,
         CollectFails, PublishNext, PublishFails, AdapterExits, AdapterLeaves, runtimeVars

LEMMA RuntimeSparesAgent ==
    ASSUME TypeOK, ProcInv, RuntimeSteps
    PROVE  proc["agent"] = "gone" <=> proc'["agent"] = "gone"
<1>1. "agent" \in Process /\ proc \in [Process -> ProcState] /\ RuntimeTypeOK
  BY AgentAssumption DEF TypeOK, RuntimeTypeOK
<1>2. ASSUME NEW f \in Forks, Fork(f[1], f[2])
      PROVE  proc["agent"] = "gone" <=> proc'["agent"] = "gone"
  BY <1>1, <1>2, AgentAssumption DEF Fork
<1>3. ASSUME NEW p \in Process \ {"agent"}, Die(p)
      PROVE  proc["agent"] = "gone" <=> proc'["agent"] = "gone"
  BY <1>1, <1>3 DEF Die, Ends
<1>4. ASSUME NEW c \in Call, TimeoutFires(c) \/ Waiting(c)
      PROVE  proc["agent"] = "gone" <=> proc'["agent"] = "gone"
  <2>1. \A p \in Process : proc'[p] = proc[p] \/ (Alive(p) /\ proc'[p] = "dying")
    BY <1>1, <1>4, CallStep
  <2>2. \/ proc'["agent"] = proc["agent"]
        \/ proc["agent"] \in {"running", "dying"} /\ proc'["agent"] = "dying"
    BY <1>1, <2>1
  <2>3. QED
    BY <2>2
<1>5. QED
  BY <1>2, <1>3, <1>4 DEF RuntimeSteps

LEMMA AgentStep ==
    ASSUME TypeOK, ProcInv, AgentInv, AdapterInv, Lasting, Next
    PROVE  AgentInv'
<1>1. "agent" \in Process /\ proc \in [Process -> ProcState]
  BY AgentAssumption DEF TypeOK, RuntimeTypeOK
<1>2. CASE AdapterSteps
  <2>1. proc["agent"] = "gone" <=> proc'["agent"] = "gone"
    BY <1>2, AgentUntouched
  <2>2. CASE Collect
    <3>1. proc["agent"] = "gone"
      BY <2>2, AgentAssumption DEF Collect, ProcInv, CallInv
    <3>2. \A f \in File : staging[f] = "success" => staging'[f] = "success"
      BY <2>2 DEF Collect, Completed
    <3>3. QED
      BY <2>1, <2>2, <3>1, <3>2, OthersKeep DEF Collect
  <2>3. CASE UNCHANGED agentVars
    BY <2>1, <2>3, OthersKeep DEF agentVars
  <2>4. QED
    BY <1>2, <2>2, <2>3 DEF AdapterSteps, AssertCleanOutput, RunAgent, RunAgentFails,
                            AgentNotReaped, CollectFails, PublishNext, PublishFails,
                            AdapterExits
<1>3. CASE RuntimeSteps /\ UNCHANGED agentVars
  BY <1>3, RuntimeSparesAgent, OthersKeep DEF agentVars
<1>4. CASE CodexSteps
  <2>1. UNCHANGED codexVars /\ (codex' = codex \/ proc["codex"] = "running")
    BY <1>4 DEF CodexSteps, CodexAnswers, CodexExits, HelperExits, Touch
  <2>2. proc["agent"] = "gone" <=> proc'["agent"] = "gone"
    BY <1>1, <1>4
       DEF CodexSteps, CodexAnswers, CodexExits, HelperExits, Touch, Ends, runtimeVars
  <2>3. QED
    BY <2>1, <2>2, OthersKeep DEF codexVars
<1>5. CASE AgentDies
  BY <1>5, DiesKeep
<1>6. CASE AgentSteps \/ SetupFails \/ SetupEnds
  BY <1>6, AgentKeeps
<1>7. QED
  BY <1>2, <1>3, <1>4, <1>5, <1>6 DEF Next

LEMMA AgentAliveToAct ==
    CodexSteps \/ AgentSteps \/ SetupFails \/ SetupEnds \/ AgentDies => proc["agent"] # "gone"
BY DEF CodexSteps, CodexAnswers, CodexExits, HelperExits, Touch, SetupFails, SetupEnds,
       AgentDies, AgentSteps, RunCodex, CodexTimedOut, CodexNotReaped, SnapshotAfter,
       WorkspaceUnreadable, ControlModified, CodexFailed, AnswerRefused, AnswerJudged,
       AgentWrites, AgentWriteFails, AgentExits, AgentAt

LEMMA AdapterStep ==
    ASSUME TypeOK, ProcInv, AgentInv, AdapterInv, Lasting, Next
    PROVE  AdapterInv'
<1>1. adapter \in AdapterState
  BY DEF TypeOK, EvaluationTypeOK
<1>2. CASE AssertCleanOutput
  <2>1. CASE AdapterLeaves(30)
    BY <1>2, <2>1, LeavesWithError DEF AssertCleanOutput
  <2>2. CASE /\ ~\E n \in Managed : output[n] # "none"
             /\ adapter' = [adapter EXCEPT !.at = "ready"] /\ UNCHANGED runtimeVars
    <3>1. /\ adapter'.at = "ready" /\ adapter'.rc = adapter.rc
          /\ adapter'.bundle = adapter.bundle /\ adapter'.envelope = adapter.envelope
          /\ adapter'.todo = adapter.todo /\ adapter.at = "start"
          /\ UNCHANGED <<agentVars, output>>
      BY <1>1, <1>2, <2>2 DEF AssertCleanOutput, AdapterAt, AdapterState
    <3>2. CompletedIsEarned' /\ InfrastructureUnobserved'
      BY <3>1, EnvelopeKept
    <3>3. QED
      BY <2>2, <3>1, <3>2 DEF ZeroMeansPublished
  <2>3. QED
    BY <1>2, <2>1, <2>2 DEF AssertCleanOutput
<1>3. CASE RunAgent
  <2>1. /\ adapter'.at = "running" /\ adapter'.rc = adapter.rc
        /\ adapter'.bundle = adapter.bundle /\ adapter'.envelope = adapter.envelope
        /\ adapter'.todo = adapter.todo /\ adapter.at = "ready"
        /\ UNCHANGED <<agentVars, output>>
    BY <1>1, <1>3 DEF RunAgent, AdapterAt, AdapterState
  <2>2. CompletedIsEarned' /\ InfrastructureUnobserved'
    BY <2>1, EnvelopeKept
  <2>3. QED
    BY <2>1, <2>2 DEF ZeroMeansPublished
<1>4. CASE AgentNotReaped
  BY <1>4, LeavesWithError DEF AgentNotReaped
<1>5. CASE Collect
  BY <1>5, CollectKeeps
<1>6. CASE PublishNext
  BY <1>6, PublishKeeps
<1>7. CASE AdapterExits
  <2>1. CASE AdapterLeaves(30)
    BY <1>7, <2>1, LeavesWithError DEF AdapterExits
  <2>2. CASE AdapterLeaves(0)
    <3>1. /\ adapter'.at = "exited" /\ adapter'.rc = 0 /\ adapter'.bundle = adapter.bundle
          /\ adapter'.envelope = adapter.envelope /\ adapter.at = "publishing"
          /\ adapter.todo = {} /\ UNCHANGED <<agentVars, output>>
      BY <1>1, <1>7, <2>2 DEF AdapterExits, AdapterLeaves, AdapterAt, AdapterState
    <3>2. CompletedIsEarned' /\ InfrastructureUnobserved'
      BY <3>1, EnvelopeKept
    <3>3. Held'
      BY <3>1, AgentAssumption DEF Lasting
    <3>4. Published' /\ ZeroMeansPublished'
      BY <3>1 DEF ZeroMeansPublished
    <3>5. QED
      BY <3>2, <3>3, <3>4
  <2>3. QED
    BY <1>7, <2>1, <2>2 DEF AdapterExits
<1>8. CASE RunAgentFails \/ CollectFails \/ PublishFails
  BY <1>8, LeavesWithError DEF RunAgentFails, CollectFails, PublishFails
<1>9. CASE UNCHANGED <<adapter, output>> /\ (UNCHANGED agentVars \/ proc["agent"] # "gone")
  BY <1>9, AdapterUntouched
<1>10. QED
  BY <1>2, <1>3, <1>4, <1>5, <1>6, <1>7, <1>8, <1>9, AgentAliveToAct DEF Next, AdapterSteps

-----------------------------------------------------------------------------
(* The theorems.                                                           *)

LEMMA InvInit == Init => Inv
BY InitTypes, InitAgent, InitAdapter DEF Inv

LEMMA InvStep == Inv /\ [Next]_vars => Inv'
<1> SUFFICES ASSUME Inv, [Next]_vars PROVE Inv'
  OBVIOUS
<1>1. TypeOK /\ ProcInv /\ AgentInv /\ AdapterInv /\ RuntimeTypeOK
  BY DEF Inv, TypeOK
<1>2. CASE Next
  <2>1. RuntimeTypeOK' /\ ProcInv' /\ Lasting
    BY <1>1, <1>2, EveryStepMoves, MovesKeep
  <2>2. AgentTypeOK' /\ EvaluationTypeOK'
    BY <1>1, <1>2, AgentTypes, EvaluationTypes DEF TypeOK
  <2>3. AgentInv' /\ AdapterInv'
    BY <1>1, <1>2, <2>1, AgentStep, AdapterStep
  <2>4. QED
    BY <2>1, <2>2, <2>3 DEF Inv, TypeOK
<1>3. CASE UNCHANGED vars
  <2>1. UNCHANGED <<runtimeVars, agentVars, adapter, output>>
    BY <1>3 DEF vars
  <2>2. Lasting /\ UNCHANGED <<request, codex, agent, staging, metadata>>
    BY <2>1 DEF Lasting, runtimeVars, agentVars
  <2>3. RuntimeTypeOK' /\ ProcInv'
    BY <1>1, <2>1, MovesKeep DEF Moves
  <2>4. AgentTypeOK' /\ EvaluationTypeOK'
    BY <1>1, <2>1 DEF TypeOK, AgentTypeOK, EvaluationTypeOK, agentVars
  <2>5. AgentInv'
    BY <1>1, <2>1, <2>2, OthersKeep DEF runtimeVars
  <2>6. AdapterInv'
    BY <1>1, <2>1, <2>2, AdapterUntouched
  <2>7. QED
    BY <2>3, <2>4, <2>5, <2>6 DEF Inv, TypeOK
<1>4. QED
  BY <1>2, <1>3

\* The variables keep their types.
THEOREM EvaluationTypesHold == Spec => []TypeOK
<1>1. Inv => TypeOK
  BY DEF Inv
<1>2. QED
  BY <1>1, InvInit, InvStep, PTL DEF Spec

\* An envelope says "completed" only of an attempt that Codex ended well, within
\* the scope and with every required gate passed, and whose evidence is whole.
\* (codex_production_agent_v2.py:435-488, behavior_eval_adapter_v2.py:135-157)
THEOREM CompletionIsEarned == Spec => []CompletedIsEarned
<1>1. Inv => CompletedIsEarned
  BY DEF Inv
<1>2. QED
  BY <1>1, InvInit, InvStep, PTL DEF Spec

\* An infrastructure failure is never counted as observed behaviour.
\* (behavior_eval_adapter_v2.py:26-32, 144-157)
THEOREM FailuresAreUnobserved == Spec => []InfrastructureUnobserved
<1>1. Inv => InfrastructureUnobserved
  BY DEF Inv
<1>2. QED
  BY <1>1, InvInit, InvStep, PTL DEF Spec

\* Zero is returned only with the whole bundle in the output directory, and
\* nothing older under a managed name. (behavior_eval_adapter.py:159-166, 300-305)
THEOREM ZeroIsPublished == Spec => []ZeroMeansPublished
<1>1. Inv => ZeroMeansPublished
  BY DEF Inv
<1>2. QED
  BY <1>1, InvInit, InvStep, PTL DEF Spec

\* What the adapter has collected is not written to any more: its call has
\* returned, so that its root, the agent, is gone. (process_runtime.py:164-169,
\* behavior_eval_adapter_v2.py:284-311)
THEOREM CollectedIsSettled == Spec => EvidenceSettled
<1>1. ASSUME Inv, [Next]_vars, adapter.bundle # {} PROVE UNCHANGED <<staging, metadata>>
  <2>1. proc["agent"] = "gone" /\ adapter.at \notin Before
    BY <1>1 DEF Inv
  <2>2. CASE Next
    <3>1. ~Collect
      BY <2>1 DEF Collect, AdapterAt
    <3>2. QED
      BY <2>1, <2>2, <3>1, AgentAliveToAct
         DEF Next, AdapterSteps, AssertCleanOutput, RunAgent, RunAgentFails,
             AgentNotReaped, CollectFails, PublishNext, PublishFails, AdapterExits, agentVars
  <2>3. CASE UNCHANGED vars
    BY <2>3 DEF vars, agentVars
  <2>4. QED
    BY <1>1, <2>2, <2>3
<1>2. Inv /\ [Next]_vars => [adapter.bundle # {} => UNCHANGED <<staging, metadata>>]_vars
  BY <1>1
<1>3. QED
  BY <1>2, InvInit, InvStep, PTL DEF Spec, EvidenceSettled

-----------------------------------------------------------------------------
(* The contract.                                                           *)

\* The adapter calls the agent in the order of its phases, publishes when it has
\* a verdict, and ends once.
Order ==
  /\ adapter.at \in {"start", "ready"} => call["outer"].at = "idle"
  /\ adapter.at = "publishing" => adapter.envelope # NoEnvelope
  /\ adapter.at = "exited" => proc["adapter"] = "gone"

LEMMA OnlyRunAgentCalls ==
    ASSUME RuntimeTypeOK, ProcInv, Next, ~RunAgent, call["outer"].at = "idle"
    PROVE  call'["outer"].at = "idle"
<1>1. "outer" \in Call /\ "inner" \in Call
  BY AgentAssumption
<1>2. CASE UNCHANGED call
  BY <1>2
<1>3. CASE Begin("inner")
  BY <1>1, <1>3 DEF Begin, Goes, RuntimeTypeOK
<1>4. ASSUME NEW c \in Call, TimeoutFires(c) \/ Waiting(c) PROVE call'["outer"].at = "idle"
  BY <1>1, <1>4, CallStep
<1>5. AdapterSteps => UNCHANGED call
  BY DEF AdapterSteps, AssertCleanOutput, RunAgentFails, AgentNotReaped, Collect,
         CollectFails, PublishNext, PublishFails, AdapterExits, AdapterLeaves, runtimeVars
<1>6. RuntimeSteps => UNCHANGED call \/ \E c \in Call : TimeoutFires(c) \/ Waiting(c)
  BY DEF RuntimeSteps, Fork, Die
<1>7. CodexSteps \/ SetupFails \/ SetupEnds \/ AgentDies => UNCHANGED call
  BY DEF CodexSteps, CodexAnswers, CodexExits, HelperExits, Touch, SetupFails, SetupEnds,
         AgentDies, Leaves, runtimeVars
<1>8. AgentSteps => UNCHANGED call \/ Begin("inner")
  BY DEF AgentSteps, RunCodex, CodexTimedOut, CodexNotReaped, SnapshotAfter,
         WorkspaceUnreadable, ControlModified, CodexFailed, AnswerRefused, AnswerJudged,
         AgentWrites, AgentWriteFails, AgentExits, Leaves, runtimeVars
<1>9. QED
  BY <1>2, <1>3, <1>4, <1>5, <1>6, <1>7, <1>8 DEF Next

LEMMA CollectTakes ==
    ASSUME adapter \in AdapterState, Collect, adapter'.at = "publishing"
    PROVE  /\ adapter'.envelope = Envelope(NoopEnforced(MetadataRead))
           /\ adapter'.bundle = Bundle /\ staging' = Completed
           /\ UNCHANGED <<proc, session, call, request, codex, agent, output>>
<1> DEFINE envelope == Envelope(NoopEnforced(MetadataRead))
<1>1. ~AdapterLeaves(30)
  <2>1. AdapterLeaves(30) => adapter'.at = "exited"
    BY DEF AdapterLeaves, AdapterState
  <2>2. QED
    BY <2>1
<1>2. /\ adapter' = [adapter EXCEPT !.at = "publishing", !.bundle = Bundle,
                                   !.todo = Bundle, !.envelope = envelope]
      /\ staging' = Completed /\ UNCHANGED runtimeVars
  BY <1>1 DEF Collect
<1>3. UNCHANGED <<request, codex, agent, output>>
  BY DEF Collect
<1> HIDE DEF envelope
<1>4. adapter'.envelope = envelope /\ adapter'.bundle = Bundle
  BY <1>2 DEF AdapterState
<1>5. QED
  BY <1>2, <1>3, <1>4 DEF envelope, runtimeVars

LEMMA OrderStep ==
    ASSUME Inv, Order, Next, Lasting
    PROVE  Order'
<1>1. /\ RuntimeTypeOK /\ ProcInv /\ adapter \in AdapterState
      /\ "adapter" \in Process /\ proc \in [Process -> ProcState]
  BY AgentAssumption DEF Inv, TypeOK, EvaluationTypeOK, RuntimeTypeOK
<1>2. CASE RunAgent
  BY <1>1, <1>2 DEF RunAgent, AdapterState, Order
<1>3. ASSUME NEW rc \in {0, 1, 30}, AdapterLeaves(rc) PROVE Order'
  BY <1>1, <1>3 DEF AdapterLeaves, Ends, Order, AdapterState
<1>4. CASE ~RunAgent /\ adapter'.at = adapter.at /\ adapter'.envelope = adapter.envelope
  <2>1. proc["adapter"] = "gone" => proc'["adapter"] = "gone"
    BY <1>1 DEF Lasting
  <2>2. QED
    BY <1>1, <1>4, <2>1, OnlyRunAgentCalls DEF Order
<1>5. CASE ~RunAgent /\ adapter.at = "start" /\ adapter'.at = "ready"
  BY <1>1, <1>5, OnlyRunAgentCalls DEF Order
<1>6. CASE Collect /\ adapter'.at = "publishing"
  <2>1. adapter'.envelope = Envelope(NoopEnforced(MetadataRead))
    BY <1>1, <1>6, CollectTakes
  <2>2. Envelope(NoopEnforced(MetadataRead)).status \in Status
    BY EnvelopeTypes DEF Inv, TypeOK
  <2>3. adapter'.envelope # NoEnvelope
    BY <2>1, <2>2
  <2>4. QED
    BY <1>6, <2>3 DEF Order
<1>7. AssertCleanOutput => AdapterLeaves(30) \/ (adapter.at = "start" /\ adapter'.at = "ready")
  BY <1>1 DEF AssertCleanOutput, AdapterAt, AdapterState
<1>8. AgentNotReaped => AdapterLeaves(1)
  BY DEF AgentNotReaped
<1>9. Collect => AdapterLeaves(30) \/ adapter'.at = "publishing"
  BY <1>1 DEF Collect, AdapterState
<1>10. PublishNext => \/ AdapterLeaves(30)
                      \/ adapter'.at = adapter.at /\ adapter'.envelope = adapter.envelope
  BY <1>1 DEF PublishNext, AdapterAt, AdapterState
<1>11. AdapterExits => AdapterLeaves(0) \/ AdapterLeaves(30)
  BY DEF AdapterExits
<1>12. RunAgentFails \/ CollectFails \/ PublishFails => AdapterLeaves(30)
  BY DEF RunAgentFails, CollectFails, PublishFails
<1>13. CASE AdapterSteps
  BY <1>2, <1>3, <1>4, <1>5, <1>6, <1>7, <1>8, <1>9, <1>10, <1>11, <1>12, <1>13
     DEF AdapterSteps
<1>14. CASE UNCHANGED adapter
  BY <1>2, <1>4, <1>14
<1>15. QED
  BY <1>13, <1>14 DEF Next

LEMMA ContractStarts == Init => Promise!ContractInit
<1> SUFFICES ASSUME Init PROVE Promise!ContractInit
  OBVIOUS
<1>1. call["outer"].at = "idle"
  BY AgentAssumption DEF Init, RuntimeInit
<1>2. Attempt = "open"
  BY <1>1 DEF Attempt
<1>3. adapter.envelope = NoEnvelope /\ adapter.bundle = {} /\ adapter.at = "start"
  BY DEF Init
<1>4. output \in [Name -> {"none", "old"}]
  BY DEF Init
<1>5. QED
  BY <1>2, <1>3, <1>4 DEF Promise!ContractInit, ExitAnswer

LEMMA AdapterIsTyped ==
    ASSUME TypeOK
    PROVE  /\ adapter \in AdapterState /\ output \in [Name -> {"none", "old", "new", "torn"}]
           /\ Call = {"outer", "inner"} /\ call["outer"] \in Result
           /\ Attempt \in {"open", "earned", "judged", "failed"}
BY AgentAssumption DEF TypeOK, EvaluationTypeOK, RuntimeTypeOK, Attempt

\* An attempt that is over stays what it has come to be.
LEMMA AttemptStays ==
    ASSUME TypeOK, ProcInv, Lasting, call'["outer"].at = "returned" => call["outer"].at = "returned",
           call["outer"].at = "returned" => Earned' <=> Earned,
           call["outer"].at = "returned" => AnswerCounts' <=> AnswerCounts
    PROVE  Attempt' = Attempt
<1>1. call["outer"].at = "returned" => call'["outer"].at = "returned"
  BY AgentAssumption DEF Lasting
<1>2. QED
  BY <1>1 DEF Attempt

\* The exit of the adapter is its answer, and leaves the rest.
LEMMA LeavingEnds ==
    ASSUME TypeOK, ProcInv, AdapterInv, Lasting, NEW rc \in {0, 1, 30},
           AdapterLeaves(rc), adapter.at # "exited", UNCHANGED agentVars
    PROVE  /\ adapter'.bundle = adapter.bundle /\ adapter'.envelope = adapter.envelope
           /\ Attempt' = Attempt
           /\ ExitAnswer = "none"
           /\ ExitAnswer' = IF rc = 0 THEN "delivered" ELSE "refused"
<1>1. /\ adapter'.at = "exited" /\ adapter'.rc = rc
      /\ adapter'.bundle = adapter.bundle /\ adapter'.envelope = adapter.envelope
      /\ call' = call
  BY AdapterIsTyped DEF AdapterLeaves, AdapterState
<1>2. Attempt' = Attempt
  <2>1. call["outer"].at = "returned" =>
          /\ Earned' <=> Earned
          /\ AnswerCounts' <=> AnswerCounts
    BY OutcomeSettled DEF agentVars
  <2>2. QED
    BY <1>1, <2>1, AttemptStays
<1>3. QED
  BY <1>1, <1>2 DEF ExitAnswer

LEMMA LeavingAnswers ==
    ASSUME TypeOK, ProcInv, AdapterInv, Order, Lasting, NEW rc \in {0, 1, 30},
           AdapterLeaves(rc), adapter.at # "exited", UNCHANGED <<agentVars, output>>,
           rc = 0 => adapter.at = "publishing" /\ adapter.todo = {}
    PROVE  Promise!Answer
<1>1. /\ adapter'.bundle = adapter.bundle /\ adapter'.envelope = adapter.envelope
      /\ Attempt' = Attempt
      /\ ExitAnswer = "none" /\ ExitAnswer' = IF rc = 0 THEN "delivered" ELSE "refused"
  BY LeavingEnds
<1>2. ASSUME rc = 0
      PROVE  adapter.envelope # NoEnvelope /\ Promise!Delivered /\ Promise!Clean
  <2>1. Promise!Delivered /\ Promise!Clean
    BY <1>2 DEF Promise!Delivered, Promise!Clean
  <2>2. QED
    BY <1>2, <2>1 DEF Order
<1>3. QED
  BY <1>1, <1>2 DEF Promise!Answer

\* What is collected is a verdict the attempt has earned.
LEMMA CollectJudges ==
    ASSUME Inv, Order, Lasting, Collect, adapter'.at = "publishing"
    PROVE  Promise!Judge
<1>1. /\ TypeOK /\ ProcInv /\ AgentInv /\ AdapterInv /\ AgentTypeOK
      /\ adapter.at = "running" /\ call["outer"].at = "returned"
      /\ proc["agent"] = "gone" /\ Call = {"outer", "inner"}
  BY AgentAssumption DEF Inv, TypeOK, Collect, AdapterAt, ProcInv, CallInv
<1>2. /\ adapter'.envelope = Envelope(NoopEnforced(MetadataRead))
      /\ adapter'.bundle = Bundle /\ staging' = Completed
      /\ UNCHANGED <<call, request, codex, agent, output>>
  BY <1>1, AdapterIsTyped, CollectTakes
<1>3. adapter.envelope = NoEnvelope /\ ExitAnswer = "none" /\ ExitAnswer' = "none"
  BY <1>1 DEF ExitAnswer
<1>4. /\ Earned' <=> Earned
      /\ AnswerCounts' <=> AnswerCounts
  <2>1. CASE TimedOut
    BY <1>1, <1>2, <2>1 DEF TimedOut, Earned, AnswerCounts
  <2>2. CASE ~TimedOut
    <3>1. staging' = staging
      BY <1>1, <1>2, <2>2 DEF Completed, AgentTypeOK
    <3>2. QED
      BY <1>1, <1>2, <3>1, OutcomeSettled
  <2>3. QED
    BY <2>1, <2>2
<1>5. Attempt' = Attempt /\ Attempt # "open"
  BY <1>1, <1>2, <1>4 DEF Attempt
<1>6. adapter'.envelope \in [status : Status, class : FailureClass, observed : BOOLEAN]
  BY <1>1, <1>2, EnvelopeTypes
<1>7. adapter'.bundle \in (SUBSET Name) \ {{}}
  <2>1. adapter'.bundle \subseteq Name /\ adapter'.bundle # {}
    BY <1>2 DEF Bundle
  <2>2. QED
    BY <2>1
<1>8. adapter'.envelope.status = "completed" => Attempt = "earned"
  BY <1>1, <1>2, CompletedEnvelope DEF Attempt
<1>9. adapter'.envelope.observed => Attempt \in {"earned", "judged"}
  <2>1. SUFFICES ASSUME adapter'.envelope.observed PROVE Attempt \in {"earned", "judged"}
    OBVIOUS
  <2>2. Envelope(NoopEnforced(MetadataRead)).observed
    BY <1>2, <2>1, Zenon
  <2>3. AnswerCounts
    BY <1>1, <2>2, ObservedEnvelope
  <2>4. QED
    BY <1>1, <2>3 DEF Attempt
<1>10. QED
  BY <1>2, <1>3, <1>5, <1>6, <1>7, <1>8, <1>9 DEF Promise!Judge

LEMMA PublishDelivers ==
    ASSUME Inv, Order, Lasting, PublishNext
    PROVE  Promise!Deliver \/ Promise!Answer
<1> DEFINE n == FirstOf(adapter.todo)
<1>1. /\ TypeOK /\ ProcInv /\ AgentInv /\ AdapterInv
      /\ adapter.at = "publishing" /\ UNCHANGED agentVars
      /\ adapter \in AdapterState
  BY AdapterIsTyped DEF Inv, PublishNext, AdapterAt
<1>2. n \in adapter.todo
  BY <1>1, FirstIsOne DEF PublishNext, AdapterState
<1> HIDE DEF n
<1>3. CASE AdapterLeaves(30) /\ UNCHANGED output
  BY <1>1, <1>3, LeavingAnswers
<1>4. CASE /\ output' = [output EXCEPT ![n] = "new"] /\ output[n] = "none"
           /\ adapter' = [adapter EXCEPT !.todo = @ \ {n}] /\ UNCHANGED runtimeVars
  <2>1. /\ adapter'.at = adapter.at /\ adapter'.bundle = adapter.bundle
        /\ adapter'.envelope = adapter.envelope /\ call' = call
    BY <1>1, <1>4 DEF AdapterState, runtimeVars
  <2>2. call["outer"].at = "returned" => /\ Earned' <=> Earned
                                         /\ AnswerCounts' <=> AnswerCounts
    BY <1>1, OutcomeSettled DEF agentVars
  <2>3. Attempt' = Attempt
    BY <1>1, <2>1, <2>2, AttemptStays
  <2>4. ExitAnswer = "none" /\ ExitAnswer' = "none" /\ adapter.envelope # NoEnvelope
    BY <1>1, <2>1 DEF ExitAnswer, Order
  <2>5. n \in adapter.bundle
    BY <1>1, <1>2
  <2>6. QED
    BY <1>4, <2>1, <2>3, <2>4, <2>5 DEF Promise!Deliver, Promise!Arrives
<1>5. QED
  BY <1>1, <1>2, <1>3, <1>4, AdapterIsTyped DEF PublishNext, n, AdapterState

LEMMA PublishBreaksOff ==
    ASSUME Inv, Order, Lasting, PublishFails
    PROVE  Promise!BreakOff \/ Promise!Answer
<1> DEFINE n == FirstOf(adapter.todo)
<1>1. /\ TypeOK /\ ProcInv /\ AdapterInv /\ adapter \in AdapterState
      /\ adapter.at = "publishing" /\ AdapterLeaves(30) /\ UNCHANGED agentVars
      /\ output \in [Name -> {"none", "old", "new", "torn"}]
  BY AdapterIsTyped DEF Inv, PublishFails, AdapterAt
<1>2. n \in adapter.todo
  BY <1>1, FirstIsOne DEF PublishFails, AdapterState
<1>3. output[n] = "none" /\ \E how \in {"none", "torn", "new"} : output' = [output EXCEPT ![n] = how]
  BY DEF PublishFails
<1> HIDE DEF n
<1>4. /\ adapter'.bundle = adapter.bundle /\ adapter'.envelope = adapter.envelope
      /\ Attempt' = Attempt /\ ExitAnswer = "none" /\ ExitAnswer' = "refused"
  BY <1>1, LeavingEnds
<1>5. n \in Name /\ n \in adapter.bundle /\ adapter.envelope # NoEnvelope
  BY <1>1, <1>2 DEF Order, AdapterState
<1>6. CASE output' = [output EXCEPT ![n] = "none"]
  <2>1. output' = output
    BY <1>1, <1>3, <1>5, <1>6
  <2>2. QED
    BY <1>1, <2>1, LeavingAnswers
<1>7. ASSUME NEW how \in {"new", "torn"}, output' = [output EXCEPT ![n] = how]
      PROVE  Promise!BreakOff
  BY <1>3, <1>4, <1>5, <1>7 DEF Promise!BreakOff, Promise!Arrives
<1>8. QED
  BY <1>3, <1>6, <1>7

\* A step that is not the adapter's ends the attempt, or is not to be seen.
LEMMA OthersEndTheAttempt ==
    ASSUME Inv, Order, Next, Lasting, ~RunAgent, UNCHANGED <<adapter, output>>
    PROVE  Promise!EndAttempt \/ UNCHANGED Promise!contractVars
<1>1. /\ TypeOK /\ ProcInv /\ AdapterInv /\ RuntimeTypeOK
      /\ Call = {"outer", "inner"} /\ ExitAnswer' = ExitAnswer
      /\ adapter \in AdapterState /\ call["outer"] \in Result
  BY AdapterIsTyped DEF Inv, TypeOK, ExitAnswer
<1>2. CASE call["outer"].at = "returned"
  <2>1. proc["agent"] = "gone"
    BY <1>1, <1>2, AgentAssumption DEF ProcInv, CallInv
  <2>2. ~Collect
    BY <1>1, AgentAssumption DEF Collect, AdapterAt, AdapterLeaves, AdapterState
  <2>3. UNCHANGED <<request, codex, agent, staging>>
    BY <2>1, <2>2, AgentAliveToAct
       DEF Next, AdapterSteps, AssertCleanOutput, RunAgent, RunAgentFails, AgentNotReaped,
           CollectFails, PublishNext, PublishFails, AdapterExits, agentVars
  <2>4. /\ Earned' <=> Earned
        /\ AnswerCounts' <=> AnswerCounts
    BY <1>1, <1>2, <2>3, OutcomeSettled
  <2>5. Attempt' = Attempt
    BY <1>1, <1>2, <2>4, AttemptStays
  <2>6. QED
    BY <1>1, <2>5 DEF Promise!contractVars
<1>3. CASE call["outer"].at # "returned" /\ call'["outer"].at # "returned"
  BY <1>1, <1>3 DEF Attempt, Promise!contractVars
<1>4. CASE call["outer"].at # "returned" /\ call'["outer"].at = "returned"
  <2>1. call["outer"].at # "idle"
    BY <1>1, <1>4, OnlyRunAgentCalls
  <2>2. adapter.at # "exited"
    BY <1>1, <1>4, AgentAssumption DEF Lasting, Works, Order
  <2>3. adapter.at \in {"running", "publishing"}
    BY <1>1, <2>1, <2>2 DEF AdapterState, Order
  <2>4. Promise!Clean
    BY <1>1, <2>3 DEF Promise!Clean
  <2>5. Attempt = "open" /\ Attempt' \in Promise!Outcome
    BY <1>4 DEF Attempt, Promise!Outcome
  <2>6. ExitAnswer = "none"
    BY <2>2 DEF ExitAnswer
  <2>7. QED
    BY <1>1, <2>4, <2>5, <2>6 DEF Promise!EndAttempt
<1>5. QED
  BY <1>2, <1>3, <1>4

LEMMA ContractStep ==
    ASSUME Inv, Order, Next, Lasting
    PROVE  [Promise!ContractNext]_(Promise!contractVars)
<1> USE DEF Promise!ContractNext
<1>1. /\ TypeOK /\ ProcInv /\ AdapterInv /\ Call = {"outer", "inner"}
      /\ adapter \in AdapterState /\ call["outer"] \in Result
  BY AdapterIsTyped DEF Inv
<1>2. ASSUME UNCHANGED <<agentVars, output>>, call'["outer"].at # "returned",
             call["outer"].at # "returned", adapter'.bundle = adapter.bundle,
             adapter'.envelope = adapter.envelope, ExitAnswer' = ExitAnswer
      PROVE  UNCHANGED Promise!contractVars
  BY <1>2 DEF Attempt, Promise!contractVars
<1>3. CASE AssertCleanOutput
  <2>1. CASE AdapterLeaves(30)
    BY <1>1, <1>3, <2>1, LeavingAnswers DEF AssertCleanOutput, AdapterAt
  <2>2. CASE adapter' = [adapter EXCEPT !.at = "ready"] /\ UNCHANGED runtimeVars
    <3>1. call["outer"].at = "idle" /\ call' = call
      BY <1>3, <2>2 DEF AssertCleanOutput, AdapterAt, Order, runtimeVars
    <3>2. QED
      BY <1>1, <1>2, <1>3, <2>2, <3>1
         DEF AssertCleanOutput, AdapterAt, ExitAnswer, AdapterState
  <2>3. QED
    BY <1>3, <2>1, <2>2 DEF AssertCleanOutput
<1>4. CASE RunAgent
  <2>1. call["outer"].at = "idle" /\ call'["outer"].at = "waiting"
    BY <1>1, <1>4 DEF RunAgent, AdapterAt, Order, Begin, Goes, TypeOK, RuntimeTypeOK, Result
  <2>2. QED
    BY <1>1, <1>2, <1>4, <2>1 DEF RunAgent, AdapterAt, ExitAnswer, AdapterState
<1>5. CASE AgentNotReaped
  BY <1>1, <1>5, LeavingAnswers DEF AgentNotReaped, AdapterAt
<1>6. CASE Collect
  <2>1. CASE adapter'.at = "publishing"
    BY <1>6, <2>1, CollectJudges
  <2>2. CASE AdapterLeaves(30) /\ UNCHANGED staging
    BY <1>1, <1>6, <2>2, LeavingAnswers DEF Collect, AdapterAt, agentVars
  <2> DEFINE envelope == Envelope(NoopEnforced(MetadataRead))
  <2>3. \/ adapter' = [adapter EXCEPT !.at = "publishing", !.bundle = Bundle,
                                      !.todo = Bundle, !.envelope = envelope]
        \/ AdapterLeaves(30) /\ UNCHANGED staging
    BY <1>6 DEF Collect
  <2> HIDE DEF envelope
  <2>4. adapter'.at = "publishing" \/ (AdapterLeaves(30) /\ UNCHANGED staging)
    BY <1>1, <2>3 DEF AdapterState
  <2>5. QED
    BY <2>1, <2>2, <2>4
<1>7. CASE PublishNext
  BY <1>7, PublishDelivers
<1>8. CASE AdapterExits
  BY <1>1, <1>8, LeavingAnswers DEF AdapterExits, AdapterAt
<1>9. CASE RunAgentFails \/ CollectFails
  BY <1>1, <1>9, LeavingAnswers DEF RunAgentFails, CollectFails, AdapterAt
<1>10. CASE PublishFails
  BY <1>10, PublishBreaksOff
<1>11. CASE ~RunAgent /\ UNCHANGED <<adapter, output>>
  BY <1>11, OthersEndTheAttempt
<1>12. QED
  BY <1>3, <1>4, <1>5, <1>6, <1>7, <1>8, <1>9, <1>10, <1>11 DEF Next, AdapterSteps

\* An evaluation keeps its contract, for any processes, requests, answers and
\* leftovers: what a reader of the output directory sees is one attempt over a
\* clean directory, one verdict that it has earned, a delivery that writes over
\* nothing, and zero for a whole one only. (behavior_eval_adapter_v2.py:232-321,
\* behavior_eval_adapter.py:159-166, 300-305)
THEOREM EvaluationKeepsContract == Spec => ImplementsContract
<1>1. Init => Inv /\ Order /\ Promise!ContractInit
  <2>1. Init => Order
    BY AgentAssumption DEF Init, RuntimeInit, Order
  <2>2. QED
    BY <2>1, InvInit, ContractStarts
<1>2. ASSUME Inv, Order, [Next]_vars
      PROVE  Order' /\ [Promise!ContractNext]_(Promise!contractVars)
  <2>1. CASE Next
    <3>1. Lasting
      BY <1>2, <2>1, EveryStepMoves, MovesKeep DEF Inv, TypeOK
    <3>2. QED
      BY <1>2, <2>1, <3>1, OrderStep, ContractStep
  <2>2. CASE UNCHANGED vars
    <3>1. UNCHANGED <<proc, call, request, codex, agent, staging, adapter, output>>
      BY <2>2 DEF vars, runtimeVars, agentVars
    <3>2. /\ Earned' <=> Earned
          /\ AnswerCounts' <=> AnswerCounts
      BY <3>1 DEF Earned, GatePassed, AnswerCounts, TimedOut
    <3>3. Attempt' = Attempt /\ ExitAnswer' = ExitAnswer
      BY <3>1, <3>2 DEF Attempt, ExitAnswer
    <3>4. QED
      BY <1>2, <3>1, <3>3 DEF Order, Promise!contractVars
  <2>3. QED
    BY <1>2, <2>1, <2>2
<1>3. Inv /\ Order /\ [Next]_vars => Order' /\ [Promise!ContractNext]_(Promise!contractVars)
  BY <1>2
<1>4. QED
  BY <1>1, <1>3, InvStep, PTL DEF Spec, ImplementsContract, Promise!ContractSpec
=============================================================================
