----------------------------- MODULE CodexAgent -----------------------------
(***************************************************************************)
(* codex_production_agent_v2.py: the production agent that runs the Codex  *)
(* CLI once in a workspace, judges what it left behind, and writes the     *)
(* evidence of the attempt file by file into the staging directory.        *)
(*                                                                         *)
(* The agent is the process "agent", the root of the call "outer" of the   *)
(* adapter; its own call "inner" runs the process "codex".  Codex and the  *)
(* processes it starts are external: they touch the workspace, and Codex   *)
(* leaves a final answer and an exit code, at any time and in any order.   *)
(***************************************************************************)
EXTENDS ProcessRuntime, GateResolution

CONSTANTS
  Requests,     \* the requests the adapter may be given
  Finals,       \* what Codex may answer
  NoMetadata

\* The reserved control snapshot, a part of the workspace that is no path of it.
Control == "control"

Request == [work_kind : WorkKind, allowed_paths : SUBSET Scope,
            prohibited_paths : SUBSET Scope, contract : Contract,
            trusted : Seq(Trusted)]

\* "none": no answer yet; "malformed": not a JSON object; "unsupported": its
\* policies, its route or its entries are refused.
Final == [kind : {"none", "malformed", "unsupported"}]
         \cup [kind : {"structured"}, reports : Seq(Report)]
NoFinal == [kind |-> "none"]

Status == {"completed", "failed", "unavailable"}
FailureClass == {"none", "runtime_timeout", "runtime_protocol_failure",
                 "evaluator_contract_failure", "agent_behavior_regression"}

ASSUME AgentAssumption ==
  /\ {"adapter", "agent", "codex"} \subseteq Process
  /\ Call = {"outer", "inner"}
  /\ Root["outer"] = "agent" /\ Caller["outer"] = "adapter"
  /\ Root["inner"] = "codex" /\ Caller["inner"] = "agent"
  /\ \A f \in Forks : f[1] \notin {"adapter", "agent"}
                      /\ f[2] \notin {"adapter", "agent", "codex"}
  /\ {Control, Elsewhere} \cap Path = {}
  /\ NoMetadata \notin [status : Status, class : FailureClass]
  /\ Requests \subseteq Request
  /\ Finals \subseteq Final

VARIABLES
  request,      \* the request of this evaluation
  workspace,    \* what was changed since the sandbox was copied
  codex,        \* the answer and the exit code of Codex
  agent,        \* the progress of the agent
  staging,      \* who wrote each file of the staging directory
  metadata      \* execution-metadata.yaml; an empty file reads like none

agentVars == <<request, workspace, codex, agent, staging, metadata>>

\* One name stands for files that are written one after the other: "response"
\* for response.md and context-manifest.yaml, "artifact-index" for it and for
\* generated/, diff.patch and gate-evidence.yaml.
File == {"response", "artifact-index", "metrics"}
\* "torn": opened for writing, which empties it, and not written.
Written == {"none", "success", "failure", "torn", "adapter"}
Killed == 137

\* The order of the writes: the metadata are written without a class and then
\* patched with it.
Writes == <<"response", "artifact-index", "metadata", "patch", "metrics">>

\* Mutant: the status is copied.
StatusCopied(execution_status) == execution_status

StatusOf(execution_status) ==
  IF execution_status = "passed" THEN "completed" ELSE execution_status

AgentState ==
  [at : {"setup", "ready", "running", "judging", "writing", "exited"},
   rc : {0, 1, 10, 30, 124, Killed}, completed : BOOLEAN, handling : BOOLEAN,
   changed : SUBSET Path, kind : Written, class : FailureClass, status : Status,
   written : 0..Len(Writes)]
Metadata == {NoMetadata} \cup [status : Status, class : FailureClass]

AgentTypeOK ==
  /\ request \in Requests
  /\ workspace \subseteq Path \cup {Control}
  /\ codex \in [final : Finals \cup {NoFinal}, rc : {0, 1, 10, Killed}]
  /\ agent \in AgentState
  /\ staging \in [File -> Written]
  /\ metadata \in Metadata

AgentInit ==
  /\ request \in Requests
  /\ workspace = {}
  /\ codex = [final |-> NoFinal, rc |-> Killed]
  /\ agent = [at |-> "setup", rc |-> Killed, completed |-> FALSE,
              handling |-> FALSE, changed |-> {}, kind |-> "none",
              class |-> "none", status |-> "failed", written |-> 0]
  /\ staging = [f \in File |-> "none"]
  /\ metadata = NoMetadata

-----------------------------------------------------------------------------
(* Codex and what it starts.                                               *)

codexVars == <<request, agent, staging, metadata>>

\* What these processes do when the agent is gone reaches nobody, and is left
\* out; the workspace matters as long as the agent compares it.
Touch(p, path) ==
  /\ proc[p] = "running" /\ p \notin {"adapter", "agent"}
  /\ proc["agent"] = "running" /\ agent.at \in {"running", "judging"}
  /\ path \notin workspace
  /\ workspace' = workspace \cup {path}
  /\ UNCHANGED <<runtimeVars, codexVars, codex>>

CodexAnswers ==
  /\ proc["codex"] = "running" /\ codex.final = NoFinal
  /\ proc["agent"] = "running"
  /\ \E f \in Finals : codex' = [codex EXCEPT !.final = f]
  /\ UNCHANGED <<runtimeVars, codexVars, workspace>>

CodexExits ==
  /\ proc["codex"] = "running" /\ proc["agent"] = "running"
  /\ Ends("codex")
  /\ \E rc \in {0, 1, 10} : codex' = [codex EXCEPT !.rc = rc]
  /\ UNCHANGED <<session, call, codexVars, workspace>>

HelperExits(p) ==
  /\ proc[p] = "running" /\ p \notin {"adapter", "agent", "codex"}
  /\ proc["agent"] = "running"
  /\ Ends(p)
  /\ UNCHANGED <<session, call, codexVars, workspace, codex>>

-----------------------------------------------------------------------------
(* The agent.                                                              *)

AgentAt(phase) == proc["agent"] = "running" /\ agent.at = phase

Fails(class, rc) ==
  agent' = [agent EXCEPT !.at = "writing", !.written = 0, !.kind = "failure",
                         !.status = "failed", !.class = class, !.rc = rc]

\* The except clause of main, where `completed` says that Codex has answered.
RaisesAfter(completed) ==
  agent' = [agent EXCEPT
    !.at = "writing", !.written = 0, !.kind = "failure",
    !.status = "failed", !.rc = 30, !.handling = TRUE, !.completed = completed,
    !.class = IF completed THEN "evaluator_contract_failure"
                           ELSE "runtime_protocol_failure"]
Raises == RaisesAfter(agent.completed)

Leaves(rc) ==
  /\ agent' = [agent EXCEPT !.at = "exited", !.rc = rc, !.written = 0]
  /\ Ends("agent")
  /\ UNCHANGED <<session, call>>

\* Something is wrong before Codex is started; nothing is written as long as
\* the request or the model is not known.
SetupFails ==
  /\ AgentAt("setup")
  /\ \/ Leaves(30)
     \/ Raises /\ UNCHANGED runtimeVars
  /\ UNCHANGED <<request, workspace, codex, staging, metadata>>

SetupEnds ==
  /\ AgentAt("setup")
  /\ agent' = [agent EXCEPT !.at = "ready"]
  /\ UNCHANGED <<runtimeVars, request, workspace, codex, staging, metadata>>

RunCodex ==
  /\ AgentAt("ready")
  /\ Begin("inner")
  /\ agent' = [agent EXCEPT !.at = "running"]
  /\ UNCHANGED <<request, workspace, codex, staging, metadata>>

CodexTimedOut ==
  /\ AgentAt("running") /\ call["inner"].at = "returned"
  /\ call["inner"].timed_out
  /\ Fails("runtime_timeout", 124)
  /\ UNCHANGED <<runtimeVars, request, workspace, codex, staging, metadata>>

\* TimeoutExpired of the runtime is none of the errors main expects.
CodexNotReaped ==
  /\ AgentAt("running") /\ call["inner"].at = "raised"
  /\ Leaves(1)
  /\ UNCHANGED <<request, workspace, codex, staging, metadata>>

\* The workspace as it is when Codex has ended: all that is judged of it.
SnapshotAfter ==
  /\ AgentAt("running") /\ call["inner"].at = "returned"
  /\ ~call["inner"].timed_out
  /\ agent' = [agent EXCEPT !.at = "judging", !.changed = workspace \cap Path]
  /\ UNCHANGED <<runtimeVars, request, workspace, codex, staging, metadata>>

\* A file vanishes or cannot be read while it is counted or compared.
WorkspaceUnreadable ==
  /\ AgentAt("running") /\ call["inner"].at = "returned"
  /\ Raises
  /\ UNCHANGED <<runtimeVars, request, workspace, codex, staging, metadata>>

ControlModified ==
  /\ AgentAt("judging") /\ Control \in workspace
  /\ Raises
  /\ UNCHANGED <<runtimeVars, request, workspace, codex, staging, metadata>>

CodexFailed ==
  /\ AgentAt("judging") /\ Control \notin workspace
  /\ codex.rc # 0
  /\ Fails("runtime_protocol_failure", codex.rc)
  /\ UNCHANGED <<runtimeVars, request, workspace, codex, staging, metadata>>

\* An answer that cannot be used, before or after it counts as an answer.
AnswerRefused ==
  /\ AgentAt("judging") /\ Control \notin workspace
  /\ codex.rc = 0 /\ codex.final.kind # "structured"
  /\ RaisesAfter(codex.final.kind = "unsupported")
  /\ UNCHANGED <<runtimeVars, request, workspace, codex, staging, metadata>>

AnswerJudged ==
  /\ AgentAt("judging") /\ Control \notin workspace
  /\ codex.rc = 0 /\ codex.final.kind = "structured"
  /\ LET reports == codex.final.reports
         wrong == ScopeError(request, agent.changed)
     IN agent' = [agent EXCEPT
          !.at = "writing", !.completed = TRUE, !.kind = "success",
          !.class = IF wrong THEN "agent_behavior_regression" ELSE "none",
          !.status = IF wrong THEN "failed"
                     ELSE StatusOf(ResolveGates(request, reports)),
          !.rc = IF wrong THEN 10 ELSE 0, !.written = 0]
  /\ UNCHANGED <<runtimeVars, request, workspace, codex, staging, metadata>>

\* The effect on the directory of a write of f that succeeds, or that does not.
Stored(f) ==
  /\ staging' = IF f \in File THEN [staging EXCEPT ![f] = agent.kind] ELSE staging
  /\ metadata' = CASE f = "metadata" -> [status |-> agent.status, class |-> "none"]
                   [] f = "patch" -> [status |-> metadata.status, class |-> agent.class]
                   [] OTHER -> metadata
Torn(f) ==
  /\ staging' = IF f \in File THEN [staging EXCEPT ![f] = "torn"] ELSE staging
  /\ metadata' = IF f \in {"metadata", "patch"} THEN NoMetadata ELSE metadata

Writing == agent.at = "writing" /\ agent.written < Len(Writes)
NextWrite == Writes[agent.written + 1]

AgentWrites ==
  /\ proc["agent"] = "running" /\ Writing
  /\ Stored(NextWrite)
  /\ agent' = [agent EXCEPT !.written = @ + 1]
  /\ UNCHANGED <<runtimeVars, request, workspace, codex>>

\* A write fails: main writes the evidence of a failure instead, but gives up
\* when that is what it was doing.
AgentWriteFails ==
  /\ proc["agent"] = "running" /\ Writing
  /\ Torn(NextWrite)
  /\ IF agent.handling THEN Leaves(30) ELSE Raises /\ UNCHANGED runtimeVars
  /\ UNCHANGED <<request, workspace, codex>>

AgentExits ==
  /\ AgentAt("writing") /\ ~Writing
  /\ Leaves(agent.rc)
  /\ UNCHANGED <<request, workspace, codex, staging, metadata>>

\* The agent is killed, by the adapter's signal or by somebody else's, and the
\* file it was writing is truncated or not.
AgentDies ==
  /\ Alive("agent")
  /\ Ends("agent")
  /\ \/ UNCHANGED <<staging, metadata>>
     \/ Writing /\ Torn(NextWrite)
  /\ agent' = [agent EXCEPT !.rc = Killed, !.written = 0]
  /\ UNCHANGED <<session, call, request, workspace, codex>>

AgentSteps ==
  \/ RunCodex \/ CodexTimedOut \/ CodexNotReaped \/ SnapshotAfter
  \/ WorkspaceUnreadable \/ ControlModified \/ CodexFailed \/ AnswerRefused \/ AnswerJudged
  \/ AgentWrites \/ AgentWriteFails \/ AgentExits

=============================================================================
