---------------------------- MODULE MCEvaluation ----------------------------
(***************************************************************************)
(* Small instances of EvaluationRun: one helper process that Codex may     *)
(* start, one path, two gates, two requests.                               *)
(***************************************************************************)
EXTENDS EvaluationRun

MCProcess == {"adapter", "agent", "codex", "helper"}
MCCall == {"outer", "inner"}
MCRoot == [c \in MCCall |-> IF c = "outer" THEN "agent" ELSE "codex"]
MCCaller == [c \in MCCall |-> IF c = "outer" THEN "adapter" ELSE "agent"]
MCForks == {<<"codex", "helper">>}

GateContract == [required |-> {"static"}, conditional |-> {"compile"}]

\* A mutation, with nothing known of its gates.
Edit == [work_kind |-> "mutation", allowed_paths |-> Path,
         prohibited_paths |-> {}, contract |-> GateContract, trusted |-> <<>>]
\* A verification: the trusted evidence is the completion boundary.
Verify == [work_kind |-> "verification", allowed_paths |-> {Elsewhere},
           prohibited_paths |-> {}, contract |-> GateContract,
           trusted |-> <<[gate |-> "compile", status |-> "passed"]>>]

MCRequests == {Edit, Verify}
Answer(reports) == [kind |-> "structured", reports |-> reports]
Says(g, status) == [gate |-> g, requirement |-> "conditional", status |-> status]
MCFinals == {[kind |-> "unsupported"], Answer(<<>>),
             Answer(<<Says("static", "passed")>>),
             Answer(<<Says("static", "passed"), Says("compile", "failed")>>)}
\* Nothing; extra evidence only; the beginning of an interrupted publication.
MCLeftovers == {{}, {"codex-events"}, {"artifact-index", "codex-events"}}

\* One request, answer and directory, for the runs that look at processes only.
OneRequest == {Edit}
OneFinal == {Answer(<<Says("static", "passed")>>)}
Fresh == {{}}
=============================================================================
