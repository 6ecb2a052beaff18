--------------------------- MODULE GateResolution ---------------------------
(***************************************************************************)
(* How codex_production_agent_v2.py derives the outcome of an attempt: the *)
(* quality gates of the task contract, the gates the agent reports and the *)
(* trusted evidence of the request (_resolve_gates), and the scope of the  *)
(* files it changed (_scope_error).  Evidence texts are left out.          *)
(***************************************************************************)
EXTENDS Naturals, Sequences

CONSTANTS Gate, Path

\* What a scope says beyond the paths of the model: a scope may name only paths
\* at which nothing lies, and is not empty for that.
Elsewhere == "elsewhere"
Scope == Path \cup {Elsewhere}

GateStatus == {"passed", "failed", "unavailable"}
Requirement == {"required", "conditional", "informational", "not_applicable"}
WorkKind == {"mutation", "analysis", "verification", "portable_import"}

Report == [gate : Gate, requirement : Requirement, status : GateStatus]
Trusted == [gate : Gate, status : GateStatus]
Contract == [required : SUBSET Gate, conditional : SUBSET Gate]

GatesOf(items) == {items[i].gate : i \in DOMAIN items}
\* by_id is filled in order: the last entry of a gate stands.
LastOf(items, g) ==
  LET at == {i \in DOMAIN items : items[i].gate = g}
  IN  items[CHOOSE i \in at : \A j \in at : j <= i]

VerificationScope(r) == r.work_kind = "verification" /\ r.trusted # <<>>

RequiredGates(r) ==
  IF VerificationScope(r) THEN GatesOf(r.trusted) ELSE r.contract.required
ConditionalGates(r) ==
  IF VerificationScope(r) THEN {} ELSE r.contract.conditional

LevelOf(r, report) ==
  IF report.gate \in RequiredGates(r) THEN "required"
  ELSE IF VerificationScope(r)
            /\ report.gate \in r.contract.required \cup r.contract.conditional
       THEN "not_applicable"
  ELSE IF report.gate \notin ConditionalGates(r) THEN "informational"
  ELSE IF report.requirement = "conditional" THEN "conditional"
  ELSE "not_applicable"

Entry(level, status) == [requirement |-> level, status |-> status]

\* Mutant: a required gate nobody speaks of is left out.
ReportedGates(r, reports) ==
  [g \in GatesOf(reports) \cup GatesOf(r.trusted) |->
    IF g \in GatesOf(r.trusted)
    THEN Entry(IF g \in RequiredGates(r) THEN "required" ELSE "informational",
               LastOf(r.trusted, g).status)
    ELSE Entry(LevelOf(r, LastOf(reports, g)), LastOf(reports, g).status)]

\* Trusted evidence replaces what the agent reports of the same gate, and a
\* required gate nobody speaks of is unavailable.
ResolvedGates(r, reports) ==
  [g \in GatesOf(reports) \cup GatesOf(r.trusted) \cup RequiredGates(r) |->
    IF g \in GatesOf(r.trusted)
    THEN Entry(IF g \in RequiredGates(r) THEN "required" ELSE "informational",
               LastOf(r.trusted, g).status)
    ELSE IF g \in GatesOf(reports)
    THEN Entry(LevelOf(r, LastOf(reports, g)), LastOf(reports, g).status)
    ELSE Entry("required", "unavailable")]

BlockingStatus(r, reports) ==
  LET gates == ResolvedGates(r, reports)
  IN  {gates[g].status : g \in {h \in DOMAIN gates :
         gates[h].requirement \in {"required", "conditional"}}}

ResolveGates(r, reports) ==
  IF "failed" \in BlockingStatus(r, reports) THEN "failed"
  ELSE IF "unavailable" \in BlockingStatus(r, reports) THEN "unavailable"
  ELSE "passed"

\* allowed_paths empty means that nothing is said of what is allowed.
ScopeError(r, changed) ==
  \/ r.work_kind = "mutation" /\ changed = {}
  \/ r.work_kind \in {"analysis", "verification"} /\ changed # {}
  \/ changed \cap r.prohibited_paths # {}
  \/ r.allowed_paths # {} /\ ~(changed \subseteq r.allowed_paths)

=============================================================================
