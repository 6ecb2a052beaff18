----------------------------- MODULE MCEndings -----------------------------
(* Small instances for TLC of two systems that share nothing and have to   *)
(* come to an end: a behaviour is one evaluation, or the repetition of the *)
(* calls of the memory controller.  The system that is not used waits.     *)
EXTENDS MCEvaluation, Integers

CONSTANTS NoFile, NoRequest, NoRecord
VARIABLES system, raw, file, index, journal, pc, writing, draft, mutated, acked, crashes

memoryVars == <<raw, file, index, journal, pc, writing, draft, mutated, acked, crashes>>
endingVars == <<system, vars, memoryVars>>

Store(layer, id, personal, scope, refs, dated) ==
    [layer |-> layer, id |-> id, personal |-> personal, scope |-> scope, body |-> "text",
     refs |-> refs, relates |-> {}, dated |-> dated]

\* A chain without conflicts; the evidence that it starts from has no date.
Chain == {Store(0, "x", FALSE, 1, {}, FALSE), Store(1, "y", FALSE, -1, {"x"}, TRUE),
          Store(2, "z", TRUE, -1, {"y"}, TRUE)}
MCCallers == {"c1", "c2"}
MCIds == {"x", "y", "z"}
MCBodies == {"text"}

Memory == INSTANCE LayeredMemory
    WITH Callers <- MCCallers, Ids <- MCIds, Bodies <- MCBodies, Requests <- Chain,
         Overlaps <- FALSE, MaxCrashes <- 2, request <- writing

-----------------------------------------------------------------------------
Evaluates(A) == system = "evaluation" /\ A /\ UNCHANGED <<system, memoryVars>>
Remembers(A) == system = "memory" /\ A /\ UNCHANGED <<system, vars>>

EndingsInit == system \in {"evaluation", "memory"} /\ Init /\ Memory!Init

EndingsNext == Evaluates(Next) \/ Remembers(Memory!Next)

\* The fairness of EvaluationRun and of LayeredMemory, each in its behaviours.
EndingsSpec ==
    /\ EndingsInit /\ [][EndingsNext]_endingVars
    /\ \A p \in Process \ {"agent"} :
        WF_endingVars(Evaluates(Die(p) /\ UNCHANGED <<agentVars, adapter, output>>))
    /\ WF_endingVars(Evaluates(proc["agent"] = "dying" /\ AgentDies
                                 /\ UNCHANGED <<adapter, output>>))
    /\ \A c \in Call :
        WF_endingVars(Evaluates(Waiting(c) /\ UNCHANGED <<agentVars, adapter, output>>))
    /\ WF_endingVars(Evaluates(TimeoutFires("inner")
                                 /\ UNCHANGED <<agentVars, adapter, output>>))
    /\ WF_endingVars(Evaluates(AgentSteps /\ UNCHANGED <<adapter, output>>))
    /\ WF_endingVars(Evaluates(AdapterSteps))
    /\ \A k \in MCCallers : WF_endingVars(Remembers(Memory!Work(k)))
    /\ \A r \in Chain : SF_endingVars(Remembers(\E k \in MCCallers : Memory!Start(k, r)))

-----------------------------------------------------------------------------
\* Whoever repeats a call of the memory controller that was killed is answered ok
\* in the end (LayeredMemory): what a killed call leaves behind never stands in the
\* way of its repetition, if the request says when the record was created.
\* (layered_memory_controller.py:320-437)
RetriesSucceed == system = "memory" => Memory!RetriesSucceed
=============================================================================
