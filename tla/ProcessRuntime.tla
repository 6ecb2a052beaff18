--------------------------- MODULE ProcessRuntime ---------------------------
(***************************************************************************)
(* run_streaming_process of Tools/CodexProductionAgent/process_runtime.py, *)
(* on POSIX.  A call starts a root process in a session of its own, waits  *)
(* for it with a timeout, terminates its process group when the timeout    *)
(* fires, and gives the threads that pump its output a bounded time.       *)
(*                                                                         *)
(* Calls nest: the caller of one call may be the root of another, and a    *)
(* call whose caller is gone makes no more steps.  The output itself is    *)
(* left out: a process of the root's session may hold the pipes open for   *)
(* as long as it lives, so the threads end then or later.                  *)
(***************************************************************************)
EXTENDS Naturals, FiniteSets

CONSTANTS
  Process,      \* the processes of one evaluation
  Call,         \* the calls of run_streaming_process
  Root,         \* the process a call starts
  Caller,       \* the process that makes a call
  Forks,        \* <<p, q>>: p may start q, within its own session
  Stubborn      \* the processes that ignore SIGTERM

ASSUME RuntimeAssumption ==
  /\ Root \in [Call -> Process]
  /\ Caller \in [Call -> Process]
  /\ Forks \subseteq Process \X Process
  /\ Stubborn \subseteq Process
  /\ \A c, d \in Call : Root[c] = Root[d] => c = d

VARIABLES
  proc,     \* the state of each process
  session,  \* the leader of each process's session, which names its group
  call      \* the progress and the result of each call

runtimeVars == <<proc, session, call>>

ProcState == {"unborn", "running", "dying", "gone"}
Phase == {"idle", "waiting", "terminating", "grace", "reaping", "joining",
          "returned", "raised"}
Result == [at : Phase, timed_out : BOOLEAN,
           process_tree_cleanup : {"not_required", "completed"}]

RuntimeTypeOK ==
  /\ proc \in [Process -> ProcState]
  /\ session \in [Process -> Process]
  /\ call \in [Call -> Result]

\* `first` are the processes nobody in the system starts.
RuntimeInit(first) ==
  /\ proc = [p \in Process |-> IF p \in first THEN "running" ELSE "unborn"]
  /\ session = [p \in Process |-> p]
  /\ call = [c \in Call |-> [at |-> "idle", timed_out |-> FALSE,
                             process_tree_cleanup |-> "not_required"]]

Alive(p) == proc[p] \in {"running", "dying"}
Works(c) == proc[Caller[c]] = "running"
Polled(c) == proc[Root[c]] = "gone"
Group(c) == {p \in Process : session[p] = Root[c] /\ Alive(p)}

At(c, phase) == Works(c) /\ call[c].at = phase
Goes(c, phase) == call' = [call EXCEPT ![c].at = phase]
Signalled(group) ==
  proc' = [p \in Process |-> IF p \in group THEN "dying" ELSE proc[p]]

-----------------------------------------------------------------------------
(* The operating system.                                                   *)

Fork(p, q) ==
  /\ proc[p] = "running" /\ proc[q] = "unborn"
  /\ proc' = [proc EXCEPT ![q] = "running"]
  /\ session' = [session EXCEPT ![q] = session[p]]
  /\ UNCHANGED call

Ends(p) == proc' = [proc EXCEPT ![p] = "gone"]

\* A process a deadly signal was sent to ends.
Die(p) ==
  /\ proc[p] = "dying"
  /\ Ends(p)
  /\ UNCHANGED <<session, call>>

-----------------------------------------------------------------------------
(* run_streaming_process.                                                  *)

Begin(c) ==
  /\ At(c, "idle") /\ proc[Root[c]] = "unborn"
  /\ proc' = [proc EXCEPT ![Root[c]] = "running"]
  /\ session' = [session EXCEPT ![Root[c]] = Root[c]]
  /\ Goes(c, "waiting")

WaitEnds(c) ==
  /\ At(c, "waiting") /\ Polled(c)
  /\ Goes(c, "joining")
  /\ UNCHANGED <<proc, session>>

\* Mutant: the wait has no timeout.
TimeoutIgnored(c) ==
  /\ At(c, "waiting") /\ ~Polled(c) /\ call[c].timed_out
  /\ Goes(c, "terminating")
  /\ UNCHANGED <<proc, session>>

TimeoutFires(c) ==
  /\ At(c, "waiting") /\ ~Polled(c)
  /\ call' = [call EXCEPT ![c].at = "terminating", ![c].timed_out = TRUE]
  /\ UNCHANGED <<proc, session>>

\* The root has ended by itself between the timeout and the poll.
NothingToTerminate(c) ==
  /\ At(c, "terminating") /\ Polled(c)
  /\ Goes(c, "joining")
  /\ UNCHANGED <<proc, session>>

\* SIGTERM to the group of the root, and two seconds of grace.
Terminate(c) ==
  /\ At(c, "terminating") /\ ~Polled(c)
  /\ Signalled(Group(c) \ Stubborn)
  /\ Goes(c, "grace")
  /\ UNCHANGED session

\* SIGKILL to the group, and five seconds to collect the root.
Kill(c) ==
  /\ At(c, "grace") /\ ~Polled(c)
  /\ Signalled(Group(c))
  /\ Goes(c, "reaping")
  /\ UNCHANGED session

\* The root is gone, which is all the termination looks at.
Terminated(c) ==
  /\ At(c, "grace") \/ At(c, "reaping")
  /\ Polled(c)
  /\ call' = [call EXCEPT ![c].at = "joining",
                          ![c].process_tree_cleanup = "completed"]
  /\ UNCHANGED <<proc, session>>

\* Mutant: after SIGKILL the root is taken to be gone.
ReapAssumed(c) ==
  /\ At(c, "reaping") /\ ~Polled(c)
  /\ Goes(c, "joining")
  /\ UNCHANGED <<proc, session>>

\* subprocess.TimeoutExpired of the last wait leaves run_streaming_process.
ReapFails(c) ==
  /\ At(c, "reaping") /\ ~Polled(c)
  /\ Goes(c, "raised")
  /\ UNCHANGED <<proc, session>>

\* Mutant: the threads are joined without a timeout.
JoinForever(c) ==
  /\ At(c, "joining") /\ Group(c) = {}
  /\ Goes(c, "returned")
  /\ UNCHANGED <<proc, session>>

\* The threads are joined for five seconds each, whether they end or not.
JoinEnds(c) ==
  /\ At(c, "joining")
  /\ Goes(c, "returned")
  /\ UNCHANGED <<proc, session>>

Waiting(c) == WaitEnds(c) \/ NothingToTerminate(c) \/ Terminate(c) \/ Kill(c)
              \/ Terminated(c) \/ ReapFails(c) \/ JoinEnds(c)

=============================================================================
