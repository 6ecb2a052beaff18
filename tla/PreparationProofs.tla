-------------------------- MODULE PreparationProofs --------------------------
(***************************************************************************)
(* ContextPreparation for every set of requests and hand-offs and for all  *)
(* timeouts that nest as TimersNest says: Ix decides nothing, does not     *)
(* outlive prepare, is doubted when it should be, and finalize admits what *)
(* prepare has issued.                                                     *)
(*                                                                         *)
(* The argument: the time since the adapter was started is at most the     *)
(* time it took to start ix and the age of ix, so that the adapter's timer *)
(* is due before prepare's.  Hence prepare comes to judge the source in    *)
(* whatever way the adapter ends.                                          *)
(***************************************************************************)
EXTENDS ContextPreparation, FiniteSetTheorems, TLAPS

\* Nothing is known of ix before it was run, and it runs only while it is waited for.
BeforeIx == {"idle", "memory", "remembering", "code", "starting"}
Running ==
    /\ phase \in BeforeIx => ix = NoIx /\ age = 0 /\ navigation = {}
    /\ phase = "exploring" <=> ix.run = "running"
    /\ phase = "exploring" => navigation = {}

\* The timers, each inside the next.
Nested ==
    /\ phase \in {"starting", "exploring"} =>
          request.profile = Personal /\ request.ix # "malformed"
    /\ phase = "starting" => elapsed <= StartUp
    /\ phase = "exploring" => age <= QueryTimeout /\ elapsed <= StartUp + age
                              /\ request.ix # "unparseable"

\* What has been decided on the way.
Decided ==
    /\ phase \in {"idle", "memory", "remembering"} => memory = "none"
    /\ phase \in {"code", "starting", "exploring", "source"} => memory \notin {"none", "breach"}
    /\ phase \notin {"idle", "done"} =>
          ~WorkKindForbidden(request.profile, request.work) /\ outcome = NoOutcome
    /\ phase = "idle" => outcome = NoOutcome
    /\ outcome.ticket # {} => /\ ~WorkKindForbidden(request.profile, request.work)
                              /\ outcome = SourceOutcome(request)

PrepInv == PrepTypeOK /\ Running /\ Nested /\ Decided /\ NavigationIsOptional /\ DoubtIsReported

-----------------------------------------------------------------------------
(* Lemmas *)

LEMMA RequestFields ==
    ASSUME NEW r \in Asked
    PROVE  /\ r.profile \in Profiles /\ r.work \in Works
           /\ r.memory \in {"off", "empty_query", "query"}
           /\ r.ix \in {"off", "malformed", "unparseable", "unsafe", "good"}
           /\ r.source.completed \in BOOLEAN /\ r.source.evidence \in BOOLEAN
           /\ r.source.direct_source_read_required \in BOOLEAN
  BY InputsOK DEF Requests, Sources

LEMMA TimerValues ==
    /\ StartUp \in Nat /\ MemoryTimeout \in Nat /\ IxTimeout \in Nat
    /\ QueryTimeout \in Nat /\ MapTimeout \in Nat /\ MinConfidence \in Nat
    /\ DefaultTimeout("query") = QueryTimeout
  BY TimersNest DEF DefaultTimeout

\* A set of confidences without a low one has none below the threshold.
LEMMA NoneIsLow ==
    ASSUME NEW says \in SUBSET Confidences, ~LowConfidence(says)
    PROVE  \A c \in says : c >= MinConfidence
  <1>1. CASE says = {}
    BY <1>1
  <1>2. CASE says # {}
    <2>1. \A c \in says : c \in Int /\ c \in {MinConfidence - 1, MinConfidence, MinConfidence + 1}
      BY TimerValues DEF Confidences
    <2>2. \E c \in says : \A d \in says : c <= d
      <3>1. CASE MinConfidence - 1 \in says
        BY <2>1, <3>1, TimerValues
      <3>2. CASE MinConfidence - 1 \notin says /\ MinConfidence \in says
        BY <2>1, <3>2, TimerValues
      <3>3. CASE MinConfidence - 1 \notin says /\ MinConfidence \notin says
        BY <1>2, <2>1, <3>3, TimerValues
      <3> QED
        BY <3>1, <3>2, <3>3
    <2>3. Min(says) \in says /\ \A d \in says : Min(says) <= d
      BY <2>2 DEF Min
    <2>4. ~(Min(says) < MinConfidence)
      BY <1>2 DEF LowConfidence
    <2> QED
      BY <2>1, <2>3, <2>4, TimerValues
  <1> QED
    BY <1>1, <1>2

\* Of what finalize asks of a ticket, prepare has made sure.
LEMMA IssuedIsAdmitted ==
    ASSUME NEW r \in Asked, ~WorkKindForbidden(r.profile, r.work),
           NEW t \in SourceOutcome(r).ticket
    PROVE  FinalizeAdmits(r.profile, t)
  <1>1. ~SourceRefused(r) /\ (Required(r) => r.source.completed) /\ t = Ticket(r)
    BY DEF SourceOutcome, NoOutcome
  <1>2. /\ t.profile = r.profile /\ t.work = r.work /\ t.scope = r.source.scope
        /\ t.completed = r.source.completed /\ t.evidence = r.source.evidence
        /\ t.paths = (r.source.completed /\ r.profile = Personal)
    BY <1>1 DEF Ticket
  <1>3. r.work = "mutation" => r.profile = Personal
    BY RequestFields DEF WorkKindForbidden, Profiles, Personal
  <1>4. r.work = "portable_import" => r.profile # Personal
    BY DEF WorkKindForbidden, Personal
  <1>5. r.work \in {"mutation", "portable_import"} => r.source.completed /\ r.source.evidence
    BY <1>1 DEF Required, SourceRefused
  <1>6. /\ r.profile # Personal => r.source.scope \in SafeScopes
        /\ r.work = "portable_import" => r.source.scope = "portable_artifact"
    BY <1>1 DEF SourceRefused
  <1> QED
    BY <1>2, <1>3, <1>4, <1>5, <1>6 DEF FinalizeAdmits

-----------------------------------------------------------------------------
(* The invariant *)

USE DEF PrepInv, Running, Nested, Decided, BeforeIx, NoIx, NoOutcome

LEMMA PrepInitInv == PrepInit => PrepInv
  <1> SUFFICES ASSUME PrepInit PROVE PrepInv
    OBVIOUS
  <1>1. PrepTypeOK
    BY TimerValues, FS_EmptySet DEF PrepInit, PrepTypeOK
  <1> QED
    BY <1>1 DEF PrepInit, NavigationIsOptional, DoubtIsReported

LEMMA StepKeepsInv == ASSUME PrepInv, [PrepNext]_prepVars PROVE PrepInv'
  <1> USE TimerValues DEF PrepTypeOK, NavigationIsOptional, DoubtIsReported
  <1>1. ASSUME NEW h \in Offered, AcceptHandoff(h) PROVE PrepInv'
    <2>1. Cardinality({h}) = 1
      BY FS_Singleton
    <2> QED
      BY <1>1, <2>1 DEF AcceptHandoff
  <1>2. CASE Begin
    BY <1>2 DEF Begin, Refuses, Ends
  <1>3. CASE SkipMemory
    BY <1>3 DEF SkipMemory
  <1>4. CASE AskMemory
    BY <1>4 DEF AskMemory
  <1>5. ASSUME NEW answer \in {"projected", "failed", "breach"}, MemoryAnswers(answer)
        PROVE  PrepInv'
    BY <1>5 DEF MemoryAnswers, Refuses, Ends
  <1>6. CASE SkipIx
    BY <1>6 DEF SkipIx
  <1>7. CASE RefuseIx
    BY <1>7 DEF RefuseIx, AsksIx, Refuses, Ends
  <1>8. CASE StartAdapter
    BY <1>8 DEF StartAdapter, AsksIx
  <1>9. CASE ArgumentsRejected
    BY <1>9 DEF ArgumentsRejected, Refuses, Ends
  <1>10. CASE IxNotRun
    BY <1>10 DEF IxNotRun, Navigated
  <1>11. CASE RunIx
    BY <1>11 DEF RunIx
  <1>12. ASSUME NEW how \in {"failed", "garbled"}, IxEnds(how, {}) PROVE PrepInv'
    BY <1>12 DEF IxEnds, Navigated
  <1>13. ASSUME NEW says \in SUBSET Confidences, IxEnds("answered", says) PROVE PrepInv'
    BY <1>13, NoneIsLow DEF IxEnds, Navigated
  <1>14. CASE IxTimesOut
    BY <1>14 DEF IxTimesOut, IxOverdue, Navigated
  <1>15. CASE ChildTimesOut
    <2>1. phase = "remembering"
      BY <1>15, TimersNest DEF ChildTimesOut, ChildOverdue
    <2> QED
      BY <1>15, <2>1 DEF ChildTimesOut, Refuses, Ends
  <1>16. CASE VerifySource
    BY <1>16 DEF VerifySource, Ends
  <1>17. CASE Tick
    BY <1>17, TimersNest DEF Tick, ChildOverdue, IxOverdue, Older
  <1>18. CASE UNCHANGED prepVars
    BY <1>18 DEF prepVars
  <1> QED
    BY <1>1, <1>2, <1>3, <1>4, <1>5, <1>6, <1>7, <1>8, <1>9, <1>10, <1>11, <1>12, <1>13,
       <1>14, <1>15, <1>16, <1>17, <1>18 DEF PrepNext, PrepSteps

HIDE DEF PrepInv, Running, Nested, Decided, BeforeIx, NoIx, NoOutcome

LEMMA PrepInvariant == PrepSpec => []PrepInv
  BY PrepInitInv, StepKeepsInv, PTL DEF PrepSpec

-----------------------------------------------------------------------------
(* Theorems *)

\* PrepTypeOK: also that no timer is ever overrun.
THEOREM PreparationTypesHold == PrepSpec => []PrepTypeOK
  BY PrepInvariant, PTL DEF PrepInv

\* Whatever becomes of ix, prepare decides as if it had not been asked
\* (NavigationIsOptional).
THEOREM NavigationDecidesNothing == PrepSpec => []NavigationIsOptional
  BY PrepInvariant, PTL DEF PrepInv

\* No ix process is left behind by a prepare that has returned (NoIxOutlivesPrepare).
THEOREM IxIsReaped == PrepSpec => []NoIxOutlivesPrepare
  <1>1. PrepInv => NoIxOutlivesPrepare
    BY DEF PrepInv, Running, NoIxOutlivesPrepare
  <1> QED
    BY <1>1, PrepInvariant, PTL

\* An answer without a diagnostic is a whole and certain one (DoubtIsReported).
THEOREM DoubtsAreReported == PrepSpec => []DoubtIsReported
  BY PrepInvariant, PTL DEF PrepInv

\* Every ticket that prepare issues passes finalize (TicketsAreFinalizable).
THEOREM IssuedTicketsPass == PrepSpec => []TicketsAreFinalizable
  <1>1. PrepInv => TicketsAreFinalizable
    <2> SUFFICES ASSUME PrepInv, NEW t \in outcome.ticket
                 PROVE  FinalizeAdmits(request.profile, t)
      BY DEF TicketsAreFinalizable
    <2>1. request \in Asked
      BY DEF PrepInv, PrepTypeOK
    <2> QED
      BY <2>1, IssuedIsAdmitted DEF PrepInv, Decided
  <1> QED
    BY <1>1, PrepInvariant, PTL
=============================================================================
