----------------------- MODULE RetainedChildProofs -----------------------
(***************************************************************************)
(* The safety of RetainedChild, whatever the kernel refuses and whoever    *)
(* else reaps: one inductive invariant that says, for each stage of        *)
(* Finish, who may still be running and what the number can still name.    *)
(***************************************************************************)
EXTENDS RetainedChild, TLAPS

AfterWait == {"absent", "stopWatch", "joinWatch", "returned"}
AfterProbe == {"stopWatch", "joinWatch", "returned"}

\* The number is taken over only after the reap, and without a thief the reap
\* comes after the seal.
NumberInv ==
    /\ leader \in {"running", "succeeded", "failed", "reaped"}
    /\ reused => leader = "reaped" /\ ~group
    /\ leader = "reaped" /\ ~stolen => sealed /\ finish \in AfterWait
    /\ stray => stolen
    /\ observer = "lost" => stolen

\* Who is done at each stage of Finish, and what it has established.
StageInv ==
    /\ finish \notin {"none", "joinObserver"} => observer = "done"
    /\ finish = "returned" => watcher = "done"
    /\ finish \in AfterWait => lost \/ leader = "reaped"
    /\ finish \in AfterProbe => lost \/ cleanupErr \/ ~group
    /\ finish \in {"wait", "absent"} => sealed /\ ~lost
    /\ lost => sealed /\ failure /\ observer = "done"

ChildInv == NumberInv /\ StageInv

LEMMA ChildInit_Inv == ChildInit => ChildInv
BY DEF ChildInit, ChildInv, NumberInv, StageInv, AfterWait, AfterProbe

\* An unsealed signal cannot go astray without a thief.
LEMMA SignalInv ==
    ASSUME ChildInv, ~sealed \/ finish = "joinObserver", NEW err \in BOOLEAN, Signal(err)
    PROVE  stray' => stolen
BY DEF Signal, ChildInv, NumberInv, AfterWait, signalVars

LEMMA AbortInv ==
    ASSUME ChildInv, NEW seal, sealed => seal, NEW failed,
           AbortLocked(seal, failed)
    PROVE  stray' => stolen
BY SignalInv DEF AbortLocked, signalVars, ChildInv, NumberInv

LEMMA Next_Inv == ChildInv /\ [Next]_childVars => ChildInv'
<1> SUFFICES ASSUME ChildInv, [Next]_childVars PROVE ChildInv'
  OBVIOUS
<1> USE DEF ChildInv, NumberInv, StageInv, AfterWait, AfterProbe, kernelVars,
        signalVars, fieldVars, finishVars
<1>1. CASE Observe
  BY <1>1 DEF Observe, Exited
<1>2. CASE Record
  <2>1. stray' => stolen
    BY <1>2, AbortInv DEF Record, LostSeals
  <2>2. CASE observer \in {"running", "terminal"}
    <3>1. /\ UNCHANGED <<leader, group, reused, stolen, stray, sealed, lost, failure>>
          /\ UNCHANGED <<finish, watcher, cleanupErr>>
          /\ observer' \in {"idle", "done"}
      BY <1>2, <2>2 DEF Record
    <3> QED BY <2>2, <3>1
  <2>3. CASE observer \in {"error", "lost"}
    <3>1. \/ ~lost /\ finish \in {"none", "joinObserver"}
          \/ finish \notin AfterWait \cup {"wait"}
      BY <2>3
    <3>2. failure' /\ UNCHANGED <<leader, group, reused, stolen, finish, watcher, cleanupErr>>
      BY <1>2, <2>3 DEF Record, AbortLocked
    <3>3. lost' => sealed'
      BY <1>2, <2>3 DEF Record, LostSeals
    <3>4. sealed => sealed'
      BY <1>2, <2>3 DEF Record, LostSeals
    <3>5. observer' = "done"
      BY <1>2, <2>3 DEF Record
    <3> QED BY <2>1, <2>3, <3>1, <3>2, <3>3, <3>4, <3>5
  <2> QED BY <1>2, <2>2, <2>3 DEF Record
<1>3. CASE WatcherWakes
  BY <1>3 DEF WatcherWakes
<1>4. CASE WatcherAborts
  <2>1. stray' => stolen
    BY <1>4, AbortInv DEF WatcherAborts, Abort
  <2> QED BY <1>4, <2>1 DEF WatcherAborts, Abort, AbortLocked
<1>5. CASE FinishSeals
  <2>1. stray' => stolen
    BY <1>5, SignalInv DEF FinishSeals
  <2> QED BY <1>5, <2>1 DEF FinishSeals, ObserverJoined, LossRevokes
<1>6. CASE FinishWaits
  BY <1>6 DEF FinishWaits, WaitResult
<1>7. CASE FinishProbes
  BY <1>7 DEF FinishProbes, ProbedAbsent, Gone
<1>8. CASE FinishStopsWatch
  BY <1>8 DEF FinishStopsWatch
<1>9. CASE FinishReturns
  BY <1>9 DEF FinishReturns, WatchJoined
<1>10. CASE CallerAborts
  <2>1. stray' => stolen
    BY <1>10, AbortInv DEF CallerAborts, Abort
  <2> QED BY <1>10, <2>1 DEF CallerAborts, Abort, AbortLocked
<1>11. CASE FinishBegins
  <2>1. stray' => stolen
    BY <1>11, AbortInv DEF FinishBegins
  <2> QED BY <1>11, <2>1 DEF FinishBegins, AbortLocked
<1>12. CASE Outside
  BY <1>12 DEF Outside, Environment, Dies, Gone, Exited
<1>13. CASE UNCHANGED childVars
  BY <1>13 DEF childVars
<1> QED BY <1>1, <1>2, <1>3, <1>4, <1>5, <1>6, <1>7, <1>8, <1>9, <1>10, <1>11,
           <1>12, <1>13 DEF Next, ChildStep

LEMMA Invariance == Spec => []ChildInv
BY ChildInit_Inv, Next_Inv, PTL DEF Spec

\* No schedule of late aborts, the last sweep, the reap and the reuse of the
\* number lets a SIGKILL reach a foreign group.
THEOREM SignalsStayHome == Spec => []NoStraySignal
<1>1. ChildInv => NoStraySignal
  BY DEF ChildInv, NumberInv, NoStraySignal
<1> QED BY <1>1, Invariance, PTL

\* Finish returns only when both goroutines are gone and the child is reaped or
\* known to be lost.
THEOREM FinishLeavesNobody == Spec => []FinishJoins
<1>1. ChildInv => FinishJoins
  BY DEF ChildInv, StageInv, FinishJoins, AfterWait
<1> QED BY <1>1, Invariance, PTL

\* A Finish without an error vouches for the whole group.
THEOREM CleanMeansGone == Spec => []CleanReturnMeansGone
<1>1. ChildInv => CleanReturnMeansGone
  BY DEF ChildInv, StageInv, CleanReturnMeansGone, CleanupFailed, AfterWait,
         AfterProbe
<1> QED BY <1>1, Invariance, PTL

\* Whatever Finish says when it returns, with or without an error, is true.
THEOREM FinishSpeaksTheTruth == Spec => []FinishIsConclusive
BY FinishLeavesNobody, CleanMeansGone, PTL DEF FinishIsConclusive

\* A lost child is neither signalled nor waited for again.
THEOREM LossIsFinal == Spec => LossRevokesTargeting
<1>1. ChildInv /\ [Next]_childVars =>
         [lost => UNCHANGED <<doomed, stray, waitErr>>]_childVars
  <2> SUFFICES ASSUME ChildInv, [Next]_childVars, lost
               PROVE  UNCHANGED <<doomed, stray, waitErr>>
    OBVIOUS
  <2> USE DEF ChildInv, StageInv, kernelVars, signalVars, fieldVars, finishVars
  <2>1. CASE UNCHANGED childVars
    BY <2>1 DEF childVars
  <2>2. CASE Observe \/ Record \/ WatcherWakes \/ WatcherAborts
    BY <2>2 DEF Observe, Record, WatcherWakes, WatcherAborts, Abort, AbortLocked
  <2>3. CASE FinishSeals \/ FinishWaits \/ FinishProbes \/ FinishStopsWatch
             \/ FinishReturns
    BY <2>3 DEF FinishSeals, FinishWaits, FinishProbes, FinishStopsWatch,
                FinishReturns, LossRevokes
  <2>4. CASE CallerAborts \/ FinishBegins
    BY <2>4 DEF CallerAborts, FinishBegins, Abort, AbortLocked
  <2>5. CASE Outside
    BY <2>5 DEF Outside, Environment, Dies
  <2> QED BY <2>1, <2>2, <2>3, <2>4, <2>5 DEF Next, ChildStep
<1> QED BY <1>1, Invariance, PTL DEF Spec, LossRevokesTargeting
===========================================================================
