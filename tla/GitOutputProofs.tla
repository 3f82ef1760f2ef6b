------------------------- MODULE GitOutputProofs -------------------------
(***************************************************************************)
(* gitOutput keeps the contract of Child, so what is proved of every       *)
(* caller holds of this one; and its answer is whole, whatever fails.      *)
(***************************************************************************)
EXTENDS GitOutput, RetainedChildProofs

\* The caller finishes the child once, when its loop is over.
LoopInv ==
    /\ loop \in {"starting", "running", "finishing", "returned"}
    /\ loop \in {"starting", "running"} => finish = "none"
    /\ loop \in {"finishing", "returned"} => got = Stream
    /\ result # "none" => loop = "returned"

LEMMA GitInit_LoopInv == GitInit => LoopInv
BY DEF GitInit, ChildInit, LoopInv

LEMMA GitNext_LoopInv == LoopInv /\ [GitNext]_vars => LoopInv'
<1> SUFFICES ASSUME LoopInv, [GitNext]_vars PROVE LoopInv'
  OBVIOUS
<1> USE DEF LoopInv, kernelVars, signalVars, fieldVars, finishVars, childVars,
        loopVars, streamVars
<1>1. CASE Starts \/ SeesTerminal \/ SeesOverflow \/ SeesAbort \/ SeesDeadline
  BY <1>1 DEF Starts, SeesTerminal, SeesOverflow, SeesAbort, SeesDeadline, AbortIf
<1>2. CASE CallsFinish
  BY <1>2 DEF CallsFinish, LoopIsOver
<1>3. CASE Returns
  BY <1>3 DEF Returns
<1>4. ASSUME NEW s \in Stream, Receives(s) PROVE LoopInv'
  BY <1>4 DEF Receives, AbortIf
<1>5. CASE TimerFires \/ Escapes
  BY <1>5 DEF TimerFires, Escapes
<1>6. ASSUME NEW s \in Stream, CopierEnds(s) \/ Overflows(s) PROVE LoopInv'
  BY <1>6 DEF CopierEnds, Overflows
<1>7. CASE (ChildStep \/ Outside) /\ UNCHANGED <<streamVars, loopVars>>
  <2>1. finish = "none" => finish' = "none"
    BY <1>7 DEF ChildStep, Outside, Observe, Record, WatcherWakes, WatcherAborts,
       FinishSeals, FinishWaits, FinishProbes, FinishStopsWatch, FinishReturns
  <2> QED BY <1>7, <2>1
<1>8. CASE UNCHANGED vars
  BY <1>8 DEF vars
<1> QED BY <1>1, <1>2, <1>3, <1>4, <1>5, <1>6, <1>7, <1>8 DEF GitNext, Loop

LEMMA LoopInvariance == GitSpec => []LoopInv
BY GitInit_LoopInv, GitNext_LoopInv, PTL DEF GitSpec

\* Every step of gitOutput is a step of the Child with some caller.
LEMMA GitStep == LoopInv /\ [GitNext]_vars => [Next]_childVars
<1> SUFFICES ASSUME LoopInv, [GitNext]_vars PROVE [Next]_childVars
  OBVIOUS
<1>1. ASSUME NEW condition, loop \in {"starting", "running"}, AbortIf(condition)
      PROVE  [Next]_childVars
  BY <1>1 DEF AbortIf, Next, CallerAborts, LoopInv, childVars
<1>2. CASE Starts \/ SeesTerminal \/ SeesOverflow \/ SeesAbort \/ SeesDeadline
  <2>1. CASE Starts
    BY <1>1, <2>1 DEF Starts
  <2>2. CASE SeesTerminal
    BY <1>1, <2>2 DEF SeesTerminal
  <2>3. CASE SeesOverflow
    BY <2>3 DEF SeesOverflow, AbortIf, Next, CallerAborts, LoopInv, childVars
  <2>4. CASE SeesAbort
    BY <1>1, <2>4 DEF SeesAbort
  <2>5. CASE SeesDeadline
    BY <1>1, <2>5 DEF SeesDeadline
  <2> QED BY <1>2, <2>1, <2>2, <2>3, <2>4, <2>5
<1>3. CASE CallsFinish
  BY <1>3 DEF CallsFinish, Next
<1>4. ASSUME NEW s \in Stream, Receives(s) PROVE [Next]_childVars
  BY <1>1, <1>4 DEF Receives
<1>5. CASE Returns \/ TimerFires \/ Escapes
  BY <1>5 DEF Returns, TimerFires, Escapes
<1>6. ASSUME NEW s \in Stream, CopierEnds(s) \/ Overflows(s)
      PROVE  [Next]_childVars
  BY <1>6 DEF CopierEnds, Overflows
<1>7. CASE (ChildStep \/ Outside) /\ UNCHANGED <<streamVars, loopVars>>
  BY <1>7 DEF Next
<1>8. CASE UNCHANGED vars
  BY <1>8 DEF vars
<1> QED BY <1>2, <1>3, <1>4, <1>5, <1>6, <1>7, <1>8 DEF GitNext, Loop

\* gitOutput is one of the callers that Child was proved against.
THEOREM GitKeepsTheContract == GitSpec => Spec
<1>1. GitInit => ChildInit
  BY DEF GitInit
<1> QED BY <1>1, LoopInvariance, GitStep, PTL DEF GitSpec, Spec

\* No signal of a snapshot reaches a foreign group.
THEOREM GitSignalsStayHome == GitSpec => []NoStraySignal
BY GitKeepsTheContract, SignalsStayHome, PTL

---------------------------------------------------------------------------
(* Every abort has left a reason that the answer looks at, and a completion *)
(* that was received as good came from the end of its pipe.                 *)

Excuse == failure \/ ctxDone \/ exceeded # {} \/ streamErr

ReasonInv ==
    /\ aborted => Excuse
    /\ abortSeen => aborted
    /\ watcher = "woken" => ctxDone
    /\ waitErr \in {"none", "ok", "failed"}
    /\ finish \in AfterWait /\ ~lost => waitErr \in {"ok", "failed"}

StreamInv ==
    /\ stream \in [Stream -> {"open", "eof", "broken", "cut"}]
    /\ \A s \in got : Ended(s)
    /\ \A s \in got : stream[s] = "broken" => streamErr
    /\ \A s \in Stream : stream[s] = "cut" => abortSeen
    /\ got \subseteq Stream

AnswerInv ==
    result = "output" => OutputIsWhole /\ leader = "reaped" /\ finish = "returned"

GitInv == LoopInv /\ ChildInv /\ ReasonInv /\ StreamInv /\ AnswerInv

LEMMA GitInit_Inv == GitInit => GitInv
BY GitInit_LoopInv, ChildInit_Inv
   DEF GitInit, ChildInit, GitInv, ReasonInv, StreamInv, AnswerInv, Stream,
       AfterWait

\* An abort by the caller with a reason keeps the reasons.
LEMMA AbortIfReason ==
    ASSUME ReasonInv, NEW condition, AbortIf(condition), UNCHANGED abortSeen,
           condition => streamErr' \/ exceeded' # {} \/ ctxDone,
           streamErr => streamErr', exceeded # {} => exceeded' # {}
    PROVE  ReasonInv'
BY DEF ReasonInv, Excuse, AbortIf, Abort, AbortLocked, kernelVars, signalVars,
       fieldVars, finishVars

LEMMA ChildStepReason ==
    ASSUME GitInv, ChildStep \/ Outside, UNCHANGED <<streamVars, loopVars>>
    PROVE  ReasonInv'
<1> USE DEF GitInv, ReasonInv, Excuse, streamVars, loopVars, kernelVars,
        signalVars, fieldVars, finishVars, AfterWait
<1>1. CASE Observe
  BY <1>1 DEF Observe
<1>2. CASE Record
  <2>1. failure => failure'
    BY <1>2 DEF Record, AbortLocked
  <2>2. aborted' => aborted \/ failure'
    BY <1>2 DEF Record, AbortLocked
  <2>3. UNCHANGED <<ctxDone, watcher, waitErr, finish>>
    BY <1>2 DEF Record
  <2>4. aborted => aborted'
    BY <1>2 DEF Record, AbortLocked
  <2>5. finish \notin AfterWait
    BY <1>2 DEF Record, ChildInv, StageInv
  <2> QED BY <2>1, <2>2, <2>3, <2>4, <2>5
<1>3. CASE WatcherWakes
  BY <1>3 DEF WatcherWakes
<1>4. CASE WatcherAborts
  BY <1>4 DEF WatcherAborts, Abort, AbortLocked
<1>5. CASE FinishSeals
  <2>1. UNCHANGED <<aborted, ctxDone, watcher, waitErr, lost>>
    BY <1>5 DEF FinishSeals
  <2>3. failure => failure'
    BY <1>5, Zenon DEF FinishSeals
  <2>2. finish' \in AfterWait => lost
    BY <1>5 DEF FinishSeals, LossRevokes
  <2> QED BY <2>1, <2>2, <2>3
<1>6. CASE FinishWaits
  BY <1>6 DEF FinishWaits, WaitResult
<1>7. CASE FinishProbes
  BY <1>7 DEF FinishProbes
<1>8. CASE FinishStopsWatch
  BY <1>8 DEF FinishStopsWatch
<1>9. CASE FinishReturns
  BY <1>9 DEF FinishReturns
<1>10. CASE Outside
  BY <1>10 DEF Outside, Environment, Dies
<1> QED BY <1>1, <1>2, <1>3, <1>4, <1>5, <1>6, <1>7, <1>8, <1>9, <1>10
        DEF ChildStep

\* A whole answer stays whole: the leader is gone and the pipes have ended.
LEMMA AnswerStays ==
    ASSUME GitInv, [GitNext]_vars, ~Returns
    PROVE  AnswerInv'
<1>1. SUFFICES ASSUME result = "output", result' = result 
        PROVE  OutputIsWhole' /\ leader' = "reaped" /\ finish' = "returned"
  <2>1. result' = "output" => result = "output"
    <3>1. UNCHANGED result
      BY DEF GitNext, Loop, Starts, SeesTerminal, SeesOverflow, SeesAbort,
             SeesDeadline, CallsFinish, Receives, TimerFires, Escapes, CopierEnds,
             Overflows, loopVars, vars
    <3> QED BY <3>1
  <2>2. result' = "output" => result' = result
    BY <2>1
  <2> QED BY <2>1, <2>2 DEF AnswerInv, OutputIsWhole
<1>2. /\ leader = "reaped" /\ ~group /\ waitErr = "ok" /\ exceeded = {}
      /\ ~abortSeen /\ loop = "returned" /\ finish = "returned"
      /\ \A s \in Stream : stream[s] = "eof"
  BY <1>1 DEF GitInv, AnswerInv, OutputIsWhole, LoopInv
<1>3. UNCHANGED <<stream, exceeded, abortSeen>>
  BY <1>2 DEF GitNext, Loop, Starts, SeesTerminal, SeesOverflow, SeesAbort,
         SeesDeadline, CallsFinish, Returns, Receives, TimerFires, Escapes,
         CopierEnds, Overflows, Ended, streamVars, loopVars, vars
<1>4. CASE ChildStep
  <2>1. waitErr' = waitErr /\ group' = group /\ leader' = "reaped"
      /\ finish' = "returned"
    BY <1>2, <1>4 DEF ChildStep, Observe, Record, WatcherWakes, WatcherAborts,
       Abort, AbortLocked, Signal, FinishSeals, FinishWaits, FinishProbes,
       FinishStopsWatch, FinishReturns, kernelVars, finishVars
  <2> QED BY <1>1, <1>2, <1>3, <2>1 DEF OutputIsWhole
<1>5. CASE Outside
  <2>1. waitErr' = waitErr /\ ~group' /\ leader' = "reaped"
      /\ finish' = "returned"
    BY <1>2, <1>5 DEF Outside, Environment, Dies, Exited, kernelVars, finishVars
  <2> QED BY <1>1, <1>2, <1>3, <2>1 DEF OutputIsWhole
<1>6. CASE UNCHANGED childVars
  <2>1. waitErr' = waitErr /\ group' = group /\ leader' = "reaped"
      /\ finish' = "returned"
    BY <1>2, <1>6 DEF childVars, kernelVars, finishVars
  <2> QED BY <1>1, <1>2, <1>3, <2>1 DEF OutputIsWhole
<1>7. ChildStep \/ Outside \/ UNCHANGED childVars
  BY <1>2 DEF GitNext, Loop, Starts, SeesTerminal, SeesOverflow, SeesAbort,
         SeesDeadline, CallsFinish, Returns, Receives, TimerFires, Escapes,
         CopierEnds, Overflows, vars
<1> QED BY <1>4, <1>5, <1>6, <1>7

\* The steps of the loop, the copiers and the processes behind the pipes.
LEMMA GitReason ==
    ASSUME GitInv, [GitNext]_vars PROVE ReasonInv'
<1>1. CASE Starts
  BY <1>1, AbortIfReason DEF Starts, GitInv, streamVars
<1>2. CASE SeesTerminal
  BY <1>2, AbortIfReason DEF SeesTerminal, GitInv, streamVars
<1>3. CASE SeesOverflow
  BY <1>3, AbortIfReason DEF SeesOverflow, GitInv, streamVars, loopVars
<1>4. CASE SeesAbort
  <2>1. aborted /\ abortSeen' = TRUE /\ UNCHANGED <<exceeded, streamErr>>
    BY <1>4 DEF SeesAbort
  <2>2. UNCHANGED <<ctxDone, watcher, waitErr, finish, lost>>
    BY <1>4 DEF SeesAbort, AbortIf, Abort, fieldVars, finishVars
  <2>3. Abort \/ UNCHANGED fieldVars
    BY <1>4 DEF SeesAbort, AbortIf
  <2>4. failure' = failure /\ aborted'
    BY <2>1, <2>3 DEF Abort, AbortLocked, fieldVars
  <2> QED BY <2>1, <2>2, <2>4 DEF GitInv, ReasonInv, Excuse
<1>5. CASE SeesDeadline
  <2> DEFINE failed == \E s \in Stream \ got : IsError(s) \/ ~Ended(s)
  <2>1. AbortIf(failed \/ exceeded # {}) /\ streamErr' = (streamErr \/ failed)
        /\ UNCHANGED <<abortSeen, exceeded>>
    BY <1>5 DEF SeesDeadline, streamVars
  <2> HIDE DEF failed
  <2> QED BY <2>1, AbortIfReason DEF GitInv
<1>6. CASE CallsFinish
  <2>1. UNCHANGED <<exceeded, streamErr, abortSeen, ctxDone, watcher, waitErr>>
    BY <1>6 DEF CallsFinish, FinishBegins
  <2>2. finish' \notin AfterWait
    BY <1>6 DEF CallsFinish, FinishBegins, AfterWait
  <2>3. AbortLocked(sealed, TRUE) \/ UNCHANGED fieldVars
    BY <1>6 DEF CallsFinish, FinishBegins
  <2>4. CASE AbortLocked(sealed, TRUE)
    <3>1. failure' /\ aborted'
      BY <2>4 DEF AbortLocked
    <3> QED BY <2>1, <2>2, <3>1 DEF GitInv, ReasonInv, Excuse
  <2>5. CASE UNCHANGED fieldVars
    BY <2>1, <2>2, <2>5 DEF GitInv, ReasonInv, Excuse, fieldVars
  <2> QED BY <2>3, <2>4, <2>5 DEF GitInv, ReasonInv, Excuse
<1>7. ASSUME NEW s \in Stream, Receives(s) PROVE ReasonInv'
  BY <1>7, AbortIfReason DEF Receives, GitInv, streamVars
<1>8. CASE Returns \/ TimerFires \/ Escapes
  BY <1>8 DEF Returns, TimerFires, Escapes, GitInv, ReasonInv, Excuse, childVars,
     fieldVars, finishVars, streamVars, loopVars
<1>9. ASSUME NEW s \in Stream, CopierEnds(s) \/ Overflows(s) PROVE ReasonInv'
  BY <1>9 DEF CopierEnds, Overflows, GitInv, ReasonInv, Excuse, childVars,
     fieldVars, finishVars, streamVars, loopVars
<1>10. CASE (ChildStep \/ Outside) /\ UNCHANGED <<streamVars, loopVars>>
  BY <1>10, ChildStepReason
<1>11. CASE UNCHANGED vars
  BY <1>11 DEF GitInv, ReasonInv, Excuse, vars, childVars, fieldVars, finishVars,
     streamVars, loopVars
<1> QED BY <1>1, <1>2, <1>3, <1>4, <1>5, <1>6, <1>7, <1>8, <1>9, <1>10, <1>11
        DEF GitNext, Loop

\* Cutting the pipes ends the open ones and keeps the others.
LEMMA CutStreams ==
    ASSUME StreamInv, stream' = Cut, UNCHANGED <<got, streamErr>>,
           abortSeen' \/ (got = Stream /\ UNCHANGED abortSeen)
    PROVE  StreamInv'
BY DEF StreamInv, Cut, Ended

LEMMA GitStream ==
    ASSUME GitInv, [GitNext]_vars PROVE StreamInv'
<1> USE DEF GitInv, StreamInv, Ended, streamVars, loopVars
<1>1. CASE Starts \/ SeesTerminal \/ SeesOverflow \/ TimerFires \/ Escapes \/ Returns
  <2>1. UNCHANGED <<stream, got, abortSeen, streamErr>>
    BY <1>1 DEF Starts, SeesTerminal, SeesOverflow, TimerFires, Escapes, Returns
  <2> QED BY <2>1
<1>2. CASE SeesAbort
  BY <1>2, CutStreams DEF SeesAbort
<1>3. CASE CallsFinish
  BY <1>3, CutStreams DEF CallsFinish, LoopIsOver
<1>4. CASE SeesDeadline
  <2>1. /\ UNCHANGED <<stream, abortSeen>> /\ got' = got \cup {s \in Stream : Ended(s)}
        /\ streamErr => streamErr'
        /\ \A s \in Stream \ got : stream[s] = "broken" => streamErr'
    BY <1>4 DEF SeesDeadline, IsError
  <2> QED BY <2>1
<1>5. ASSUME NEW s \in Stream, Receives(s) PROVE StreamInv'
  <2>1. /\ UNCHANGED <<stream, abortSeen>> /\ got' = got \cup {s} /\ Ended(s)
        /\ streamErr => streamErr'
        /\ stream[s] = "broken" => streamErr'
    BY <1>5 DEF Receives, IsError
  <2> QED BY <2>1
<1>6. ASSUME NEW s \in Stream, CopierEnds(s) \/ Overflows(s) PROVE StreamInv'
  <2>1. UNCHANGED <<got, abortSeen, streamErr>>
    BY <1>6 DEF CopierEnds, Overflows
  <2>2. stream' = stream \/ /\ ~Ended(s)
                             /\ \E e \in {"eof", "broken"} : stream' = [stream EXCEPT ![s] = e]
    BY <1>6 DEF CopierEnds, Overflows
  <2> QED BY <2>1, <2>2
<1>7. CASE UNCHANGED <<streamVars, loopVars>>
  BY <1>7
<1> QED BY <1>1, <1>2, <1>3, <1>4, <1>5, <1>6, <1>7 DEF GitNext, Loop, vars

\* When gitOutput answers with output, no abort happened and nothing was cut.
LEMMA GitAnswer == ASSUME GitInv, Returns PROVE AnswerInv'
<1>1. SUFFICES ASSUME result' = "output" PROVE AnswerInv'
  BY DEF AnswerInv, OutputIsWhole
<1>2. finish = "returned" /\ loop = "finishing" /\ got = Stream
      /\ UNCHANGED <<childVars, streamVars, abortSeen>>
  BY DEF Returns, GitInv, LoopInv
<1>3. ~CleanupFailed /\ ~ctxDone /\ exceeded = {} /\ waitErr # "failed" /\ ~streamErr
  BY <1>1 DEF Returns, Answer
<1>4. ~aborted /\ ~abortSeen
  BY <1>3 DEF GitInv, ReasonInv, Excuse, CleanupFailed
<1>5. ~lost /\ leader = "reaped" /\ ~group
  BY <1>2, <1>3 DEF GitInv, ChildInv, StageInv, CleanupFailed, AfterWait, AfterProbe
<1>6. waitErr = "ok"
  BY <1>2, <1>3, <1>5 DEF GitInv, ReasonInv, AfterWait
<1>7. \A s \in Stream : stream[s] = "eof"
  BY <1>2, <1>3, <1>4 DEF GitInv, StreamInv, Ended
<1> QED BY <1>2, <1>3, <1>4, <1>5, <1>6, <1>7
        DEF AnswerInv, OutputIsWhole, childVars, kernelVars, finishVars, streamVars

LEMMA GitNext_Inv == GitInv /\ [GitNext]_vars => GitInv'
<1> SUFFICES ASSUME GitInv, [GitNext]_vars PROVE GitInv'
  OBVIOUS
<1>1. LoopInv'
  BY GitNext_LoopInv DEF GitInv
<1>2. ChildInv'
  BY GitStep, Next_Inv DEF GitInv
<1>3. ReasonInv' /\ StreamInv'
  BY GitReason, GitStream
<1>4. AnswerInv'
  BY AnswerStays, GitAnswer
<1> QED BY <1>1, <1>2, <1>3, <1>4 DEF GitInv

\* An output that gitOutput returns is the whole output of a git that succeeded:
\* no failure, cancellation, overflow or deadline is ever answered with a prefix.
THEOREM OutputAlwaysWhole == GitSpec => []OutputIsWhole
<1>1. GitInv => OutputIsWhole
  BY DEF GitInv, AnswerInv, OutputIsWhole
<1> QED BY <1>1, GitInit_Inv, GitNext_Inv, PTL DEF GitSpec
==========================================================================
