------------------------ MODULE TestCommandProofs ------------------------
(***************************************************************************)
(* waitGoTestCommand keeps the contract of Child, passes only what it saw  *)
(* whole, and blames the events for a defect of theirs, or together with    *)
(* the failure that made it tear a line.                                    *)
(***************************************************************************)
EXTENDS TestCommand, RetainedChildProofs

Outcomes == {"overflow", "timeout", "malformed", "suite failed", "passed"}

\* The caller finishes the child once, when its loop is over.
LoopInv ==
    /\ loop \in {"starting", "running", "closing", "finishing", "returned"}
    /\ loop \in {"starting", "running", "closing"} => finish = "none"
    /\ loop \in {"closing", "finishing", "returned"} => parseSeen /\ stderrSeen
    /\ result # "none" => loop = "returned"
    /\ loop = "starting" => ~tried /\ ~parseSeen /\ ~stderrSeen

\* What one turn of the loop does to the child and to the pipes.
LEMMA TurnFacts ==
    ASSUME NEW parsed, NEW drained, NEW terminated, NEW wants,
           Turn(parsed, drained, terminated, wants)
    PROVE  /\ parseSeen' = parsed /\ stderrSeen' = drained
           /\ (Abort /\ tried') \/ UNCHANGED <<kernelVars, fieldVars>>
           /\ UNCHANGED <<ctxDone, observer, watcher, finishVars>>
           /\ tried => tried'
           /\ wants => tried'
           /\ stdoutClosed' => stdoutClosed \/ parsed \/ tried'
           /\ stderr' = stderr \/ (stderr = "open" /\ stderr' = "cut" /\ tried')
           /\ drained => timer' = "off"
           /\ UNCHANGED <<parser, overflow, held, result>>
<1>1. PICK aborts : /\ AbortOnce(aborts) /\ stdoutClosed' = StdoutCloses(parsed, aborts)
                    /\ wants => aborts
                    /\ drained => timer' = "off"
  BY Zenon DEF Turn
<1>2. /\ parseSeen' = parsed /\ stderrSeen' = drained
      /\ UNCHANGED <<parser, overflow, held, result>>
  BY DEF Turn
<1> QED BY <1>1, <1>2, Zenon DEF AbortOnce, StdoutCloses

LEMMA TestInit_LoopInv == TestInit => LoopInv
BY DEF TestInit, ChildInit, LoopInv

LEMMA TestNext_LoopInv == LoopInv /\ [TestNext]_vars => LoopInv'
<1> SUFFICES ASSUME LoopInv, [TestNext]_vars PROVE LoopInv'
  OBVIOUS
<1> USE DEF LoopInv, finishVars, childVars, loopVars, seenVars, errVars, pipeVars
<1>1. CASE Starts
  BY <1>1 DEF Starts
<1>2. CASE ReceivesParse
  BY <1>2, TurnFacts DEF ReceivesParse
<1>3. CASE ReceivesStderr
  BY <1>3, TurnFacts DEF ReceivesStderr
<1>4. CASE SeesTerminal
  BY <1>4, TurnFacts DEF SeesTerminal
<1>5. CASE SeesTrouble
  BY <1>5, TurnFacts DEF SeesTrouble
<1>6. CASE SeesDeadline
  BY <1>6, TurnFacts DEF SeesDeadline
<1>7. CASE LeavesLoop
  <2>1. Turn(parseSeen, stderrSeen, terminalSeen, ctxDone)
    BY <1>7 DEF LeavesLoop
  <2>2. /\ parseSeen' = parseSeen /\ stderrSeen' = stderrSeen
        /\ UNCHANGED finishVars /\ result' = result
    BY <2>1, TurnFacts, Zenon
  <2>3. /\ loop = "running" /\ loop' = "closing" /\ parseSeen /\ stderrSeen
    BY <1>7 DEF LeavesLoop, LoopIsOver
  <2>4. parseSeen' /\ stderrSeen'
    BY <2>2, <2>3, Zenon
  <2> QED BY <2>2, <2>3, <2>4
<1>8. CASE CallsFinish \/ Returns \/ TimerFires
  BY <1>8 DEF CallsFinish, Returns, TimerFires
<1>9. CASE ParserEnds \/ CopierEnds \/ Overflows \/ Escapes
  BY <1>9 DEF ParserEnds, CopierEnds, Overflows, Escapes
<1>10. CASE (ChildStep \/ Outside) /\ UNCHANGED <<pipeVars, loopVars>>
  <2>1. finish = "none" => finish' = "none"
    BY <1>10 DEF ChildStep, Outside, Observe, Record, WatcherWakes, WatcherAborts,
       FinishSeals, FinishWaits, FinishProbes, FinishStopsWatch, FinishReturns
  <2> QED BY <1>10, <2>1
<1>11. CASE UNCHANGED vars
  BY <1>11 DEF vars
<1> QED BY <1>1, <1>2, <1>3, <1>4, <1>5, <1>6, <1>7, <1>8, <1>9, <1>10, <1>11
        DEF TestNext, Loop

LEMMA TestLoopInvariance == TestSpec => []LoopInv
BY TestInit_LoopInv, TestNext_LoopInv, PTL DEF TestSpec

\* Every step of the command is a step of the Child with some caller.
LEMMA TestStep == LoopInv /\ [TestNext]_vars => [Next]_childVars
<1> SUFFICES ASSUME LoopInv, [TestNext]_vars PROVE [Next]_childVars
  OBVIOUS
<1>1. ASSUME NEW parsed, NEW drained, NEW terminated, NEW wants,
             Turn(parsed, drained, terminated, wants), loop = "running"
      PROVE  [Next]_childVars
  BY <1>1, TurnFacts DEF LoopInv, Next, CallerAborts, childVars
<1>2. CASE Starts
  BY <1>2 DEF Starts, LoopInv, Next, CallerAborts, childVars
<1>3. CASE ReceivesParse \/ ReceivesStderr \/ SeesTerminal
  BY <1>1, <1>3 DEF ReceivesParse, ReceivesStderr, SeesTerminal
<1>4. CASE SeesTrouble \/ SeesDeadline \/ LeavesLoop
  BY <1>1, <1>4 DEF SeesTrouble, SeesDeadline, LeavesLoop
<1>5. CASE CallsFinish
  BY <1>5 DEF CallsFinish, Next
<1>6. CASE Returns \/ TimerFires \/ ParserEnds \/ CopierEnds \/ Overflows \/ Escapes
  BY <1>6 DEF Returns, TimerFires, ParserEnds, CopierEnds, Overflows, Escapes
<1>7. CASE (ChildStep \/ Outside) /\ UNCHANGED <<pipeVars, loopVars>>
  BY <1>7 DEF Next
<1>8. CASE UNCHANGED vars
  BY <1>8 DEF vars
<1> QED BY <1>2, <1>3, <1>4, <1>5, <1>6, <1>7, <1>8 DEF TestNext, Loop

\* The command is one of the callers that Child was proved against.
THEOREM TestKeepsTheContract == TestSpec => Spec
<1>1. TestInit => ChildInit
  BY DEF TestInit
<1> QED BY <1>1, TestLoopInvariance, TestStep, PTL DEF TestSpec, Spec

---------------------------------------------------------------------------
(* Every abort has left a reason, and what was received as good was good.  *)

ReasonInv ==
    /\ aborted => failure \/ ctxDone \/ tried
    /\ watcher = "woken" => ctxDone
    /\ waitErr \in {"none", "ok", "failed"}
    /\ finish \in AfterWait /\ ~lost => waitErr \in {"ok", "failed"}

ParserInv ==
    /\ parser \in {"reading", "ok", "bad", "unread", "cut", "torn"}
    /\ parser = "reading" => ~parseSeen
    /\ parser \in {"cut", "torn"} => tried
    /\ stdoutClosed => tried \/ parseSeen
    /\ parseErr => parser \in {"bad", "unread", "torn"}
    /\ parseSeen /\ parser \in {"bad", "unread"} => parseErr

\* Whatever made the loop close stdout before the parser was done is on record.
TornInv ==
    /\ tried /\ parser \in {"reading", "cut", "torn"} =>
         failure \/ closeErr \/ copyErr \/ ctxDone \/ overflow
    /\ timer # "off" => parseSeen /\ ~tried
    /\ loop = "starting" => timer = "off"
    /\ copyErr => stderrSeen

StderrInv ==
    /\ stderr \in {"open", "eof", "broken", "cut"}
    /\ stderr = "cut" => tried
    /\ stderrSeen => stderr # "open" /\ timer = "off"
    /\ stderrSeen /\ stderr = "broken" => copyErr

Explained ==
    \/ parser \in {"bad", "unread"}
    \/ parser = "torn" /\ (failure \/ closeErr \/ copyErr)

AnswerInv ==
    /\ result \in Outcomes \cup {"none"}
    /\ result = "passed" => PassedIsWhole /\ finish = "returned"
    /\ result = "malformed" => Explained

TestInv ==
    /\ LoopInv /\ ChildInv /\ ReasonInv
    /\ ParserInv /\ TornInv /\ StderrInv
    /\ AnswerInv

LEMMA TestInit_Inv == TestInit => TestInv
BY TestInit_LoopInv, ChildInit_Inv
   DEF TestInit, ChildInit, TestInv, ReasonInv, ParserInv, TornInv, StderrInv, AnswerInv,
       PassedIsWhole, AfterWait, Outcomes

LEMMA TurnReason ==
    ASSUME ReasonInv, NEW parsed, NEW drained, NEW terminated, NEW wants,
           Turn(parsed, drained, terminated, wants)
    PROVE  ReasonInv'
<1>1. /\ (Abort /\ tried') \/ UNCHANGED fieldVars
      /\ UNCHANGED <<ctxDone, watcher, finish, waitErr>>
      /\ tried => tried'
  BY TurnFacts DEF finishVars
<1>2. UNCHANGED lost
  BY <1>1 DEF Abort, fieldVars
<1>3. CASE tried'
  BY <1>1, <1>2, <1>3 DEF ReasonInv
<1>4. CASE UNCHANGED fieldVars
  BY <1>1, <1>4 DEF ReasonInv, fieldVars
<1> QED BY <1>1, <1>3, <1>4

LEMMA ChildStepKeepsReason ==
    ASSUME TestInv, ChildStep \/ Outside, UNCHANGED tried
    PROVE  ReasonInv'
<1> USE DEF TestInv, ReasonInv, kernelVars, signalVars, fieldVars, finishVars, AfterWait
<1>1. CASE Observe
  BY <1>1 DEF Observe
<1>2. CASE Record
  <2>1. /\ failure => failure'
        /\ aborted' => aborted \/ failure'
    <3>1. CASE observer \in {"running", "terminal"}
      <4>1. failure' = failure /\ aborted' = aborted
        BY <1>2, <3>1 DEF Record
      <4> QED BY <4>1, Zenon
    <3>2. CASE observer \in {"error", "lost"}
      <4>1. AbortLocked(LostSeals, TRUE)
        BY <1>2, <3>2 DEF Record
      <4>2. failure'
        BY <4>1, Zenon DEF AbortLocked
      <4> QED BY <4>2
    <3> QED BY <1>2, <3>1, <3>2 DEF Record
  <2>2. UNCHANGED <<ctxDone, watcher, waitErr, finish>>
    BY <1>2 DEF Record
  <2>3. finish \notin AfterWait
    BY <1>2 DEF Record, ChildInv, StageInv
  <2> QED BY <2>1, <2>2, <2>3
<1>3. CASE WatcherWakes
  BY <1>3 DEF WatcherWakes
<1>4. CASE WatcherAborts
  BY <1>4 DEF WatcherAborts, Abort, AbortLocked
<1>5. CASE FinishSeals
  <2>1. UNCHANGED <<aborted, ctxDone, watcher, waitErr, lost>>
    BY <1>5 DEF FinishSeals
  <2>2. failure => failure'
    BY <1>5, Zenon DEF FinishSeals
  <2>3. finish' \in AfterWait => lost
    BY <1>5 DEF FinishSeals, LossRevokes
  <2> QED BY <2>1, <2>2, <2>3
<1>6. CASE FinishWaits
  BY <1>6 DEF FinishWaits, WaitResult
<1>7. CASE FinishProbes \/ FinishStopsWatch \/ FinishReturns
  BY <1>7 DEF FinishProbes, FinishStopsWatch, FinishReturns
<1>8. CASE Outside
  BY <1>8 DEF Outside, Environment, Dies
<1> QED BY <1>1, <1>2, <1>3, <1>4, <1>5, <1>6, <1>7, <1>8 DEF ChildStep

LEMMA TestReason == ASSUME TestInv, [TestNext]_vars PROVE ReasonInv'
<1>0. ReasonInv
  BY DEF TestInv
<1>1. CASE Starts
  <2>1. /\ ((ctxDone \/ closeErr) /\ Abort) \/ UNCHANGED fieldVars
        /\ UNCHANGED <<ctxDone, watcher, finish, waitErr>>
        /\ tried' = closeErr
    BY <1>1 DEF Starts, finishVars
  <2>2. ~tried
    BY <1>1 DEF Starts, TestInv, LoopInv
  <2>3. UNCHANGED lost
    BY <2>1 DEF Abort, fieldVars
  <2>4. aborted' => failure' \/ ctxDone' \/ tried'
    <3>1. CASE (ctxDone \/ closeErr) /\ Abort
      BY <2>1, <3>1
    <3>2. CASE UNCHANGED fieldVars
      BY <1>0, <2>1, <2>2, <3>2 DEF ReasonInv, fieldVars
    <3> QED BY <2>1, <3>1, <3>2
  <2> QED BY <1>0, <2>1, <2>3, <2>4 DEF ReasonInv
<1>2. CASE ReceivesParse \/ ReceivesStderr \/ SeesTerminal
  BY <1>0, <1>2, TurnReason DEF ReceivesParse, ReceivesStderr, SeesTerminal
<1>3. CASE SeesTrouble \/ SeesDeadline \/ LeavesLoop
  BY <1>0, <1>3, TurnReason DEF SeesTrouble, SeesDeadline, LeavesLoop
<1>4. CASE CallsFinish
  <2>1. UNCHANGED <<tried, ctxDone, watcher, waitErr>>
    BY <1>4 DEF CallsFinish, FinishBegins
  <2>2. finish' \notin AfterWait
    BY <1>4 DEF CallsFinish, FinishBegins, AfterWait
  <2>3. CASE AbortLocked(sealed, TRUE)
    <3>1. failure'
      BY <2>3 DEF AbortLocked
    <3> QED BY <1>0, <2>1, <2>2, <3>1 DEF ReasonInv
  <2>4. CASE UNCHANGED fieldVars
    BY <1>0, <2>1, <2>2, <2>4 DEF ReasonInv, fieldVars
  <2> QED BY <1>4, <2>3, <2>4 DEF CallsFinish, FinishBegins
<1>5. CASE \/ Returns \/ TimerFires \/ ParserEnds \/ CopierEnds \/ Overflows
           \/ Escapes \/ UNCHANGED vars
  <2>1. UNCHANGED <<childVars, tried>>
    BY <1>5 DEF Returns, TimerFires, ParserEnds, CopierEnds, Overflows, Escapes,
       vars, loopVars
  <2> QED BY <1>0, <2>1 DEF ReasonInv, childVars, fieldVars, finishVars
<1>6. CASE (ChildStep \/ Outside) /\ UNCHANGED <<pipeVars, loopVars>>
  BY <1>6, ChildStepKeepsReason DEF loopVars
<1> QED BY <1>1, <1>2, <1>3, <1>4, <1>5, <1>6 DEF TestNext, Loop

---------------------------------------------------------------------------
(* The pipes *)

LEMMA TestParser == ASSUME TestInv, [TestNext]_vars PROVE ParserInv'
<1>0. ParserInv
  BY DEF TestInv
<1> USE DEF ParserInv
<1>1. CASE Starts
  BY <1>0, <1>1 DEF Starts, TestInv, LoopInv, seenVars, errVars
<1>2. CASE ReceivesParse
  <2>1. /\ parseSeen' = TRUE /\ parseErr' = ParseFailed /\ parser # "reading"
        /\ tried => tried'
        /\ parser' = parser
    BY <1>2, TurnFacts DEF ReceivesParse
  <2> QED BY <1>0, <2>1 DEF ParseFailed
<1>3. CASE ReceivesStderr \/ SeesTerminal \/ SeesTrouble \/ SeesDeadline \/ LeavesLoop
  <2>1. /\ parseSeen' = parseSeen /\ parser' = parser
        /\ tried => tried'
        /\ stdoutClosed' => stdoutClosed \/ parseSeen \/ tried'
    <3>1. PICK drained, terminated, wants : Turn(parseSeen, drained, terminated, wants)
      BY <1>3, Zenon DEF ReceivesStderr, SeesTerminal, SeesTrouble, SeesDeadline, LeavesLoop
    <3>2. /\ parseSeen' = parseSeen /\ UNCHANGED <<parser, overflow, held, result>>
          /\ tried => tried'
          /\ stdoutClosed' => stdoutClosed \/ parseSeen \/ tried'
      BY <3>1, TurnFacts
    <3> QED BY <3>2
  <2>2. parseErr' = parseErr
    BY <1>3 DEF ReceivesStderr, SeesTerminal, SeesTrouble, SeesDeadline, LeavesLoop
  <2> QED BY <1>0, <2>1, <2>2
<1>4. CASE ParserEnds
  BY <1>0, <1>4 DEF ParserEnds, loopVars, seenVars, errVars
<1>5. CASE CopierEnds \/ Overflows \/ Escapes
  BY <1>0, <1>5 DEF CopierEnds, Overflows, Escapes, loopVars, seenVars, errVars
<1>6. CASE CallsFinish \/ Returns \/ TimerFires
  BY <1>0, <1>6 DEF CallsFinish, Returns, TimerFires, pipeVars, seenVars, errVars
<1>7. CASE UNCHANGED <<pipeVars, loopVars>>
  BY <1>0, <1>7 DEF pipeVars, loopVars, seenVars, errVars
<1> QED BY <1>1, <1>2, <1>3, <1>4, <1>5, <1>6, <1>7 DEF TestNext, Loop, vars

\* A failure and the end of the context stay.
LEMMA FailureStays ==
    ASSUME TestInv, [TestNext]_vars
    PROVE  (failure => failure') /\ (ctxDone => ctxDone')
<1>1. [Next]_childVars
  BY TestStep DEF TestInv
<1> USE DEF kernelVars, fieldVars, finishVars
<1>2. ASSUME NEW seal, AbortLocked(seal, failure) \/ AbortLocked(seal, TRUE)
      PROVE  failure => failure'
  BY <1>2, Zenon DEF AbortLocked
<1>3. CASE CallerAborts \/ WatcherAborts
  <2>1. AbortLocked(sealed, failure) /\ ctxDone' = ctxDone
    BY <1>3 DEF CallerAborts, WatcherAborts, Abort
  <2>2. failure => failure'
    BY <1>2, <2>1
  <2> QED BY <2>1, <2>2
<1>4. CASE Record
  <2>1. /\ ctxDone' = ctxDone
        /\ failure' = failure \/ AbortLocked(LostSeals, TRUE)
    BY <1>4 DEF Record
  <2>2. failure => failure'
    BY <1>2, <2>1, Zenon
  <2> QED BY <2>1, <2>2
<1>5. CASE FinishBegins
  <2>1. /\ ctxDone' = ctxDone
        /\ failure' = failure \/ AbortLocked(sealed, TRUE)
    BY <1>5 DEF FinishBegins
  <2>2. failure => failure'
    BY <1>2, <2>1, Zenon
  <2> QED BY <2>1, <2>2
<1>6. CASE FinishSeals
  <2>1. failure => failure'
    BY <1>6, Zenon DEF FinishSeals
  <2> QED BY <1>6, <2>1 DEF FinishSeals
<1>7. CASE Observe \/ WatcherWakes \/ FinishWaits
  BY <1>7 DEF Observe, WatcherWakes, FinishWaits
<1>8. CASE FinishProbes \/ FinishStopsWatch \/ FinishReturns
  BY <1>8 DEF FinishProbes, FinishStopsWatch, FinishReturns
<1>9. CASE Outside
  BY <1>9 DEF Outside, Environment, Dies
<1>10. CASE UNCHANGED childVars
  BY <1>10 DEF childVars
<1> QED BY <1>1, <1>3, <1>4, <1>5, <1>6, <1>7, <1>8, <1>9, <1>10 DEF Next, ChildStep

\* A turn that makes the first attempt to abort has one of these reasons, and the
\* deadline only runs when there was none.
LEMMA TurnTried ==
    ASSUME NEW parsed, NEW drained, NEW terminated, NEW wants,
           Turn(parsed, drained, terminated, wants)
    PROVE  /\ tried' => tried \/ wants \/ closeErr' \/ overflow
           /\ closeErr => closeErr'
           /\ timer' # "off" => ~tried' /\ (timer # "off" \/ parsed)
<1>1. PICK aborts : /\ aborts => wants \/ closeErr' \/ overflow
                    /\ tried' = (tried \/ aborts)
                    /\ timer' = CASE drained \/ tried \/ aborts -> "off"
                                  [] ~(drained \/ tried \/ aborts) /\ timer = "off"
                                     /\ parsed /\ terminated -> "armed"
                                  [] OTHER -> timer
  <2> DEFINE aborts == wants \/ closeErr' \/ (overflow /\ ~overflowed)
  <2>1. /\ tried' = (tried \/ aborts)
        /\ timer' = CASE drained \/ tried \/ aborts -> "off"
                      [] ~(drained \/ tried \/ aborts) /\ timer = "off"
                         /\ parsed /\ terminated -> "armed"
                      [] OTHER -> timer
    BY Zenon DEF Turn, AbortOnce
  <2>2. aborts => wants \/ closeErr' \/ overflow
    OBVIOUS
  <2> QED BY <2>1, <2>2, Zenon
<1>2. tried' => tried \/ wants \/ closeErr' \/ overflow
  BY <1>1, Zenon
<1>3. closeErr => closeErr'
  BY Zenon DEF Turn
<1>4. ASSUME timer' # "off" PROVE ~tried' /\ (timer # "off" \/ parsed)
  <2>1. ~(drained \/ tried \/ aborts)
    BY <1>1, <1>4
  <2>2. ~tried'
    BY <1>1, <2>1, Zenon
  <2>3. timer # "off" \/ parsed
    BY <1>1, <1>4, <2>1
  <2> QED BY <2>2, <2>3
<1> QED BY <1>2, <1>3, <1>4

\* Nothing but a failure makes the loop close stdout before the parser is done.
LEMMA TestTorn == ASSUME TestInv, [TestNext]_vars PROVE TornInv'
<1>0. /\ TornInv /\ ParserInv
      /\ (failure => failure') /\ (ctxDone => ctxDone')
  BY FailureStays DEF TestInv
<1>1. ASSUME NEW parsed, NEW drained, NEW terminated, NEW wants,
             Turn(parsed, drained, terminated, wants),
             parsed = parseSeen \/ parsed = TRUE,
             parseSeen => parsed,
             copyErr => copyErr', copyErr' => drained,
             loop' # "starting",
             wants /\ ~tried /\ parser \in {"reading", "cut", "torn"} =>
                failure \/ closeErr \/ copyErr' \/ ctxDone \/ overflow
      PROVE  TornInv'
  <2>1. /\ parseSeen' = parsed /\ stderrSeen' = drained
        /\ UNCHANGED <<parser, overflow, ctxDone>>
        /\ tried => tried'
    BY <1>1, TurnFacts
  <2>2. /\ tried' => tried \/ wants \/ closeErr' \/ overflow
        /\ closeErr => closeErr'
        /\ timer' # "off" => ~tried' /\ (timer # "off" \/ parsed)
    BY <1>1, TurnTried
  <2>3. tried' /\ parser' \in {"reading", "cut", "torn"} =>
           failure' \/ closeErr' \/ copyErr' \/ ctxDone' \/ overflow'
    BY <1>0, <1>1, <2>1, <2>2 DEF TornInv
  <2>4. timer' # "off" => parseSeen' /\ ~tried'
    BY <1>0, <1>1, <2>1, <2>2 DEF TornInv
  <2> QED BY <1>1, <2>1, <2>3, <2>4 DEF TornInv
<1>2. CASE Starts
  <2>1. /\ tried' = closeErr /\ closeErr' = closeErr /\ copyErr' = copyErr
        /\ UNCHANGED <<timer, stderrSeen>> /\ timer = "off"
    BY <1>0, <1>2 DEF Starts, TornInv, errVars, seenVars
  <2> QED BY <1>0, <2>1 DEF TornInv
<1>3. CASE ReceivesParse
  <2>1. /\ Turn(TRUE, stderrSeen, terminalSeen, ParseFailed)
        /\ loop' = loop /\ loop = "running" /\ copyErr' = copyErr
        /\ parser # "reading"
    BY <1>3 DEF ReceivesParse
  <2>2. ~(~tried /\ parser \in {"reading", "cut", "torn"})
    BY <1>0, <2>1 DEF ParserInv
  <2> QED BY <1>0, <1>1, <2>1, <2>2 DEF TornInv
<1>4. CASE ReceivesStderr \/ (SeesDeadline /\ stderr # "open")
  <2>1. /\ Turn(parseSeen, TRUE, terminalSeen, CopyFailed)
        /\ loop' = loop /\ loop = "running" /\ copyErr' = CopyFailed
    BY <1>4 DEF ReceivesStderr, SeesDeadline
  <2>2. ~copyErr
    BY <1>0, <1>4 DEF ReceivesStderr, SeesDeadline, TornInv, TestInv, StderrInv
  <2> QED BY <1>1, <2>1, <2>2
<1>5. CASE SeesTerminal
  <2>1. /\ Turn(parseSeen, stderrSeen, TRUE, FALSE)
        /\ loop' = loop /\ loop = "running" /\ copyErr' = copyErr
    BY <1>5 DEF SeesTerminal
  <2> QED BY <1>0, <1>1, <2>1 DEF TornInv
<1>6. CASE SeesTrouble
  <2>1. loop' = loop /\ loop = "running" /\ copyErr' = copyErr /\ ~tried
    BY <1>6 DEF SeesTrouble
  <2>2. CASE (aborted \/ ctxDone) /\ Turn(parseSeen, stderrSeen, terminalSeen, TRUE)
    <3>1. failure \/ ctxDone
      BY <2>1, <2>2 DEF TestInv, ReasonInv
    <3> QED BY <1>0, <1>1, <2>1, <2>2, <3>1 DEF TornInv
  <2>3. CASE Turn(parseSeen, stderrSeen, terminalSeen, FALSE)
    BY <1>0, <1>1, <2>1, <2>3 DEF TornInv
  <2> QED BY <1>6, <2>2, <2>3 DEF SeesTrouble
<1>7. CASE SeesDeadline /\ stderr = "open"
  <2>1. /\ Turn(parseSeen, stderrSeen, terminalSeen, TRUE)
        /\ loop' = loop /\ loop = "running" /\ copyErr' = copyErr
        /\ timer = "fired"
    BY <1>7 DEF SeesDeadline
  <2>2. ~tried /\ parser \notin {"reading", "cut", "torn"}
    BY <1>0, <2>1 DEF TornInv, ParserInv
  <2> QED BY <1>0, <1>1, <2>1, <2>2 DEF TornInv
<1>8. CASE LeavesLoop
  <2>1. /\ Turn(parseSeen, stderrSeen, terminalSeen, ctxDone)
        /\ loop' = "closing" /\ copyErr' = copyErr
    BY <1>8 DEF LeavesLoop
  <2> QED BY <1>0, <1>1, <2>1 DEF TornInv
<1>9. CASE ParserEnds
  <2>1. parser = "reading" /\ UNCHANGED <<childVars, overflow, loopVars>>
    BY <1>9 DEF ParserEnds
  <2>2. tried' /\ parser' \in {"reading", "cut", "torn"} =>
           failure' \/ closeErr' \/ copyErr' \/ ctxDone' \/ overflow'
    BY <1>0, <2>1 DEF TornInv, loopVars, errVars
  <2> QED BY <1>0, <2>1, <2>2 DEF TornInv, loopVars, seenVars, errVars
<1>10. CASE CopierEnds \/ Overflows \/ Escapes
  <2>1. UNCHANGED <<parser, loopVars>> /\ (overflow => overflow')
    BY <1>10 DEF CopierEnds, Overflows, Escapes
  <2> QED BY <1>0, <2>1 DEF TornInv, loopVars, seenVars, errVars
<1>11. CASE TimerFires
  BY <1>0, <1>11 DEF TimerFires, TornInv, childVars, pipeVars, seenVars, errVars
<1>12. CASE CallsFinish \/ Returns
  <2>1. UNCHANGED <<parser, overflow, timer, parseSeen, stderrSeen, tried, closeErr,
                    copyErr>> /\ loop' # "starting"
    BY <1>12 DEF CallsFinish, Returns, pipeVars, seenVars, errVars
  <2> QED BY <1>0, <2>1 DEF TornInv
<1>13. CASE UNCHANGED <<pipeVars, loopVars>>
  BY <1>0, <1>13 DEF TornInv, pipeVars, loopVars, seenVars, errVars
<1> QED
  BY <1>2, <1>3, <1>4, <1>5, <1>6, <1>7, <1>8, <1>9, <1>10, <1>11, <1>12, <1>13
  DEF TestNext, Loop, vars

LEMMA TestStderr == ASSUME TestInv, [TestNext]_vars PROVE StderrInv'
<1>0. StderrInv
  BY DEF TestInv
<1> USE DEF StderrInv
<1>1. CASE Starts
  BY <1>0, <1>1 DEF Starts, TestInv, LoopInv, seenVars, errVars
<1>2. CASE ReceivesStderr \/ (SeesDeadline /\ stderr # "open")
  <2>1. /\ stderrSeen' = TRUE /\ copyErr' = CopyFailed /\ stderr # "open"
        /\ tried => tried'
        /\ timer' = "off"
        /\ stderr' = stderr
    BY <1>2, TurnFacts DEF ReceivesStderr, SeesDeadline
  <2> QED BY <1>0, <2>1 DEF CopyFailed
<1>3. CASE \/ ReceivesParse \/ SeesTerminal \/ SeesTrouble \/ LeavesLoop
           \/ SeesDeadline /\ stderr = "open"
  <2>1. /\ stderrSeen' = stderrSeen
        /\ tried => tried'
        /\ stderrSeen => timer' = "off"
        /\ stderr' = stderr \/ (stderr = "open" /\ stderr' = "cut" /\ tried')
    BY <1>3, TurnFacts DEF ReceivesParse, SeesTerminal, SeesTrouble, SeesDeadline,
       LeavesLoop
  <2>2. copyErr' = copyErr
    BY <1>3 DEF ReceivesParse, SeesTerminal, SeesTrouble, SeesDeadline, LeavesLoop
  <2> QED BY <1>0, <2>1, <2>2
<1>4. CASE CopierEnds
  BY <1>0, <1>4 DEF CopierEnds, loopVars, seenVars, errVars
<1>5. CASE ParserEnds \/ Overflows \/ Escapes
  BY <1>0, <1>5 DEF ParserEnds, Overflows, Escapes, loopVars, seenVars, errVars
<1>6. CASE CallsFinish \/ Returns \/ TimerFires
  BY <1>0, <1>6 DEF CallsFinish, Returns, TimerFires, pipeVars, seenVars, errVars
<1>7. CASE UNCHANGED <<pipeVars, loopVars>>
  BY <1>0, <1>7 DEF pipeVars, loopVars, seenVars, errVars
<1> QED BY <1>1, <1>2, <1>3, <1>4, <1>5, <1>6, <1>7 DEF TestNext, Loop, vars

---------------------------------------------------------------------------
(* The answer *)

\* When the command passes, no abort happened and nothing was cut or lost.
LEMMA TestAnswer == ASSUME TestInv, Returns PROVE AnswerInv'
<1>1. /\ finish = "returned" /\ parseSeen /\ stderrSeen
      /\ UNCHANGED <<childVars, pipeVars>>
      /\ result' = Answer
  BY DEF Returns, TestInv, LoopInv
<1>2. result' \in Outcomes
  BY <1>1 DEF Answer, Outcomes
<1>3. ASSUME result' = "passed"
      PROVE  PassedIsWhole' /\ finish' = "returned"
  <2>1. /\ ~overflow /\ ~ctxDone /\ ~parseErr /\ waitErr # "failed"
        /\ ~CleanupFailed /\ ~copyErr /\ ~tried
    BY <1>1, <1>3 DEF Answer, Incomplete
  <2>2. ~aborted
    BY <2>1 DEF TestInv, ReasonInv, CleanupFailed
  <2>3. ~lost /\ leader = "reaped" /\ ~group
    BY <1>1, <2>1 DEF TestInv, ChildInv, StageInv, CleanupFailed, AfterWait, AfterProbe
  <2>4. waitErr = "ok"
    BY <1>1, <2>1, <2>3 DEF TestInv, ReasonInv, AfterWait
  <2>5. parser = "ok"
    BY <1>1, <2>1 DEF TestInv, ParserInv
  <2>6. stderr = "eof"
    BY <1>1, <2>1 DEF TestInv, StderrInv
  <2> QED BY <1>1, <2>1, <2>2, <2>3, <2>4, <2>5, <2>6
          DEF PassedIsWhole, childVars, kernelVars, fieldVars, finishVars, pipeVars
<1>4. ASSUME result' = "malformed" PROVE Explained'
  <2>1. parseErr /\ ~overflow /\ ~ctxDone
    BY <1>1, <1>4 DEF Answer
  <2>2. parser = "torn" => failure \/ closeErr \/ copyErr
    BY <2>1 DEF TestInv, ParserInv, TornInv
  <2>3. Explained
    BY <2>1, <2>2 DEF Explained, TestInv, ParserInv
  <2>4. UNCHANGED <<parser, failure, closeErr, copyErr>>
    BY DEF Returns, childVars, fieldVars, pipeVars, errVars
  <2> QED BY <2>3, <2>4 DEF Explained
<1> QED BY <1>2, <1>3, <1>4 DEF AnswerInv

\* Nothing that an answer speaks of changes afterwards.
LEMMA AnswerStays == ASSUME TestInv, [TestNext]_vars, ~Returns PROVE AnswerInv'
<1>1. result' = result
  <2>1. CASE \/ ReceivesParse \/ ReceivesStderr \/ SeesTerminal \/ SeesTrouble
             \/ SeesDeadline \/ LeavesLoop
    BY <2>1, TurnFacts DEF ReceivesParse, ReceivesStderr, SeesTerminal, SeesTrouble,
       SeesDeadline, LeavesLoop
  <2>2. CASE \/ Starts \/ CallsFinish \/ TimerFires \/ ParserEnds \/ CopierEnds
             \/ Overflows \/ Escapes \/ UNCHANGED loopVars
    BY <2>2 DEF Starts, CallsFinish, TimerFires, ParserEnds, CopierEnds, Overflows,
       Escapes, loopVars
  <2> QED BY <2>1, <2>2 DEF TestNext, Loop, vars
<1>2. CASE result = "none"
  BY <1>1, <1>2 DEF AnswerInv
<1>3. CASE result # "none"
  <2>1. loop = "returned"
    BY <1>3 DEF TestInv, LoopInv
  <2>2. ~Loop /\ timer = "off"
    BY <2>1 DEF Loop, Starts, ReceivesParse, ReceivesStderr, SeesTerminal, SeesTrouble,
       SeesDeadline, LeavesLoop, CallsFinish, Returns, TestInv, LoopInv, StderrInv
  <2>3. /\ parser # "reading" /\ stderr # "open"
    BY <2>1 DEF TestInv, LoopInv, ParserInv, StderrInv
  <2>4. UNCHANGED <<parser, stderr, overflow>>
    BY <2>2, <2>3 DEF TestNext, TimerFires, ParserEnds, CopierEnds, Overflows, Escapes,
       vars, pipeVars
  <2>5. ChildStep \/ Outside \/ UNCHANGED childVars
    BY <2>2, <2>3 DEF TestNext, TimerFires, ParserEnds, CopierEnds, Overflows, Escapes,
       vars
  <2>6. ASSUME result = "passed"
        PROVE  PassedIsWhole' /\ finish' = "returned"
    <3>1. /\ parser = "ok" /\ stderr = "eof" /\ ~overflow /\ ~aborted /\ ~lost
          /\ waitErr = "ok" /\ leader = "reaped" /\ ~group /\ finish = "returned"
          /\ observer = "done" /\ watcher = "done"
      BY <2>6 DEF TestInv, AnswerInv, PassedIsWhole, ChildInv, StageInv
    <3>2. CASE ChildStep
      BY <3>1, <3>2 DEF ChildStep, Observe, Record, WatcherWakes, WatcherAborts,
         FinishSeals, FinishWaits, FinishProbes, FinishStopsWatch, FinishReturns
    <3>3. CASE Outside
      <4>1. UNCHANGED <<aborted, lost, waitErr, finish>> /\ leader' = "reaped" /\ ~group'
        BY <3>1, <3>3 DEF Outside, Environment, Dies, Exited, kernelVars, fieldVars,
           finishVars
      <4> QED BY <2>4, <3>1, <4>1 DEF PassedIsWhole
    <3>4. CASE UNCHANGED childVars
      <4>1. UNCHANGED <<aborted, lost, waitErr, finish, leader, group>>
        BY <3>4 DEF childVars, kernelVars, fieldVars, finishVars
      <4> QED BY <2>4, <3>1, <4>1 DEF PassedIsWhole
    <3> QED BY <2>5, <3>2, <3>3, <3>4
  <2>7. ASSUME result = "malformed" PROVE Explained'
    <3>1. UNCHANGED <<closeErr, copyErr>>
      BY <2>2, <2>3 DEF TestNext, TimerFires, ParserEnds, CopierEnds, Overflows, Escapes,
         vars, loopVars, errVars
    <3>2. failure => failure'
      BY FailureStays
    <3> QED BY <2>4, <2>7, <3>1, <3>2 DEF TestInv, AnswerInv, Explained
  <2> QED BY <1>1, <2>6, <2>7 DEF TestInv, AnswerInv
<1> QED BY <1>2, <1>3

LEMMA TestNext_Inv == TestInv /\ [TestNext]_vars => TestInv'
<1> SUFFICES ASSUME TestInv, [TestNext]_vars PROVE TestInv'
  OBVIOUS
<1>1. LoopInv'
  BY TestNext_LoopInv DEF TestInv
<1>2. ChildInv'
  BY TestStep, Next_Inv DEF TestInv
<1>3. ReasonInv' /\ ParserInv' /\ TornInv' /\ StderrInv'
  BY TestReason, TestParser, TestTorn, TestStderr
<1>4. AnswerInv'
  BY AnswerStays, TestAnswer
<1> QED BY <1>1, <1>2, <1>3, <1>4 DEF TestInv

\* A suite that passes was seen whole: no abort, cut, overflow, deadline, failed
\* close or lost child is ever taken for success.
THEOREM PassedAlwaysWhole == TestSpec => []PassedIsWhole
<1>1. TestInv => PassedIsWhole
  BY DEF TestInv, AnswerInv, PassedIsWhole
<1> QED BY <1>1, TestInit_Inv, TestNext_Inv, PTL DEF TestSpec

\* The events are blamed for a defect of theirs; a line torn by our own close is
\* blamed only with the failed close, copy or child that made the loop close stdout.
THEOREM MalformedAlwaysExplained == TestSpec => []MalformedIsExplained
<1>1. TestInv => MalformedIsExplained
  BY DEF TestInv, AnswerInv, Explained, MalformedIsExplained, CleanupFailed
<1> QED BY <1>1, TestInit_Inv, TestNext_Inv, PTL DEF TestSpec
===========================================================================
