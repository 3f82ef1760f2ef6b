--------------------------- MODULE TestCommand ---------------------------
(***************************************************************************)
(* waitGoTestCommand of src/internal/tools/commandoracle: runs go test as  *)
(* a retained child, parses the events on its stdout, drains its stderr    *)
(* into a bounded counter, and reports success only if all of it was seen. *)
(*                                                                         *)
(* A parser and a copier goroutine report once each; the caller's loop     *)
(* selects among them, the child's Terminal and Aborted channels, the      *)
(* overflow, the context and the deadline of stderr, which runs only once  *)
(* the child is terminal and stdout parsed.  The first abort of the loop   *)
(* kills the group and closes both pipes.  Processes that left the group   *)
(* may hold either pipe open.                                              *)
(***************************************************************************)
EXTENDS RetainedChild

VARIABLES
    parser,       \* reading, ok, bad (an event), unread (an error); our close
                  \* cut the read, after a whole line (cut) or within one (torn)
    stdoutClosed, \* we closed stdout
    stderr,       \* the copier: open, eof, broken (an error), cut
    overflow,     \* stderr exceeded its bound
    held,         \* pipes held by processes that left the group
    loop,         \* starting, running, closing, finishing, returned
    parseSeen, stderrSeen, terminalSeen, overflowed,    \* seen by the loop
    tried,        \* operationAbortAttempted
    timer,        \* the deadline of stderr: off, armed, fired
    parseErr, copyErr, closeErr,
    result        \* what waitGoTestCommand returned, or none

pipeVars == <<parser, stdoutClosed, stderr, overflow, held>>
seenVars == <<parseSeen, stderrSeen, terminalSeen, overflowed>>
errVars  == <<parseErr, copyErr, closeErr>>
loopVars == <<loop, seenVars, tried, timer, errVars, result>>
vars     == <<childVars, pipeVars, loopVars>>

---------------------------------------------------------------------------
(* The loop *)

LeaveStdoutVariant(parsed, aborts) == stdoutClosed \/ parsed
StdoutCloses(parsed, aborts) == stdoutClosed \/ parsed \/ aborts

\* abort: only the first attempt of the operation signals and closes.
AbortOnce(aborts) ==
    /\ \/ aborts /\ ~tried /\ Abort
       \/ ~(aborts /\ ~tried) /\ UNCHANGED <<kernelVars, fieldVars>>
    /\ tried' = (tried \/ aborts)
    /\ stderr' = IF (tried \/ aborts) /\ stderr = "open" THEN "cut" ELSE stderr
    /\ UNCHANGED <<ctxDone, observer, watcher, finishVars>>

\* One turn of the loop: what the select found, and then observeOverflow and
\* drainReady.  A pipe that the turn closes may fail to close.
Turn(parsed, drained, terminated, wants) ==
    LET overflows == overflow /\ ~overflowed
        closes == (parsed /\ ~parseSeen) \/ (drained /\ ~stderrSeen) \/ wants \/ overflows
    IN
    /\ parseSeen' = parsed /\ stderrSeen' = drained /\ terminalSeen' = terminated
    /\ overflowed' = (overflowed \/ overflow)
    /\ closeErr' \in {closeErr, closeErr \/ closes}
    /\ LET aborts == wants \/ closeErr' \/ overflows IN
         /\ AbortOnce(aborts)
         /\ stdoutClosed' = StdoutCloses(parsed, aborts)
         /\ timer' = CASE drained \/ tried \/ aborts -> "off"
                       [] ~(drained \/ tried \/ aborts) /\ timer = "off"
                          /\ parsed /\ terminated -> "armed"
                       [] OTHER -> timer
    /\ UNCHANGED <<parser, overflow, held, result>>

\* Start aborts a child whose context has ended; a writer that would not close
\* makes the loop begin with an abort of its own.
Starts ==
    /\ loop = "starting" /\ loop' = "running"
    /\ \/ (ctxDone \/ closeErr) /\ Abort
       \/ ~(ctxDone \/ closeErr) /\ UNCHANGED <<kernelVars, fieldVars>>
    /\ tried' = closeErr
    /\ stdoutClosed' = closeErr
    /\ stderr' = IF closeErr /\ stderr = "open" THEN "cut" ELSE stderr
    /\ UNCHANGED <<ctxDone, observer, watcher, finishVars, parser, overflow, held,
                   seenVars, timer, errVars, result>>

\* The loop forgives one decision after its own close, that of the read error.
\* What the scanner makes of the rest of a line it was reading is no read error
\* but an event that is no JSON, and stands.
BlameParserVariant == parser # "ok"
ParseFailed == parser \in {"bad", "unread", "torn"} \/ (parser = "cut" /\ ~tried)

ReceivesParse ==
    /\ loop = "running" /\ parser # "reading" /\ ~parseSeen
    /\ parseErr' = ParseFailed
    /\ Turn(TRUE, stderrSeen, terminalSeen, ParseFailed)
    /\ UNCHANGED <<loop, copyErr>>

CopyFailed == stderr = "broken" \/ (stderr = "cut" /\ ~tried)

ReceivesStderr ==
    /\ loop = "running" /\ stderr # "open" /\ ~stderrSeen
    /\ copyErr' = CopyFailed
    /\ Turn(parseSeen, TRUE, terminalSeen, CopyFailed)
    /\ UNCHANGED <<loop, parseErr>>

SeesTerminal ==
    /\ loop = "running" /\ terminal /\ ~terminalSeen
    /\ Turn(parseSeen, stderrSeen, TRUE, FALSE)
    /\ UNCHANGED <<loop, parseErr, copyErr>>

\* Abort of the child, end of the context, overflow.
SeesTrouble ==
    /\ loop = "running" /\ ~tried
    /\ \/ (aborted \/ ctxDone) /\ Turn(parseSeen, stderrSeen, terminalSeen, TRUE)
       \/ /\ overflow /\ ~overflowed
          /\ Turn(parseSeen, stderrSeen, terminalSeen, FALSE)
    /\ UNCHANGED <<loop, parseErr, copyErr>>

\* A completion that is already there wins against the deadline.
SeesDeadline ==
    /\ loop = "running" /\ timer = "fired"
    /\ IF stderr # "open"
         THEN /\ copyErr' = CopyFailed
              /\ Turn(parseSeen, TRUE, terminalSeen, CopyFailed)
         ELSE /\ Turn(parseSeen, stderrSeen, terminalSeen, TRUE)
              /\ UNCHANGED copyErr
    /\ UNCHANGED <<loop, parseErr>>

TimerFires ==
    /\ timer = "armed" /\ timer' = "fired"
    /\ UNCHANGED <<childVars, pipeVars, loop, seenVars, tried, errVars, result>>

LoopIsOver == parseSeen /\ stderrSeen /\ (terminalSeen \/ tried)

LeavesLoop ==
    /\ loop = "running" /\ LoopIsOver /\ loop' = "closing"
    /\ Turn(parseSeen, stderrSeen, terminalSeen, ctxDone)
    /\ UNCHANGED <<parseErr, copyErr>>

CallsFinish ==
    /\ loop = "closing" /\ loop' = "finishing"
    /\ FinishBegins
    /\ UNCHANGED <<pipeVars, seenVars, tried, timer, errVars, result>>

ForgetAbortVariant == CleanupFailed \/ closeErr \/ copyErr
Incomplete == CleanupFailed \/ closeErr \/ copyErr \/ tried

\* The primary error in the order of the switch, then the secondary ones.
Answer ==
    CASE overflow -> "overflow"
      [] ~overflow /\ ctxDone -> "timeout"
      [] ~overflow /\ ~ctxDone /\ parseErr -> "malformed"
      [] ~overflow /\ ~ctxDone /\ ~parseErr /\ (waitErr = "failed" \/ Incomplete) ->
           "suite failed"
      [] OTHER -> "passed"

Returns ==
    /\ loop = "finishing" /\ finish = "returned"
    /\ loop' = "returned" /\ result' = Answer
    /\ UNCHANGED <<childVars, pipeVars, seenVars, tried, timer, errVars>>

---------------------------------------------------------------------------
(* The goroutines at the pipes, and the processes behind them *)

Writers(pipe) == leader = "running" \/ group \/ pipe \in held

\* The parser may still find a bad event in what it read before the close.  When
\* the close cuts its read the scanner first delivers what it has of a line.
ParserEnds ==
    /\ parser = "reading"
    /\ \/ parser' = "bad"
       \/ parser' = "unread" /\ ~stdoutClosed
       \/ parser' = "ok" /\ ~stdoutClosed /\ ~Writers("stdout")
       \/ parser' \in {"cut", "torn"} /\ stdoutClosed
    /\ UNCHANGED <<childVars, stdoutClosed, stderr, overflow, held, loopVars>>

CopierEnds ==
    /\ stderr = "open"
    /\ \/ stderr' = "eof" /\ ~Writers("stderr")
       \/ stderr' = "broken"
    /\ UNCHANGED <<childVars, parser, stdoutClosed, overflow, held, loopVars>>

Overflows ==
    /\ stderr = "open" /\ Writers("stderr") /\ ~overflow /\ overflow' = TRUE
    /\ UNCHANGED <<childVars, parser, stdoutClosed, stderr, held, loopVars>>

\* A member of the group leaves it with some pipes, or such processes end.
Escapes ==
    /\ \/ /\ leader = "running" \/ group
          /\ ~doomed
          /\ held' \in SUBSET {"stdout", "stderr"}
       \/ held' \in SUBSET held
    /\ UNCHANGED <<childVars, parser, stdoutClosed, stderr, overflow, loopVars>>

---------------------------------------------------------------------------
TestInit ==
    /\ ChildInit
    /\ parser = "reading" /\ stdoutClosed = FALSE /\ stderr = "open"
    /\ overflow = FALSE /\ held = {}
    /\ loop = "starting"
    /\ parseSeen = FALSE /\ stderrSeen = FALSE /\ terminalSeen = FALSE
    /\ overflowed = FALSE /\ tried = FALSE /\ timer = "off"
    /\ parseErr = FALSE /\ copyErr = FALSE /\ closeErr \in BOOLEAN
    /\ result = "none"

Loop ==
    \/ Starts \/ ReceivesParse \/ ReceivesStderr \/ SeesTerminal \/ SeesTrouble
    \/ SeesDeadline \/ LeavesLoop \/ CallsFinish \/ Returns

TestNext ==
    \/ Loop \/ TimerFires \/ ParserEnds \/ CopierEnds \/ Overflows \/ Escapes
    \/ (ChildStep \/ Outside) /\ UNCHANGED <<pipeVars, loopVars>>

TestSpec == TestInit /\ [][TestNext]_vars

\* The loop, the goroutines and the runtime timer are scheduled; a reader only
\* has to end when its pipe was closed by us or by all who write to it.
TestFairness ==
    /\ ChildFairness
    /\ WF_vars(Loop) /\ WF_vars(TimerFires)
    /\ WF_vars(ParserEnds /\ (stdoutClosed \/ ~Writers("stdout")))
    /\ WF_vars(CopierEnds /\ ~Writers("stderr"))

TestFairSpec == TestSpec /\ TestFairness

---------------------------------------------------------------------------
\* A suite passes only if its events were parsed to the end of stdout, all of
\* stderr was drained, nothing was cut or aborted by us, and the child exited
\* with success and left no process in its group (execute.go, 215-325).
PassedIsWhole ==
    result = "passed" =>
        /\ parser = "ok" /\ stderr = "eof" /\ ~overflow
        /\ ~aborted /\ ~lost
        /\ waitErr = "ok" /\ leader = "reaped" /\ ~group

\* The events are called malformed when they were, or could not be read.  A line
\* torn by our own close is blamed too, but never alone: the failure that made us
\* close, of a pipe or of the child, is reported with it (execute.go, 215-332).
MalformedIsExplained ==
    result = "malformed" =>
        \/ parser \in {"bad", "unread"}
        \/ parser = "torn" /\ (closeErr \/ copyErr \/ CleanupFailed)

\* "Our failed-path close is not a new parser defect" (execute.go, 261): the events
\* are never called malformed because we closed the pipe ourselves.  The code does
\* not keep this: a line torn by the close decides the result.
OwnCloseIsNoDefect == result = "malformed" => parser \in {"bad", "unread"}

\* The command returns once go test is gone and its events are parsed, even
\* when a process that left the group holds stderr for ever, and it returns
\* when the context ends, whoever holds what.
SuiteReturns ==
    /\ (leader # "running" /\ parser # "reading") ~> result # "none"
    /\ ctxDone ~> result # "none"
===========================================================================
