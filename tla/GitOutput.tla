---------------------------- MODULE GitOutput ----------------------------
(***************************************************************************)
(* gitOutput of src/internal/tools/repositorysnapshot: runs git as a       *)
(* retained child, copies its two pipes into bounded buffers, and answers  *)
(* with the output only if nothing was cut off.                            *)
(*                                                                         *)
(* One copier goroutine per stream reports on a channel; the caller's loop *)
(* selects among them, the child's Terminal and Aborted channels, the      *)
(* overflow signals and the drain deadline, and then calls Finish.  A      *)
(* descendant of git may keep the pipes open after git is gone, inside its *)
(* process group or, having left it, out of reach of every signal.         *)
(***************************************************************************)
EXTENDS RetainedChild

Stream == {"stdout", "stderr"}

VARIABLES
    stream,    \* per pipe: open, eof, broken (read error), cut (we closed it)
    exceeded,  \* the streams whose buffer overflowed
    got,       \* the streams whose completion the loop has received
    escaped,   \* a descendant outside the group holds the pipes
    loop,      \* starting, running, finishing, returned
    terminalSeen, abortSeen,
    timer,     \* the drain deadline: off, armed, fired, spent
    streamErr, \* record was called with an error
    result     \* what gitOutput returned, or none

loopVars   == <<got, loop, terminalSeen, abortSeen, timer, streamErr, result>>
streamVars == <<stream, exceeded, escaped>>
vars == <<childVars, streamVars, loopVars>>

Ended(s) == stream[s] # "open"

---------------------------------------------------------------------------
(* The loop of the caller *)

\* record(err) and the overflow check at the end of an iteration both abort.
AbortIf(condition) ==
    /\ \/ condition /\ Abort
       \/ ~condition /\ UNCHANGED <<kernelVars, fieldVars>>
    /\ UNCHANGED <<ctxDone, observer, watcher, finishVars>>

\* A completion is an error unless it is an end of file, or the read error of
\* a pipe that the loop closed itself.
IsError(s) == stream[s] = "broken" \/ (stream[s] = "cut" /\ ~abortSeen)

Starts ==
    /\ loop = "starting" /\ loop' = "running"
    /\ AbortIf(ctxDone)
    /\ UNCHANGED <<streamVars, got, terminalSeen, abortSeen, timer, streamErr, result>>

Receives(s) ==
    /\ loop = "running" /\ s \notin got /\ Ended(s)
    /\ got' = got \cup {s}
    /\ streamErr' = (streamErr \/ IsError(s))
    /\ AbortIf(IsError(s) \/ exceeded # {})
    /\ UNCHANGED <<streamVars, loop, terminalSeen, abortSeen, timer, result>>

ArmsTimer == ~abortSeen

SeesTerminal ==
    /\ loop = "running" /\ terminal /\ ~terminalSeen
    /\ terminalSeen' = TRUE
    /\ timer' = IF ArmsTimer THEN "armed" ELSE timer
    /\ AbortIf(exceeded # {})
    /\ UNCHANGED <<streamVars, got, loop, abortSeen, streamErr, result>>

SeesOverflow ==
    /\ loop = "running" /\ exceeded # {} /\ ~aborted
    /\ AbortIf(TRUE)
    /\ UNCHANGED <<streamVars, loopVars>>

LeaveOpenVariant == stream
Cut == [s \in Stream |-> IF Ended(s) THEN stream[s] ELSE "cut"]

SeesAbort ==
    /\ loop = "running" /\ aborted /\ ~abortSeen
    /\ abortSeen' = TRUE
    /\ timer' = IF timer \in {"armed", "fired"} THEN "off" ELSE timer
    /\ stream' = Cut
    /\ AbortIf(exceeded # {})
    /\ UNCHANGED <<exceeded, escaped, got, loop, terminalSeen, streamErr, result>>

\* The deadline takes the completions that are already there; a stream that is
\* still open is an error.
SeesDeadline ==
    /\ loop = "running" /\ timer = "fired" /\ timer' = "spent"
    /\ got' = got \cup {s \in Stream : Ended(s)}
    /\ LET failed == \E s \in Stream \ got : IsError(s) \/ ~Ended(s) IN
          /\ streamErr' = (streamErr \/ failed)
          /\ AbortIf(failed \/ exceeded # {})
    /\ UNCHANGED <<streamVars, loop, terminalSeen, abortSeen, result>>

TimerFires ==
    /\ timer = "armed" /\ timer' = "fired"
    /\ UNCHANGED <<childVars, streamVars, got, loop, terminalSeen, abortSeen,
                   streamErr, result>>

LoopIsOver == got = Stream /\ (terminalSeen \/ abortSeen)

CallsFinish ==
    /\ loop = "running" /\ LoopIsOver
    /\ loop' = "finishing"
    /\ FinishBegins
    /\ stream' = Cut
    /\ UNCHANGED <<exceeded, escaped, got, terminalSeen, abortSeen, timer,
                   streamErr, result>>

ForgetStreamsVariant ==
    CASE CleanupFailed -> "cleanup failed"
      [] ~CleanupFailed /\ ctxDone -> "cancelled"
      [] ~CleanupFailed /\ ~ctxDone /\ exceeded # {} -> "overflow"
      [] ~CleanupFailed /\ ~ctxDone /\ exceeded = {} /\ waitErr = "failed" -> "git failed"
      [] OTHER -> "output"

\* The errors in the order in which gitOutput looks for them.
Answer ==
    CASE CleanupFailed -> "cleanup failed"
      [] ~CleanupFailed /\ ctxDone -> "cancelled"
      [] ~CleanupFailed /\ ~ctxDone /\ exceeded # {} -> "overflow"
      [] ~CleanupFailed /\ ~ctxDone /\ exceeded = {} /\ waitErr = "failed" -> "git failed"
      [] ~CleanupFailed /\ ~ctxDone /\ exceeded = {} /\ waitErr # "failed"
         /\ streamErr -> "stream failed"
      [] OTHER -> "output"

Returns ==
    /\ loop = "finishing" /\ finish = "returned"
    /\ loop' = "returned" /\ result' = Answer
    /\ UNCHANGED <<childVars, streamVars, got, terminalSeen, abortSeen, timer,
                   streamErr>>

---------------------------------------------------------------------------
(* The copiers, and the processes at the other end of the pipes *)

Writers == leader = "running" \/ group \/ escaped

CopierEnds(s) ==
    /\ ~Ended(s)
    /\ \/ ~Writers /\ stream' = [stream EXCEPT ![s] = "eof"]
       \/ Refusing /\ stream' = [stream EXCEPT ![s] = "broken"]
    /\ UNCHANGED <<childVars, exceeded, escaped, loopVars>>

Overflows(s) ==
    /\ ~Ended(s) /\ Writers /\ s \notin exceeded
    /\ exceeded' = exceeded \cup {s}
    /\ UNCHANGED <<childVars, stream, escaped, loopVars>>

\* A member of the group leaves it, or an escaped one ends.
Escapes ==
    /\ \/ (leader = "running" \/ group) /\ ~doomed /\ escaped' = TRUE
       \/ escaped /\ escaped' = FALSE
    /\ UNCHANGED <<childVars, stream, exceeded, loopVars>>

---------------------------------------------------------------------------
GitInit ==
    /\ ChildInit
    /\ stream = [s \in Stream |-> "open"] /\ exceeded = {} /\ escaped = FALSE
    /\ got = {} /\ loop = "starting"
    /\ terminalSeen = FALSE /\ abortSeen = FALSE /\ timer = "off"
    /\ streamErr = FALSE /\ result = "none"

Loop ==
    \/ Starts \/ SeesTerminal \/ SeesOverflow \/ SeesAbort \/ SeesDeadline
    \/ CallsFinish \/ Returns
    \/ \E s \in Stream : Receives(s)

GitNext ==
    \/ Loop \/ TimerFires \/ Escapes
    \/ \E s \in Stream : CopierEnds(s) \/ Overflows(s)
    \/ (ChildStep \/ Outside) /\ UNCHANGED <<streamVars, loopVars>>

GitSpec == GitInit /\ [][GitNext]_vars

\* The loop, the copiers and the runtime timer are scheduled; git itself, its
\* descendants and the context owe nothing.
GitFairness ==
    /\ ChildFairness
    /\ WF_vars(Loop) /\ WF_vars(TimerFires)
    /\ \A s \in Stream : WF_vars(CopierEnds(s))

GitFairSpec == GitSpec /\ GitFairness

---------------------------------------------------------------------------
\* gitOutput answers with output only if git exited with success by itself, both
\* pipes were read to their end, and no process of its group is left.
OutputIsWhole ==
    result = "output" =>
        /\ \A s \in Stream : stream[s] = "eof"
        /\ exceeded = {} /\ ~abortSeen
        /\ waitErr = "ok" /\ ~group

\* Once git is gone gitOutput returns, even if a descendant that escaped from the
\* group keeps both pipes open for ever, unless signals are refused.
GitGoneReturns == leader # "running" ~> result # "none"

\* Once the context ends gitOutput returns, however long git would run.
CancelledReturns == ctxDone ~> result # "none"

\* Both ways in which gitOutput must end.
GitReturns == GitGoneReturns /\ CancelledReturns
===========================================================================
