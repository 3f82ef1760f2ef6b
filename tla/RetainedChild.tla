-------------------------- MODULE RetainedChild --------------------------
(***************************************************************************)
(* Child of src/internal/kernel/processgroup: the sole owner of one child  *)
(* process group, which it may signal by number only while the number is   *)
(* certain to name that group.                                             *)
(*                                                                         *)
(* Three goroutines share the Child under its mutex: the observer, which   *)
(* polls waitid(WNOWAIT) outside the mutex, the watcher, which aborts when *)
(* the context ends, and the caller, which may Abort and calls Finish.     *)
(* Each critical section is one action; the kernel's side (exits, reuse of *)
(* the number, a foreign reaper) interleaves with them.                    *)
(***************************************************************************)
EXTENDS Integers

CONSTANTS
    Refusing,   \* kill may fail, with EPERM or another error, and observe too
    Stealing    \* something else in this process may reap the child

ASSUME SwitchesAssumption == Refusing \in BOOLEAN /\ Stealing \in BOOLEAN

VARIABLES
    leader,     \* the child: running, exited with success or failure, reaped
    group,      \* another member of its process group is alive
    doomed,     \* the members have been sent SIGKILL
    reused,     \* the number now names a group that is none of ours
    stolen,     \* history: the child was reaped by something else
    stray,      \* history: a SIGKILL reached a group that is none of ours
    ctxDone,    \* the context has ended
    terminal, aborted, sealed, lost, failure,    \* fields of Child
    observer,   \* idle, the answer of observe not yet recorded, or done
    watcher,    \* waiting, woken by the context, done
    watchStop,  \* closed by Finish to end the watcher
    finish,     \* how far Finish is
    waitErr,    \* what Wait returned: none, ok, failed
    cleanupErr  \* what the absence probe returned

kernelVars == <<leader, group, doomed, reused, stolen, stray>>
signalVars == <<doomed, stray>>
fieldVars  == <<terminal, aborted, sealed, lost, failure>>
finishVars == <<watchStop, finish, waitErr, cleanupErr>>
childVars  == <<kernelVars, ctxDone, fieldVars, observer, watcher, finishVars>>

Exited == leader \in {"succeeded", "failed"}

\* No process answers to the number: kill says ESRCH.
Gone == leader = "reaped" /\ ~group /\ ~reused

---------------------------------------------------------------------------
(* Signals *)

\* killGroup, with err iff the error is neither ESRCH nor EPERM.
Signal(err) ==
    \/ Gone /\ ~err /\ UNCHANGED signalVars
    \/ ~Gone /\ reused /\ ~err /\ stray' = TRUE /\ UNCHANGED doomed
    \/ ~Gone /\ ~reused /\ ~err /\ doomed' = TRUE /\ UNCHANGED stray
    \/ ~Gone /\ Refusing /\ UNCHANGED signalVars

UnsealedVariant(seal, failed) ==
    /\ aborted' = TRUE
    /\ \/ aborted /\ failure' = failed /\ UNCHANGED signalVars
       \/ /\ ~aborted
          /\ \E err \in BOOLEAN : Signal(err) /\ failure' = (failed \/ err)

QuietSealVariant(seal, failed) ==
    /\ aborted' = (aborted \/ ~seal)
    /\ \/ (aborted \/ seal) /\ failure' = failed /\ UNCHANGED signalVars
       \/ /\ ~(aborted \/ seal)
          /\ \E err \in BOOLEAN : Signal(err) /\ failure' = (failed \/ err)

\* abortLocked: the first abort signals, unless the group is sealed.
AbortLocked(seal, failed) ==
    /\ aborted' = TRUE
    /\ \/ (aborted \/ seal) /\ failure' = failed /\ UNCHANGED signalVars
       \/ /\ ~(aborted \/ seal)
          /\ \E err \in BOOLEAN : Signal(err) /\ failure' = (failed \/ err)

Abort ==
    /\ AbortLocked(sealed, failure)
    /\ UNCHANGED <<leader, group, reused, stolen, terminal, sealed, lost>>

---------------------------------------------------------------------------
(* The observer *)

\* observeTerminal asks the kernel without holding the mutex ...
Observe ==
    /\ observer = "idle"
    /\ observer' \in (CASE leader = "running" -> {"running"}
                        [] Exited             -> {"terminal"}
                        [] OTHER              -> {"lost"})
                     \cup (IF Refusing THEN {"error"} ELSE {})
    /\ UNCHANGED <<kernelVars, ctxDone, fieldVars, watcher, finishVars>>

LostSeals == sealed \/ observer = "lost"

\* ... and records the answer under it.
Record ==
    /\ \/ /\ observer = "running" /\ observer' = "idle"
          /\ UNCHANGED <<kernelVars, fieldVars>>
       \/ /\ observer = "terminal" /\ observer' = "done"
          /\ terminal' = TRUE
          /\ UNCHANGED <<kernelVars, aborted, sealed, lost, failure>>
       \/ /\ observer \in {"error", "lost"} /\ observer' = "done"
          /\ lost' = (lost \/ observer = "lost")
          /\ sealed' = LostSeals
          /\ AbortLocked(LostSeals, TRUE)
          /\ UNCHANGED <<leader, group, reused, stolen, terminal>>
    /\ UNCHANGED <<ctxDone, watcher, finishVars>>

---------------------------------------------------------------------------
(* The watcher *)

WatcherWakes ==
    /\ watcher = "waiting"
    /\ \/ ctxDone /\ watcher' = "woken"
       \/ watchStop /\ watcher' = "done"
    /\ UNCHANGED <<kernelVars, ctxDone, fieldVars, observer, finishVars>>

WatcherAborts ==
    /\ watcher = "woken" /\ watcher' = "done"
    /\ Abort
    /\ UNCHANGED <<ctxDone, observer, finishVars>>

---------------------------------------------------------------------------
(* Finish *)

\* Finish aborts a child that is neither terminal nor aborted ...
FinishBegins ==
    /\ finish = "none" /\ finish' = "joinObserver"
    /\ \/ /\ terminal \/ aborted
          /\ UNCHANGED <<kernelVars, fieldVars>>
       \/ /\ ~(terminal \/ aborted)
          /\ AbortLocked(sealed, TRUE)
          /\ UNCHANGED <<leader, group, reused, stolen, terminal, sealed, lost>>
    /\ UNCHANGED <<ctxDone, observer, watcher, watchStop, waitErr, cleanupErr>>

ObserverJoined == observer = "done"

IgnoreLossVariant == FALSE
LossRevokes == lost

\* ... joins the observer, sweeps the group a last time and seals it ...
FinishSeals ==
    /\ finish = "joinObserver" /\ ObserverJoined
    /\ \/ /\ LossRevokes /\ finish' = "stopWatch"
          /\ UNCHANGED <<kernelVars, sealed, failure>>
       \/ /\ ~LossRevokes /\ finish' = "wait"
          /\ sealed' = TRUE
          /\ \E err \in BOOLEAN : Signal(err) /\ failure' = (failure \/ err)
          /\ UNCHANGED <<leader, group, reused, stolen>>
    /\ UNCHANGED <<ctxDone, terminal, aborted, lost, observer, watcher,
                   watchStop, waitErr, cleanupErr>>

WaitResult == IF leader = "succeeded" THEN "ok" ELSE "failed"

\* ... reaps the child ...
FinishWaits ==
    /\ finish = "wait" /\ leader # "running"
    /\ finish' = "absent"
    /\ waitErr' = WaitResult
    /\ leader' = "reaped"
    /\ UNCHANGED <<group, doomed, reused, stolen, stray, ctxDone, fieldVars,
                   observer, watcher, watchStop, cleanupErr>>

TrustSweepVariant == TRUE
ProbedAbsent == Gone

\* ... probes with signal 0 until nothing answers or the timeout is over ...
FinishProbes ==
    /\ finish = "absent" /\ finish' = "stopWatch"
    /\ cleanupErr' = ~ProbedAbsent
    /\ UNCHANGED <<kernelVars, ctxDone, fieldVars, observer, watcher,
                   watchStop, waitErr>>

LeaveWatchVariant == FALSE
ClosesWatch == TRUE

\* ... and ends and joins the watcher.
FinishStopsWatch ==
    /\ finish = "stopWatch" /\ finish' = "joinWatch"
    /\ watchStop' = ClosesWatch
    /\ UNCHANGED <<kernelVars, ctxDone, fieldVars, observer, watcher, waitErr,
                   cleanupErr>>

WatchJoined == watcher = "done"

FinishReturns ==
    /\ finish = "joinWatch" /\ WatchJoined
    /\ finish' = "returned"
    /\ UNCHANGED <<kernelVars, ctxDone, fieldVars, observer, watcher,
                   watchStop, waitErr, cleanupErr>>

\* What the caller gets: an error unless cleanup is certain.
CleanupFailed == failure \/ cleanupErr

---------------------------------------------------------------------------
(* The kernel and the outside *)

Environment ==
    \/ /\ leader = "running" /\ leader' \in {"succeeded", "failed"}
       /\ UNCHANGED <<group, doomed, reused, stolen, stray, ctxDone>>
    \/ /\ leader = "running" /\ ~doomed /\ group' = TRUE
       /\ UNCHANGED <<leader, doomed, reused, stolen, stray, ctxDone>>
    \/ /\ group /\ group' = FALSE
       /\ UNCHANGED <<leader, doomed, reused, stolen, stray, ctxDone>>
    \/ /\ Gone /\ reused' = TRUE
       /\ UNCHANGED <<leader, group, doomed, stolen, stray, ctxDone>>
    \/ /\ Stealing /\ Exited /\ leader' = "reaped" /\ stolen' = TRUE
       /\ UNCHANGED <<group, doomed, reused, stray, ctxDone>>
    \/ /\ ~ctxDone /\ ctxDone' = TRUE
       /\ UNCHANGED kernelVars

\* SIGKILL takes its time, but it is not ignored.
Dies ==
    /\ doomed
    /\ \/ leader = "running" /\ leader' = "failed" /\ UNCHANGED group
       \/ group /\ group' = FALSE /\ UNCHANGED leader
    /\ UNCHANGED <<doomed, reused, stolen, stray, ctxDone>>

Outside ==
    /\ Environment \/ Dies
    /\ UNCHANGED <<fieldVars, observer, watcher, finishVars>>

ChildInit ==
    /\ leader = "running" /\ group = FALSE /\ doomed = FALSE
    /\ reused = FALSE /\ stolen = FALSE /\ stray = FALSE /\ ctxDone = FALSE
    /\ terminal = FALSE /\ aborted = FALSE /\ sealed = FALSE /\ lost = FALSE
    /\ failure = FALSE
    /\ observer = "idle" /\ watcher = "waiting" /\ watchStop = FALSE
    /\ finish = "none" /\ waitErr = "none" /\ cleanupErr = FALSE

\* The goroutines of the Child, and the part of Finish that follows its start.
ChildStep ==
    \/ Observe \/ Record \/ WatcherWakes \/ WatcherAborts
    \/ FinishSeals \/ FinishWaits \/ FinishProbes \/ FinishStopsWatch
    \/ FinishReturns

\* A caller that aborts and finishes whenever it likes.
CallerAborts ==
    /\ finish = "none" /\ Abort
    /\ UNCHANGED <<ctxDone, observer, watcher, finishVars>>

Next == ChildStep \/ CallerAborts \/ FinishBegins \/ Outside

Spec == ChildInit /\ [][Next]_childVars

\* Goroutines are scheduled, and SIGKILL ends the processes it was sent to.
ChildFairness ==
    /\ WF_childVars(Observe) /\ WF_childVars(Record)
    /\ WF_childVars(WatcherWakes) /\ WF_childVars(WatcherAborts)
    /\ WF_childVars(FinishSeals \/ FinishWaits \/ FinishProbes
                    \/ FinishStopsWatch \/ FinishReturns)
    /\ WF_childVars(Dies /\ UNCHANGED <<fieldVars, observer, watcher, finishVars>>)

---------------------------------------------------------------------------
\* Whatever the order of late aborts, the sweep and the reap, a SIGKILL never
\* reaches a group that took over the number, unless the child was stolen.
NoStraySignal == stray => stolen

\* Once ownership is known to be lost the number is never used again, neither
\* to signal nor to wait.
LossRevokesTargeting == [][lost => UNCHANGED <<doomed, stray, waitErr>>]_childVars

\* A Finish that returns leaves no goroutine behind and no zombie of its own.
FinishJoins ==
    finish = "returned" =>
        /\ observer = "done" /\ watcher = "done"
        /\ lost \/ leader = "reaped"

\* A Finish that reports no error has reaped the child and emptied its group.
CleanReturnMeansGone ==
    finish = "returned" /\ ~CleanupFailed => ~lost /\ leader = "reaped" /\ ~group

\* Both together: what Finish says when it returns can be relied upon.
FinishIsConclusive == FinishJoins /\ CleanReturnMeansGone

\* If no signal is refused, Finish returns: what it joins always ends.
FinishReturnsEventually == finish = "joinObserver" ~> finish = "returned"

\* The end of the context is always acted upon: the child is aborted unless
\* Finish is already past it.
CancellationAborts == ctxDone ~> (aborted \/ finish = "returned")
===========================================================================
