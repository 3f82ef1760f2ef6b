---------------------- MODULE RepositoryTransaction ----------------------
(***************************************************************************)
(* The crash-recoverable multi-file transaction engine of                  *)
(* src/internal/kernel/repositorytransaction.                              *)
(*                                                                         *)
(* A plan rewrites an ordered list of target files of one repository, and  *)
(* its identity is the digest of what it found and of what it wants: two   *)
(* plans with the same content are the same transaction.  The engine keeps *)
(* its durable state in the control directory: `active`, the directory of  *)
(* the one unfinished transaction with its journal, staged objects and     *)
(* markers, and terminal tombstones `gc-<id>-<state>`, possibly renamed to *)
(* `retired-gc-...` while they are replaced.  A non-blocking flock on that *)
(* directory serialises the commands of cooperating processes; a process   *)
(* may die between any two file-system operations, any operation may fail  *)
(* before or after its effect, and a non-cooperating writer may edit a     *)
(* target at any moment.                                                   *)
(*                                                                         *)
(* Every command is a `run`: an ordered list of phases, one per helper the *)
(* Go code calls (tables ...Order below), executed by the lock holder.     *)
(***************************************************************************)
EXTENDS Integers

CONSTANTS
    Proc,        \* processes that may run a command
    N,           \* number of target files; the plan orders them 1..N
    Contents,    \* what a target may hold (content and mode together)
    Absent,      \* the content of a target that does not exist
    Desired,     \* the target vectors callers ask for
    D,           \* number of directories that may have to be created, 1..D
    Parents,     \* Parents[i]: the directories of 1..D above target i
    Above,       \* Above[d]: the directories of 1..D above directory d
    MaxFaults,   \* bound on failures, crashes and foreign edits together
    NoPlan, Nobody

Path == 1..N
Dir  == 1..D
Vector == [Path -> Contents]
Plan == [before : Vector, after : Vector, created : SUBSET Dir]

ASSUME SizesAssumption == N \in Nat \ {0} /\ D \in Nat /\ MaxFaults \in Nat
ASSUME ContentsAssumption == Absent \in Contents /\ Desired \subseteq Vector
ASSUME DirsAssumption ==
    /\ Parents \in [Path -> SUBSET Dir]
    /\ Above \in [Dir -> SUBSET Dir]
    /\ \A d \in Dir : \A e \in Above[d] : e < d
ASSUME NamesAssumption == NoPlan \notin Plan /\ Nobody \notin Proc

VARIABLES
    targets,   \* what each target file holds
    dirs,      \* which of the directories exist
    active,    \* the plan journalled in `active`, or NoPlan
    entries,   \* the other entries of `active`
    owned,     \* the directory ownership records in `active`
    tombs,     \* the terminal tombstones of the control directory
    lock,      \* the process that holds the transaction lock, or Nobody
    run,       \* which command the holder executes
    phase,     \* the phase it is in
    work,      \* the plan it has in memory
    pos,       \* the last target of the prefix it has published
    armed,     \* it has inspected target pos+1 (pos) and not yet replaced it
    pc,        \* "idle", or "preflight": apply checked the targets unlocked
    plan,      \* the plan each process has built
    last,      \* what the last command returned
    touched,   \* history: targets a foreign writer changed under the plan
    faults     \* how many faults have happened

repoVars    == <<targets, dirs>>
controlVars == <<active, entries, owned, tombs>>
jobVars     == <<lock, run, phase, work, pos, armed, last>>
callerVars  == <<pc, plan>>
vars == <<repoVars, controlVars, jobVars, callerVars, touched, faults>>

Entries == {"journal.tmp", "objects", "ready", "committed", "rolled-back",
            "resume", "rollback", "publish.tmp", "applied", "rolled_back"}
Tombstone == [id : Plan, state : {"applied", "rolled_back"},
              retired : BOOLEAN, rest : {"full", "receipt", "empty"}]
Results == {"none", "error", "applied", "rolled_back", "already_satisfied",
            "recovery_required", "cleanup_required", "durability_unknown"}

---------------------------------------------------------------------------
(* Classification of the target vector *)

Changed(pl) == {i \in Path : pl.before[i] # pl.after[i]}

\* The targets are the plan's `after` up to cut c and its `before` beyond it.
At(pl, c) ==
    \A i \in Path : targets[i] = IF i <= c THEN pl.after[i] ELSE pl.before[i]

Classified(pl) == \E c \in 0..N : At(pl, c)

\* The directories that would have to be created for the vector v.
Missing(v) ==
    {d \in Dir \ dirs : \E i \in Path : v[i] # Absent /\ d \in Parents[i]}

\* The control directory holds work that a recovery has to finish.
Pending ==
    \/ active # NoPlan
    \/ /\ tombs # {}
       /\ ~ \E t \in tombs :
             /\ tombs = {t}
             /\ t.rest = "receipt" \/ (t.retired /\ t.rest = "empty")

---------------------------------------------------------------------------
(* The phases of each run, in order.  A definition named ...Variant is a
   plausible slip in the definition below it. *)

PublishBeforeReadyVariant ==
    [prepareJournal |-> "stageObjects",
     stageObjects |-> "discardTerminalReceipt",
     discardTerminalReceipt |-> "ensureTargetDirectories",
     ensureTargetDirectories |-> "publish", publish |-> "writeReady",
     writeReady |-> "writeCommitted", writeCommitted |-> "archiveTerminal",
     archiveTerminal |-> "compactTerminalTombstone"]

NoCommitMarkerVariant ==
    [prepareJournal |-> "stageObjects", stageObjects |-> "writeReady",
     writeReady |-> "discardTerminalReceipt",
     discardTerminalReceipt |-> "ensureTargetDirectories",
     ensureTargetDirectories |-> "publish", publish |-> "archiveTerminal",
     archiveTerminal |-> "compactTerminalTombstone"]

ApplyOrder ==
    [prepareJournal |-> "stageObjects", stageObjects |-> "writeReady",
     writeReady |-> "discardTerminalReceipt",
     discardTerminalReceipt |-> "ensureTargetDirectories",
     ensureTargetDirectories |-> "publish", publish |-> "writeCommitted",
     writeCommitted |-> "archiveTerminal",
     archiveTerminal |-> "compactTerminalTombstone"]

\* finishPreparingFailure: apply failed before the ready marker.
PreparingFailureOrder ==
    [selectRecoveryAction |-> "writeRolledBack",
     writeRolledBack |-> "discardTerminalReceipt",
     discardTerminalReceipt |-> "archiveTerminal",
     archiveTerminal |-> "compactTerminalTombstone"]


\* rollbackAfterFailure: apply failed while publishing.
ApplyRollbackOrder ==
    [selectRecoveryAction |-> "rollbackPrefix",
     rollbackPrefix |-> "removeInterruptedTemporary",
     removeInterruptedTemporary |-> "removeCreatedDirectories",
     removeCreatedDirectories |-> "writeRolledBack",
     writeRolledBack |-> "archiveTerminal",
     archiveTerminal |-> "compactTerminalTombstone"]

\* recover(resume) and recover(rollback) of a ready transaction.
ResumeOrder ==
    [selectRecoveryAction |-> "discardTerminalReceipt",
     discardTerminalReceipt |-> "ensureTargetDirectories",
     ensureTargetDirectories |-> "publish", publish |-> "writeCommitted",
     writeCommitted |-> "cleanupRecovered",
     cleanupRecovered |-> "archiveTerminal",
     archiveTerminal |-> "compactTerminalTombstone"]

MarkBeforeRollbackVariant ==
    [selectRecoveryAction |-> "discardTerminalReceipt",
     discardTerminalReceipt |-> "writeRolledBack",
     writeRolledBack |-> "rollbackPrefix",
     rollbackPrefix |-> "removeInterruptedTemporary",
     removeInterruptedTemporary |-> "removeCreatedDirectories",
     removeCreatedDirectories |-> "cleanupRecovered",
     cleanupRecovered |-> "archiveTerminal",
     archiveTerminal |-> "compactTerminalTombstone"]

KeepReceiptVariant ==
    [selectRecoveryAction |-> "rollbackPrefix",
     rollbackPrefix |-> "removeInterruptedTemporary",
     removeInterruptedTemporary |-> "removeCreatedDirectories",
     removeCreatedDirectories |-> "writeRolledBack",
     writeRolledBack |-> "cleanupRecovered",
     cleanupRecovered |-> "archiveTerminal",
     archiveTerminal |-> "compactTerminalTombstone"]

RollbackOrder ==
    [selectRecoveryAction |-> "discardTerminalReceipt",
     discardTerminalReceipt |-> "rollbackPrefix",
     rollbackPrefix |-> "removeInterruptedTemporary",
     removeInterruptedTemporary |-> "removeCreatedDirectories",
     removeCreatedDirectories |-> "writeRolledBack",
     writeRolledBack |-> "cleanupRecovered",
     cleanupRecovered |-> "archiveTerminal",
     archiveTerminal |-> "compactTerminalTombstone"]


\* recover(rollback) of a transaction that is not ready.
PreparingOrder ==
    [selectRecoveryAction |-> "removeCreatedDirectories",
     removeCreatedDirectories |-> "writeRolledBack",
     writeRolledBack |-> "discardTerminalReceipt",
     discardTerminalReceipt |-> "cleanupRecovered",
     cleanupRecovered |-> "archiveTerminal",
     archiveTerminal |-> "compactTerminalTombstone"]

\* recover of a transaction whose outcome is already marked.
CommittedOrder ==
    [discardTerminalReceipt |-> "cleanupRecovered",
     cleanupRecovered |-> "archiveTerminal",
     archiveTerminal |-> "compactTerminalTombstone"]

RolledBackOrder ==
    [discardTerminalReceipt |-> "removeCreatedDirectories",
     removeCreatedDirectories |-> "cleanupRecovered",
     cleanupRecovered |-> "archiveTerminal",
     archiveTerminal |-> "compactTerminalTombstone"]

Order ==
    [apply |-> ApplyOrder, preparingFailure |-> PreparingFailureOrder,
     applyRollback |-> ApplyRollbackOrder, resume |-> ResumeOrder,
     rollback |-> RollbackOrder, preparing |-> PreparingOrder,
     committed |-> CommittedOrder, rolledBack |-> RolledBackOrder]

Runs   == {"none", "apply", "preparingFailure", "applyRollback", "resume",
           "rollback", "preparing", "committed", "rolledBack", "tombstone"}
Phases == {"none", "prepareJournal", "stageObjects", "writeReady",
           "discardTerminalReceipt", "ensureTargetDirectories", "publish",
           "writeCommitted", "archiveTerminal", "compactTerminalTombstone",
           "selectRecoveryAction", "writeRolledBack", "rollbackPrefix",
           "removeInterruptedTemporary", "removeCreatedDirectories",
           "cleanupRecovered", "finishPreparingFailure",
           "rollbackAfterFailure"}



\* The terminal state a run is heading for.
Outcome ==
    IF run \in {"apply", "resume", "committed"} THEN "applied" ELSE "rolled_back"

---------------------------------------------------------------------------
(* The lock holder's control flow *)

GoTo(ph) == phase' = ph /\ UNCHANGED <<lock, run, work, pos, armed, last, callerVars>>
Proceed  == GoTo(Order[run][phase])
Stay     == UNCHANGED <<jobVars, callerVars>>

\* Start(p, r, ph, pl, c): process p takes the lock and begins run r.
Start(p, r, ph, pl, c) ==
    /\ lock' = p /\ run' = r /\ phase' = ph /\ work' = pl /\ pos' = c
    /\ armed' = FALSE
    /\ last' = "none"

\* The command ends: the lock is released and the result is reported.
Return(result) ==
    /\ last' = result
    /\ lock' = Nobody /\ run' = "none" /\ phase' = "none" /\ work' = NoPlan
    /\ pos' = 0 /\ armed' = FALSE
    /\ pc' = [pc EXCEPT ![lock] = "idle"]
    /\ plan' = [plan EXCEPT ![lock] = NoPlan]

Fault == faults < MaxFaults /\ faults' = faults + 1
NoFault == UNCHANGED faults

\* writeAtomicOwnedFile: temporary file, rename, directory sync.  A failure
\* leaves the entry absent, or present when only the sync failed.
WriteEntry(e, done, failed) ==
    /\ e \notin entries
    /\ \/ entries' = entries \cup {e} /\ NoFault /\ done
       \/ entries' \in {entries, entries \cup {e}} /\ Fault /\ failed
    /\ UNCHANGED <<active, owned, tombs>>

---------------------------------------------------------------------------
(* Commands that plan and apply *)

\* BuildPlan observes the targets under the shared lock.
BuildPlan(p) ==
    /\ lock = Nobody /\ ~Pending
    /\ pc[p] = "idle" /\ plan[p] = NoPlan
    /\ \E v \in Desired :
          plan' = [plan EXCEPT ![p] =
                      [before |-> targets, after |-> v, created |-> Missing(v)]]
    /\ UNCHANGED <<repoVars, controlVars, jobVars, pc, touched, faults>>

Satisfied(pl)  == At(pl, N)
UncheckedVariant(pl) == ~Satisfied(pl)
Executable(pl) == At(pl, 0) /\ pl.created = Missing(pl.after)

\* A command that ends under the lock without changing anything durable.
Refuse(p, result) ==
    /\ last' = result
    /\ pc' = [pc EXCEPT ![p] = "idle"]
    /\ plan' = [plan EXCEPT ![p] = NoPlan]
    /\ UNCHANGED <<repoVars, controlVars, lock, run, phase, work, pos, armed,
                   touched, faults>>

\* A command that ends without the lock: an error, whatever the command.
Drop(p) ==
    /\ pc' = [pc EXCEPT ![p] = "idle"]
    /\ plan' = [plan EXCEPT ![p] = NoPlan]
    /\ UNCHANGED <<repoVars, controlVars, jobVars, touched, faults>>

\* apply looks at the targets before it takes the lock ...
ApplyPreflight(p) ==
    /\ pc[p] = "idle" /\ plan[p] # NoPlan
    /\ \/ /\ Satisfied(plan[p]) \/ Executable(plan[p])
          /\ pc' = [pc EXCEPT ![p] = "preflight"]
          /\ UNCHANGED <<repoVars, controlVars, jobVars, plan, touched, faults>>
       \/ ~(Satisfied(plan[p]) \/ Executable(plan[p])) /\ Drop(p)

\* ... and again when it holds it.
ApplyAdmit(p) ==
    /\ pc[p] = "preflight" /\ lock = Nobody
    /\ \/ Pending /\ Refuse(p, "recovery_required")
       \/ ~Pending /\ Satisfied(plan[p]) /\ Refuse(p, "already_satisfied")
       \/ /\ ~Pending /\ ~Satisfied(plan[p]) /\ ~Executable(plan[p])
          /\ Refuse(p, "error")
       \/ /\ ~Pending /\ ~Satisfied(plan[p]) /\ Executable(plan[p])
          /\ Start(p, "apply", "prepareJournal", plan[p], 0)
          /\ UNCHANGED <<repoVars, controlVars, callerVars, touched, faults>>

\* The lock is held by another command: ErrBusy.
Busy(p) == pc[p] = "preflight" /\ lock # Nobody /\ Drop(p)

LostJournalVariant(published) == "error"
JournalFailure(published) ==
    IF published THEN "recovery_required" ELSE "error"

\* prepareJournal writes the journal in a private preparation directory and
\* renames that directory to `active`.  Before the rename a failure is an
\* error that leaves only residue; after it, recovery owns the transaction.
PrepareJournal ==
    /\ phase = "prepareJournal"
    /\ \/ /\ active' = work /\ entries' = {} /\ owned' = {}
          /\ touched' = {i \in Path : targets[i] # work.before[i]}
          /\ \/ NoFault /\ Proceed
             \/ Fault /\ Return(JournalFailure(TRUE))
       \/ /\ Fault /\ Return(JournalFailure(FALSE))
          /\ UNCHANGED <<active, entries, owned, touched>>
    /\ UNCHANGED <<repoVars, tombs>>

StageObjects ==
    /\ phase = "stageObjects"
    /\ \/ entries' = entries \cup {"objects"} /\ NoFault /\ Proceed
       \/ UNCHANGED entries /\ Fault /\ GoTo("finishPreparingFailure")
    /\ UNCHANGED <<repoVars, active, owned, tombs, touched>>

WriteReady ==
    /\ phase = "writeReady"
    /\ \/ At(work, 0) /\ WriteEntry("ready", Proceed, GoTo("finishPreparingFailure"))
       \/ ~At(work, 0) /\ GoTo("finishPreparingFailure") /\ UNCHANGED <<controlVars, faults>>
    /\ UNCHANGED <<repoVars, touched>>

FinishPreparingFailure ==
    /\ phase = "finishPreparingFailure"
    /\ \/ /\ At(work, 0)
          /\ run' = "preparingFailure" /\ phase' = "selectRecoveryAction"
          /\ UNCHANGED <<lock, work, pos, armed, last, callerVars>>
       \/ ~At(work, 0) /\ Return("recovery_required")
    /\ UNCHANGED <<repoVars, controlVars, touched, faults>>

ObservedPrefix(c) == At(work, c)

\* rollbackAfterFailure finds out how far apply came before it rolls back.
RollbackAfterFailure ==
    /\ phase = "rollbackAfterFailure"
    /\ \/ /\ \E c \in 0..N : ObservedPrefix(c) /\ pos' = c
          /\ run' = "applyRollback" /\ phase' = "selectRecoveryAction"
          /\ armed' = FALSE
          /\ UNCHANGED <<lock, work, last, callerVars>>
       \/ ~Classified(work) /\ Return("recovery_required")
    /\ UNCHANGED <<repoVars, controlVars, touched, faults>>

---------------------------------------------------------------------------
(* Phases shared by apply and recovery *)

ResumePreparingVariant(r) ==
    IF r \in {"resume", "preparingFailure"} THEN "resume" ELSE "rollback"

Action(r) == IF r = "resume" THEN "resume" ELSE "rollback"

\* A recovery action that was recorded excludes the other one.
EitherActionVariant(action) == TRUE
NotContradicted(action) == {"resume", "rollback"} \cap entries \subseteq {action}

\* The direction a recovery takes is durable before it changes anything.
SelectRecoveryAction ==
    /\ phase = "selectRecoveryAction"
    /\ NotContradicted(Action(run))
    /\ \/ Action(run) \in entries /\ Proceed /\ UNCHANGED <<controlVars, faults>>
       \/ WriteEntry(Action(run), Proceed, Return("recovery_required"))
    /\ UNCHANGED <<repoVars, touched>>

\* The receipt of the previous transaction is retired, emptied and removed.
RetireStep(t) ==
    \/ ~t.retired /\ t.rest = "receipt" /\ tombs' = {[t EXCEPT !.retired = TRUE]}
    \/ t.retired /\ t.rest = "receipt" /\ tombs' = {[t EXCEPT !.rest = "empty"]}
    \/ t.retired /\ t.rest = "empty" /\ tombs' = {}

DiscardTerminalReceipt ==
    /\ phase = "discardTerminalReceipt"
    /\ \/ tombs = {} /\ Proceed /\ UNCHANGED <<tombs, faults>>
       \/ \E t \in tombs :
             /\ tombs = {t} /\ RetireStep(t)
             /\ \/ Stay /\ NoFault
                \/ Return("recovery_required") /\ Fault
       \/ tombs # {} /\ Return("recovery_required") /\ UNCHANGED tombs /\ Fault
    /\ UNCHANGED <<repoVars, active, entries, owned, touched>>

\* What a phase of applyForward does when it cannot go on.
ForwardFails ==
    \/ run = "apply" /\ GoTo("rollbackAfterFailure")
    \/ run = "resume" /\ Return("recovery_required")

Empty(d) ==
    /\ \A i \in Path : d \in Parents[i] => targets[i] = Absent
    /\ \A e \in dirs : d \notin Above[e]

UnrecordedVariant == work.created \subseteq dirs
DirectoriesReady == work.created \subseteq owned \cap dirs

\* A directory is created, then recorded as the transaction's own; a recorded
\* directory that is gone, or an unrecorded one with content, stops the run.
EnsureTargetDirectories ==
    /\ phase = "ensureTargetDirectories"
    /\ \/ DirectoriesReady /\ Proceed /\ UNCHANGED <<dirs, owned, faults>>
       \/ \E d \in work.created \ owned :
             /\ \A e \in work.created \ owned : d <= e
             /\ \/ /\ d \notin dirs /\ dirs' = dirs \cup {d} /\ UNCHANGED owned
                \/ /\ d \in dirs /\ Empty(d)
                   /\ owned' = owned \cup {d} /\ UNCHANGED dirs
             /\ \/ Stay /\ NoFault
                \/ ForwardFails /\ Fault
       \/ /\ ~(work.created \subseteq owned)
          /\ ForwardFails /\ Fault /\ UNCHANGED <<dirs, owned>>
       \/ /\ \E d \in work.created \ owned : d \in dirs /\ ~Empty(d)
          /\ ForwardFails /\ UNCHANGED <<dirs, owned, faults>>
    /\ UNCHANGED <<targets, active, entries, tombs, touched>>

Temporary(content) == IF content = Absent THEN {} ELSE {"publish.tmp"}

\* publishContent and removeExactTarget inspect the target ...
Inspect(i, expected, content, failed) ==
    /\ ~armed
    /\ \/ /\ targets[i] = expected
          /\ entries' = entries \cup Temporary(content)
          /\ \/ /\ armed' = TRUE /\ NoFault
                /\ UNCHANGED <<lock, run, phase, work, pos, last, callerVars>>
             \/ failed /\ Fault
       \/ /\ targets[i] # expected
          /\ entries' = entries \cup Temporary(content)
          /\ failed /\ NoFault
       \/ UNCHANGED entries /\ failed /\ Fault
    /\ UNCHANGED <<repoVars, active, owned, tombs, touched>>

\* ... and then replace or remove it, whatever it has become meanwhile.
Replace(i, content, next, failed) ==
    /\ armed
    /\ \/ /\ targets' = [targets EXCEPT ![i] = content]
          /\ entries' = entries \ {"publish.tmp"}
          /\ \/ /\ armed' = FALSE /\ pos' = next /\ NoFault
                /\ UNCHANGED <<lock, run, phase, work, last, callerVars>>
             \/ failed /\ Fault
       \/ UNCHANGED <<targets, entries>> /\ failed /\ Fault
    /\ UNCHANGED <<dirs, active, owned, tombs, touched>>

SkipUnchanged(next) ==
    /\ pos' = next
    /\ UNCHANGED <<repoVars, controlVars, lock, run, phase, work, armed, last,
                   callerVars, touched, faults>>

Publish ==
    /\ phase = "publish"
    /\ \/ /\ pos = N /\ Proceed
          /\ UNCHANGED <<repoVars, controlVars, touched, faults>>
       \/ \E i \in Path :
             /\ i = pos + 1
             /\ \/ i \notin Changed(work) /\ SkipUnchanged(i)
                \/ /\ i \in Changed(work)
                   /\ \/ Inspect(i, work.before[i], work.after[i], ForwardFails)
                      \/ Replace(i, work.after[i], i, ForwardFails)

RollbackPrefix ==
    /\ phase = "rollbackPrefix"
    /\ \/ /\ pos = 0 /\ Proceed
          /\ UNCHANGED <<repoVars, controlVars, touched, faults>>
       \/ \E i \in Path :
             /\ i = pos
             /\ \/ i \notin Changed(work) /\ SkipUnchanged(i - 1)
                \/ /\ i \in Changed(work)
                   /\ \/ Inspect(i, work.after[i], work.before[i], Return("recovery_required"))
                      \/ Replace(i, work.before[i], i - 1, Return("recovery_required"))

RemoveInterruptedTemporary ==
    /\ phase \in {"removeInterruptedTemporary", "cleanupRecovered"}
    /\ \/ entries' = entries \ {"publish.tmp"} /\ Proceed /\ NoFault
       \/ UNCHANGED entries /\ Return("recovery_required") /\ Fault
    /\ UNCHANGED <<repoVars, active, owned, tombs, touched>>

\* Deepest first: an unrecorded directory is recorded before it is removed.
RemoveCreatedDirectories ==
    /\ phase = "removeCreatedDirectories"
    /\ \/ /\ work.created \cap dirs = {} /\ Proceed
          /\ UNCHANGED <<dirs, owned, faults>>
       \/ \E d \in work.created \cap dirs :
             /\ \A e \in work.created \cap dirs : e <= d
             /\ \/ /\ Empty(d)
                   /\ \/ d \notin owned /\ owned' = owned \cup {d} /\ UNCHANGED dirs
                      \/ d \in owned /\ dirs' = dirs \ {d} /\ UNCHANGED owned
                   /\ \/ Stay /\ NoFault
                      \/ Return("recovery_required") /\ Fault
                \/ /\ ~Empty(d)
                   /\ Return("recovery_required") /\ UNCHANGED <<dirs, owned, faults>>
       \/ /\ work.created \cap dirs # {}
          /\ Return("recovery_required") /\ Fault /\ UNCHANGED <<dirs, owned>>
    /\ UNCHANGED <<targets, active, entries, tombs, touched>>

WriteTerminalMarker ==
    /\ \/ phase = "writeCommitted" /\ WriteEntry("committed", Proceed, Return("recovery_required"))
       \/ phase = "writeRolledBack" /\ WriteEntry("rolled-back", Proceed, Return("recovery_required"))
    /\ UNCHANGED <<repoVars, touched>>

\* archiveTerminal: receipt into `active`, then `active` becomes a tombstone.
ArchiveTerminal ==
    /\ phase = "archiveTerminal"
    /\ ~ \E t \in tombs : t.id = work /\ t.state = Outcome /\ ~t.retired
    /\ \/ /\ WriteEntry(Outcome, Stay, Return("cleanup_required"))
       \/ /\ Outcome \in entries
          /\ tombs' = tombs \cup {[id |-> work, state |-> Outcome,
                                   retired |-> FALSE, rest |-> "full"]}
          /\ active' = NoPlan /\ entries' = {} /\ owned' = {}
          /\ \/ Proceed /\ NoFault
             \/ Return("cleanup_required") /\ Fault
       \/ /\ Outcome \in entries
          /\ Return("cleanup_required") /\ Fault /\ UNCHANGED controlVars
    /\ UNCHANGED <<repoVars, touched>>

\* Everything but the receipt leaves the tombstone.
CompactTerminalTombstone ==
    /\ phase = "compactTerminalTombstone"
    /\ \E t \in tombs :
          /\ t.id = work /\ ~t.retired
          /\ \/ /\ tombs' = (tombs \ {t}) \cup {[t EXCEPT !.rest = "receipt"]}
                /\ \/ Return(t.state) /\ NoFault
                   \/ Return("durability_unknown") /\ Fault
             \/ /\ t.rest = "full" /\ UNCHANGED tombs
                /\ Return("cleanup_required") /\ Fault
    /\ UNCHANGED <<repoVars, active, entries, owned, touched>>

---------------------------------------------------------------------------
(* Recovery *)

\* The run a recovery of the unfinished transaction begins, or "refused".
\* A journal that was never published out of its temporary name is published
\* by the run "preparing".
Dispatch(action) ==
    IF NotContradicted(action) THEN
        CASE "committed" \in entries ->
                IF action = "resume" /\ At(active, N) THEN "committed" ELSE "refused"
          [] "rolled-back" \in entries ->
                IF action = "rollback" /\ At(active, 0) THEN "rolledBack" ELSE "refused"
          [] {"committed", "rolled-back", "ready"} \cap entries = {} ->
                IF action = "rollback" /\ At(active, 0) THEN "preparing" ELSE "refused"
          [] OTHER -> IF Classified(active) THEN action ELSE "refused"
    ELSE "refused"

FirstPhase(r) ==
    CASE r = "tombstone" -> "compactTerminalTombstone"
      [] r \in {"committed", "rolledBack"} -> "discardTerminalReceipt"
      [] OTHER -> "selectRecoveryAction"

RecoverActive(p, action) ==
    /\ active # NoPlan /\ lock = Nobody
    /\ pc[p] = "idle" /\ plan[p] = NoPlan
    /\ \/ /\ Dispatch(action) # "refused"
          /\ \E c \in 0..N :
                /\ At(active, c)
                /\ Start(p, Dispatch(action), FirstPhase(Dispatch(action)), active, c)
          /\ entries' = entries \ {"journal.tmp"}
          /\ UNCHANGED <<repoVars, active, owned, tombs, callerVars, touched, faults>>
       \/ Dispatch(action) = "refused" /\ Refuse(p, "recovery_required")

\* Without `active`, recovery finishes the compaction of the one tombstone.
RecoverTombstone(p, action) ==
    /\ active = NoPlan /\ lock = Nobody
    /\ pc[p] = "idle" /\ plan[p] = NoPlan
    /\ \E t \in tombs :
          /\ tombs = {t} /\ ~t.retired
          /\ \/ /\ action = (IF t.state = "applied" THEN "resume" ELSE "rollback")
                /\ Start(p, "tombstone", FirstPhase("tombstone"), t.id, 0)
                /\ UNCHANGED <<repoVars, controlVars, callerVars, touched, faults>>
             \/ /\ action # (IF t.state = "applied" THEN "resume" ELSE "rollback")
                /\ Refuse(p, "recovery_required")

\* The identities a caller of ReplayApplied may name: that of the retained
\* receipt, or one without a receipt, such as that of its own plan.
Expected(p) == {t.id : t \in tombs} \cup {plan[p]}

Acknowledged(p, expected) ==
    /\ ~Pending /\ At(plan[p], 0)
    /\ \E t \in tombs :
          /\ t.id = expected /\ t.rest = "receipt"
          /\ t.state = "applied" /\ t.id.after = plan[p].after

\* ReplayApplied acknowledges that earlier transaction without running anything.
ReplayApplied(p) ==
    /\ pc[p] = "idle" /\ plan[p] # NoPlan /\ Changed(plan[p]) = {} /\ lock = Nobody
    /\ \E expected \in Expected(p) :
          \/ Acknowledged(p, expected) /\ Refuse(p, "already_satisfied")
          \/ /\ ~Acknowledged(p, expected)
             /\ Refuse(p, IF Pending THEN "recovery_required" ELSE "error")

---------------------------------------------------------------------------
(* The environment *)

\* The process that holds the lock dies; the kernel releases its flock.
Crash ==
    /\ lock # Nobody /\ Fault
    /\ Return("none")
    /\ UNCHANGED <<repoVars, controlVars, touched>>

\* A writer that does not take the lock changes a target.
ForeignEdit(i, content) ==
    /\ Fault
    /\ targets[i] # content
    /\ content # Absent => Parents[i] \subseteq dirs
    /\ targets' = [targets EXCEPT ![i] = content]
    /\ touched' = touched \cup {i}
    /\ UNCHANGED <<dirs, controlVars, jobVars, callerVars>>

---------------------------------------------------------------------------
InitialPlan(v) == [before |-> targets, after |-> v, created |-> Missing(v)]

\* Either nothing ever ran, or an earlier version of the program left an
\* unfinished transaction whose journal still has its temporary name.
Init ==
    /\ targets \in {v \in Vector : \A i \in Path : Parents[i] # {} => v[i] = Absent}
    /\ dirs = {}
    /\ \/ active = NoPlan /\ entries = {}
       \/ /\ \E v \in Desired : active = InitialPlan(v) /\ Changed(active) # {}
          /\ entries = {"journal.tmp"}
    /\ owned = {} /\ tombs = {}
    /\ lock = Nobody /\ run = "none" /\ phase = "none" /\ work = NoPlan
    /\ pos = 0 /\ armed = FALSE /\ last = "none"
    /\ pc = [p \in Proc |-> "idle"]
    /\ plan = [p \in Proc |-> NoPlan]
    /\ touched = {} /\ faults = 0

\* The steps of the command that holds the lock.
Engine ==
    \/ PrepareJournal \/ StageObjects \/ WriteReady \/ FinishPreparingFailure
    \/ RollbackAfterFailure \/ SelectRecoveryAction \/ DiscardTerminalReceipt
    \/ EnsureTargetDirectories \/ Publish \/ RollbackPrefix
    \/ RemoveInterruptedTemporary \/ RemoveCreatedDirectories
    \/ WriteTerminalMarker \/ ArchiveTerminal \/ CompactTerminalTombstone

Command(p) ==
    \/ BuildPlan(p) \/ ApplyPreflight(p) \/ ApplyAdmit(p) \/ Busy(p)
    \/ ReplayApplied(p)
    \/ \E action \in {"resume", "rollback"} :
          RecoverActive(p, action) \/ RecoverTombstone(p, action)

Next ==
    \/ Engine
    \/ \E p \in Proc : Command(p)
    \/ Crash
    \/ \E i \in Path, content \in Contents : ForeignEdit(i, content)

Spec == Init /\ [][Next]_vars

\* A command runs on until it returns or dies, and an operator whose repository
\* has pending work eventually tries both recovery actions.
Fairness ==
    /\ WF_vars(Engine)
    /\ \A p \in Proc :
          WF_vars(ApplyPreflight(p) \/ ApplyAdmit(p) \/ Busy(p) \/ ReplayApplied(p))
    /\ \A p \in Proc, action \in {"resume", "rollback"} :
          WF_vars(RecoverActive(p, action)) /\ WF_vars(RecoverTombstone(p, action))

FairSpec == Spec /\ Fairness

---------------------------------------------------------------------------
TypeOK ==
    /\ targets \in Vector /\ dirs \subseteq Dir
    /\ active \in Plan \cup {NoPlan} /\ entries \subseteq Entries
    /\ owned \subseteq Dir /\ tombs \subseteq Tombstone
    /\ lock \in Proc \cup {Nobody} /\ run \in Runs /\ phase \in Phases
    /\ work \in Plan \cup {NoPlan} /\ pos \in 0..N /\ armed \in BOOLEAN
    /\ pc \in [Proc -> {"idle", "preflight"}]
    /\ plan \in [Proc -> Plan \cup {NoPlan}]
    /\ last \in Results
    /\ touched \subseteq Path /\ faults \in 0..MaxFaults

\* The targets no foreign writer touched are cut at c.
Cut(pl, c) ==
    \A i \in Path \ touched :
        targets[i] = IF i <= c THEN pl.after[i] ELSE pl.before[i]

\* While a transaction is unfinished its targets are a prefix of the plan:
\* whatever failed or died, recovery can tell how far publication came.
PrefixOnly == active # NoPlan => \E c \in 0..N : Cut(active, c)

\* The first durable change to a target comes after the ready marker, so a
\* transaction without it can be dropped without reading its staged objects.
NothingBeforeReady ==
    active # NoPlan /\ "ready" \notin entries =>
        Cut(active, 0) /\ active.created \cap dirs = {}

\* Both together: an unfinished transaction shows in its control files and in its
\* targets how far it came, the knowledge that every recovery starts from.
PublicationIsReadable == PrefixOnly /\ NothingBeforeReady

\* A terminal marker and a receipt are written only when the targets are what
\* they say, and no transaction ever has both outcomes.
MarkersTellTheTruth ==
    /\ "committed" \in entries =>
          /\ Cut(active, N)
          /\ {"rolled-back", "rollback", "rolled_back"} \cap entries = {}
    /\ "rolled-back" \in entries =>
          /\ Cut(active, 0)
          /\ {"resume", "applied"} \cap entries = {}
    /\ "applied" \in entries => "committed" \in entries
    /\ "rolled_back" \in entries => "rolled-back" \in entries

\* A transaction marked rolled back has also removed the directories it made.
RolledBackLeavesNoDirectory ==
    "rolled-back" \in entries => active.created \cap dirs = {}

\* A directory the transaction made but has not recorded holds nothing of it:
\* recovery adopts an unrecorded directory only while it is empty.
UnrecordedDirectoryIsEmpty ==
    active # NoPlan =>
        \A d \in (active.created \cap dirs) \ owned :
            \A i \in Path \ touched : d \in Parents[i] => targets[i] = Absent

\* Both together: no directory is left behind, and none that might hold somebody
\* else's files is taken for the transaction's own.
DirectoriesAccountedFor == RolledBackLeavesNoDirectory /\ UnrecordedDirectoryIsEmpty

\* The control directory never holds two tombstones, and beside `active` only a
\* tombstone whose artifacts are gone: recovery refuses anything else.
ControlStateAdmissible ==
    /\ \A t, u \in tombs : t = u
    /\ \A t \in tombs :
          IF active = NoPlan THEN ~t.retired /\ t.rest # "empty"
                             ELSE t.rest # "full"

\* A tombstone with nothing unfinished beside it tells what the targets hold.
TombstoneTellsTheTruth ==
    active = NoPlan =>
        \A t \in tombs : Cut(t.id, IF t.state = "applied" THEN N ELSE 0)

\* Both together: whatever names an outcome, before or after the archive, is
\* what happened to the targets.
OutcomesTellTheTruth == MarkersTellTheTruth /\ TombstoneTellsTheTruth

\* Without a fault no foreign content is found under a published plan: a plan
\* that another transaction made stale is never journalled.
StalePlanNeverJournalled == touched # {} => faults > 0

\* If no foreign writer interfered, an unfinished transaction whose lock is
\* free admits at least one of the two recovery actions.
RecoveryNeverRefused ==
    active # NoPlan /\ lock = Nobody /\ touched = {} =>
        \E action \in {"resume", "rollback"} : Dispatch(action) # "refused"

\* Both together: wherever the process stops, the next command can read the
\* control state and go on from it.
ControlStateRecoverable == ControlStateAdmissible /\ RecoveryNeverRefused

\* A command that returns reports what it left behind: a caller told that the
\* transaction needs recovery or cleanup finds pending work, one told that it is
\* applied or rolled back finds its receipt, and a plain error left no trace.
ReportedResult ==
    /\ last' = "error" => active' = active
    /\ last' \in {"recovery_required", "cleanup_required"} => Pending'
    /\ last' \in {"applied", "rolled_back"} =>
          /\ ~Pending'
          /\ \E t \in tombs' : t.id = work /\ t.state = last'
    /\ last' = "durability_unknown" => active' = NoPlan
ResultsAreTrue == [][lock # Nobody /\ lock' = Nobody /\ last' # "none" => ReportedResult]_vars

\* The direction is chosen once: after recovery chose rollback no target moves
\* forward, after it chose resume (or the commit marker) none moves back, and the
\* choice outlives every crash until the transaction is archived.
Backward(i) == targets'[i] = active.before[i]
Forward(i)  == targets'[i] = active.after[i]
DirectionKept ==
    active # NoPlan =>
        /\ active' = active => {"resume", "rollback", "committed", "rolled-back"} \cap entries \subseteq entries'
        /\ \A i \in Path \ touched' :
              targets'[i] # targets[i] =>
                  /\ {"rollback", "rolled-back"} \cap entries # {} => Backward(i)
                  /\ {"resume", "committed"} \cap entries # {} => Forward(i)
NoReversal == [][DirectionKept]_vars

\* Pending work is eventually finished, unless a foreign writer interfered:
\* bounded failures and crashes never leave a transaction nobody can finish.
RecoveryCompletes == Pending ~> (~Pending \/ touched # {})
=============================================================================
