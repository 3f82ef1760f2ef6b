# Verification of agentic-proofkit

agentic-proofkit is a Go command-line program that projects requirement, witness
and adoption records of a repository, and that now and then changes the
repository, runs a tool in it, or serves a local page about it. Most of its 150
package directories are pure: bounded input, one pass, canonical output. What is hard to get
right sits in few places, where the program works with durable state, with
processes or with concurrent requests. This directory holds TLA+ models of those
places, the TLC runs that check them on small instances, and TLAPS proofs of every
safety property that holds, for every instance.

To check a run: `tlc -config X.cfg M`. To check the proofs: `tlapm XProofs.tla`.
`PROJECT.json` lists components, runs, hazards and theorems, and `map` says which
source lines each definition stands for.

## 1. Inventory

Paths are relative to `src/internal`. "RT" is `kernel/repositorytransaction`.

| Component | State | Operations | Modelled in |
|---|---|---|---|
| repository transaction engine (RT) | target files; control directory with `active` (journal, staged objects, markers, directory records) and terminal tombstones; flock | BuildPlan, Apply, Recover (resume, rollback), ReplayApplied | RepositoryTransaction |
| control state and inspection lease (RT `inspection_lease.go`, `lock.go`, `control_state.go`) | flock, pinned control directory | OpenInspectionLease, VerifyRootIdentity, InspectControlState, Close | InspectionLease |
| preparation residue (RT `residue.go`) | unpublished or unreadable `active`, quarantine destination | Inspect, Quarantine | PreparationResidue |
| project status (`command/projectstatus`) | a cohort of files read twice | Inspect with one retry | InspectionLease |
| retained child (`kernel/processgroup`) | process, its group, observer and watcher goroutines, one mutex | Start, Terminal, Aborted, Abort, Finish | RetainedChild |
| repository snapshot (`tools/repositorysnapshot`) | git as a retained child, two copiers, drain timer | gitOutput | GitOutput |
| command oracle (`tools/commandoracle`) | go test as a retained child, event parser, stderr drain and timer | waitGoTestCommand | TestCommand |
| requirement browser (`command/requirementbrowser`) | HTTP server, arbiter, semaphores, timer, launcher | one-shot question session; long-lived page | OneShotSession (one-shot mode) |
| witness scheduler plan (`command/witnessschedulerplan`) | policies, seen sets, stack of prefixes | parallelConflictCauses, parallelSelectorConflicts | SchedulerConflicts |
| signal scope and writing commands (`app`) | a context cancelled by signals, handlers restored by a waiter | open, cancel, restore, close around a command | TransactionClients |
| agent integration (`command/agentintegration`) | a bootstrap and the baseline that records it, in the repository | plan, apply (install, update, remove, replay), recover | LifecyclePlan, TransactionClients |
| adoption materialization (`command/adoptionmaterialization`) | project artifacts and the manifest that routes to them | plan, apply, recover | LifecyclePlan, TransactionClients |
| selective gates (`selectivegateplan`, `selectivegateevidence`, `changedpathset`) | none; records pass from call to call as JSON | collect paths, plan, admit a plan, evaluate evidence | SelectiveGatePlan, SelectiveGateEvidence, ProofGate |
| receipts and decisions (`receiptproduceradmission`, `receiptcurrentnessscope`, `receipttrustclass`, `obligationdecision`) | none, as above | admit producers, diagnose receipts, decide obligations | SelectiveGateEvidence, ProofGate |
| workflow smoke (`tools/workflowsmoke`) | carriers as retained children, two streams | runCarrierStreams | not modelled |
| change workflow, requirement source transition | none between calls | one-pass selection | not modelled |
| the pure rest of those packages (status projection, residue command, tree walk, browser workspace, plan admission, oracle records) | none between calls | read one admitted input, print | not modelled |
| everything else (records, receipts, projections, guidance, admission kernel, release tools) | none between calls | parse, admit, project, print | not modelled |

`components` in `PROJECT.json` has one row for each with all its sources.

**How they interact.** Commands that write call `BuildPlan`, which inspects the
targets under an inspection lease and returns a plan; `Apply` takes the exclusive
flock, checks that the plan still fits, and executes it; `Recover` finishes what a
dead process left. Two clients use these calls: agent integration and adoption
materialization plan for an operator, apply what was approved if planning again
gives the same identity, acknowledge a transaction whose answer was lost, and
recover; each runs in a signal scope. Project status and BuildPlan only read and
take shared leases. When `active` has no admissible journal, recovery is
impossible and an operator uses the residue command instead. The snapshot, the
command oracle and the smoke tool start their tools through `processgroup`, whose
`Finish` they may call only once their own stream readers have ended. The browser
starts its launcher and server inside one session and returns one packet. The
scheduler check is a function of admitted records. The gate commands share no state
at all: a plan, receipts and diagnostics go from one to the next through files of
the caller, while the repository may change.

**What is hard.**

* *Crash and failure at any step* (RT): a process may die between two file-system
  operations, and an operation may fail before or after it took effect. Every
  intermediate control state must be one that the next command admits.
* *Writers that take no lock* (RT, status): an editor changes a target, or the
  control directory is moved or replaced while a call uses it, even between the last
  check of a writer and its rename.
* *A number that outlives its process* (processgroup): signals go to a process
  group by number, and after the reap the number may name a group of somebody else.
* *Select loops over several endings* (snapshot, oracle): the order of terminal
  state, completed streams, overflow, abort and deadline is arbitrary, and some
  descendant may keep a pipe open for ever.
* *One outcome, many writers* (browser): handlers, timer, context and launcher race,
  and clients are told who won before the answer is printed.
* *Approval and execution at different times* (clients): between a review and its
  apply the tool is upgraded, an owner edits, another transaction runs, an answer is
  lost and the call repeated, a signal or a crash ends the process.
* *Records in other hands* (gates): every command must admit again what an earlier one
  made, and a decision must rest on receipts for this plan and this content.
* *An algorithm that avoids comparing pairs* (scheduler): equal prefixes arrive in
  any order of an unstable sort, and owners are aggregated along a stack.

`hazards` in `PROJECT.json` lists each with its line and the properties against it.

## 2. Modules

Each component has a module with its state, `Init`, actions, `Next`, `Spec` and
properties; proofs are in `...Proofs`; `MC...` gives TLC its values where the
`.cfg` cannot. PreparationResidue and TransactionClients call these `ResidueInit`,
`ClientsNext` and so on, because their proofs stand beside those of another component:
ControlStateProofs is about InspectionLease and PreparationResidue, CommandProcessProofs
about OneShotSession and TransactionClients. Definitions whose name ends in `Variant` are slips a programmer
could make in the definition that follows them; the specification does not use
them.

| Module | Source | Role |
|---|---|---|
| RepositoryTransaction | RT `plan`, `transaction`, `preparation`, `journal`, `execution`, `recovery`, `recovery_action`, `cleanup`, `directory_ownership`, `terminal_receipt`, `control_state`, `state`, `filesystem`, `lock`, `replay` | the engine |
| AtomicTransaction | - | what the engine promises: a transaction is begun, decided once and closed, with all targets after or all before |
| RepositoryTransactionRefinement | - | refinement mapping, property `AllOrNothing` |
| RepositoryTransactionInvariant | - | the inductive invariant of the engine, `Durable` and `Holder` |
| InspectionLease | RT `inspection_lease`, `lock`, `platform_unix`, parts of `plan`, `preparation`, `recovery`; `projectstatus/inspect.go` | readers against writers and against moves of the control directory |
| PreparationResidue | RT `residue.go` | inspection and quarantine |
| RetainedChild | `processgroup/lifecycle.go`, `process_unix.go`, `observe_linux.go` | one child with any caller |
| GitOutput | `repositorysnapshot/git_inventory.go` | EXTENDS RetainedChild: the caller is gitOutput |
| TestCommand | `commandoracle/execute.go`, `stderr.go`, `events.go` | EXTENDS RetainedChild: the caller is waitGoTestCommand |
| OneShotSession | `requirementbrowser/server.go`, `http_handler.go` | the one-shot session |
| SchedulerConflicts | `witnessschedulerplan/parallel_conflicts.go` | the interference check |
| LifecyclePlan | `agentintegration/lifecycle*.go`, `adoptionmaterialization/build.go` | what a client decides before it asks for a transaction, and its receipt |
| TransactionClients | the same, `app/transaction_signal.go`, `app/agent_integration_lifecycle_command.go`, RT `transaction`, `recovery`, `replay` | EXTENDS LifecyclePlan: both clients over one engine |
| TransactionClientsRefinement | - | what each client sees of the engine, as an instance of AtomicTransaction |
| SelectiveGatePlan | `selectivegateplan` | the planner and the admission of its output |
| SelectiveGateEvidence | `selectivegateevidence`, `receipt*`, `obligationdecision` | from receipts to decisions |
| ProofGate | the same, `changedpathset` | EXTENDS both: a change on its way through the gate |

### RepositoryTransaction

A plan is its content, `[before, after, created]`, because the code identifies a
plan by the digest of that content; two processes with the same content have the
same transaction. `active` is the plan journalled in the active directory or
`NoPlan`; `entries` are the other files there (`objects`, `ready`, `committed`,
`rolled-back`, `resume`, `rollback`, the interrupted `publish.tmp`, the receipts);
`owned` are the directory ownership records; `tombs` the terminal tombstones with
outcome, `retired` name and what is left in them.

A command that holds the lock is a `run` with an ordered table of phases, one per
helper the Go function calls: `ApplyOrder` is `engine.apply`,
`PreparingFailureOrder` is `finishPreparingFailure`, `ApplyRollbackOrder` is
`rollbackAfterFailure`, and `ResumeOrder`, `RollbackOrder`, `PreparingOrder`,
`CommittedOrder`, `RolledBackOrder` are the branches of `engine.recover`, which
`Dispatch` selects from the same entries in the same order as the code. One action
per phase says what the helper does and how it can fail: `WriteEntry` covers a
control file that was renamed although the call reports an error, `Publish`
inspects a target (`armed`) and replaces it in a second step, so that an edit or a
crash may fall in between. `ApplyPreflight` checks the targets before the lock,
`ApplyAdmit` again after it, and `ReplayApplied` answers a caller that asks whether
its plan had been applied.

The environment is `Crash` (the holder dies, its flock is released) and
`ForeignEdit` (a writer that takes no lock). Both and every failing step draw on
`MaxFaults`. `touched` is history: targets a foreign writer changed under the
journalled plan; it is computed again when a journal is published, from what the
plan found. A journal still named `journal.tmp`, as an earlier version leaves it, is
one of the initial states.

Abstractions: a target is one value for content and mode together; `BuildPlan` is
atomic, which `PlanSeesOneMoment` of InspectionLease justifies; the position
observed in a recovery ranges over all targets, unchanged ones are skipped;
staged objects are whole when `objects` is there.

### InspectionLease

`ns` is the inode found at the path of the control directory. A lease opens a
directory (`OpenDirectory`), locks it (`Lock`) and compares it with its path
(`Verified`) in separate steps, so it may have been replaced in any of the gaps.
Readers without a control directory hold no lock at all and depend on the
appearance check alone. `BuildPlan` reads the targets one by one and verifies at
the end; `status` reads them twice (`Read`, `Reread`), inspects the control state
before and after (`InspectControl`, `Status`), and retries once. A writer may put
any content anywhere between the publication of its journal and its end; the
detail of that is RepositoryTransaction. No lock call waits: a busy lock is an
error, hence `Leave`.

`CheckRoutes` is the last `verifyRoutes` of a writer (`preparation.go:145`) and `Publish`
its rename (`preparation.go:148`), two steps. What is renamed is the private directory in
`transaction-residue`, a sibling of the locked `transactions`, so the rename succeeds in
whatever `transactions` directory the path leads to by then. If it was replaced or removed
between the two lines, the writer publishes and writes under the lock of a directory that
is no longer there: a second writer, or a reader that locked the new directory, is not kept
away. The history variable `gap` records that this happened, and the three properties
are conditional on `~gap`; without the condition TLC violates each of them. So they say that
this is the only place where a moved directory can hurt a writer that locked it before: every
other replacement is noticed or harmless. No document of the repository promises more, so it
is listed as a hazard and not as a finding.

Environment assumption `Movable`: nobody moves the control directory while work is
pending or a recovery is active. `recover` (`recovery.go:30-67`), unlike planning
and preparation, does not compare its locked directory with the path again; the
model states the dependence instead of hiding it. Content of foreign edits is
always new, so that a change that was undone is not mistaken for none.

### PreparationResidue

A directory is its inode and one of three bodies: empty, a torn journal, or an
admissible journal. `Inspect` returns an observation; `Quarantine`, `Check`, `Confirm`,
`Rename`, `Sync`, `Verify` are the steps of a quarantine in order, each of which
may `Fail` or `Crash`; a call that dies or was refused may be repeated by either operator
with any observation ever returned. `Disturb` lets somebody without the lock change the active
or the destination directory between any two of them, and `EngineWorks` lets the
engine make or finish a transaction between calls. `Reported` is the deferred
conversion of errors after the rename into the unverified outcome, so ordinary and
unverified errors stay apart. `touched` is history, the directories that somebody without
the lock took away or altered: `ResidueIsKept` says that every observed residue that is not
in it is where it was, or in the directory named after its own observation. It relates
calls with each other: a call with one observation must not file the residue of another,
and the engine must not clear it away.

### RetainedChild, GitOutput, TestCommand

RetainedChild splits each goroutine where it takes or gives up the mutex: `Observe`
asks the kernel without it, `Record` records the answer under it; `WatcherWakes`
and `WatcherAborts` are the context watcher; `FinishBegins` ... `FinishReturns` are
the stages of `Finish`, with the final sweep under the same lock as the seal. The
kernel is external: `Signal` may succeed, find no process, be refused
(`Refusing`), or reach a group that took over the number; a signalled process is
`doomed` and `Dies` later; `Stealing` lets something else reap the child. The
caller aborts and finishes once, whenever it likes.

GitOutput and TestCommand replace that caller by the real ones. Both have copier or
parser goroutines that report once, pipes that descendants may hold after leaving
the group, overflows, a deadline that is armed only after the child is terminal,
and the order of answers of the Go `switch`. TestCommand adds failing closes and the
filter that clears a read error after our own close (`execute.go:263`). The filter knows one
of two codes: a close that cuts a read between lines gives `event.line_invalid_or_oversized`
(`cut`), which it clears; one that cuts it within a line makes `bufio.Scanner` deliver the
partial line first, which is rejected as `event.json_invalid` (`torn`) and stays. The
theorems `GitKeepsTheContract` and `TestKeepsTheContract` say that each is a
behaviour of RetainedChild, so what is proved there holds for both.

### OneShotSession

`committed`, `packets` and `winner` are `terminalArbiter`; a handler is admitted or
rejected by its semaphore (`Admit`), decides under the mutex (`Decide`) and answers
in a later step (`Respond`). The main goroutine selects an event, commits or reads
the winning packet, closes the listener, drains or severs the connections, waits
for Serve and only then prints. `severed` handlers may still run, but nobody
receives their answer. `Faulty` lets Serve, Close and the writer fail.

### SchedulerConflicts

`VisitCommand` is the loop over the policies in id order, `SweepScope` one turn of
the stack sweep. Strings occur only through their order and the prefix relation,
which `OrderAssumption` states (total order; extensions of a prefix are an
interval that it opens). `Lowest` lets the unstable sort put equal prefixes in any
order. The reference definition compares all pairs of commands.

### LifecyclePlan and TransactionClients

A transaction is the record of what a client found in its targets and what it wants
there; the code names it by the digest of the same content, `after` alone is the
identity of the desired state. `Conflict` decides whether a client goes on:
`RecognizeLifecyclePair` for integration, `RecognizeArtifacts` (validateExistingArtifacts
and validateSourcePlanFreshness) for adoption, with `ReceiptState` and `BusyState` the two
shapes of receipt. A target holds nothing, a version of its client's bytes, or bytes that
no version wrote. For adoption such bytes are those whose owner or identity is another;
an artifact of the project itself that was edited is replaced by design once an operator
approves.

`Review` prints a plan, `StartApply` and `StartRecover` begin a run of a process, `Replan`
builds the plan again with whatever tool is installed now and compares, `ReplayApplied`
answers a retry, `Journal` ... `Compact` are the transaction, `Recover` takes either action
on what is pending. The engine is the one AtomicTransaction promises, with the markers
clients depend on: files change in the step that decides, because nothing that cooperates
reads them between journal and receipt; `todo` is the part of the targets that
classifyPrefix leaves to move. Between any two steps an owner edits (`Edit`), a signal
comes (`Signal`), the waiter restores the handlers (`Restore`) or the process dies
(`Crash`). `Write` is the answer together with the closing of the scope.

Abstractions: the observation of a plan is one step (`PlanSeesOneMoment`); whether a
source plan was made for the repository as it is now is a free choice at each planning;
distinct versions come from distinct source plans; a recover is started with an
identity that is pending or retained, as reports name no other. Identities are content:
a retry of an install after its removal is the same transaction and installs again,
which is what its approval says.

### SelectiveGatePlan, SelectiveGateEvidence, ProofGate

A path, a text or an id is a model value and a pattern the set of paths it matches.
`Pushed` lists what `buildPlan` pushes group by group; `RequiredCommands` keeps the first
of each key, `PlanFailures` collects the rest; `PlanAdmitted` is what every consumer
checks of a plan it is given. The evidence module follows one receipt: the producer's
claim (`ReceiptAllowed`), the evidence report, currentness, trust, their projection on
obligations and the decision by rank. ProofGate makes each command of the program an
action and lets the carrier of the records err (`LosePart`, `Misfile`, odd claims, odd
diagnostics, lost routes) and the content move on (`Edit`).

What the gate does not claim, and the properties leave out: a plan is not
authenticated, so a failed plan whose failures were cleared, or a plan without a base,
a dependency or an impact command, cannot be told from a genuine one; texts of api, impact and
generated commands are not compared on admission; the subject of a producer receipt is
the command id alone, so that receipts of two commands sharing an id are
interchangeable; digests are the caller's.

## 3. Runs

Sizes are distinct states with two workers; the slowest take about two and a half minutes.

| Run | Checks | States |
|---|---|---|
| transaction_safety | one process with three faults: `PublicationIsReadable`, `OutcomesTellTheTruth`, `DirectoriesAccountedFor`, `ControlStateRecoverable`, `ResultsAreTrue`, `NoReversal`, and under fairness `RecoveryCompletes` | 545 k |
| transaction_two_processes | two processes, one fault: `StalePlanNeverJournalled` and the refinement `AllOrNothing` | 958 k |
| transaction_clients | both clients, two processes, two versions: `OwnersBytesSurvive`, `AnswersAreTrue`, `OneSignalIsAnswered` | 855 k |
| inspection_lease | two calls, two targets, two control directories, one edit: `WriterOwnsNamespace`, `PlanSeesOneMoment`, `StatusSeesOneMoment` | 3.46 M |
| preparation_residue | two operators, two inodes, two foreign changes: `OutcomeIsHonest`, `RetryIsRecognised`, `ResidueIsKept`, `JournalStaysPut` | 1.09 M |
| git_output | the loop over a retained child, with a thief, refusals and every order of goroutines: `OutputIsWhole`, `NoStraySignal`, `FinishIsConclusive`, `LossRevokesTargeting` | 530 k |
| git_output_liveness | `GitReturns`, `FinishReturnsEventually`, `CancellationAborts` | 63 k |
| test_command | the oracle's loop: `PassedIsWhole`, `MalformedIsExplained`, `SuiteReturns` | 463 k |
| own_close_blamed | the same loop, a finding: `OwnCloseIsNoDefect` is violated | - |
| one_shot_session | 1 query, 1 handoff, 1 cancellation, 1 slot: `PrintedIsWinner`, `AcceptedIsPrinted`, `PrintedAfterClose`, and under fairness `OutcomeEndsSession` | 445 k |
| scheduler_conflicts | 3 commands, 5 prefixes, 2 names: `SelectorReportIsExact`, `PolicyReportIsExact` | 1.85 M |
| proof_gate | 14 sets of facts, 2 producers, one mistake: `PlanSurvivesHandover`, `DecisionIsBacked`, `PassedCoversChange`, `ReportsAgree` | 350 k |

**What they show.** The `about` of each run and the comment above each property say
it exactly; in short:

* *The engine.* Whatever fails or dies, the targets are a prefix of the plan and nothing
  is published before the ready marker (`PublicationIsReadable`); markers, receipts and
  tombstones describe the targets (`OutcomesTellTheTruth`); a rolled back transaction
  leaves none of its directories, and recovery adopts only empty unrecorded ones
  (`DirectoriesAccountedFor`); control state between any two steps is admissible and one
  recovery direction is admitted (`ControlStateRecoverable`), once chosen never reversed
  (`NoReversal`), and an operator who keeps trying finishes (`RecoveryCompletes`); results
  reported to the caller are true (`ResultsAreTrue`). A stale plan is never journalled,
  and every behaviour is one of AtomicTransaction (`AllOrNothing`).
* *Its clients.* Bytes that no version of a client wrote are never overwritten, and a
  target moves only between the two images of an approved plan; no command claims success
  without it or denies a change it made, a retry is acknowledged exactly when its own
  transaction is the one applied last, and one signal never costs the answer.
* *Gates.* A plan the planner makes is accepted, a changed one that says ok has lost
  nothing derivable; an obligation is satisfied only by one current, trusted receipt of
  its own; a pass covers every change; and the two reports agree.
* *Readers.* A plan or a status is about one moment although files are read one by
  one and locks may be missing; a writer owns the directory at the path. All three
  unless the control directory was moved in the gap before a writer's rename.
* *Residue.* Observed residue stays where it was or under the name of its own observation,
  over any mixture of failed, repeated and dead calls; an ordinary error means that
  nothing moved; a repeated call is recognised; a journal is never taken away.
* *Children.* No SIGKILL goes to a foreign group, `Finish` joins everything, and a
  clean `Finish` left no process; output and test results are believed only when they
  were seen whole, and the loops end even if a pipe is held open.
* *Browser.* The printed packet is the winner's, clients were told the truth, and
  nothing is printed before the server is down; a session with an outcome ends.
* *Scheduler.* The one-pass algorithms report what the pairwise comparison reports.

**A finding.** `own_close_blamed` checks what the comment at
`tools/commandoracle/execute.go:261` says, "Our failed-path close is not a new parser defect".
TLC shows a child that is lost or a stderr copy that fails, upon which the loop closes stdout
while a line is half read: the result is a malformed event, which takes precedence over the
failure that caused it. `MalformedIsExplained` is what does hold: the torn line is never
blamed alone, the failure behind the close is reported beside it.

**Bounds and why they are enough.**

* *Two targets, one directory*: a prefix with a cut before, between and after the
  targets, the second in a directory to be created, the first outside. The desired
  vectors contain creation, replacement, deletion and unchanged targets. More targets
  add cuts of the same three kinds.
* *Faults*: three reach a failed apply, a failed rollback after it and a crash or
  edit during the recovery of that; a fourth falls into a state that recovery has
  already been in. Two processes and one fault are enough for a stale plan,
  because a plan is stale after one foreign commit. The liveness run has two.
* *Leases*: two calls are every pair of kinds against each other; two directories are
  one replacement; one edit is what a second pass must notice, as each edit changes
  one file. Processes are interchangeable (symmetry); properties and fairness-free
  specification do not name them.
* *Residue*: two inodes are the observed directory and one put in its place; two
  changes allow taking away and putting back.
* *Children*: there is one child; goroutines are finite and no counter is bounded.
  The pipes are exactly stdout and stderr.
* *Sessions*: one handoff against one cancellation, the timer, the context and the launcher
  lets each kind win and lose; one slot shared with one query exhausts the semaphore. A
  second handoff or cancellation could only lose to the first as the other kind does; a run
  with two of each was checked for safety (5.6 M states, no error); with liveness it takes
  too long to keep.
* *Clients*: two versions are the tool that planned and the one that applies; two reviews
  let each client, or two operations of one, meet; three runs are an apply, what follows
  a lost answer or a crash, and one more that finds its result; two processes race for the
  lock. Of edits and faults there is one, or two signals (an edit or fault weighs two,
  a signal one): a run with three was checked once, 4.0 M states, and takes too long to keep.
  Processes and versions are interchangeable (symmetry).
* *Gates*: each of the fourteen sets of facts exercises one derivation of the planner (two
  of them are refused); two sources of paths meet, two producers differ in what they may
  claim, two trust classes in what they require. One mistake of the carrier is what the
  checks promise to catch; `MaxBurden` = 4 counts planned commands, mistakes, edits and useless
  receipts together.
* *Scheduler*: three commands are needed to aggregate two owners in one frame and find
  a third below; the five prefixes (the empty one of `*`, 1, 2, 11, 12) have a root, a
  chain, siblings and an unrelated one.

Deadlock is checked except where the system stops by design (a child, a session, a
report, a decision that is finished, a spent number of runs), which each `.cfg` says.

## 4. Fairness

Safety runs assume none, except that `transaction_safety`, `test_command` and
`one_shot_session` check safety and liveness under the fair specification in the same run.

* *Engine*: `WF(Engine)` - a process that holds the lock goes on until it returns or
  dies; calls that were begun go on; an operator with pending work eventually tries
  each recovery action (weak fairness per action). Faults are bounded, which is what
  "eventually finished" depends on; foreign edits end the promise (`touched`).
* *Children*: goroutines are scheduled; SIGKILL ends its target (`Dies`). The child
  itself, its descendants and the context owe nothing. Liveness runs have
  `Refusing = FALSE`: if the kernel refuses signals, nobody can promise that a child
  ends. In TestCommand a reader must end only when its pipe was closed by us or by all
  writers; if an escaped descendant holds stdout for ever only the context ends the
  call, and `SuiteReturns` says no more than that.
* *Session*: serveOneShot is scheduled and Serve ends after its listener is closed. A
  handler may wait for a body for ever, the timer may never fire.

## 5. Proofs

TLAPS proves, for all values of the constants under the assumptions named in the
modules:

| Theorem | Of | Argument |
|---|---|---|
| TypeCorrect | RepositoryTransaction `TypeOK` | needs `RunShape`: the phase belongs to the run's table and the holder has a plan in memory, otherwise the table lookup and the actions that read the plan are undefined |
| LeaseTypeCorrect, WriterOwns, PlansSeeOneMoment, StatusesSeeOneMoment | InspectionLease | which lock a call holds at each place (`PlaceInv`), exclusion per inode, where pending work is, and what a reader may still conclude while its path leads where it led (`PlanInv`, `StatusInv`). Inodes do not return, so a directory that is still there was there throughout. All three under `~gap`: a step that ends without a gap began without one and moved nothing under a writer about to rename (`GapStays`) |
| SignalsStayHome, FinishSpeaksTheTruth, LossIsFinal | RetainedChild | `NumberInv` (the number is taken over only after the reap, and the reap of an unstolen child comes after the seal), `StageInv` (who is done at each stage of Finish) |
| GitKeepsTheContract, GitSignalsStayHome | GitOutput implements RetainedChild | `LoopInv`: the loop calls Finish once and aborts only before it |
| OutputAlwaysWhole | GitOutput | every abort has left a reason that the answer looks at (`ReasonInv`), a completion received as good came from the end of its pipe (`StreamInv`) |
| TestKeepsTheContract, PassedAlwaysWhole, MalformedAlwaysExplained | TestCommand | the same, with the flag of the operation's own abort as a reason and with the parser's verdict (`ParserInv`) and the drain (`StderrInv`) apart; a torn line has a failure behind it, because the loop closes stdout only after one (`TornInv`) |
| WinnerIsPrinted, AcceptanceIsHonoured, CloseComesFirst | OneShotSession | what handlers conclude from the arbiter (`ArbiterInv`), what the session knows at each stage (`ChoiceInv`), how far the server is closed (`CloseInv`) |
| PolicyReportExact | SchedulerConflicts | the seen sets are the union over visited policies |
| SelectorReportExact | SchedulerConflicts | swept scopes that matter to a pending one are on the stack (`OnStackInv`), the stack is a chain (`ChainInv`), frames aggregate the owners above their prefix (`FramesInv`), and the flags are the overlaps of swept scopes (`VerdictInv`) |
| DecisionsAreBacked | ProofGate `DecisionIsBacked` | filed receipts that name a run have its status and command (`FiledHonest`), diagnostics are about receipts that were single (`EntriesHonest`), nothing is decided before the decision (`Undecided`); then the rank order leaves satisfied only to a candidate without any worse state. Together `BackedInv` |
| PlansSurvive | ProofGate `PlanSurvivesHandover` | what was built from admitted facts is admitted, because the key of each derived command is pushed and the first of a key has its reason unless the plan fails (`BuiltIsAdmitted`); `WayInv` says what a plan on its way still shares with the one built |
| PassedIsCovered | ProofGate `PassedCoversChange` | by `WayInv` the plan decided on is the one built, each changed thing pushed a command under its key, the verdict passes only if every obligation of the plan is satisfied (`VerdictInv`), and a satisfied one is backed (`BackedInv`) |
| ReportsDoAgree | ProofGate `ReportsAgree` | a passing decision has one backed receipt per command, which is what the evidence report asks; the other way, as long as nobody erred (`Faultless`: honest runs, and diagnostics that say what was found, both about the same obligations) a current receipt reaches the decision as satisfied |
| PublicationReadable, OutcomesTrue, DirectoriesRight, AlwaysRecoverable, StaleNeverJournalled, ResultsTrue, NeverReverses | RepositoryTransaction | `Durable` and `Holder`, see below |
| Implements | RepositoryTransaction implements AtomicTransaction (`AllOrNothing`) | a step of the holder leaves the mapped state alone except at the journal (Begin), the terminal marker (Decide) and the rename to a tombstone (Close); there `MarkersAgree` and `TargetsCut` say that the targets are what the outcome promises |
| OutcomesAreHonest, RetriesAreRecognised, JournalsStayPut | PreparationResidue | `ResidueInv`: one call at a time has the lock (`OneCall`), what it has seen so far (`CallSees`) and what it has moved and published (`CallKnows`) at each stage |
| ResidueStaysKept | PreparationResidue | `KeptInv`: where each observed residue is; a call past its checks either finds what it was given or something new or touched in its place (`CallKeeping`), because inodes are not given twice (`IdsInv`) |
| OwnersKeepBytes, AnswersHold, SignalsAreAnswered | TransactionClients | `ClientsInv`: what a command asks was approved (`Asks`), what it works on under the lock is part of that (`Works`), what it has decided is what engine and receipt say (`Knows`, `DecisionKnown`), and a cancelled scope has had its signal (`SignalsCounted`) |
| ClientsSeeAtomicity | the view of each client of TransactionClients implements AtomicTransaction | `WatchedInv`: `ClientsInv`, and every target not edited since the journal is where the open transaction says (`FilesAccounted`), because what is left to move takes it there (`Remains`) |

The assumptions are `SizesAssumption`, `ContentsAssumption`, `DirsAssumption`,
`NamesAssumption`, `ForeignAssumption`, `OpenAssumption` (RepositoryTransaction and its
refinement), `LeaseAssumption`, `ResidueAssumption`, `NoNodeAssumption`,
`SwitchesAssumption`, `RoutesAssumption`, `GroupAssumption`, `PolicyAssumption`,
`OrderAssumption`, `VersionAssumption` and `ClientsAssumption`; all say that constants have
the shape the code gives them and that names are distinct. `TrustAssumption` (ProofGate)
says more: the policy file the caller supplies can be read and grants the claimed trust
class to an honest run that passed. Only ReportsDoAgree uses it, since under a policy
that grants nothing the evidence report passes while no obligation can be satisfied, and
rightly so. Runs evaluate all of them on their instances.

Each invariant theorem follows the same way: `Init` implies the invariant, each
action preserves it (one lemma or one step per action), and the invariant implies
the property. Theorems about steps (`LossIsFinal`, `PlansSeeOneMoment`,
`StatusesSeeOneMoment`, `NeverReverses`, `ResultsTrue`,
`JournalsStayPut` and the three about TransactionClients) come from the same invariants.
Every invariant below was checked by TLC on the instance of its run before it was proved;
several were strengthened by what TLC or the prover answered.

**The engine.** The safety properties are not inductive: that the targets are cut
into published and untouched ones is kept by `publish` only because the holder knows
where it stands, and by a recovery only because a dead process left what its successor
reads. So the invariant has two halves. `Durable` is about what is on disk, whoever
stops where: entries need a journal, markers agree with each other, with the one
recovery direction and with the targets; every target lies in directories that exist;
the plan's created directories are the plan's. It has to survive a crash in each of
its states, and mentions no process. `Holder` is about the process with the lock: in
which phase which markers are there (`HolderDirection`, `HolderMarker`), where the cut is
(`HolderCut`), which directories are made (`HolderDirectories`) and which receipts are gone
(`HolderTombstones`). A crash falsifies the premises of `Holder` and leaves `Durable`; a new
command establishes `Holder` from `Durable` by what `Dispatch` reads. A foreign edit
changes a target that is then in `touched`, and every statement about a target excepts
those.

**The clients.** Each of the three properties speaks of a step, and each needs the whole
past of a run: who approved, under which lock, after which decision. `Works` says that
whoever is between journal and receipt holds the lock, so that for any other process
either nothing of the engine changes or it holds nothing itself (`OthersKeep`): this
one lemma carries the interleavings. `DecisionKnown` is what makes answers true after
losses: the last decision is in the engine while a transaction is open and in the receipt
afterwards, until a new transaction opens.

`ClientsSeeAtomicity` closes the circle between the two models of the engine.
TransactionClients has the engine in a few variables; RepositoryTransaction has it step
by step. Both implement AtomicTransaction: the engine as a whole (`Implements`), and for
each client its own targets in the engine it shares (`View(client)`), where the journal is
Begin, the decision Decide and the archive Close, and all the other client does is a
stutter because the targets of the two are disjoint. `WatchedSpec` is `ClientsSpec` with a
history variable, `touched`, which `Watch` computes in every step from that step and which
no action reads, so it excludes no behaviour. As in the refinement of the engine, a target
an owner edited counts as Foreign until a transaction finds it again, even if the owner
puts the old bytes back. No run has this refinement as a property: with two versions it
takes more than five minutes. TLC checked `WatchedInv` on the constants of
MCTransactionClients (864,584 states with `touched`) and the view of both clients with one
version (251,844 states) before they were proved.

## 6. Only model-checked

* Liveness everywhere (`RecoveryCompletes`, `GitReturns`, `FinishReturnsEventually`,
  `CancellationAborts`, `SuiteReturns`, `OutcomeEndsSession`): the prover does no ENABLED.

Every invariant and every action property that the runs find to hold is proved, and so are
the two refinements of AtomicTransaction.

## 7. Not modelled, and why

* Power loss: the engine makes no such promise (`repositorytransaction/model.go:42-47`).
  A crash of a process keeps what its operations did; sync matters in the models only
  because it can fail after the effect.
* In RT: the identity (inode) of directories it created, names of temporary files other
  than the interrupted publication, size limits, platforms without locks, foreign
  creation of directories.
* The double look at the control state in `inspectControlState` and in the capture of
  residue is one observation: cooperating processes are excluded by the lock, and a
  change undone in between is invisible to the code too.
* `processgroup`: a second `Finish` of a child (a contract error) and the platform
  without process groups.
* Browser: the long-lived mode, windows, rendering, the page. Connections that
  `Shutdown` waits for are over-approximated. If Serve dies by itself the session ends
  without a commit; `AcceptedIsPrinted` excludes that case because the code reports it
  as a failed server.
* Scheduler: admission of the plan and order of groups. `selectorPrefix` is taken as
  given; commands without a policy are skipped here because another check rejects them.
* Clients: admission, closure and manifests of adoption requests, texts of documents, the
  integration's check command (one file read twice under a lease).
* Gates: path patterns, rendering, `changeworkflowplan` and `impact`.
* Record formats, admission, projections, guidance, release tools: sequential functions
  of bounded input, better served by tests than by a state machine. They are most of the
  147 000 lines: the tools that build and verify packages alone are a fifth. The map
  therefore covers a small share of the program's lines and most of those in which more
  than one thing can happen next; it grows with the algorithms named in section 8, not by
  describing parsers and printers.

## 8. Plan

The order was and remains: the engine first, then what reads beside it, then
processes, then the browser, then algorithms. Built: sections 2 to 5; the safety of
all of it is proved. Left:

1. **runCarrierStreams** of the workflow smoke tool as a third client of RetainedChild.
2. **Algorithms**: change workflow plan and requirement source transition as operators
   against reference definitions.
3. **Browser**: windows and the long-lived mode.

New runs will share instances with those above where they can.
