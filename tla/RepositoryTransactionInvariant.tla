------------------ MODULE RepositoryTransactionInvariant ------------------
(***************************************************************************)
(* The inductive invariant behind the safety of RepositoryTransaction: what *)
(* the control directory and the targets tell at every moment (Durable),   *)
(* whoever stops where, and what the holder of the lock knows of them in   *)
(* each phase of its run (Holder).  Definitions only; the proofs are in    *)
(* RepositoryTransactionProofs, and the definitions can be named in a      *)
(* configuration of MCRepositoryTransaction like any invariant.            *)
(***************************************************************************)
EXTENDS RepositoryTransactionRefinement

---------------------------------------------------------------------------
(* Where a run stands *)

\* The holder's transaction is the one journalled in `active`.
Recording ==
    /\ run \notin {"none", "tombstone"}
    /\ phase \notin {"prepareJournal", "compactTerminalTombstone"}

\* The entries that name an outcome.
Terminal == {"committed", "rolled-back", "applied", "rolled_back"}

\* The holder has not written a terminal marker yet ...
Unmarked ==
    \/ phase \in {"stageObjects", "writeReady", "finishPreparingFailure",
                  "rollbackAfterFailure", "selectRecoveryAction",
                  "ensureTargetDirectories", "publish", "rollbackPrefix",
                  "removeInterruptedTemporary", "writeCommitted",
                  "writeRolledBack"}
    \/ phase = "removeCreatedDirectories" /\ run # "rolledBack"
    \/ phase = "discardTerminalReceipt" /\ run \in {"apply", "resume", "rollback"}

\* ... or it has.
Marked == Recording /\ ~Unmarked
Marker == IF run \in {"apply", "resume", "committed"} THEN "committed" ELSE "rolled-back"

\* The targets are where the plan found them.
AtStart ==
    \/ phase \in {"prepareJournal", "stageObjects", "writeReady",
                  "finishPreparingFailure", "removeInterruptedTemporary",
                  "writeRolledBack"}
    \/ phase = "removeCreatedDirectories" /\ run # "rolledBack"
    \/ phase = "selectRecoveryAction" /\ run \in {"preparing", "preparingFailure"}

\* No directory of the plan exists.
NothingMade ==
    \/ phase \in {"prepareJournal", "stageObjects", "writeReady",
                  "finishPreparingFailure", "writeRolledBack"}
    \/ phase = "discardTerminalReceipt" /\ run = "apply"
    \/ phase = "selectRecoveryAction" /\ run = "preparingFailure"

\* The receipt of the previous transaction is gone.
Discarded ==
    \/ phase \in {"ensureTargetDirectories", "publish", "writeCommitted",
                  "cleanupRecovered", "archiveTerminal", "rollbackAfterFailure",
                  "rollbackPrefix", "removeInterruptedTemporary"}
    \/ phase = "selectRecoveryAction" /\ run = "applyRollback"
    \/ phase = "removeCreatedDirectories" /\ run # "preparing"
    \/ phase = "writeRolledBack" /\ run \in {"applyRollback", "rollback"}

RollsBack == run \in {"preparingFailure", "applyRollback", "rollback", "preparing"}

\* What the plan found and wants agrees with the directories: the parents of a
\* target that was there are not the plan's to remove, and those of a target it
\* writes are there or the plan's to create.
PlanFits(pl) ==
    \A i \in Path :
        /\ pl.after[i] # Absent => Parents[i] \subseteq pl.created \cup dirs
        /\ pl.before[i] # Absent => Parents[i] \subseteq dirs \ pl.created

---------------------------------------------------------------------------
(* Durable: what holds of the file system whoever stops where *)

EmptyWithoutJournal == active = NoPlan => entries = {} /\ owned = {}

\* Recovery goes one way, and forward only from the ready marker.
OneDirection ==
    /\ "resume" \in entries => "rollback" \notin entries
    /\ "resume" \in entries => "ready" \in entries

MarkersAgree ==
    /\ "committed" \in entries =>
          {"rolled-back", "rollback", "rolled_back"} \cap entries = {}
    /\ "rolled-back" \in entries => {"resume", "applied"} \cap entries = {}
    /\ "applied" \in entries => "committed" \in entries
    /\ "rolled_back" \in entries => "rolled-back" \in entries

TargetsCut ==
    /\ PrefixOnly
    /\ active # NoPlan /\ "ready" \notin entries => Cut(active, 0)
    /\ "committed" \in entries => Cut(active, N)
    /\ "rolled-back" \in entries => Cut(active, 0)

\* A target lies in directories that exist.
Tree == \A i \in Path : targets[i] # Absent => Parents[i] \subseteq dirs

DirectoriesFit ==
    /\ Tree
    /\ active # NoPlan => PlanFits(active)
    /\ active # NoPlan /\ "ready" \notin entries => active.created \cap dirs = {}
    /\ RolledBackLeavesNoDirectory
    /\ UnrecordedDirectoryIsEmpty

TombstonesFit == ControlStateAdmissible /\ TombstoneTellsTheTruth

Durable ==
    /\ EmptyWithoutJournal /\ OneDirection /\ MarkersAgree /\ TargetsCut
    /\ DirectoriesFit /\ TombstonesFit /\ StalePlanNeverJournalled

---------------------------------------------------------------------------
(* Holder: what the lock holder knows in each phase *)

HolderJournal ==
    /\ Recording => active = work
    /\ phase \in {"prepareJournal", "compactTerminalTombstone"} => active = NoPlan

HolderDirection ==
    Recording =>
        /\ run = "apply" => {"resume", "rollback"} \cap entries = {}
        /\ run \in {"resume", "committed"} => "rollback" \notin entries
        /\ RollsBack \/ run = "rolledBack" => "resume" \notin entries
        /\ phase # "selectRecoveryAction" /\ run = "resume" => "resume" \in entries
        /\ phase # "selectRecoveryAction" /\ RollsBack => "rollback" \in entries
        /\ run \in {"resume", "rollback", "applyRollback"} => "ready" \in entries
        /\ run = "apply" /\ phase \notin {"stageObjects", "writeReady",
                                          "finishPreparingFailure"} =>
              "ready" \in entries

HolderMarker ==
    /\ Unmarked => Terminal \cap entries = {}
    /\ Marked => Marker \in entries

HolderCut ==
    /\ Unmarked /\ phase # "rollbackAfterFailure" => Cut(work, pos)
    /\ phase = "writeCommitted" => Cut(work, N)
    /\ AtStart => Cut(work, 0)
    /\ phase = "prepareJournal" => pos = 0

HolderDirectories ==
    /\ phase = "prepareJournal" => PlanFits(work)
    /\ NothingMade => work.created \cap dirs = {}
    /\ phase = "publish" => work.created \subseteq owned \cap dirs

HolderTombstones ==
    /\ Discarded => tombs = {}
    /\ phase = "prepareJournal" => \A t \in tombs : t.rest = "receipt"

Holder ==
    /\ HolderJournal /\ HolderDirection /\ HolderMarker /\ HolderCut
    /\ HolderDirectories /\ HolderTombstones
==========================================================================
