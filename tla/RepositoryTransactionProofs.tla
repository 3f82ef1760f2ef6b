------------------- MODULE RepositoryTransactionProofs -------------------
(***************************************************************************)
(* What is proved of RepositoryTransaction for every number of processes,  *)
(* targets, directories and faults.                                        *)
(*                                                                         *)
(* Types first.  TypeOK is not inductive: Proceed looks the next phase up  *)
(* in the table of the run, which needs the phase to be one of that run's, *)
(* and most engine steps read the plan in memory, which needs the run to   *)
(* have one.  RunShape adds both.                                          *)
(*                                                                         *)
(* Safety next: Durable and Holder of RepositoryTransactionInvariant are   *)
(* preserved by every step, one lemma per action, and imply the safety     *)
(* invariants.  From them also what a step may never do (ResultsAreTrue,   *)
(* NoReversal) and the simulation of AtomicTransaction.                    *)
(***************************************************************************)
EXTENDS RepositoryTransactionInvariant, TLAPS

PhasesOf ==
    [none |-> {"none"},
     tombstone |-> {"compactTerminalTombstone"},
     apply |-> {"prepareJournal", "stageObjects", "writeReady",
                "discardTerminalReceipt", "ensureTargetDirectories", "publish",
                "writeCommitted", "archiveTerminal", "compactTerminalTombstone",
                "finishPreparingFailure", "rollbackAfterFailure"},
     preparingFailure |-> {"selectRecoveryAction", "writeRolledBack",
                "discardTerminalReceipt", "archiveTerminal",
                "compactTerminalTombstone"},
     applyRollback |-> {"selectRecoveryAction", "rollbackPrefix",
                "removeInterruptedTemporary", "removeCreatedDirectories",
                "writeRolledBack", "archiveTerminal",
                "compactTerminalTombstone"},
     resume |-> {"selectRecoveryAction", "discardTerminalReceipt",
                "ensureTargetDirectories", "publish", "writeCommitted",
                "cleanupRecovered", "archiveTerminal",
                "compactTerminalTombstone"},
     rollback |-> {"selectRecoveryAction", "discardTerminalReceipt",
                "rollbackPrefix", "removeInterruptedTemporary",
                "removeCreatedDirectories", "writeRolledBack",
                "cleanupRecovered", "archiveTerminal",
                "compactTerminalTombstone"},
     preparing |-> {"selectRecoveryAction", "removeCreatedDirectories",
                "writeRolledBack", "discardTerminalReceipt",
                "cleanupRecovered", "archiveTerminal",
                "compactTerminalTombstone"},
     committed |-> {"discardTerminalReceipt", "cleanupRecovered",
                "archiveTerminal", "compactTerminalTombstone"},
     rolledBack |-> {"discardTerminalReceipt", "removeCreatedDirectories",
                "cleanupRecovered", "archiveTerminal",
                "compactTerminalTombstone"}]

\* The holder of the lock runs a command with a plan in memory, the phase is one
\* of that command's, and an apply past its preflight has the caller's plan.
RunShape ==
    /\ lock = Nobody <=> run = "none"
    /\ run # "none" => work \in Plan
    /\ phase \in PhasesOf[run]
    /\ \A p \in Proc : pc[p] = "preflight" => plan[p] # NoPlan

TypeInv == TypeOK /\ RunShape

\* The phases from which a run goes on in its table.
Continues(ph) ==
    ph \notin {"none", "compactTerminalTombstone", "finishPreparingFailure",
               "rollbackAfterFailure"}

\* Every phase of a run but the last has a successor in the same run.
LEMMA Successor ==
    ASSUME NEW r \in Runs, NEW ph \in PhasesOf[r], Continues(ph)
    PROVE  /\ r \in DOMAIN Order
           /\ Order[r][ph] \in PhasesOf[r]
<1>1. CASE r \in {"none", "tombstone"}
  BY <1>1 DEF PhasesOf, Continues
<1>2. CASE r = "apply"
  BY <1>2 DEF PhasesOf, Continues, Order, ApplyOrder
<1>3. CASE r = "preparingFailure"
  BY <1>3 DEF PhasesOf, Continues, Order, PreparingFailureOrder
<1>4. CASE r = "applyRollback"
  BY <1>4 DEF PhasesOf, Continues, Order, ApplyRollbackOrder
<1>5. CASE r = "resume"
  BY <1>5 DEF PhasesOf, Continues, Order, ResumeOrder
<1>6. CASE r = "rollback"
  BY <1>6 DEF PhasesOf, Continues, Order, RollbackOrder
<1>7. CASE r = "preparing"
  BY <1>7 DEF PhasesOf, Continues, Order, PreparingOrder
<1>8. CASE r = "committed"
  BY <1>8 DEF PhasesOf, Continues, Order, CommittedOrder
<1>9. CASE r = "rolledBack"
  BY <1>9 DEF PhasesOf, Continues, Order, RolledBackOrder
<1> QED BY <1>1, <1>2, <1>3, <1>4, <1>5, <1>6, <1>7, <1>8, <1>9 DEF Runs

\* The phases of a run are phases.
LEMMA PhasesOfType == ASSUME NEW r \in Runs PROVE PhasesOf[r] \subseteq Phases
BY DEF Runs, Phases, PhasesOf

---------------------------------------------------------------------------
(* Type correctness, in two halves: what is durable, and what the commands *)
(* keep in memory.                                                         *)

DurableOK ==
    /\ targets \in Vector /\ dirs \subseteq Dir
    /\ active \in Plan \cup {NoPlan} /\ entries \subseteq Entries
    /\ owned \subseteq Dir /\ tombs \subseteq Tombstone
    /\ touched \subseteq Path /\ faults \in 0..MaxFaults

MemoryOK ==
    /\ lock \in Proc \cup {Nobody} /\ run \in Runs /\ phase \in Phases
    /\ work \in Plan \cup {NoPlan} /\ pos \in 0..N /\ armed \in BOOLEAN
    /\ pc \in [Proc -> {"idle", "preflight"}]
    /\ plan \in [Proc -> Plan \cup {NoPlan}]
    /\ last \in Results
    /\ RunShape

LEMMA TypeHalves == TypeInv <=> DurableOK /\ MemoryOK
BY DEF TypeInv, TypeOK, DurableOK, MemoryOK

\* A fault step stays within the bound.
LEMMA FaultType ==
    ASSUME faults \in 0..MaxFaults, Fault \/ NoFault
    PROVE  faults' \in 0..MaxFaults
BY SizesAssumption DEF Fault, NoFault

\* The ways in which a step of the lock holder leaves the memory.
LEMMA StayType == ASSUME MemoryOK, Stay PROVE MemoryOK'
BY DEF MemoryOK, Stay, jobVars, callerVars, RunShape

LEMMA ReturnType ==
    ASSUME MemoryOK, NEW result \in Results, Return(result)
    PROVE  MemoryOK'
<1>1. phase' \in PhasesOf[run'] /\ run' \in Runs /\ phase' \in Phases
  BY DEF Return, PhasesOf, Runs, Phases
<1>2. lock' = Nobody /\ run' = "none" /\ work' = NoPlan /\ last' \in Results
  BY DEF Return
<1>5. pos' \in 0..N
  BY SizesAssumption DEF Return
<1>6. armed' \in BOOLEAN
  BY DEF Return
<1>3. pc' \in [Proc -> {"idle", "preflight"}]
  BY DEF Return, MemoryOK
<1>4. plan' \in [Proc -> Plan \cup {NoPlan}]
  BY DEF Return, MemoryOK
<1>7. \A p \in Proc : pc'[p] = "preflight" => plan'[p] # NoPlan
  BY DEF Return, MemoryOK, RunShape
<1> QED BY <1>1, <1>2, <1>3, <1>4, <1>5, <1>6, <1>7 DEF MemoryOK, RunShape

LEMMA ProceedType ==
    ASSUME MemoryOK, Continues(phase), Proceed
    PROVE  MemoryOK'
<1>1. phase' = Order[run][phase] /\ run' = run
  BY DEF Proceed, GoTo
<1>2. phase' \in PhasesOf[run'] /\ phase' \in Phases
  BY <1>1, Successor, PhasesOfType DEF MemoryOK, RunShape
<1> QED BY <1>1, <1>2 DEF MemoryOK, RunShape, Proceed, GoTo, callerVars

\* Only apply stages objects and writes the ready marker.
LEMMA PreparingFailsType ==
    ASSUME MemoryOK, phase \in {"stageObjects", "writeReady"},
           GoTo("finishPreparingFailure")
    PROVE  MemoryOK'
<1>1. run = "apply"
  BY DEF MemoryOK, RunShape, PhasesOf, Runs
<1>2. phase' = "finishPreparingFailure" /\ run' = "apply"
  BY <1>1 DEF GoTo
<1>3. phase' \in PhasesOf[run'] /\ phase' \in Phases
  BY <1>2 DEF PhasesOf, Phases
<1> QED BY <1>1, <1>2, <1>3 DEF MemoryOK, RunShape, GoTo, callerVars

LEMMA ForwardFailsType == ASSUME MemoryOK, ForwardFails PROVE MemoryOK'
<1>1. CASE run = "apply" /\ GoTo("rollbackAfterFailure")
  <2>1. phase' = "rollbackAfterFailure" /\ run' = "apply"
    BY <1>1 DEF GoTo
  <2>2. phase' \in PhasesOf[run'] /\ phase' \in Phases
    BY <2>1 DEF PhasesOf, Phases
  <2> QED BY <1>1, <2>1, <2>2 DEF MemoryOK, RunShape, GoTo, callerVars
<1>2. CASE run = "resume" /\ Return("recovery_required")
  BY <1>2, ReturnType DEF Results
<1> QED BY <1>1, <1>2 DEF ForwardFails

\* The plan of a command that has a phase in its table.
LEMMA HolderHasPlan ==
    ASSUME MemoryOK, phase # "none"
    PROVE  run # "none" /\ work \in Plan
BY DEF MemoryOK, RunShape, PhasesOf

---------------------------------------------------------------------------
(* One lemma per engine step. *)

LEMMA PrepareJournalType ==
    ASSUME DurableOK, MemoryOK, PrepareJournal PROVE DurableOK' /\ MemoryOK'
<1>1. Continues(phase) /\ run # "none" /\ work \in Plan
  BY HolderHasPlan DEF PrepareJournal, Continues
<1>2. DurableOK'
  BY <1>1, FaultType DEF PrepareJournal, DurableOK, repoVars
<1>3. MemoryOK'
  BY <1>1, ProceedType, ReturnType DEF PrepareJournal, JournalFailure, Results
<1> QED BY <1>2, <1>3

LEMMA StageObjectsType ==
    ASSUME DurableOK, MemoryOK, StageObjects PROVE DurableOK' /\ MemoryOK'
<1>1. DurableOK'
  BY FaultType DEF StageObjects, DurableOK, Entries, repoVars
<1>2. Continues(phase) /\ phase \in {"stageObjects", "writeReady"}
  BY DEF StageObjects, Continues
<1>3. MemoryOK'
  BY <1>2, ProceedType, PreparingFailsType DEF StageObjects
<1> QED BY <1>1, <1>3

LEMMA WriteReadyType ==
    ASSUME DurableOK, MemoryOK, WriteReady PROVE DurableOK' /\ MemoryOK'
<1>1. DurableOK'
  BY FaultType DEF WriteReady, WriteEntry, DurableOK, Entries, repoVars,
                   controlVars, NoFault
<1>2. Continues(phase) /\ phase \in {"stageObjects", "writeReady"}
  BY DEF WriteReady, Continues
<1>3. MemoryOK'
  BY <1>2, ProceedType, PreparingFailsType DEF WriteReady, WriteEntry
<1> QED BY <1>1, <1>3

LEMMA FinishPreparingFailureType ==
    ASSUME DurableOK, MemoryOK, FinishPreparingFailure
    PROVE  DurableOK' /\ MemoryOK'
<1>1. DurableOK'
  BY DEF FinishPreparingFailure, DurableOK, repoVars, controlVars
<1>2. CASE Return("recovery_required")
  BY <1>1, <1>2, ReturnType DEF Results
<1>3. CASE run' = "preparingFailure" /\ phase' = "selectRecoveryAction"
           /\ UNCHANGED <<lock, work, pos, armed, last, callerVars>>
  <2>1. phase' \in PhasesOf[run'] /\ phase' \in Phases /\ run' \in Runs
    BY <1>3 DEF PhasesOf, Phases, Runs
  <2>2. run # "none" /\ work \in Plan
    BY HolderHasPlan DEF FinishPreparingFailure
  <2> QED BY <1>1, <1>3, <2>1, <2>2 DEF MemoryOK, RunShape, callerVars
<1> QED BY <1>1, <1>2, <1>3 DEF FinishPreparingFailure

LEMMA RollbackAfterFailureType ==
    ASSUME DurableOK, MemoryOK, RollbackAfterFailure
    PROVE  DurableOK' /\ MemoryOK'
<1>1. DurableOK'
  BY DEF RollbackAfterFailure, DurableOK, repoVars, controlVars
<1>2. CASE Return("recovery_required")
  BY <1>1, <1>2, ReturnType DEF Results
<1>3. CASE /\ pos' \in 0..N
           /\ run' = "applyRollback" /\ phase' = "selectRecoveryAction"
           /\ armed' = FALSE
           /\ UNCHANGED <<lock, work, last, callerVars>>
  <2>1. phase' \in PhasesOf[run'] /\ phase' \in Phases /\ run' \in Runs
    BY <1>3 DEF PhasesOf, Phases, Runs
  <2>2. run # "none" /\ work \in Plan
    BY HolderHasPlan DEF RollbackAfterFailure
  <2>3. armed' \in BOOLEAN
    BY <1>3
  <2> QED BY <1>1, <1>3, <2>1, <2>2, <2>3 DEF MemoryOK, RunShape, callerVars
<1> QED BY <1>1, <1>2, <1>3 DEF RollbackAfterFailure

LEMMA SelectRecoveryActionType ==
    ASSUME DurableOK, MemoryOK, SelectRecoveryAction
    PROVE  DurableOK' /\ MemoryOK'
<1>1. DurableOK'
  BY FaultType DEF SelectRecoveryAction, WriteEntry, Action, DurableOK, Entries,
                   repoVars, controlVars, NoFault
<1>2. Continues(phase)
  BY DEF SelectRecoveryAction, Continues
<1>3. MemoryOK'
  BY <1>2, ProceedType, ReturnType DEF SelectRecoveryAction, WriteEntry, Results
<1> QED BY <1>1, <1>3

LEMMA DiscardTerminalReceiptType ==
    ASSUME DurableOK, MemoryOK, DiscardTerminalReceipt
    PROVE  DurableOK' /\ MemoryOK'
<1>1. ASSUME NEW t \in tombs, RetireStep(t) PROVE tombs' \subseteq Tombstone
  <2>1. t \in Tombstone
    BY DEF DurableOK
  <2>2. /\ [t EXCEPT !.retired = TRUE] \in Tombstone
        /\ [t EXCEPT !.rest = "empty"] \in Tombstone
    BY <2>1 DEF Tombstone
  <2> QED BY <1>1, <2>2 DEF RetireStep
<1>2. tombs' \subseteq Tombstone
  BY <1>1 DEF DiscardTerminalReceipt, DurableOK
<1>3. faults' \in 0..MaxFaults
  BY FaultType DEF DiscardTerminalReceipt, DurableOK
<1>4. DurableOK'
  BY <1>2, <1>3 DEF DiscardTerminalReceipt, DurableOK, repoVars
<1>5. Continues(phase)
  BY DEF DiscardTerminalReceipt, Continues
<1>6. MemoryOK'
  BY <1>5, ProceedType, StayType, ReturnType DEF DiscardTerminalReceipt, Results
<1> QED BY <1>4, <1>6

LEMMA EnsureTargetDirectoriesType ==
    ASSUME DurableOK, MemoryOK, EnsureTargetDirectories
    PROVE  DurableOK' /\ MemoryOK'
<1>1. Continues(phase) /\ work.created \subseteq Dir
  BY HolderHasPlan DEF EnsureTargetDirectories, Continues, Plan
<1>2. DurableOK'
  BY <1>1, FaultType DEF EnsureTargetDirectories, DurableOK
<1>3. MemoryOK'
  BY <1>1, ProceedType, StayType, ForwardFailsType DEF EnsureTargetDirectories
<1> QED BY <1>2, <1>3

\* What Inspect and Replace do to the durable state, whatever a failure does.
LEMMA InspectDurable ==
    ASSUME DurableOK, NEW i \in Path, NEW content \in Contents,
           entries' \in {entries, entries \cup Temporary(content)},
           UNCHANGED <<repoVars, active, owned, tombs, touched>>,
           Fault \/ NoFault
    PROVE  DurableOK'
BY FaultType DEF DurableOK, Temporary, Entries, repoVars

LEMMA ReplaceDurable ==
    ASSUME DurableOK, NEW i \in Path, NEW content \in Contents,
           targets' \in {targets, [targets EXCEPT ![i] = content]},
           entries' \in {entries, entries \ {"publish.tmp"}},
           UNCHANGED <<dirs, active, owned, tombs, touched>>,
           Fault \/ NoFault
    PROVE  DurableOK'
<1>1. targets' \in Vector
  BY DEF DurableOK, Vector
<1> QED BY <1>1, FaultType DEF DurableOK

\* A step that moves pos or arms the replacement and keeps the rest of the job.
LEMMA AdvanceType ==
    ASSUME MemoryOK, pos' \in 0..N, armed' \in BOOLEAN,
           UNCHANGED <<lock, run, phase, work, last, callerVars>>
    PROVE  MemoryOK'
BY DEF MemoryOK, RunShape, callerVars

LEMMA PublishType ==
    ASSUME DurableOK, MemoryOK, Publish PROVE DurableOK' /\ MemoryOK'
<1>1. Continues(phase) /\ work \in Plan
  BY HolderHasPlan DEF Publish, Continues
<1>2. CASE pos = N /\ Proceed /\ UNCHANGED <<repoVars, controlVars, touched, faults>>
  <2>1. DurableOK'
    BY <1>2 DEF DurableOK, repoVars, controlVars
  <2> QED BY <1>1, <1>2, <2>1, ProceedType
<1>3. ASSUME NEW i \in Path, SkipUnchanged(i) PROVE DurableOK' /\ MemoryOK'
  <2>1. DurableOK'
    BY <1>3 DEF SkipUnchanged, DurableOK, repoVars, controlVars
  <2>2. pos' \in 0..N /\ armed' \in BOOLEAN
    BY <1>3, SizesAssumption DEF SkipUnchanged, Path, MemoryOK
  <2> QED BY <1>3, <2>1, <2>2, AdvanceType DEF SkipUnchanged
<1>4. ASSUME NEW i \in Path,
             Inspect(i, work.before[i], work.after[i], ForwardFails)
      PROVE  DurableOK' /\ MemoryOK'
  <2>1. work.after[i] \in Contents
    BY <1>1 DEF Plan, Vector
  <2>2. DurableOK'
    BY <1>4, <2>1, InspectDurable DEF Inspect
  <2>3. CASE ForwardFails
    BY <2>2, <2>3, ForwardFailsType
  <2>4. CASE armed' = TRUE /\ UNCHANGED <<lock, run, phase, work, pos, last, callerVars>>
    <3>1. pos' \in 0..N /\ armed' \in BOOLEAN
      BY <2>4 DEF MemoryOK
    <3> QED BY <2>2, <2>4, <3>1, AdvanceType
  <2> QED BY <1>4, <2>3, <2>4 DEF Inspect
<1>5. ASSUME NEW i \in Path, Replace(i, work.after[i], i, ForwardFails)
      PROVE  DurableOK' /\ MemoryOK'
  <2>1. work.after[i] \in Contents
    BY <1>1 DEF Plan, Vector
  <2>2. DurableOK'
    BY <1>5, <2>1, ReplaceDurable DEF Replace
  <2>3. CASE ForwardFails
    BY <2>2, <2>3, ForwardFailsType
  <2>4. CASE armed' = FALSE /\ pos' = i /\ UNCHANGED <<lock, run, phase, work, last, callerVars>>
    <3>1. pos' \in 0..N
      BY <2>4, SizesAssumption DEF Path
    <3>2. armed' \in BOOLEAN
      BY <2>4
    <3> QED BY <2>2, <2>4, <3>1, <3>2, AdvanceType
  <2> QED BY <1>5, <2>3, <2>4 DEF Replace
<1> QED BY <1>2, <1>3, <1>4, <1>5 DEF Publish

LEMMA RollbackPrefixType ==
    ASSUME DurableOK, MemoryOK, RollbackPrefix PROVE DurableOK' /\ MemoryOK'
<1>1. Continues(phase) /\ work \in Plan
  BY HolderHasPlan DEF RollbackPrefix, Continues
<1>2. CASE pos = 0 /\ Proceed /\ UNCHANGED <<repoVars, controlVars, touched, faults>>
  <2>1. DurableOK'
    BY <1>2 DEF DurableOK, repoVars, controlVars
  <2> QED BY <1>1, <1>2, <2>1, ProceedType
<1>3. ASSUME NEW i \in Path, SkipUnchanged(i - 1) PROVE DurableOK' /\ MemoryOK'
  <2>1. DurableOK'
    BY <1>3 DEF SkipUnchanged, DurableOK, repoVars, controlVars
  <2>2. pos' \in 0..N /\ armed' \in BOOLEAN
    BY <1>3, SizesAssumption DEF SkipUnchanged, Path, MemoryOK
  <2> QED BY <1>3, <2>1, <2>2, AdvanceType DEF SkipUnchanged
<1>4. ASSUME NEW i \in Path,
             Inspect(i, work.after[i], work.before[i], Return("recovery_required"))
      PROVE  DurableOK' /\ MemoryOK'
  <2>1. work.before[i] \in Contents
    BY <1>1 DEF Plan, Vector
  <2>2. DurableOK'
    BY <1>4, <2>1, InspectDurable DEF Inspect
  <2>3. CASE Return("recovery_required")
    BY <2>2, <2>3, ReturnType DEF Results
  <2>4. CASE armed' = TRUE /\ UNCHANGED <<lock, run, phase, work, pos, last, callerVars>>
    <3>1. pos' \in 0..N /\ armed' \in BOOLEAN
      BY <2>4 DEF MemoryOK
    <3> QED BY <2>2, <2>4, <3>1, AdvanceType
  <2> QED BY <1>4, <2>3, <2>4 DEF Inspect
<1>5. ASSUME NEW i \in Path,
             Replace(i, work.before[i], i - 1, Return("recovery_required"))
      PROVE  DurableOK' /\ MemoryOK'
  <2>1. work.before[i] \in Contents
    BY <1>1 DEF Plan, Vector
  <2>2. DurableOK'
    BY <1>5, <2>1, ReplaceDurable DEF Replace
  <2>3. CASE Return("recovery_required")
    BY <2>2, <2>3, ReturnType DEF Results
  <2>4. CASE armed' = FALSE /\ pos' = i - 1 /\ UNCHANGED <<lock, run, phase, work, last, callerVars>>
    <3>1. pos' \in 0..N
      BY <2>4, SizesAssumption DEF Path
    <3>2. armed' \in BOOLEAN
      BY <2>4
    <3> QED BY <2>2, <2>4, <3>1, <3>2, AdvanceType
  <2> QED BY <1>5, <2>3, <2>4 DEF Replace
<1> QED BY <1>2, <1>3, <1>4, <1>5 DEF RollbackPrefix

LEMMA RemoveInterruptedTemporaryType ==
    ASSUME DurableOK, MemoryOK, RemoveInterruptedTemporary
    PROVE  DurableOK' /\ MemoryOK'
<1>1. DurableOK'
  BY FaultType DEF RemoveInterruptedTemporary, DurableOK, repoVars
<1>2. Continues(phase)
  BY DEF RemoveInterruptedTemporary, Continues
<1>3. MemoryOK'
  BY <1>2, ProceedType, ReturnType DEF RemoveInterruptedTemporary, Results
<1> QED BY <1>1, <1>3

LEMMA RemoveCreatedDirectoriesType ==
    ASSUME DurableOK, MemoryOK, RemoveCreatedDirectories
    PROVE  DurableOK' /\ MemoryOK'
<1>1. Continues(phase) /\ work.created \subseteq Dir
  BY HolderHasPlan DEF RemoveCreatedDirectories, Continues, Plan
<1>2. DurableOK'
  BY <1>1, FaultType DEF RemoveCreatedDirectories, DurableOK
<1>3. MemoryOK'
  BY <1>1, ProceedType, StayType, ReturnType DEF RemoveCreatedDirectories, Results
<1> QED BY <1>2, <1>3

LEMMA WriteTerminalMarkerType ==
    ASSUME DurableOK, MemoryOK, WriteTerminalMarker
    PROVE  DurableOK' /\ MemoryOK'
<1>1. DurableOK'
  BY FaultType DEF WriteTerminalMarker, WriteEntry, DurableOK, Entries, repoVars
<1>2. Continues(phase)
  BY DEF WriteTerminalMarker, Continues
<1>3. MemoryOK'
  BY <1>2, ProceedType, ReturnType DEF WriteTerminalMarker, WriteEntry, Results
<1> QED BY <1>1, <1>3

LEMMA OutcomeType == Outcome \in {"applied", "rolled_back"}
BY DEF Outcome

LEMMA ArchiveTerminalType ==
    ASSUME DurableOK, MemoryOK, ArchiveTerminal
    PROVE  DurableOK' /\ MemoryOK'
<1>1. Continues(phase) /\ work \in Plan
  BY HolderHasPlan DEF ArchiveTerminal, Continues
<1>2. [id |-> work, state |-> Outcome, retired |-> FALSE, rest |-> "full"]
         \in Tombstone
  BY <1>1, OutcomeType DEF Tombstone
<1>3. faults' \in 0..MaxFaults
  BY FaultType DEF ArchiveTerminal, WriteEntry, DurableOK
<1>4. DurableOK'
  BY <1>2, <1>3, OutcomeType
     DEF ArchiveTerminal, WriteEntry, DurableOK, Entries, repoVars, controlVars
<1>5. MemoryOK'
  BY <1>1, ProceedType, StayType, ReturnType
     DEF ArchiveTerminal, WriteEntry, Results
<1> QED BY <1>4, <1>5

LEMMA CompactTerminalTombstoneType ==
    ASSUME DurableOK, MemoryOK, CompactTerminalTombstone
    PROVE  DurableOK' /\ MemoryOK'
<1>1. PICK t \in tombs :
        \/ /\ tombs' = (tombs \ {t}) \cup {[t EXCEPT !.rest = "receipt"]}
           /\ \/ Return(t.state) /\ NoFault
              \/ Return("durability_unknown") /\ Fault
        \/ /\ UNCHANGED tombs
           /\ Return("cleanup_required") /\ Fault
  BY DEF CompactTerminalTombstone
<1>2. t \in Tombstone
  BY DEF DurableOK
<1>3. [t EXCEPT !.rest = "receipt"] \in Tombstone /\ t.state \in Results
  BY <1>2 DEF Tombstone, Results
<1>4. DurableOK'
  BY <1>1, <1>3, FaultType DEF CompactTerminalTombstone, DurableOK, repoVars
<1>5. MemoryOK'
  BY <1>1, <1>3, ReturnType DEF Results
<1> QED BY <1>4, <1>5

LEMMA EngineType ==
    ASSUME DurableOK, MemoryOK, Engine PROVE DurableOK' /\ MemoryOK'
BY PrepareJournalType, StageObjectsType, WriteReadyType,
   FinishPreparingFailureType, RollbackAfterFailureType,
   SelectRecoveryActionType, DiscardTerminalReceiptType,
   EnsureTargetDirectoriesType, PublishType, RollbackPrefixType,
   RemoveInterruptedTemporaryType, RemoveCreatedDirectoriesType,
   WriteTerminalMarkerType, ArchiveTerminalType, CompactTerminalTombstoneType
   DEF Engine

---------------------------------------------------------------------------
(* Commands and the environment. *)

LEMMA DurableUnchanged ==
    ASSUME DurableOK, UNCHANGED <<repoVars, controlVars, touched, faults>>
    PROVE  DurableOK'
BY DEF DurableOK, repoVars, controlVars

\* A command that ends leaves the lock holder alone.
LEMMA EndType ==
    ASSUME MemoryOK, NEW p \in Proc, NEW result \in Results,
           Refuse(p, result) \/ Drop(p)
    PROVE  MemoryOK'
BY DEF MemoryOK, RunShape, Refuse, Drop, jobVars

LEMMA StartType ==
    ASSUME MemoryOK, NEW p \in Proc, NEW r \in Runs, NEW ph, NEW pl \in Plan,
           NEW c \in 0..N, r # "none", ph \in PhasesOf[r],
           Start(p, r, ph, pl, c), UNCHANGED callerVars
    PROVE  MemoryOK'
<1>1. lock' \in Proc /\ lock' # Nobody
  BY NamesAssumption DEF Start
<1>2. run' = r /\ phase' = ph /\ work' = pl /\ pos' = c
  BY DEF Start
<1>3. armed' \in BOOLEAN /\ last' \in Results
  BY DEF Start, Results
<1>4. RunShape'
  BY <1>1, <1>2 DEF RunShape, MemoryOK, callerVars
<1>5. phase' \in Phases
  BY <1>2, PhasesOfType
<1> QED BY <1>1, <1>2, <1>3, <1>4, <1>5 DEF MemoryOK, callerVars

LEMMA CommandType ==
    ASSUME DurableOK, MemoryOK, NEW p \in Proc, Command(p)
    PROVE  DurableOK' /\ MemoryOK'
<1>1. CASE BuildPlan(p)
  <2>1. PICK v \in Desired :
          plan' = [plan EXCEPT ![p] =
                      [before |-> targets, after |-> v, created |-> Missing(v)]]
    BY <1>1 DEF BuildPlan
  <2>2. [before |-> targets, after |-> v, created |-> Missing(v)] \in Plan
    BY ContentsAssumption DEF Plan, Missing, DurableOK
  <2>3. MemoryOK'
    BY <1>1, <2>1, <2>2, NamesAssumption DEF BuildPlan, MemoryOK, RunShape, jobVars
  <2> QED BY <1>1, <2>3, DurableUnchanged DEF BuildPlan
<1>2. CASE ApplyPreflight(p)
  <2>1. CASE Drop(p)
    BY <2>1, EndType, DurableUnchanged DEF Drop, Results
  <2>2. CASE /\ pc' = [pc EXCEPT ![p] = "preflight"]
             /\ UNCHANGED <<repoVars, controlVars, jobVars, plan, touched, faults>>
    <3>1. MemoryOK'
      BY <1>2, <2>2 DEF ApplyPreflight, MemoryOK, RunShape, jobVars
    <3> QED BY <2>2, <3>1, DurableUnchanged
  <2> QED BY <1>2, <2>1, <2>2 DEF ApplyPreflight
<1>3. CASE ApplyAdmit(p)
  <2>1. ASSUME NEW result \in Results, Refuse(p, result)
        PROVE  DurableOK' /\ MemoryOK'
    BY <2>1, EndType, DurableUnchanged DEF Refuse
  <2>2. CASE /\ Start(p, "apply", "prepareJournal", plan[p], 0)
             /\ Executable(plan[p])
             /\ UNCHANGED <<repoVars, controlVars, callerVars, touched, faults>>
    <3>1. plan[p] \in Plan
      BY <1>3 DEF ApplyAdmit, MemoryOK, RunShape
    <3> QED BY <2>2, <3>1, SizesAssumption, StartType, DurableUnchanged
            DEF PhasesOf, Runs
  <2> QED BY <1>3, <2>1, <2>2 DEF ApplyAdmit, Results
<1>4. CASE Busy(p)
  BY <1>4, EndType, DurableUnchanged DEF Busy, Drop, Results
<1>5. CASE ReplayApplied(p)
  <2>1. ASSUME NEW result \in Results, Refuse(p, result)
        PROVE  DurableOK' /\ MemoryOK'
    BY <2>1, EndType, DurableUnchanged DEF Refuse
  <2> QED BY <1>5, <2>1 DEF ReplayApplied, Results
<1>6. ASSUME NEW action \in {"resume", "rollback"}, RecoverActive(p, action)
      PROVE  DurableOK' /\ MemoryOK'
  <2>1. CASE Refuse(p, "recovery_required")
    BY <2>1, EndType, DurableUnchanged DEF Refuse, Results
  <2>2. CASE /\ Dispatch(action) # "refused"
             /\ \E c \in 0..N :
                   /\ At(active, c)
                   /\ Start(p, Dispatch(action), FirstPhase(Dispatch(action)),
                            active, c)
             /\ entries' = entries \ {"journal.tmp"}
             /\ UNCHANGED <<repoVars, active, owned, tombs, callerVars, touched, faults>>
    <3>1. Dispatch(action) \in {"committed", "rolledBack", "preparing",
                                "resume", "rollback"}
      BY <2>2 DEF Dispatch
    <3>2. FirstPhase(Dispatch(action)) \in PhasesOf[Dispatch(action)]
      BY <3>1 DEF FirstPhase, PhasesOf
    <3>3. active \in Plan
      BY <1>6 DEF RecoverActive, DurableOK
    <3>4. MemoryOK'
      BY <2>2, <3>1, <3>2, <3>3, StartType DEF Runs
    <3>5. DurableOK'
      BY <2>2 DEF DurableOK, repoVars
    <3> QED BY <3>4, <3>5
  <2> QED BY <1>6, <2>1, <2>2 DEF RecoverActive
<1>7. ASSUME NEW action \in {"resume", "rollback"}, RecoverTombstone(p, action)
      PROVE  DurableOK' /\ MemoryOK'
  <2>1. CASE Refuse(p, "recovery_required")
    BY <2>1, EndType, DurableUnchanged DEF Refuse, Results
  <2>2. ASSUME NEW t \in tombs,
               Start(p, "tombstone", FirstPhase("tombstone"), t.id, 0),
               UNCHANGED <<repoVars, controlVars, callerVars, touched, faults>>
        PROVE  DurableOK' /\ MemoryOK'
    <3>1. t.id \in Plan
      BY DEF DurableOK, Tombstone
    <3>2. FirstPhase("tombstone") \in PhasesOf["tombstone"]
      BY DEF FirstPhase, PhasesOf
    <3> QED BY <2>2, <3>1, <3>2, SizesAssumption, StartType, DurableUnchanged
            DEF Runs
  <2> QED BY <1>7, <2>1, <2>2 DEF RecoverTombstone
<1> QED BY <1>1, <1>2, <1>3, <1>4, <1>5, <1>6, <1>7 DEF Command

LEMMA CrashType == ASSUME DurableOK, MemoryOK, Crash PROVE DurableOK' /\ MemoryOK'
<1>1. DurableOK'
  BY FaultType DEF Crash, DurableOK, repoVars, controlVars
<1> QED BY <1>1, ReturnType DEF Crash, Results

LEMMA ForeignEditType ==
    ASSUME DurableOK, MemoryOK, NEW i \in Path, NEW content \in Contents,
           ForeignEdit(i, content)
    PROVE  DurableOK' /\ MemoryOK'
<1>1. targets' \in Vector
  BY DEF ForeignEdit, DurableOK, Vector
<1>2. DurableOK'
  BY <1>1, FaultType DEF ForeignEdit, DurableOK, controlVars
<1>3. MemoryOK'
  BY DEF ForeignEdit, MemoryOK, RunShape, jobVars, callerVars
<1> QED BY <1>2, <1>3

---------------------------------------------------------------------------

LEMMA InitType == Init => DurableOK /\ MemoryOK
<1> SUFFICES ASSUME Init PROVE DurableOK /\ MemoryOK
  OBVIOUS
<1>1. targets \in Vector /\ dirs \subseteq Dir /\ owned \subseteq Dir
      /\ tombs \subseteq Tombstone /\ touched \subseteq Path
  BY DEF Init
<1>2. active \in Plan \cup {NoPlan} /\ entries \subseteq Entries
  <2>1. \A v \in Desired : InitialPlan(v) \in Plan
    BY <1>1, ContentsAssumption DEF InitialPlan, Plan, Missing
  <2> QED BY <2>1 DEF Init, Entries
<1>3. faults \in 0..MaxFaults /\ pos \in 0..N
  BY SizesAssumption DEF Init
<1>4. armed \in BOOLEAN
  BY DEF Init
<1>5. RunShape
  BY DEF Init, RunShape, PhasesOf
<1>6. /\ pc \in [Proc -> {"idle", "preflight"}]
      /\ plan \in [Proc -> Plan \cup {NoPlan}]
      /\ last \in Results /\ run \in Runs /\ phase \in Phases
      /\ lock \in Proc \cup {Nobody} /\ work \in Plan \cup {NoPlan}
  BY DEF Init, Results, Runs, Phases
<1> QED BY <1>1, <1>2, <1>3, <1>4, <1>5, <1>6 DEF DurableOK, MemoryOK

LEMMA NextType ==
    DurableOK /\ MemoryOK /\ [Next]_vars => DurableOK' /\ MemoryOK'
<1> SUFFICES ASSUME DurableOK, MemoryOK, [Next]_vars
             PROVE  DurableOK' /\ MemoryOK'
  OBVIOUS
<1>1. CASE Engine
  BY <1>1, EngineType
<1>2. ASSUME NEW p \in Proc, Command(p) PROVE DurableOK' /\ MemoryOK'
  BY <1>2, CommandType
<1>3. CASE Crash
  BY <1>3, CrashType
<1>4. ASSUME NEW i \in Path, NEW content \in Contents, ForeignEdit(i, content)
      PROVE  DurableOK' /\ MemoryOK'
  BY <1>4, ForeignEditType
<1>5. CASE UNCHANGED vars
  BY <1>5 DEF vars, repoVars, controlVars, jobVars, callerVars, DurableOK,
              MemoryOK, RunShape
<1> QED BY <1>1, <1>2, <1>3, <1>4, <1>5 DEF Next

\* The engine never leaves its state space: every phase has its successor in the
\* table of its run, every step that reads a plan has one, and each result, marker
\* and receipt it writes is one the admission code of a later command knows.
THEOREM TypeCorrect == Spec => []TypeOK
<1>1. Init => TypeInv
  BY InitType, TypeHalves
<1>2. TypeInv /\ [Next]_vars => TypeInv'
  <2>1. DurableOK' /\ MemoryOK' => TypeInv'
    BY DEF TypeInv, TypeOK, DurableOK, MemoryOK
  <2> QED BY <2>1, NextType, TypeHalves
<1>3. TypeInv => TypeOK
  BY DEF TypeInv
<1> QED BY <1>1, <1>2, <1>3, PTL DEF Spec

---------------------------------------------------------------------------
(* Safety.  What each phase is followed by, in the runs that have it.      *)

LEMMA AfterPrepareJournal ==
    ASSUME MemoryOK, phase = "prepareJournal"
    PROVE  run = "apply" /\ Order[run][phase] = "stageObjects"
BY DEF MemoryOK, RunShape, PhasesOf, Runs, Order, ApplyOrder

LEMMA AfterStageObjects ==
    ASSUME MemoryOK, phase = "stageObjects"
    PROVE  run = "apply" /\ Order[run][phase] = "writeReady"
BY DEF MemoryOK, RunShape, PhasesOf, Runs, Order, ApplyOrder

LEMMA AfterWriteReady ==
    ASSUME MemoryOK, phase = "writeReady"
    PROVE  run = "apply" /\ Order[run][phase] = "discardTerminalReceipt"
BY DEF MemoryOK, RunShape, PhasesOf, Runs, Order, ApplyOrder

LEMMA AfterDiscardTerminalReceipt ==
    ASSUME MemoryOK, phase = "discardTerminalReceipt"
    PROVE  \/ /\ run \in {"apply", "resume"}
              /\ Order[run][phase] = "ensureTargetDirectories"
           \/ run = "rollback" /\ Order[run][phase] = "rollbackPrefix"
           \/ run = "preparingFailure" /\ Order[run][phase] = "archiveTerminal"
           \/ /\ run \in {"preparing", "committed"}
              /\ Order[run][phase] = "cleanupRecovered"
           \/ run = "rolledBack" /\ Order[run][phase] = "removeCreatedDirectories"
BY DEF MemoryOK, RunShape, PhasesOf, Runs, Order, ApplyOrder, ResumeOrder,
       RollbackOrder, PreparingFailureOrder, PreparingOrder, CommittedOrder,
       RolledBackOrder

LEMMA AfterEnsureTargetDirectories ==
    ASSUME MemoryOK, phase = "ensureTargetDirectories"
    PROVE  run \in {"apply", "resume"} /\ Order[run][phase] = "publish"
BY DEF MemoryOK, RunShape, PhasesOf, Runs, Order, ApplyOrder, ResumeOrder

LEMMA AfterPublish ==
    ASSUME MemoryOK, phase = "publish"
    PROVE  run \in {"apply", "resume"} /\ Order[run][phase] = "writeCommitted"
BY DEF MemoryOK, RunShape, PhasesOf, Runs, Order, ApplyOrder, ResumeOrder

LEMMA AfterWriteCommitted ==
    ASSUME MemoryOK, phase = "writeCommitted"
    PROVE  \/ run = "apply" /\ Order[run][phase] = "archiveTerminal"
           \/ run = "resume" /\ Order[run][phase] = "cleanupRecovered"
BY DEF MemoryOK, RunShape, PhasesOf, Runs, Order, ApplyOrder, ResumeOrder

LEMMA AfterSelectRecoveryAction ==
    ASSUME MemoryOK, phase = "selectRecoveryAction"
    PROVE  \/ run = "preparingFailure" /\ Order[run][phase] = "writeRolledBack"
           \/ run = "applyRollback" /\ Order[run][phase] = "rollbackPrefix"
           \/ /\ run \in {"resume", "rollback"}
              /\ Order[run][phase] = "discardTerminalReceipt"
           \/ run = "preparing" /\ Order[run][phase] = "removeCreatedDirectories"
BY DEF MemoryOK, RunShape, PhasesOf, Runs, Order, PreparingFailureOrder,
       ApplyRollbackOrder, ResumeOrder, RollbackOrder, PreparingOrder

LEMMA AfterRollbackPrefix ==
    ASSUME MemoryOK, phase = "rollbackPrefix"
    PROVE  /\ run \in {"applyRollback", "rollback"}
           /\ Order[run][phase] = "removeInterruptedTemporary"
BY DEF MemoryOK, RunShape, PhasesOf, Runs, Order, ApplyRollbackOrder, RollbackOrder

LEMMA AfterRemoveInterruptedTemporary ==
    ASSUME MemoryOK, phase = "removeInterruptedTemporary"
    PROVE  /\ run \in {"applyRollback", "rollback"}
           /\ Order[run][phase] = "removeCreatedDirectories"
BY DEF MemoryOK, RunShape, PhasesOf, Runs, Order, ApplyRollbackOrder, RollbackOrder

LEMMA AfterRemoveCreatedDirectories ==
    ASSUME MemoryOK, phase = "removeCreatedDirectories"
    PROVE  \/ /\ run \in {"applyRollback", "rollback", "preparing"}
              /\ Order[run][phase] = "writeRolledBack"
           \/ run = "rolledBack" /\ Order[run][phase] = "cleanupRecovered"
BY DEF MemoryOK, RunShape, PhasesOf, Runs, Order, ApplyRollbackOrder,
       RollbackOrder, PreparingOrder, RolledBackOrder

LEMMA AfterWriteRolledBack ==
    ASSUME MemoryOK, phase = "writeRolledBack"
    PROVE  \/ /\ run \in {"preparingFailure", "preparing"}
              /\ Order[run][phase] = "discardTerminalReceipt"
           \/ run = "applyRollback" /\ Order[run][phase] = "archiveTerminal"
           \/ run = "rollback" /\ Order[run][phase] = "cleanupRecovered"
BY DEF MemoryOK, RunShape, PhasesOf, Runs, Order, PreparingFailureOrder,
       ApplyRollbackOrder, RollbackOrder, PreparingOrder

LEMMA AfterCleanupRecovered ==
    ASSUME MemoryOK, phase = "cleanupRecovered"
    PROVE  /\ run \in {"resume", "rollback", "preparing", "committed", "rolledBack"}
           /\ Order[run][phase] = "archiveTerminal"
BY DEF MemoryOK, RunShape, PhasesOf, Runs, Order, ResumeOrder, RollbackOrder,
       PreparingOrder, CommittedOrder, RolledBackOrder

LEMMA AfterArchiveTerminal ==
    ASSUME MemoryOK, phase = "archiveTerminal"
    PROVE  /\ run \in {"apply", "preparingFailure", "applyRollback", "resume",
                       "rollback", "preparing", "committed", "rolledBack"}
           /\ Order[run][phase] = "compactTerminalTombstone"
BY DEF MemoryOK, RunShape, PhasesOf, Runs, Order, ApplyOrder,
       PreparingFailureOrder, ApplyRollbackOrder, ResumeOrder, RollbackOrder,
       PreparingOrder, CommittedOrder, RolledBackOrder

---------------------------------------------------------------------------
(* Frames: what a step that leaves some state alone preserves.             *)

\* A cut is about the targets no foreign writer touched, and nothing else.
LEMMA CutSame ==
    ASSUME UNCHANGED <<targets, touched>>
    PROVE  \A pl, c : Cut(pl, c)' <=> Cut(pl, c)
BY DEF Cut

LEMMA CutGrows ==
    ASSUME touched \subseteq touched',
           \A i \in Path \ touched' : targets'[i] = targets[i]
    PROVE  \A pl, c : Cut(pl, c) => Cut(pl, c)'
BY DEF Cut

LEMMA AtIsCut == \A pl, c : At(pl, c) => Cut(pl, c)
BY DEF At, Cut

LEMMA FitsSame ==
    ASSUME UNCHANGED dirs PROVE \A pl : PlanFits(pl)' <=> PlanFits(pl)
BY DEF PlanFits

\* The entries that tell how far the transaction came.
Marks == {"ready", "resume", "rollback", "committed", "rolled-back", "applied",
          "rolled_back"}
SameMarks == \A m \in Marks : m \in entries' <=> m \in entries

Faulty == faults' \in {faults, faults + 1}

LEMMA FaultyStep == ASSUME Fault \/ NoFault PROVE Faulty
BY DEF Fault, NoFault, Faulty

LEMMA FaultsCounted == DurableOK => faults \in Nat
BY SizesAssumption DEF DurableOK

LEMMA StaleFrame ==
    ASSUME DurableOK, StalePlanNeverJournalled, UNCHANGED touched, Faulty
    PROVE  StalePlanNeverJournalled'
BY FaultsCounted DEF StalePlanNeverJournalled, Faulty

LEMMA TombstonesFrame ==
    ASSUME TombstonesFit, UNCHANGED <<targets, touched, active, tombs>>
    PROVE  TombstonesFit'
BY CutSame DEF TombstonesFit, ControlStateAdmissible, TombstoneTellsTheTruth

LEMMA CutFrame ==
    ASSUME TargetsCut, UNCHANGED <<targets, touched, active>>, SameMarks
    PROVE  TargetsCut'
BY CutSame DEF TargetsCut, PrefixOnly, SameMarks, Marks

LEMMA DirectoriesFrame ==
    ASSUME DirectoriesFit, UNCHANGED <<targets, dirs, touched, active, owned>>,
           SameMarks
    PROVE  DirectoriesFit'
<1>1. Tree' /\ UnrecordedDirectoryIsEmpty'
  BY DEF DirectoriesFit, Tree, UnrecordedDirectoryIsEmpty
<1>2. (active # NoPlan => PlanFits(active))'
  BY FitsSame DEF DirectoriesFit
<1>3. RolledBackLeavesNoDirectory'
  BY DEF DirectoriesFit, RolledBackLeavesNoDirectory, SameMarks, Marks
<1>4. (active # NoPlan /\ "ready" \notin entries => active.created \cap dirs = {})'
  BY DEF DirectoriesFit, SameMarks, Marks
<1> QED BY <1>1, <1>2, <1>3, <1>4 DEF DirectoriesFit

LEMMA MarksFrame ==
    ASSUME OneDirection, MarkersAgree, SameMarks
    PROVE  OneDirection' /\ MarkersAgree'
BY DEF OneDirection, MarkersAgree, SameMarks, Marks

LEMMA DurableFrame ==
    ASSUME DurableOK, Durable, SameMarks, Faulty,
           UNCHANGED <<targets, dirs, active, owned, tombs, touched>>,
           active = NoPlan => entries' = {}
    PROVE  Durable'
<1>1. EmptyWithoutJournal'
  BY DEF Durable, EmptyWithoutJournal
<1> QED BY <1>1, MarksFrame, CutFrame, DirectoriesFrame, TombstonesFrame,
           StaleFrame DEF Durable

\* A command that has returned knows nothing, and promises nothing.
LEMMA ReturnHolder ==
    ASSUME NEW result, Return(result) PROVE Holder'
<1>1. run' = "none" /\ phase' = "none"
  BY DEF Return
<1>2. ~Recording' /\ ~Unmarked' /\ ~Marked' /\ ~AtStart' /\ ~NothingMade' /\ ~Discarded'
  BY <1>1 DEF Recording, Unmarked, Marked, AtStart, NothingMade, Discarded
<1>3. HolderJournal' /\ HolderDirection' /\ HolderMarker'
  BY <1>1, <1>2 DEF HolderJournal, HolderDirection, HolderMarker
<1>4. HolderCut' /\ HolderDirectories' /\ HolderTombstones'
  BY <1>1, <1>2 DEF HolderCut, HolderDirectories, HolderTombstones
<1> QED BY <1>3, <1>4 DEF Holder

\* A step within a phase that leaves the targets and the marks alone.
LEMMA HolderRest ==
    ASSUME Holder, UNCHANGED <<run, phase, work, pos>>, SameMarks,
           UNCHANGED <<targets, active, touched>>
    PROVE  HolderJournal' /\ HolderDirection' /\ HolderMarker' /\ HolderCut'
<1>1. /\ Recording' = Recording
      /\ Unmarked' = Unmarked
      /\ Marked' = Marked
      /\ AtStart' = AtStart
      /\ RollsBack' = RollsBack
  BY DEF Recording, Unmarked, Marked, AtStart, RollsBack
<1>2. HolderJournal'
  BY <1>1 DEF Holder, HolderJournal
<1>3. HolderDirection'
  BY <1>1 DEF Holder, HolderDirection, SameMarks, Marks
<1>4. HolderMarker'
  BY <1>1 DEF Holder, HolderMarker, Marker, Terminal, SameMarks, Marks
<1>5. HolderCut'
  BY <1>1, CutSame DEF Holder, HolderCut
<1> QED BY <1>2, <1>3, <1>4, <1>5

LEMMA HolderFrame ==
    ASSUME Holder, UNCHANGED <<run, phase, work, pos>>, SameMarks,
           UNCHANGED <<targets, dirs, active, owned, tombs, touched>>
    PROVE  Holder'
<1>1. NothingMade' = NothingMade /\ Discarded' = Discarded
  BY DEF NothingMade, Discarded
<1>2. HolderDirectories'
  BY <1>1, FitsSame DEF Holder, HolderDirectories
<1>3. HolderTombstones'
  BY <1>1 DEF Holder, HolderTombstones
<1> QED BY <1>2, <1>3, HolderRest DEF Holder

---------------------------------------------------------------------------
(* One lemma per engine step: what is durable stays sound, and the holder  *)
(* knows what the next phase needs.                                        *)

Typed == DurableOK /\ MemoryOK
Safe  == Durable /\ Holder

LEMMA Moved ==
    ASSUME Proceed
    PROVE  phase' = Order[run][phase] /\ UNCHANGED <<lock, run, work, pos, armed>>
BY DEF Proceed, GoTo

LEMMA PrepareJournalSafe ==
    ASSUME Typed, Safe, PrepareJournal PROVE Safe'
<1>1. phase = "prepareJournal" /\ run = "apply" /\ work \in Plan
  BY AfterPrepareJournal, HolderHasPlan DEF PrepareJournal, Typed
<1>2. active = NoPlan /\ Cut(work, 0) /\ pos = 0 /\ PlanFits(work)
      /\ work.created \cap dirs = {} /\ (\A t \in tombs : t.rest = "receipt")
  BY <1>1 DEF Safe, Holder, HolderJournal, HolderCut, HolderDirectories,
              HolderTombstones, AtStart, NothingMade
<1>3. ASSUME active' = work, entries' = {}, owned' = {},
             touched' = {i \in Path : targets[i] # work.before[i]},
             UNCHANGED <<targets, dirs, tombs>>, Faulty
      PROVE  Durable' /\ Cut(active, 0)'
  <2>1. active' # NoPlan
    BY <1>1, <1>3, NamesAssumption
  <2>2. Cut(active, 0)'
    BY <1>3 DEF Cut, Path
  <2>3. TargetsCut'
    <3>1. PrefixOnly'
      BY <2>2, SizesAssumption DEF PrefixOnly
    <3> QED BY <1>3, <2>2, <3>1 DEF TargetsCut
  <2>4. DirectoriesFit'
    <3>1. Tree'
      BY <1>3 DEF Safe, Durable, DirectoriesFit, Tree
    <3>2. PlanFits(active)'
      BY <1>2, <1>3, FitsSame
    <3>3. UnrecordedDirectoryIsEmpty' /\ RolledBackLeavesNoDirectory'
      BY <1>2, <1>3 DEF UnrecordedDirectoryIsEmpty, RolledBackLeavesNoDirectory
    <3> QED BY <1>2, <1>3, <3>1, <3>2, <3>3 DEF DirectoriesFit
  <2>5. TombstonesFit'
    BY <1>2, <1>3, <2>1
       DEF Safe, Durable, TombstonesFit, ControlStateAdmissible, TombstoneTellsTheTruth
  <2>6. StalePlanNeverJournalled'
    <3>1. touched' \subseteq touched
      BY <1>2, <1>3 DEF Cut, Path
    <3>2. touched # {} => faults > 0
      BY DEF Safe, Durable, StalePlanNeverJournalled
    <3> QED BY <1>3, <3>1, <3>2, FaultsCounted
            DEF Typed, StalePlanNeverJournalled, Faulty
  <2> QED BY <1>3, <2>1, <2>2, <2>3, <2>4, <2>5, <2>6
          DEF Durable, EmptyWithoutJournal, OneDirection, MarkersAgree
<1>4. CASE /\ active' = work /\ entries' = {} /\ owned' = {}
           /\ touched' = {i \in Path : targets[i] # work.before[i]}
           /\ UNCHANGED <<targets, dirs, tombs>> /\ NoFault /\ Proceed
  <2>1. Durable' /\ Cut(active, 0)'
    BY <1>3, <1>4, FaultyStep
  <2>2. /\ phase' = "stageObjects" /\ run' = "apply"
        /\ work' = work /\ pos' = pos
    BY <1>1, <1>4, Moved, AfterPrepareJournal DEF Typed
  <2>3. HolderJournal' /\ HolderDirection' /\ HolderMarker'
    BY <1>4, <2>2 DEF HolderJournal, HolderDirection, HolderMarker, Recording,
                      RollsBack, Unmarked, Marked, Terminal
  <2>4. HolderCut'
    BY <1>2, <1>4, <2>1, <2>2 DEF HolderCut, Unmarked, AtStart
  <2>5. HolderDirectories' /\ HolderTombstones'
    BY <1>2, <1>4, <2>2 DEF HolderDirectories, HolderTombstones, NothingMade, Discarded
  <2> QED BY <2>1, <2>3, <2>4, <2>5 DEF Safe, Holder
<1>5. CASE /\ active' = work /\ entries' = {} /\ owned' = {}
           /\ touched' = {i \in Path : targets[i] # work.before[i]}
           /\ UNCHANGED <<targets, dirs, tombs>>
           /\ Fault /\ Return(JournalFailure(TRUE))
  BY <1>3, <1>5, FaultyStep, ReturnHolder DEF Safe
<1>6. CASE /\ UNCHANGED <<targets, dirs, tombs, active, entries, owned, touched>>
           /\ Fault /\ Return(JournalFailure(FALSE))
  <2>1. SameMarks /\ (active = NoPlan => entries' = {})
    BY <1>6 DEF SameMarks, Safe, Durable, EmptyWithoutJournal
  <2> QED BY <1>6, <2>1, FaultyStep, DurableFrame, ReturnHolder DEF Safe, Typed
<1> QED BY <1>4, <1>5, <1>6 DEF PrepareJournal, repoVars

LEMMA StageObjectsSafe ==
    ASSUME Typed, Safe, StageObjects PROVE Safe'
<1>1. phase = "stageObjects" /\ run = "apply" /\ work \in Plan /\ active = work
      /\ active # NoPlan
  BY AfterStageObjects, HolderHasPlan, NamesAssumption
     DEF StageObjects, Typed, Safe, Holder, HolderJournal, Recording
<1>2. /\ SameMarks /\ Faulty
      /\ UNCHANGED <<targets, dirs, active, owned, tombs, touched>>
  BY FaultyStep DEF StageObjects, SameMarks, Marks, repoVars
<1>3. Durable'
  BY <1>1, <1>2, DurableFrame DEF Typed, Safe
<1>4. phase' \in {"writeReady", "finishPreparingFailure"} /\ run' = "apply"
      /\ work' = work /\ pos' = pos
  BY <1>1, AfterStageObjects, Moved DEF StageObjects, Typed, GoTo
<1>5. HolderJournal' /\ HolderDirection' /\ HolderMarker'
  BY <1>1, <1>2, <1>4
     DEF Safe, Holder, HolderJournal, HolderDirection, HolderMarker, Recording,
         RollsBack, Unmarked, Marked, Terminal, SameMarks, Marks
<1>6. HolderCut'
  BY <1>1, <1>2, <1>4, CutSame DEF Safe, Holder, HolderCut, Unmarked, AtStart
<1>7. HolderDirectories' /\ HolderTombstones'
  BY <1>1, <1>2, <1>4
     DEF Safe, Holder, HolderDirectories, HolderTombstones, NothingMade, Discarded
<1> QED BY <1>3, <1>5, <1>6, <1>7 DEF Safe, Holder

\* writeAtomicOwnedFile adds at most its own entry; what the new entry claims has
\* to be true.
MarkAdded(e) ==
    /\ entries' \in {entries, entries \cup {e}} /\ Faulty
    /\ UNCHANGED <<targets, dirs, active, owned, tombs, touched>>

LEMMA MarkDurable ==
    ASSUME DurableOK, Durable, NEW e, MarkAdded(e), active # NoPlan,
           OneDirection', MarkersAgree',
           e = "committed" => Cut(active, N),
           e = "rolled-back" => Cut(active, 0) /\ active.created \cap dirs = {}
    PROVE  Durable'
<1>1. TargetsCut'
  BY CutSame DEF MarkAdded, Durable, TargetsCut, PrefixOnly
<1>2. DirectoriesFit'
  <2>1. Tree' /\ UnrecordedDirectoryIsEmpty'
    BY DEF MarkAdded, Durable, DirectoriesFit, Tree, UnrecordedDirectoryIsEmpty
  <2>2. (active # NoPlan => PlanFits(active))'
    BY FitsSame DEF MarkAdded, Durable, DirectoriesFit
  <2>3. RolledBackLeavesNoDirectory'
    BY DEF MarkAdded, Durable, DirectoriesFit, RolledBackLeavesNoDirectory
  <2>4. (active # NoPlan /\ "ready" \notin entries => active.created \cap dirs = {})'
    BY DEF MarkAdded, Durable, DirectoriesFit
  <2> QED BY <2>1, <2>2, <2>3, <2>4 DEF DirectoriesFit
<1>3. TombstonesFit' /\ StalePlanNeverJournalled'
  BY TombstonesFrame, StaleFrame DEF MarkAdded, Durable
<1>4. EmptyWithoutJournal'
  BY DEF MarkAdded, EmptyWithoutJournal
<1> QED BY <1>1, <1>2, <1>3, <1>4 DEF Durable

LEMMA WriteReadySafe ==
    ASSUME Typed, Safe, WriteReady PROVE Safe'
<1>1. phase = "writeReady" /\ run = "apply" /\ work \in Plan /\ active = work
      /\ active # NoPlan
  BY AfterWriteReady, HolderHasPlan, NamesAssumption
     DEF WriteReady, Typed, Safe, Holder, HolderJournal, Recording
<1>2. MarkAdded("ready")
  BY FaultyStep DEF WriteReady, WriteEntry, MarkAdded, repoVars, controlVars, Faulty
<1>3. OneDirection' /\ MarkersAgree'
  BY <1>2 DEF MarkAdded, Safe, Durable, OneDirection, MarkersAgree
<1>4. Durable'
  BY <1>1, <1>2, <1>3, MarkDurable DEF Typed, Safe
<1>5. /\ \/ phase' = "discardTerminalReceipt" /\ "ready" \in entries'
         \/ phase' = "finishPreparingFailure"
      /\ run' = "apply" /\ work' = work /\ pos' = pos
  BY <1>1, AfterWriteReady, Moved DEF WriteReady, WriteEntry, Typed, GoTo
<1>6. HolderJournal' /\ HolderDirection' /\ HolderMarker'
  BY <1>1, <1>2, <1>5
     DEF Safe, Holder, HolderJournal, HolderDirection, HolderMarker, Recording,
         RollsBack, Unmarked, Marked, Terminal, MarkAdded
<1>7. HolderCut'
  BY <1>1, <1>2, <1>5, CutSame
     DEF Safe, Holder, HolderCut, Unmarked, AtStart, MarkAdded
<1>8. HolderDirectories' /\ HolderTombstones'
  BY <1>1, <1>2, <1>5
     DEF Safe, Holder, HolderDirectories, HolderTombstones, NothingMade,
         Discarded, MarkAdded
<1> QED BY <1>4, <1>6, <1>7, <1>8 DEF Safe, Holder

LEMMA FinishPreparingFailureSafe ==
    ASSUME Typed, Safe, FinishPreparingFailure PROVE Safe'
<1>1. phase = "finishPreparingFailure" /\ run = "apply" /\ work \in Plan
      /\ active = work /\ active # NoPlan
  BY HolderHasPlan, NamesAssumption
     DEF FinishPreparingFailure, Typed, Safe, Holder, HolderJournal, Recording,
         MemoryOK, RunShape, PhasesOf, Runs
<1>2. /\ SameMarks /\ Faulty
      /\ UNCHANGED <<targets, dirs, active, owned, tombs, touched>>
  BY DEF FinishPreparingFailure, SameMarks, repoVars, controlVars, Faulty
<1>3. Durable'
  BY <1>1, <1>2, DurableFrame DEF Typed, Safe
<1>4. CASE run' = "preparingFailure" /\ phase' = "selectRecoveryAction"
           /\ work' = work /\ pos' = pos
  <2>1. HolderJournal' /\ HolderDirection' /\ HolderMarker'
    BY <1>1, <1>2, <1>4
       DEF Safe, Holder, HolderJournal, HolderDirection, HolderMarker, Recording,
           RollsBack, Unmarked, Marked, Terminal, SameMarks, Marks
  <2>2. HolderCut'
    BY <1>1, <1>2, <1>4, CutSame DEF Safe, Holder, HolderCut, Unmarked, AtStart
  <2>3. HolderDirectories' /\ HolderTombstones'
    BY <1>1, <1>2, <1>4
       DEF Safe, Holder, HolderDirectories, HolderTombstones, NothingMade, Discarded
  <2> QED BY <1>3, <2>1, <2>2, <2>3 DEF Safe, Holder
<1>5. CASE Return("recovery_required")
  BY <1>3, <1>5, ReturnHolder DEF Safe
<1> QED BY <1>4, <1>5 DEF FinishPreparingFailure

LEMMA RollbackAfterFailureSafe ==
    ASSUME Typed, Safe, RollbackAfterFailure PROVE Safe'
<1>1. phase = "rollbackAfterFailure" /\ run = "apply" /\ work \in Plan
      /\ active = work /\ active # NoPlan
  BY HolderHasPlan, NamesAssumption
     DEF RollbackAfterFailure, Typed, Safe, Holder, HolderJournal, Recording,
         MemoryOK, RunShape, PhasesOf, Runs
<1>2. /\ SameMarks /\ Faulty
      /\ UNCHANGED <<targets, dirs, active, owned, tombs, touched>>
  BY DEF RollbackAfterFailure, SameMarks, repoVars, controlVars, Faulty
<1>3. Durable'
  BY <1>1, <1>2, DurableFrame DEF Typed, Safe
<1>4. CASE /\ \E c \in 0..N : ObservedPrefix(c) /\ pos' = c
           /\ run' = "applyRollback" /\ phase' = "selectRecoveryAction"
           /\ work' = work
  <2>1. HolderJournal' /\ HolderDirection' /\ HolderMarker'
    BY <1>1, <1>2, <1>4
       DEF Safe, Holder, HolderJournal, HolderDirection, HolderMarker, Recording,
           RollsBack, Unmarked, Marked, Terminal, SameMarks, Marks
  <2>2. Cut(work, pos)'
    BY <1>1, <1>2, <1>4, AtIsCut, CutSame DEF ObservedPrefix
  <2>3. HolderCut'
    BY <1>4, <2>2 DEF HolderCut, AtStart
  <2>4. HolderDirectories' /\ HolderTombstones'
    BY <1>1, <1>2, <1>4
       DEF Safe, Holder, HolderDirectories, HolderTombstones, NothingMade, Discarded
  <2> QED BY <1>3, <2>1, <2>3, <2>4 DEF Safe, Holder
<1>5. CASE Return("recovery_required")
  BY <1>3, <1>5, ReturnHolder DEF Safe
<1> QED BY <1>4, <1>5 DEF RollbackAfterFailure

LEMMA SelectRecoveryActionSafe ==
    ASSUME Typed, Safe, SelectRecoveryAction PROVE Safe'
<1>1. phase = "selectRecoveryAction" /\ work \in Plan /\ active = work
      /\ active # NoPlan
      /\ run \in {"preparingFailure", "applyRollback", "resume", "rollback", "preparing"}
  BY HolderHasPlan, NamesAssumption, AfterSelectRecoveryAction
     DEF SelectRecoveryAction, Typed, Safe, Holder, HolderJournal, Recording
<1>2. MarkAdded(Action(run)) /\ {"resume", "rollback"} \cap entries \subseteq {Action(run)}
  BY FaultyStep DEF SelectRecoveryAction, WriteEntry, MarkAdded, repoVars,
                    controlVars, Faulty, NotContradicted
<1>3. Terminal \cap entries = {} /\ (run = "resume" => "ready" \in entries)
  BY <1>1 DEF Safe, Holder, HolderMarker, HolderDirection, Recording, Unmarked
<1>4. OneDirection' /\ MarkersAgree'
  BY <1>1, <1>2, <1>3
     DEF MarkAdded, Action, Terminal, Safe, Durable, OneDirection, MarkersAgree
<1>5. Durable'
  BY <1>1, <1>2, <1>4, MarkDurable DEF Typed, Safe, Action
<1>6. CASE Return("recovery_required")
  BY <1>5, <1>6, ReturnHolder DEF Safe
<1>7. CASE Proceed /\ Action(run) \in entries'
  <2>1. /\ \/ run = "preparingFailure" /\ phase' = "writeRolledBack"
           \/ run = "applyRollback" /\ phase' = "rollbackPrefix"
           \/ run \in {"resume", "rollback"} /\ phase' = "discardTerminalReceipt"
           \/ run = "preparing" /\ phase' = "removeCreatedDirectories"
        /\ UNCHANGED <<run, work, pos>>
    BY <1>1, <1>7, AfterSelectRecoveryAction, Moved DEF Typed
  <2>2. HolderJournal' /\ HolderDirection' /\ HolderMarker'
    BY <1>1, <1>2, <1>3, <1>7, <2>1
       DEF Safe, Holder, HolderJournal, HolderDirection, HolderMarker, Recording,
           RollsBack, Unmarked, Marked, Terminal, MarkAdded, Action
  <2>3. HolderCut'
    BY <1>1, <1>2, <2>1, CutSame
       DEF Safe, Holder, HolderCut, Unmarked, AtStart, MarkAdded
  <2>4. HolderDirectories'
    BY <1>1, <1>2, <2>1
       DEF Safe, Holder, HolderDirectories, NothingMade, MarkAdded
  <2>5. HolderTombstones'
    BY <1>1, <1>2, <2>1 DEF Safe, Holder, HolderTombstones, Discarded, MarkAdded
  <2> QED BY <1>5, <2>2, <2>3, <2>4, <2>5 DEF Safe, Holder
<1> QED BY <1>6, <1>7 DEF SelectRecoveryAction, WriteEntry, controlVars

\* The holder's transaction, while it is journalled.
LEMMA HolderJournalled ==
    ASSUME Typed, Safe, Recording
    PROVE  work \in Plan /\ active = work /\ active # NoPlan
BY HolderHasPlan, NamesAssumption
   DEF Typed, Safe, Holder, HolderJournal, Recording, MemoryOK, RunShape

LEMMA DiscardTerminalReceiptSafe ==
    ASSUME Typed, Safe, DiscardTerminalReceipt PROVE Safe'
<1>1. phase = "discardTerminalReceipt"
      /\ run \in {"apply", "resume", "rollback", "preparingFailure", "preparing",
                  "committed", "rolledBack"}
  BY AfterDiscardTerminalReceipt DEF DiscardTerminalReceipt, Typed
<1>2. work \in Plan /\ active = work /\ active # NoPlan
  BY <1>1, HolderJournalled DEF Recording
<1>3. /\ SameMarks /\ Faulty
      /\ UNCHANGED <<targets, dirs, active, entries, owned, touched>>
  BY FaultyStep DEF DiscardTerminalReceipt, SameMarks, repoVars, Faulty
<1>4. TombstonesFit'
  <2>1. ASSUME NEW t \in tombs, RetireStep(t)
        PROVE  (\A u, v \in tombs' : u = v) /\ \A u \in tombs' : u.rest # "full"
    <3>1. t \in Tombstone
      BY DEF Typed, DurableOK
    <3>2. [t EXCEPT !.retired = TRUE].rest = t.rest
          /\ [t EXCEPT !.rest = "empty"].rest = "empty"
      BY <3>1 DEF Tombstone
    <3> QED BY <2>1, <3>2 DEF RetireStep
  <2>2. (\A u, v \in tombs' : u = v) /\ \A u \in tombs' : u.rest # "full"
    BY <1>2, <2>1
       DEF DiscardTerminalReceipt, Safe, Durable, TombstonesFit, ControlStateAdmissible
  <2> QED BY <1>2, <1>3, <2>2
          DEF TombstonesFit, ControlStateAdmissible, TombstoneTellsTheTruth
<1>5. Durable'
  <2>1. EmptyWithoutJournal'
    BY <1>2, <1>3 DEF EmptyWithoutJournal
  <2> QED BY <1>3, <1>4, <2>1, MarksFrame, CutFrame, DirectoriesFrame, StaleFrame
          DEF Durable, Safe, Typed
<1>6. CASE Return("recovery_required")
  BY <1>5, <1>6, ReturnHolder DEF Safe
<1>7. CASE Stay
  <2>1. UNCHANGED <<run, phase, work, pos>>
    BY <1>7 DEF Stay, jobVars
  <2>2. HolderDirectories'
    BY <1>1, <1>3, <2>1, FitsSame DEF Safe, Holder, HolderDirectories, NothingMade
  <2>3. HolderTombstones'
    BY <1>1, <2>1 DEF HolderTombstones, Discarded
  <2> QED BY <1>3, <1>5, <2>1, <2>2, <2>3, HolderRest DEF Safe, Holder
<1>8. CASE tombs = {} /\ tombs' = {} /\ Proceed
  <2>1. /\ \/ run \in {"apply", "resume"} /\ phase' = "ensureTargetDirectories"
           \/ run = "rollback" /\ phase' = "rollbackPrefix"
           \/ run = "preparingFailure" /\ phase' = "archiveTerminal"
           \/ run \in {"preparing", "committed"} /\ phase' = "cleanupRecovered"
           \/ run = "rolledBack" /\ phase' = "removeCreatedDirectories"
        /\ UNCHANGED <<run, work, pos>>
    BY <1>1, <1>8, AfterDiscardTerminalReceipt, Moved DEF Typed
  <2>2. HolderJournal' /\ HolderDirection'
    BY <1>1, <1>2, <1>3, <2>1
       DEF Safe, Holder, HolderJournal, HolderDirection, Recording, RollsBack
  <2>3. HolderMarker'
    BY <1>1, <1>3, <2>1
       DEF Safe, Holder, HolderMarker, Recording, Unmarked, Marked, Marker
  <2>4. HolderCut'
    BY <1>1, <1>3, <2>1, CutSame DEF Safe, Holder, HolderCut, Unmarked, AtStart
  <2>5. HolderDirectories' /\ HolderTombstones'
    BY <1>1, <1>8, <2>1
       DEF HolderDirectories, HolderTombstones, NothingMade, Discarded
  <2> QED BY <1>5, <2>2, <2>3, <2>4, <2>5 DEF Safe, Holder
<1> QED BY <1>6, <1>7, <1>8 DEF DiscardTerminalReceipt

\* applyForward that cannot go on leaves apply to find out how far it came.
LEMMA ForwardFailsHolder ==
    ASSUME Typed, Safe, phase \in {"ensureTargetDirectories", "publish"},
           ForwardFails, SameMarks, UNCHANGED <<active, tombs>>
    PROVE  Holder'
<1>1. CASE run = "resume" /\ Return("recovery_required")
  BY <1>1, ReturnHolder
<1>2. CASE run = "apply" /\ GoTo("rollbackAfterFailure")
  <2>1. phase' = "rollbackAfterFailure" /\ UNCHANGED <<run, work, pos>>
    BY <1>2 DEF GoTo
  <2>2. HolderJournal' /\ HolderDirection' /\ HolderMarker'
    BY <1>2, <2>1
       DEF Safe, Holder, HolderJournal, HolderDirection, HolderMarker, Recording,
           RollsBack, Unmarked, Marked, Terminal, SameMarks, Marks
  <2>3. HolderCut' /\ HolderDirectories'
    BY <1>2, <2>1 DEF HolderCut, HolderDirectories, AtStart, NothingMade
  <2>4. HolderTombstones'
    BY <2>1 DEF Safe, Holder, HolderTombstones, Discarded
  <2> QED BY <2>2, <2>3, <2>4 DEF Holder
<1> QED BY <1>1, <1>2 DEF ForwardFails

\* What the holder knows while it applies a plan forward.
LEMMA ForwardKnows ==
    ASSUME Typed, Safe, phase \in {"ensureTargetDirectories", "publish"}
    PROVE  /\ work \in Plan /\ active = work /\ active # NoPlan
           /\ run \in {"apply", "resume"} /\ "ready" \in entries
           /\ Terminal \cap entries = {} /\ tombs = {} /\ Cut(work, pos)
           /\ PlanFits(work) /\ "rollback" \notin entries
<1>1. run \in {"apply", "resume"}
  BY AfterEnsureTargetDirectories, AfterPublish DEF Typed
<1>2. Recording
  BY <1>1 DEF Recording
<1>3. work \in Plan /\ active = work /\ active # NoPlan
  BY <1>2, HolderJournalled
<1>4. "ready" \in entries /\ Terminal \cap entries = {} /\ "rollback" \notin entries
  BY <1>1, <1>2 DEF Safe, Holder, HolderDirection, HolderMarker, Unmarked
<1>5. tombs = {} /\ Cut(work, pos)
  BY DEF Safe, Holder, HolderTombstones, HolderCut, Discarded, Unmarked
<1>6. PlanFits(work)
  BY <1>3 DEF Safe, Durable, DirectoriesFit
<1> QED BY <1>1, <1>3, <1>4, <1>5, <1>6

\* Changing the directories or their records.
LEMMA DirectoriesDurable ==
    ASSUME DurableOK, Durable, active # NoPlan, Faulty,
           UNCHANGED <<targets, active, entries, tombs, touched>>,
           DirectoriesFit'
    PROVE  Durable'
<1>1. SameMarks
  BY DEF SameMarks
<1>2. EmptyWithoutJournal'
  BY DEF EmptyWithoutJournal
<1> QED BY <1>1, <1>2, MarksFrame, CutFrame, TombstonesFrame, StaleFrame
        DEF Durable

LEMMA EnsureTargetDirectoriesSafe ==
    ASSUME Typed, Safe, EnsureTargetDirectories PROVE Safe'
<1>1. phase = "ensureTargetDirectories"
  BY DEF EnsureTargetDirectories
<1>2. /\ work \in Plan /\ active = work /\ active # NoPlan
      /\ run \in {"apply", "resume"} /\ "ready" \in entries
      /\ Terminal \cap entries = {} /\ tombs = {} /\ Cut(work, pos)
      /\ PlanFits(work)
  BY <1>1, ForwardKnows
<1>3. SameMarks /\ Faulty /\ UNCHANGED <<targets, active, entries, tombs, touched>>
  BY FaultyStep DEF EnsureTargetDirectories, SameMarks, Faulty
<1>4. \/ UNCHANGED <<dirs, owned>>
      \/ \E d \in work.created : d \notin dirs /\ dirs' = dirs \cup {d} /\ owned' = owned
      \/ \E d \in work.created : dirs' = dirs /\ owned' = owned \cup {d}
  BY DEF EnsureTargetDirectories
<1>5. DirectoriesFit'
  <2>1. CASE UNCHANGED <<dirs, owned>>
    BY <1>3, <2>1, DirectoriesFrame DEF Safe, Durable
  <2>2. ASSUME NEW d \in work.created, d \notin dirs, dirs' = dirs \cup {d},
               owned' = owned
        PROVE  DirectoriesFit'
    <3>1. Tree'
      BY <1>3, <2>2 DEF Safe, Durable, DirectoriesFit, Tree
    <3>2. PlanFits(active)'
      BY <1>2, <1>3, <2>2 DEF PlanFits
    <3>3. UnrecordedDirectoryIsEmpty'
      BY <1>3, <2>2 DEF Safe, Durable, DirectoriesFit, UnrecordedDirectoryIsEmpty, Tree
    <3>4. RolledBackLeavesNoDirectory'
      BY <1>2, <1>3 DEF RolledBackLeavesNoDirectory, Terminal
    <3> QED BY <1>2, <1>3, <3>1, <3>2, <3>3, <3>4 DEF DirectoriesFit
  <2>3. ASSUME NEW d \in work.created, dirs' = dirs, owned' = owned \cup {d}
        PROVE  DirectoriesFit'
    <3>1. Tree' /\ UnrecordedDirectoryIsEmpty'
      BY <1>3, <2>3 DEF Safe, Durable, DirectoriesFit, UnrecordedDirectoryIsEmpty, Tree
    <3>2. PlanFits(active)'
      BY <1>2, <1>3, <2>3, FitsSame
    <3>3. RolledBackLeavesNoDirectory'
      BY <1>2, <1>3 DEF RolledBackLeavesNoDirectory, Terminal
    <3> QED BY <1>2, <1>3, <3>1, <3>2, <3>3 DEF DirectoriesFit
  <2> QED BY <1>4, <2>1, <2>2, <2>3
<1>6. Durable'
  BY <1>2, <1>3, <1>5, DirectoriesDurable DEF Typed, Safe
<1>7. CASE ForwardFails
  BY <1>1, <1>3, <1>6, <1>7, ForwardFailsHolder DEF Safe
<1>8. CASE Stay
  <2>1. UNCHANGED <<run, phase, work, pos>>
    BY <1>8 DEF Stay, jobVars
  <2>2. HolderDirectories' /\ HolderTombstones'
    BY <1>1, <1>2, <1>3, <2>1
       DEF HolderDirectories, HolderTombstones, NothingMade, Discarded
  <2> QED BY <1>3, <1>6, <2>1, <2>2, HolderRest DEF Safe, Holder
<1>9. CASE DirectoriesReady /\ Proceed /\ UNCHANGED <<dirs, owned>>
  <2>1. phase' = "publish" /\ UNCHANGED <<run, work, pos>>
    BY <1>1, <1>9, AfterEnsureTargetDirectories, Moved DEF Typed
  <2>2. HolderJournal' /\ HolderDirection' /\ HolderMarker'
    BY <1>1, <1>2, <1>3, <2>1
       DEF Safe, Holder, HolderJournal, HolderDirection, HolderMarker, Recording,
           RollsBack, Unmarked, Marked
  <2>3. HolderCut'
    BY <1>2, <1>3, <2>1, CutSame DEF HolderCut, AtStart
  <2>4. HolderDirectories' /\ HolderTombstones'
    BY <1>2, <1>3, <1>9, <2>1
       DEF HolderDirectories, HolderTombstones, NothingMade, DirectoriesReady
  <2> QED BY <1>6, <2>2, <2>3, <2>4 DEF Safe, Holder
<1> QED BY <1>7, <1>8, <1>9 DEF EnsureTargetDirectories

\* A cut moves over a target that the plan leaves as it is, or that has just been
\* published or restored.
LEMMA CutForward ==
    ASSUME NEW pl, NEW i \in Path, Cut(pl, i - 1), touched' = touched,
           \/ targets' = targets /\ pl.before[i] = pl.after[i]
           \/ targets' = [targets EXCEPT ![i] = pl.after[i]],
           targets \in Vector
    PROVE  Cut(pl, i)'
<1>1. \A j \in Path : j # i => targets'[j] = targets[j]
  BY DEF Vector
<1>2. i \notin touched => targets'[i] = pl.after[i]
  BY DEF Cut, Vector, Path
<1> QED BY <1>1, <1>2 DEF Cut, Path

LEMMA CutBackward ==
    ASSUME NEW pl, NEW i \in Path, Cut(pl, i), touched' = touched,
           \/ targets' = targets /\ pl.before[i] = pl.after[i]
           \/ targets' = [targets EXCEPT ![i] = pl.before[i]],
           targets \in Vector
    PROVE  Cut(pl, i - 1)'
<1>1. \A j \in Path : j # i => targets'[j] = targets[j]
  BY DEF Vector
<1>2. i \notin touched => targets'[i] = pl.before[i]
  BY DEF Cut, Vector, Path
<1> QED BY <1>1, <1>2 DEF Cut, Path

\* A step that replaces or removes a target of an unmarked, ready transaction.
LEMMA TargetsDurable ==
    ASSUME DurableOK, Durable, active # NoPlan, Faulty, SameMarks,
           UNCHANGED <<dirs, active, owned, tombs, touched>>,
           "ready" \in entries, Terminal \cap entries = {},
           PrefixOnly', Tree', UnrecordedDirectoryIsEmpty'
    PROVE  Durable'
<1>1. TargetsCut'
  BY DEF TargetsCut, SameMarks, Marks, Terminal
<1>2. DirectoriesFit'
  <2>1. PlanFits(active)'
    BY FitsSame DEF Durable, DirectoriesFit
  <2>2. RolledBackLeavesNoDirectory'
    BY DEF RolledBackLeavesNoDirectory, SameMarks, Marks, Terminal
  <2> QED BY <2>1, <2>2 DEF DirectoriesFit, SameMarks, Marks
<1>3. TombstonesFit'
  BY DEF Durable, TombstonesFit, ControlStateAdmissible, TombstoneTellsTheTruth
<1>4. EmptyWithoutJournal'
  BY DEF EmptyWithoutJournal
<1> QED BY <1>1, <1>2, <1>3, <1>4, MarksFrame, StaleFrame DEF Durable

\* Nothing of the holder's knowledge but the cut depends on the targets.
LEMMA HolderAdvances ==
    ASSUME Holder, UNCHANGED <<run, phase, work>>, SameMarks,
           UNCHANGED <<dirs, active, owned, tombs>>,
           phase \in {"publish", "rollbackPrefix"}, Cut(work, pos)'
    PROVE  Holder'
<1>1. /\ Recording' = Recording
      /\ Unmarked' = Unmarked
      /\ Marked' = Marked
      /\ RollsBack' = RollsBack
  BY DEF Recording, Unmarked, Marked, RollsBack
<1>2. HolderJournal' /\ HolderDirection'
  BY <1>1 DEF Holder, HolderJournal, HolderDirection, SameMarks, Marks
<1>3. HolderMarker'
  BY <1>1 DEF Holder, HolderMarker, Marker, Terminal, SameMarks, Marks
<1>4. HolderCut'
  BY DEF HolderCut, AtStart
<1>5. HolderDirectories' /\ HolderTombstones'
  BY DEF Holder, HolderDirectories, HolderTombstones, NothingMade, Discarded
<1> QED BY <1>2, <1>3, <1>4, <1>5 DEF Holder

LEMMA InspectMarks ==
    ASSUME NEW i, NEW expected, NEW content, NEW failed,
           Inspect(i, expected, content, failed)
    PROVE  /\ SameMarks /\ Faulty
           /\ UNCHANGED <<targets, dirs, active, owned, tombs, touched>>
<1>1. Faulty /\ UNCHANGED <<targets, dirs, active, owned, tombs, touched>>
  BY FaultyStep DEF Inspect, repoVars
<1>2. entries' \in {entries, entries \cup Temporary(content)}
  BY DEF Inspect
<1>3. SameMarks
  BY <1>2 DEF SameMarks, Marks, Temporary
<1> QED BY <1>1, <1>3

LEMMA ReplaceMarks ==
    ASSUME NEW i, NEW content, NEW next, NEW failed,
           Replace(i, content, next, failed)
    PROVE  /\ SameMarks /\ Faulty
           /\ UNCHANGED <<dirs, active, owned, tombs, touched>>
           /\ targets' \in {targets, [targets EXCEPT ![i] = content]}
<1>1. /\ Faulty /\ UNCHANGED <<dirs, active, owned, tombs, touched>>
      /\ targets' \in {targets, [targets EXCEPT ![i] = content]}
  BY FaultyStep DEF Replace
<1>2. entries' \in {entries, entries \ {"publish.tmp"}}
  BY DEF Replace
<1>3. SameMarks
  BY <1>2 DEF SameMarks, Marks
<1> QED BY <1>1, <1>3

LEMMA PublishSafe ==
    ASSUME Typed, Safe, Publish PROVE Safe'
<1>1. phase = "publish"
  BY DEF Publish
<1>2. /\ work \in Plan /\ active = work /\ active # NoPlan
      /\ run \in {"apply", "resume"} /\ "ready" \in entries
      /\ Terminal \cap entries = {} /\ tombs = {} /\ Cut(work, pos)
      /\ PlanFits(work)
  BY <1>1, ForwardKnows
<1>3. work.created \subseteq owned \cap dirs
  BY <1>1 DEF Safe, Holder, HolderDirectories
<1>4. targets \in Vector /\ pos \in 0..N
  BY DEF Typed, DurableOK, MemoryOK
<1>5. CASE pos = N /\ Proceed /\ UNCHANGED <<repoVars, controlVars, touched, faults>>
  <2>1. /\ SameMarks /\ Faulty
        /\ UNCHANGED <<targets, dirs, active, owned, tombs, touched>>
    BY <1>5 DEF SameMarks, Faulty, repoVars, controlVars
  <2>2. Durable'
    BY <1>2, <2>1, DurableFrame DEF Typed, Safe
  <2>3. phase' = "writeCommitted" /\ UNCHANGED <<run, work, pos>>
    BY <1>1, <1>5, AfterPublish, Moved DEF Typed
  <2>4. HolderJournal' /\ HolderDirection' /\ HolderMarker'
    BY <1>1, <1>2, <2>1, <2>3
       DEF Safe, Holder, HolderJournal, HolderDirection, HolderMarker, Recording,
           RollsBack, Unmarked, Marked, Terminal, SameMarks, Marks
  <2>5. HolderCut'
    BY <1>2, <1>5, <2>1, <2>3, CutSame DEF HolderCut, AtStart
  <2>6. HolderDirectories' /\ HolderTombstones'
    BY <1>2, <2>1, <2>3 DEF HolderDirectories, HolderTombstones, NothingMade
  <2> QED BY <2>2, <2>4, <2>5, <2>6 DEF Safe, Holder
<1>6. ASSUME NEW i \in Path, i = pos + 1, i \notin Changed(work), SkipUnchanged(i)
      PROVE  Safe'
  <2>1. /\ SameMarks /\ Faulty
        /\ UNCHANGED <<targets, dirs, active, owned, tombs, touched>>
        /\ UNCHANGED <<run, phase, work>> /\ pos' = i
    BY <1>6 DEF SkipUnchanged, SameMarks, Faulty, repoVars, controlVars
  <2>2. Durable'
    BY <1>2, <2>1, DurableFrame DEF Typed, Safe
  <2>3. pos = i - 1 /\ work.before[i] = work.after[i]
    BY <1>4, <1>6 DEF Changed
  <2>4. Cut(work, i)'
    BY <1>2, <1>4, <2>1, <2>3, CutForward
  <2> QED BY <1>1, <2>1, <2>2, <2>4, HolderAdvances DEF Safe
<1>7. ASSUME NEW i \in Path,
             Inspect(i, work.before[i], work.after[i], ForwardFails)
      PROVE  Safe'
  <2>1. /\ SameMarks /\ Faulty
        /\ UNCHANGED <<targets, dirs, active, owned, tombs, touched>>
    BY <1>7, InspectMarks
  <2>2. Durable'
    BY <1>2, <2>1, DurableFrame DEF Typed, Safe
  <2>3. CASE ForwardFails
    BY <1>1, <2>1, <2>2, <2>3, ForwardFailsHolder DEF Safe
  <2>4. CASE UNCHANGED <<run, phase, work, pos>>
    BY <2>1, <2>2, <2>4, HolderFrame DEF Safe
  <2> QED BY <1>7, <2>3, <2>4 DEF Inspect
<1>8. ASSUME NEW i \in Path, i = pos + 1,
             Replace(i, work.after[i], i, ForwardFails)
      PROVE  Safe'
  <2>1. /\ SameMarks /\ Faulty
        /\ UNCHANGED <<dirs, active, owned, tombs, touched>>
        /\ targets' \in {targets, [targets EXCEPT ![i] = work.after[i]]}
    BY <1>8, ReplaceMarks
  <2>2. pos = i - 1
    BY <1>4, <1>8
  <2>3. ASSUME targets' = [targets EXCEPT ![i] = work.after[i]]
        PROVE  PrefixOnly' /\ Tree' /\ UnrecordedDirectoryIsEmpty'
    <3>1. Cut(active, i)'
      BY <1>2, <1>4, <2>1, <2>2, <2>3, CutForward
    <3>2. i \in 0..N
      BY SizesAssumption DEF Path
    <3>3. PrefixOnly'
      BY <3>1, <3>2 DEF PrefixOnly
    <3>4. work.after[i] # Absent => Parents[i] \subseteq dirs
      BY <1>2, <1>3 DEF PlanFits
    <3>5. Tree'
      BY <1>4, <2>1, <2>3, <3>4 DEF Safe, Durable, DirectoriesFit, Tree, Vector
    <3>6. UnrecordedDirectoryIsEmpty'
      BY <1>2, <1>3, <2>1 DEF UnrecordedDirectoryIsEmpty
    <3> QED BY <3>3, <3>5, <3>6
  <2>4. Durable'
    <3>1. CASE targets' = targets
      BY <1>2, <2>1, <3>1, DurableFrame DEF Typed, Safe
    <3>2. CASE targets' = [targets EXCEPT ![i] = work.after[i]]
      BY <1>2, <2>1, <2>3, <3>2, TargetsDurable DEF Typed, Safe
    <3> QED BY <2>1, <3>1, <3>2
  <2>5. CASE ForwardFails
    BY <1>1, <2>1, <2>4, <2>5, ForwardFailsHolder DEF Safe
  <2>6. CASE /\ targets' = [targets EXCEPT ![i] = work.after[i]]
             /\ pos' = i /\ UNCHANGED <<run, phase, work>>
    <3>1. Cut(work, pos)'
      BY <1>2, <1>4, <2>1, <2>2, <2>6, CutForward
    <3> QED BY <1>1, <2>1, <2>4, <2>6, <3>1, HolderAdvances DEF Safe
  <2> QED BY <1>8, <2>5, <2>6 DEF Replace
<1> QED BY <1>5, <1>6, <1>7, <1>8 DEF Publish

LEMMA RollbackPrefixSafe ==
    ASSUME Typed, Safe, RollbackPrefix PROVE Safe'
<1>1. phase = "rollbackPrefix" /\ run \in {"applyRollback", "rollback"}
  BY AfterRollbackPrefix DEF RollbackPrefix, Typed
<1>2. Recording
  BY <1>1 DEF Recording
<1>3. work \in Plan /\ active = work /\ active # NoPlan
  BY <1>2, HolderJournalled
<1>4. /\ "ready" \in entries /\ Terminal \cap entries = {} /\ tombs = {}
      /\ Cut(work, pos) /\ PlanFits(work)
  BY <1>1, <1>2, <1>3
     DEF Safe, Holder, HolderDirection, HolderMarker, HolderCut, HolderTombstones,
         Unmarked, Discarded, Durable, DirectoriesFit
<1>5. targets \in Vector /\ pos \in 0..N
  BY DEF Typed, DurableOK, MemoryOK
<1>6. CASE pos = 0 /\ Proceed /\ UNCHANGED <<repoVars, controlVars, touched, faults>>
  <2>1. /\ SameMarks /\ Faulty
        /\ UNCHANGED <<targets, dirs, active, owned, tombs, touched>>
    BY <1>6 DEF SameMarks, Faulty, repoVars, controlVars
  <2>2. Durable'
    BY <1>3, <2>1, DurableFrame DEF Typed, Safe
  <2>3. phase' = "removeInterruptedTemporary" /\ UNCHANGED <<run, work, pos>>
    BY <1>1, <1>6, AfterRollbackPrefix, Moved DEF Typed
  <2>4. HolderJournal' /\ HolderDirection' /\ HolderMarker'
    BY <1>1, <1>3, <1>4, <2>1, <2>3
       DEF Safe, Holder, HolderJournal, HolderDirection, HolderMarker, Recording,
           RollsBack, Unmarked, Marked, Terminal, SameMarks, Marks
  <2>5. HolderCut'
    BY <1>4, <1>6, <2>1, <2>3, CutSame DEF HolderCut, AtStart
  <2>6. HolderDirectories' /\ HolderTombstones'
    BY <1>1, <1>4, <2>1, <2>3 DEF HolderDirectories, HolderTombstones, NothingMade
  <2> QED BY <2>2, <2>4, <2>5, <2>6 DEF Safe, Holder
<1>7. ASSUME NEW i \in Path, i = pos, i \notin Changed(work), SkipUnchanged(i - 1)
      PROVE  Safe'
  <2>1. /\ SameMarks /\ Faulty
        /\ UNCHANGED <<targets, dirs, active, owned, tombs, touched>>
        /\ UNCHANGED <<run, phase, work>> /\ pos' = i - 1
    BY <1>7 DEF SkipUnchanged, SameMarks, Faulty, repoVars, controlVars
  <2>2. Durable'
    BY <1>3, <2>1, DurableFrame DEF Typed, Safe
  <2>3. work.before[i] = work.after[i]
    BY <1>7 DEF Changed
  <2>4. Cut(work, i - 1)'
    BY <1>4, <1>5, <1>7, <2>1, <2>3, CutBackward
  <2> QED BY <1>1, <2>1, <2>2, <2>4, HolderAdvances DEF Safe
<1>8. ASSUME NEW i \in Path,
             Inspect(i, work.after[i], work.before[i], Return("recovery_required"))
      PROVE  Safe'
  <2>1. /\ SameMarks /\ Faulty
        /\ UNCHANGED <<targets, dirs, active, owned, tombs, touched>>
    BY <1>8, InspectMarks
  <2>2. Durable'
    BY <1>3, <2>1, DurableFrame DEF Typed, Safe
  <2>3. CASE Return("recovery_required")
    BY <2>2, <2>3, ReturnHolder DEF Safe
  <2>4. CASE UNCHANGED <<run, phase, work, pos>>
    BY <2>1, <2>2, <2>4, HolderFrame DEF Safe
  <2> QED BY <1>8, <2>3, <2>4 DEF Inspect
<1>9. ASSUME NEW i \in Path, i = pos,
             Replace(i, work.before[i], i - 1, Return("recovery_required"))
      PROVE  Safe'
  <2>1. /\ SameMarks /\ Faulty
        /\ UNCHANGED <<dirs, active, owned, tombs, touched>>
        /\ targets' \in {targets, [targets EXCEPT ![i] = work.before[i]]}
    BY <1>9, ReplaceMarks
  <2>2. ASSUME targets' = [targets EXCEPT ![i] = work.before[i]]
        PROVE  PrefixOnly' /\ Tree' /\ UnrecordedDirectoryIsEmpty'
    <3>1. Cut(active, i - 1)'
      BY <1>3, <1>4, <1>5, <1>9, <2>1, <2>2, CutBackward
    <3>2. i - 1 \in 0..N
      BY SizesAssumption DEF Path
    <3>3. PrefixOnly'
      BY <3>1, <3>2 DEF PrefixOnly
    <3>4. work.before[i] # Absent => Parents[i] \subseteq dirs \ work.created
      BY <1>4 DEF PlanFits
    <3>5. Tree'
      BY <1>5, <2>1, <2>2, <3>4 DEF Safe, Durable, DirectoriesFit, Tree, Vector
    <3>6. UnrecordedDirectoryIsEmpty'
      BY <1>3, <1>5, <2>1, <2>2, <3>4
         DEF Safe, Durable, DirectoriesFit, UnrecordedDirectoryIsEmpty, Vector
    <3> QED BY <3>3, <3>5, <3>6
  <2>3. Durable'
    <3>1. CASE targets' = targets
      BY <1>3, <2>1, <3>1, DurableFrame DEF Typed, Safe
    <3>2. CASE targets' = [targets EXCEPT ![i] = work.before[i]]
      BY <1>3, <1>4, <2>1, <2>2, <3>2, TargetsDurable DEF Typed, Safe
    <3> QED BY <2>1, <3>1, <3>2
  <2>4. CASE Return("recovery_required")
    BY <2>3, <2>4, ReturnHolder DEF Safe
  <2>5. CASE /\ targets' = [targets EXCEPT ![i] = work.before[i]]
             /\ pos' = i - 1 /\ UNCHANGED <<run, phase, work>>
    <3>1. Cut(work, pos)'
      BY <1>3, <1>4, <1>5, <1>9, <2>1, <2>5, CutBackward
    <3> QED BY <1>1, <2>1, <2>3, <2>5, <3>1, HolderAdvances DEF Safe
  <2> QED BY <1>9, <2>4, <2>5 DEF Replace
<1> QED BY <1>6, <1>7, <1>8, <1>9 DEF RollbackPrefix

LEMMA RemoveInterruptedTemporarySafe ==
    ASSUME Typed, Safe, RemoveInterruptedTemporary PROVE Safe'
<1>1. phase \in {"removeInterruptedTemporary", "cleanupRecovered"}
      /\ run \notin {"none", "tombstone", "apply"}
  BY AfterRemoveInterruptedTemporary, AfterCleanupRecovered
     DEF RemoveInterruptedTemporary, Typed
<1>2. work \in Plan /\ active = work /\ active # NoPlan /\ Recording
  BY <1>1, HolderJournalled DEF Recording
<1>3. /\ SameMarks /\ Faulty
      /\ UNCHANGED <<targets, dirs, active, owned, tombs, touched>>
  BY FaultyStep DEF RemoveInterruptedTemporary, SameMarks, Marks, repoVars
<1>4. Durable'
  BY <1>2, <1>3, DurableFrame DEF Typed, Safe
<1>5. CASE Return("recovery_required")
  BY <1>4, <1>5, ReturnHolder DEF Safe
<1>6. CASE Proceed
  <2>1. /\ \/ /\ phase = "removeInterruptedTemporary"
              /\ phase' = "removeCreatedDirectories"
              /\ run \in {"applyRollback", "rollback"}
           \/ /\ phase = "cleanupRecovered" /\ phase' = "archiveTerminal"
              /\ run \in {"resume", "rollback", "preparing", "committed", "rolledBack"}
        /\ UNCHANGED <<run, work, pos>>
    BY <1>1, <1>6, AfterRemoveInterruptedTemporary, AfterCleanupRecovered, Moved
       DEF Typed
  <2>2. HolderJournal' /\ HolderDirection'
    BY <1>1, <1>2, <1>3, <2>1
       DEF Safe, Holder, HolderJournal, HolderDirection, Recording,
           RollsBack, SameMarks, Marks
  <2>3. HolderMarker'
    BY <1>2, <1>3, <2>1
       DEF Safe, Holder, HolderMarker, Recording, Unmarked, Marked, Marker,
           Terminal, SameMarks, Marks
  <2>4. HolderCut'
    BY <1>1, <1>3, <2>1, CutSame DEF Safe, Holder, HolderCut, AtStart, Unmarked
  <2>5. HolderDirectories' /\ HolderTombstones'
    BY <1>3, <2>1 DEF Safe, Holder, HolderDirectories, HolderTombstones,
                      NothingMade, Discarded
  <2> QED BY <1>4, <2>2, <2>3, <2>4, <2>5 DEF Safe, Holder
<1> QED BY <1>5, <1>6 DEF RemoveInterruptedTemporary

LEMMA RemoveCreatedDirectoriesSafe ==
    ASSUME Typed, Safe, RemoveCreatedDirectories PROVE Safe'
<1>1. phase = "removeCreatedDirectories"
      /\ run \in {"applyRollback", "rollback", "preparing", "rolledBack"}
  BY AfterRemoveCreatedDirectories DEF RemoveCreatedDirectories, Typed
<1>2. work \in Plan /\ active = work /\ active # NoPlan /\ Recording
  BY <1>1, HolderJournalled DEF Recording
<1>3. SameMarks /\ Faulty /\ UNCHANGED <<targets, active, entries, tombs, touched>>
  BY FaultyStep DEF RemoveCreatedDirectories, SameMarks, Faulty
<1>4. \/ UNCHANGED <<dirs, owned>>
      \/ \E d \in work.created : dirs' = dirs /\ owned' = owned \cup {d}
      \/ \E d \in work.created : Empty(d) /\ dirs' = dirs \ {d} /\ owned' = owned
  BY DEF RemoveCreatedDirectories
<1>5. DirectoriesFit'
  <2>1. CASE UNCHANGED <<dirs, owned>>
    BY <1>3, <2>1, DirectoriesFrame DEF Safe, Durable
  <2>2. ASSUME NEW d \in work.created, dirs' = dirs, owned' = owned \cup {d}
        PROVE  DirectoriesFit'
    <3>1. Tree' /\ UnrecordedDirectoryIsEmpty'
      BY <1>3, <2>2 DEF Safe, Durable, DirectoriesFit, UnrecordedDirectoryIsEmpty, Tree
    <3>2. PlanFits(active)'
      BY <1>2, <1>3, <2>2, FitsSame DEF Safe, Durable, DirectoriesFit
    <3>3. RolledBackLeavesNoDirectory'
      BY <1>2, <1>3, <2>2 DEF Safe, Durable, DirectoriesFit, RolledBackLeavesNoDirectory
    <3>4. ("ready" \notin entries => active.created \cap dirs = {})'
      BY <1>2, <1>3, <2>2 DEF Safe, Durable, DirectoriesFit
    <3> QED BY <3>1, <3>2, <3>3, <3>4 DEF DirectoriesFit
  <2>3. ASSUME NEW d \in work.created, Empty(d), dirs' = dirs \ {d}, owned' = owned
        PROVE  DirectoriesFit'
    <3>1. Tree'
      BY <1>3, <2>3 DEF Safe, Durable, DirectoriesFit, Tree, Empty
    <3>2. PlanFits(active)
      BY <1>2 DEF Safe, Durable, DirectoriesFit
    <3>3. PlanFits(active)'
      BY <1>2, <1>3, <2>3, <3>2 DEF PlanFits
    <3>4. UnrecordedDirectoryIsEmpty'
      BY <1>3, <2>3 DEF Safe, Durable, DirectoriesFit, UnrecordedDirectoryIsEmpty
    <3>5. RolledBackLeavesNoDirectory'
      BY <1>2, <1>3, <2>3 DEF Safe, Durable, DirectoriesFit, RolledBackLeavesNoDirectory
    <3>6. ("ready" \notin entries => active.created \cap dirs = {})'
      BY <1>2, <1>3, <2>3 DEF Safe, Durable, DirectoriesFit
    <3> QED BY <3>1, <3>3, <3>4, <3>5, <3>6 DEF DirectoriesFit
  <2> QED BY <1>4, <2>1, <2>2, <2>3
<1>6. Durable'
  BY <1>2, <1>3, <1>5, DirectoriesDurable DEF Typed, Safe
<1>7. CASE Return("recovery_required")
  BY <1>6, <1>7, ReturnHolder DEF Safe
<1>8. CASE Stay
  <2>1. UNCHANGED <<run, phase, work, pos>>
    BY <1>8 DEF Stay, jobVars
  <2>2. HolderDirectories' /\ HolderTombstones'
    BY <1>1, <1>3, <2>1
       DEF Safe, Holder, HolderDirectories, HolderTombstones, NothingMade, Discarded
  <2> QED BY <1>3, <1>6, <2>1, <2>2, HolderRest DEF Safe, Holder
<1>9. CASE work.created \cap dirs = {} /\ Proceed /\ UNCHANGED <<dirs, owned>>
  <2>1. /\ \/ /\ run \in {"applyRollback", "rollback", "preparing"}
              /\ phase' = "writeRolledBack"
           \/ run = "rolledBack" /\ phase' = "cleanupRecovered"
        /\ UNCHANGED <<run, work, pos>>
    BY <1>1, <1>9, AfterRemoveCreatedDirectories, Moved DEF Typed
  <2>2. HolderJournal' /\ HolderDirection'
    BY <1>1, <1>2, <1>3, <2>1
       DEF Safe, Holder, HolderJournal, HolderDirection, Recording, RollsBack
  <2>3. HolderMarker'
    BY <1>1, <1>2, <1>3, <2>1
       DEF Safe, Holder, HolderMarker, Recording, Unmarked, Marked, Marker
  <2>4. HolderCut'
    BY <1>1, <1>3, <2>1, CutSame DEF Safe, Holder, HolderCut, AtStart, Unmarked
  <2>5. HolderDirectories'
    BY <1>9, <2>1 DEF HolderDirectories
  <2>6. HolderTombstones'
    BY <1>1, <1>3, <2>1 DEF Safe, Holder, HolderTombstones, Discarded
  <2> QED BY <1>6, <2>2, <2>3, <2>4, <2>5, <2>6 DEF Safe, Holder
<1> QED BY <1>7, <1>8, <1>9 DEF RemoveCreatedDirectories

LEMMA WriteTerminalMarkerSafe ==
    ASSUME Typed, Safe, WriteTerminalMarker PROVE Safe'
<1>1. CASE /\ phase = "writeCommitted"
           /\ WriteEntry("committed", Proceed, Return("recovery_required"))
           /\ UNCHANGED <<repoVars, touched>>
  <2>1. run \in {"apply", "resume"}
    BY <1>1, AfterWriteCommitted DEF Typed
  <2>2. Recording
    BY <1>1, <2>1 DEF Recording
  <2>3. work \in Plan /\ active = work /\ active # NoPlan
    BY <2>2, HolderJournalled
  <2>4. /\ Terminal \cap entries = {} /\ Cut(work, N) /\ tombs = {}
        /\ "rollback" \notin entries /\ "ready" \in entries
    BY <1>1, <2>1, <2>2
       DEF Safe, Holder, HolderMarker, HolderCut, HolderDirection,
           HolderTombstones, Unmarked, Discarded
  <2>5. MarkAdded("committed")
    BY <1>1, FaultyStep DEF WriteEntry, MarkAdded, repoVars
  <2>6. OneDirection' /\ MarkersAgree'
    BY <2>4, <2>5 DEF MarkAdded, Terminal, Safe, Durable, OneDirection, MarkersAgree
  <2>7. Durable'
    BY <2>3, <2>4, <2>5, <2>6, MarkDurable DEF Typed, Safe
  <2>8. CASE Return("recovery_required")
    BY <2>7, <2>8, ReturnHolder DEF Safe
  <2>9. CASE Proceed /\ "committed" \in entries'
    <3>1. /\ \/ run = "apply" /\ phase' = "archiveTerminal"
             \/ run = "resume" /\ phase' = "cleanupRecovered"
          /\ UNCHANGED <<run, work, pos>>
      BY <1>1, <2>9, AfterWriteCommitted, Moved DEF Typed
    <3>2. HolderJournal' /\ HolderDirection'
      BY <1>1, <2>1, <2>2, <2>3, <2>4, <2>5, <3>1
         DEF Safe, Holder, HolderJournal, HolderDirection, Recording, RollsBack, MarkAdded
    <3>3. HolderMarker'
      BY <2>9, <3>1 DEF HolderMarker, Unmarked, Marker
    <3>4. HolderCut' /\ HolderDirectories'
      BY <3>1 DEF HolderCut, HolderDirectories, AtStart, Unmarked, NothingMade
    <3>5. HolderTombstones'
      BY <2>4, <2>5, <3>1 DEF HolderTombstones, MarkAdded
    <3> QED BY <2>7, <3>2, <3>3, <3>4, <3>5 DEF Safe, Holder
  <2> QED BY <1>1, <2>8, <2>9 DEF WriteEntry
<1>2. CASE /\ phase = "writeRolledBack"
           /\ WriteEntry("rolled-back", Proceed, Return("recovery_required"))
           /\ UNCHANGED <<repoVars, touched>>
  <2>1. run \in {"preparingFailure", "preparing", "applyRollback", "rollback"}
    BY <1>2, AfterWriteRolledBack DEF Typed
  <2>2. Recording
    BY <1>2, <2>1 DEF Recording
  <2>3. work \in Plan /\ active = work /\ active # NoPlan
    BY <2>2, HolderJournalled
  <2>4. /\ Terminal \cap entries = {} /\ Cut(work, 0) /\ work.created \cap dirs = {}
        /\ "resume" \notin entries /\ "rollback" \in entries
    BY <1>2, <2>1, <2>2
       DEF Safe, Holder, HolderMarker, HolderCut, HolderDirection,
           HolderDirectories, Unmarked, AtStart, NothingMade, RollsBack
  <2>5. MarkAdded("rolled-back")
    BY <1>2, FaultyStep DEF WriteEntry, MarkAdded, repoVars
  <2>6. OneDirection' /\ MarkersAgree'
    BY <2>4, <2>5 DEF MarkAdded, Terminal, Safe, Durable, OneDirection, MarkersAgree
  <2>7. Durable'
    BY <2>3, <2>4, <2>5, <2>6, MarkDurable DEF Typed, Safe
  <2>8. CASE Return("recovery_required")
    BY <2>7, <2>8, ReturnHolder DEF Safe
  <2>9. CASE Proceed /\ "rolled-back" \in entries'
    <3>1. /\ \/ /\ run \in {"preparingFailure", "preparing"}
                /\ phase' = "discardTerminalReceipt"
             \/ run = "applyRollback" /\ phase' = "archiveTerminal"
             \/ run = "rollback" /\ phase' = "cleanupRecovered"
          /\ UNCHANGED <<run, work, pos>>
      BY <1>2, <2>9, AfterWriteRolledBack, Moved DEF Typed
    <3>2. HolderJournal' /\ HolderDirection'
      BY <1>2, <2>1, <2>2, <2>3, <2>4, <2>5, <3>1
         DEF Safe, Holder, HolderJournal, HolderDirection, Recording, RollsBack, MarkAdded
    <3>3. HolderMarker'
      BY <2>9, <3>1 DEF HolderMarker, Unmarked, Marker
    <3>4. HolderCut' /\ HolderDirectories'
      BY <3>1 DEF HolderCut, HolderDirectories, AtStart, Unmarked, NothingMade
    <3>5. HolderTombstones'
      BY <1>2, <2>5, <3>1 DEF Safe, Holder, HolderTombstones, Discarded, MarkAdded
    <3> QED BY <2>7, <3>2, <3>3, <3>4, <3>5 DEF Safe, Holder
  <2> QED BY <1>2, <2>8, <2>9 DEF WriteEntry
<1> QED BY <1>1, <1>2 DEF WriteTerminalMarker

\* The archive step moves the directory that says what the targets hold.
LEMMA ArchivedDurable ==
    ASSUME DurableOK, Durable, NEW pl \in Plan, NEW state \in {"applied", "rolled_back"},
           tombs = {}, Cut(pl, IF state = "applied" THEN N ELSE 0),
           tombs' = tombs \cup {[id |-> pl, state |-> state,
                                 retired |-> FALSE, rest |-> "full"]},
           active' = NoPlan, entries' = {}, owned' = {},
           UNCHANGED <<targets, dirs, touched>>, Faulty
    PROVE  Durable'
<1> DEFINE new == [id |-> pl, state |-> state, retired |-> FALSE, rest |-> "full"]
<1>1. tombs' = {new}
  OBVIOUS
<1>2. ControlStateAdmissible'
  BY <1>1 DEF ControlStateAdmissible
<1>3. TombstoneTellsTheTruth'
  <2>1. Cut(new.id, IF new.state = "applied" THEN N ELSE 0)'
    BY CutSame
  <2> QED BY <1>1, <2>1 DEF TombstoneTellsTheTruth
<1>4. TargetsCut' /\ EmptyWithoutJournal' /\ OneDirection' /\ MarkersAgree'
  BY DEF TargetsCut, PrefixOnly, EmptyWithoutJournal, OneDirection, MarkersAgree
<1>5. DirectoriesFit'
  BY DEF Durable, DirectoriesFit, Tree, RolledBackLeavesNoDirectory,
         UnrecordedDirectoryIsEmpty
<1> QED BY <1>2, <1>3, <1>4, <1>5, StaleFrame DEF Durable, TombstonesFit

LEMMA ArchiveTerminalSafe ==
    ASSUME Typed, Safe, ArchiveTerminal PROVE Safe'
<1>1. phase = "archiveTerminal"
      /\ run \in {"apply", "preparingFailure", "applyRollback", "resume",
                  "rollback", "preparing", "committed", "rolledBack"}
  BY AfterArchiveTerminal DEF ArchiveTerminal, Typed
<1>2. work \in Plan /\ active = work /\ active # NoPlan /\ Recording
  BY <1>1, HolderJournalled DEF Recording
<1>3. Marker \in entries /\ tombs = {}
  BY <1>1, <1>2
     DEF Safe, Holder, HolderMarker, HolderTombstones, Marked, Unmarked, Discarded
<1>4. Outcome \in {"applied", "rolled_back"}
      /\ Marker = IF Outcome = "applied" THEN "committed" ELSE "rolled-back"
  BY DEF Outcome, Marker
<1>5. CASE WriteEntry(Outcome, Stay, Return("cleanup_required"))
           /\ UNCHANGED <<repoVars, touched>>
  <2>1. MarkAdded(Outcome)
    BY <1>5, FaultyStep DEF WriteEntry, MarkAdded, repoVars
  <2>2. OneDirection' /\ MarkersAgree'
    BY <1>3, <1>4, <2>1 DEF MarkAdded, Safe, Durable, OneDirection, MarkersAgree
  <2>3. Durable'
    BY <1>2, <1>4, <2>1, <2>2, MarkDurable DEF Typed, Safe
  <2>4. CASE Return("cleanup_required")
    BY <2>3, <2>4, ReturnHolder DEF Safe
  <2>5. CASE Stay
    <3>1. UNCHANGED <<run, phase, work, pos>>
      BY <2>5 DEF Stay, jobVars
    <3>2. HolderJournal' /\ HolderDirection'
      BY <1>1, <1>2, <1>4, <2>1, <3>1
         DEF Safe, Holder, HolderJournal, HolderDirection, Recording, RollsBack, MarkAdded
    <3>3. HolderMarker'
      BY <1>1, <1>3, <2>1, <3>1 DEF HolderMarker, Unmarked, Marker, MarkAdded
    <3>4. HolderCut' /\ HolderDirectories' /\ HolderTombstones'
      BY <1>1, <1>3, <2>1, <3>1
         DEF HolderCut, HolderDirectories, HolderTombstones, AtStart, Unmarked,
             NothingMade, MarkAdded
    <3> QED BY <2>3, <3>2, <3>3, <3>4 DEF Safe, Holder
  <2> QED BY <1>5, <2>4, <2>5 DEF WriteEntry
<1>6. CASE /\ tombs' = tombs \cup {[id |-> work, state |-> Outcome,
                                    retired |-> FALSE, rest |-> "full"]}
           /\ active' = NoPlan /\ entries' = {} /\ owned' = {}
           /\ \/ Proceed /\ NoFault
              \/ Return("cleanup_required") /\ Fault
           /\ UNCHANGED <<repoVars, touched>>
  <2>1. Cut(work, IF Outcome = "applied" THEN N ELSE 0)
    BY <1>2, <1>3, <1>4 DEF Safe, Durable, TargetsCut
  <2>2. UNCHANGED <<targets, dirs, touched>> /\ Faulty
    BY <1>6, FaultyStep DEF repoVars
  <2>3. Durable'
    BY <1>2, <1>3, <1>4, <1>6, <2>1, <2>2, ArchivedDurable DEF Typed, Safe
  <2>4. CASE Return("cleanup_required")
    BY <2>3, <2>4, ReturnHolder DEF Safe
  <2>5. CASE Proceed
    <3>1. phase' = "compactTerminalTombstone"
      BY <1>1, <2>5, AfterArchiveTerminal, Moved DEF Typed
    <3>2. HolderJournal' /\ HolderDirection' /\ HolderMarker'
      BY <1>6, <3>1
         DEF HolderJournal, HolderDirection, HolderMarker, Recording, Unmarked, Marked
    <3>3. HolderCut' /\ HolderDirectories' /\ HolderTombstones'
      BY <3>1 DEF HolderCut, HolderDirectories, HolderTombstones, AtStart, Unmarked,
                  NothingMade, Discarded
    <3> QED BY <2>3, <3>2, <3>3 DEF Safe, Holder
  <2> QED BY <1>6, <2>4, <2>5
<1>7. CASE Return("cleanup_required") /\ Fault
           /\ UNCHANGED <<controlVars, repoVars, touched>>
  <2>1. /\ SameMarks /\ Faulty
        /\ UNCHANGED <<targets, dirs, active, owned, tombs, touched>>
    BY <1>7, FaultyStep DEF SameMarks, controlVars, repoVars
  <2> QED BY <1>2, <1>7, <2>1, DurableFrame, ReturnHolder DEF Typed, Safe
<1> QED BY <1>5, <1>6, <1>7 DEF ArchiveTerminal

LEMMA CompactTerminalTombstoneSafe ==
    ASSUME Typed, Safe, CompactTerminalTombstone PROVE Safe'
<1>1. active = NoPlan
  BY DEF CompactTerminalTombstone, Safe, Holder, HolderJournal
<1>2. PICK t \in tombs :
        /\ \/ tombs' = (tombs \ {t}) \cup {[t EXCEPT !.rest = "receipt"]}
           \/ UNCHANGED tombs
        /\ \E result : Return(result)
        /\ ~t.retired
  BY DEF CompactTerminalTombstone
<1>3. UNCHANGED <<targets, dirs, active, entries, owned, touched>> /\ Faulty
  BY FaultyStep DEF CompactTerminalTombstone, repoVars
<1>4. tombs = {t}
  BY <1>2 DEF Safe, Durable, TombstonesFit, ControlStateAdmissible
<1>5. TombstonesFit'
  <2>1. CASE UNCHANGED tombs
    BY <1>3, <2>1, TombstonesFrame DEF Safe, Durable
  <2>2. CASE tombs' = (tombs \ {t}) \cup {[t EXCEPT !.rest = "receipt"]}
    <3> DEFINE u == [t EXCEPT !.rest = "receipt"]
    <3>1. t \in Tombstone
      BY DEF Typed, DurableOK
    <3>2. u.id = t.id /\ u.state = t.state /\ u.retired = t.retired /\ u.rest = "receipt"
      BY <3>1 DEF Tombstone
    <3>3. tombs' = {u}
      BY <1>4, <2>2
    <3>4. ControlStateAdmissible'
      BY <1>1, <1>2, <1>3, <3>2, <3>3 DEF ControlStateAdmissible
    <3>5. Cut(t.id, IF t.state = "applied" THEN N ELSE 0)
      BY <1>1, <1>4 DEF Safe, Durable, TombstonesFit, TombstoneTellsTheTruth
    <3>6. Cut(u.id, IF u.state = "applied" THEN N ELSE 0)'
      BY <1>3, <3>2, <3>5, CutSame
    <3>7. TombstoneTellsTheTruth'
      BY <3>3, <3>6 DEF TombstoneTellsTheTruth
    <3> QED BY <3>4, <3>7 DEF TombstonesFit
  <2> QED BY <1>2, <2>1, <2>2
<1>6. SameMarks /\ EmptyWithoutJournal'
  BY <1>3 DEF SameMarks, Safe, Durable, EmptyWithoutJournal
<1>7. Durable'
  BY <1>3, <1>5, <1>6, MarksFrame, CutFrame, DirectoriesFrame, StaleFrame
     DEF Durable, Safe, Typed
<1> QED BY <1>2, <1>7, ReturnHolder DEF Safe

LEMMA EngineSafe ==
    ASSUME Typed, Safe, Engine PROVE Safe'
BY PrepareJournalSafe, StageObjectsSafe, WriteReadySafe,
   FinishPreparingFailureSafe, RollbackAfterFailureSafe,
   SelectRecoveryActionSafe, DiscardTerminalReceiptSafe,
   EnsureTargetDirectoriesSafe, PublishSafe, RollbackPrefixSafe,
   RemoveInterruptedTemporarySafe, RemoveCreatedDirectoriesSafe,
   WriteTerminalMarkerSafe, ArchiveTerminalSafe, CompactTerminalTombstoneSafe
   DEF Engine

---------------------------------------------------------------------------
(* Commands and the environment. *)

\* A step of a process that leaves the repository, the control directory and the
\* lock holder alone.
LEMMA QuietSafe ==
    ASSUME Typed, Safe, UNCHANGED <<repoVars, controlVars, touched, faults>>,
           UNCHANGED <<run, phase, work, pos>>
    PROVE  Safe'
<1>1. /\ SameMarks /\ Faulty
      /\ UNCHANGED <<targets, dirs, active, owned, tombs, touched>>
  BY DEF SameMarks, Faulty, repoVars, controlVars
<1>2. active = NoPlan => entries' = {}
  BY DEF Safe, Durable, EmptyWithoutJournal, controlVars
<1> QED BY <1>1, <1>2, DurableFrame, HolderFrame DEF Typed, Safe

LEMMA EndSafe ==
    ASSUME Typed, Safe, NEW p, NEW result, Refuse(p, result) \/ Drop(p)
    PROVE  Safe'
BY QuietSafe DEF Refuse, Drop, jobVars

\* A plan that was found executable fits the directories it was checked against.
LEMMA ExecutableFits ==
    ASSUME DurableOK, Tree, NEW pl \in Plan, Executable(pl)
    PROVE  PlanFits(pl) /\ pl.created \cap dirs = {} /\ Cut(pl, 0)
<1>1. Cut(pl, 0)
  BY AtIsCut DEF Executable
<1>2. pl.created = Missing(pl.after)
  BY DEF Executable
<1>3. pl.created \cap dirs = {}
  BY <1>2 DEF Missing
<1>4. ASSUME NEW i \in Path, pl.after[i] # Absent
      PROVE  Parents[i] \subseteq pl.created \cup dirs
  BY <1>2, <1>4, DirsAssumption DEF Missing
<1>5. ASSUME NEW i \in Path, pl.before[i] # Absent
      PROVE  Parents[i] \subseteq dirs \ pl.created
  <2>1. targets[i] = pl.before[i]
    BY DEF Executable, At, Path
  <2> QED BY <1>3, <1>5, <2>1 DEF Tree
<1> QED BY <1>1, <1>3, <1>4, <1>5 DEF PlanFits

LEMMA ApplyAdmitSafe ==
    ASSUME Typed, Safe, NEW p \in Proc, ApplyAdmit(p)
    PROVE  Safe'
<1>1. ASSUME NEW result, Refuse(p, result) PROVE Safe'
  BY <1>1, EndSafe
<1>2. CASE /\ ~Pending /\ Executable(plan[p])
           /\ Start(p, "apply", "prepareJournal", plan[p], 0)
           /\ UNCHANGED <<repoVars, controlVars, callerVars, touched, faults>>
  <2>1. /\ SameMarks /\ Faulty
        /\ UNCHANGED <<targets, dirs, active, owned, tombs, touched>>
    BY <1>2 DEF SameMarks, Faulty, repoVars, controlVars
  <2>2. active = NoPlan /\ entries' = {}
    BY <1>2 DEF Pending, Safe, Durable, EmptyWithoutJournal, controlVars
  <2>3. Durable'
    BY <2>1, <2>2, DurableFrame DEF Typed, Safe
  <2>4. \A t \in tombs : t.rest = "receipt"
    BY <1>2, <2>2 DEF Pending, Safe, Durable, TombstonesFit, ControlStateAdmissible
  <2>5. plan[p] \in Plan
    BY DEF ApplyAdmit, Typed, MemoryOK, RunShape
  <2>6. /\ PlanFits(plan[p]) /\ plan[p].created \cap dirs = {} /\ Cut(plan[p], 0)
    BY <1>2, <2>5, ExecutableFits DEF Typed, Safe, Durable, DirectoriesFit
  <2>7. run' = "apply" /\ phase' = "prepareJournal" /\ work' = plan[p] /\ pos' = 0
    BY <1>2 DEF Start
  <2>8. HolderJournal' /\ HolderDirection' /\ HolderMarker'
    BY <2>1, <2>2, <2>7
       DEF HolderJournal, HolderDirection, HolderMarker, Recording, Unmarked, Marked
  <2>9. HolderCut'
    BY <2>1, <2>6, <2>7, CutSame DEF HolderCut, AtStart, Unmarked
  <2>10. HolderDirectories'
    BY <2>1, <2>6, <2>7, FitsSame DEF HolderDirectories
  <2>11. HolderTombstones'
    BY <2>1, <2>4, <2>7 DEF HolderTombstones, Discarded
  <2> QED BY <2>3, <2>8, <2>9, <2>10, <2>11 DEF Safe, Holder
<1> QED BY <1>1, <1>2 DEF ApplyAdmit

LEMMA RecoverActiveSafe ==
    ASSUME Typed, Safe, NEW p \in Proc, NEW action \in {"resume", "rollback"},
           RecoverActive(p, action)
    PROVE  Safe'
<1>1. CASE Refuse(p, "recovery_required")
  BY <1>1, EndSafe
<1>2. ASSUME NEW c \in 0..N, At(active, c), Dispatch(action) # "refused",
             Start(p, Dispatch(action), FirstPhase(Dispatch(action)), active, c),
             entries' = entries \ {"journal.tmp"},
             UNCHANGED <<repoVars, active, owned, tombs, callerVars, touched, faults>>
      PROVE  Safe'
  <2>1. active # NoPlan
    BY DEF RecoverActive
  <2>2. /\ SameMarks /\ Faulty
        /\ UNCHANGED <<targets, dirs, active, owned, tombs, touched>>
    BY <1>2 DEF SameMarks, Marks, Faulty, repoVars
  <2>3. Durable'
    BY <2>1, <2>2, DurableFrame DEF Typed, Safe
  <2>4. run' = Dispatch(action) /\ work' = active /\ pos' = c
        /\ phase' = FirstPhase(Dispatch(action))
    BY <1>2 DEF Start
  <2>5. NotContradicted(action)
    BY <1>2 DEF Dispatch
  <2>6. /\ \/ /\ Dispatch(action) = "committed" /\ "committed" \in entries
              /\ action = "resume"
           \/ /\ Dispatch(action) = "rolledBack" /\ "rolled-back" \in entries
              /\ action = "rollback"
           \/ /\ Dispatch(action) = "preparing" /\ action = "rollback"
              /\ {"committed", "rolled-back", "ready"} \cap entries = {}
              /\ At(active, 0)
           \/ /\ Dispatch(action) = action /\ "ready" \in entries
              /\ {"committed", "rolled-back"} \cap entries = {}
    BY <1>2 DEF Dispatch
  <2>7. /\ "resume" \in entries => action = "resume"
        /\ "rollback" \in entries => action = "rollback"
    BY <2>5 DEF NotContradicted
  <2>8. phase' = IF run' \in {"committed", "rolledBack"}
                 THEN "discardTerminalReceipt" ELSE "selectRecoveryAction"
    BY <2>4, <2>6 DEF FirstPhase
  <2>9. {"committed", "rolled-back"} \cap entries = {} => Terminal \cap entries = {}
    BY DEF Terminal, Safe, Durable, MarkersAgree
  <2>10. HolderJournal'
    BY <2>2, <2>4, <2>8 DEF HolderJournal
  <2>11. HolderDirection'
    BY <2>2, <2>4, <2>6, <2>7, <2>8
       DEF HolderDirection, RollsBack, SameMarks, Marks
  <2>12. HolderMarker'
    <3>1. CASE run' \in {"committed", "rolledBack"}
      <4>1. phase' = "discardTerminalReceipt"
        BY <2>8, <3>1
      <4>2. Marker' \in entries'
        BY <2>2, <2>4, <2>6, <3>1 DEF Marker, SameMarks, Marks
      <4> QED BY <3>1, <4>1, <4>2 DEF HolderMarker, Unmarked
    <3>2. CASE run' \notin {"committed", "rolledBack"}
      <4>1. phase' = "selectRecoveryAction"
        BY <2>8, <3>2
      <4>2. Terminal \cap entries = {}
        BY <2>4, <2>6, <2>9, <3>2
      <4>3. Terminal' \cap entries' = {}
        BY <2>2, <4>2 DEF Terminal, SameMarks, Marks
      <4> QED BY <4>1, <4>3 DEF HolderMarker, Unmarked, Marked
    <3> QED BY <3>1, <3>2
  <2>13. HolderCut'
    <3>1. Cut(active, c)' /\ (At(active, 0) => Cut(active, 0)')
      BY <1>2, <2>2, AtIsCut, CutSame
    <3> QED BY <2>2, <2>4, <2>6, <2>8, <3>1 DEF HolderCut, AtStart
  <2>14. HolderDirectories' /\ HolderTombstones'
    BY <2>4, <2>6, <2>8
       DEF HolderDirectories, HolderTombstones, NothingMade, Discarded
  <2> QED BY <2>3, <2>10, <2>11, <2>12, <2>13, <2>14 DEF Safe, Holder
<1> QED BY <1>1, <1>2 DEF RecoverActive

LEMMA RecoverTombstoneSafe ==
    ASSUME Typed, Safe, NEW p \in Proc, NEW action \in {"resume", "rollback"},
           RecoverTombstone(p, action)
    PROVE  Safe'
<1>1. CASE Refuse(p, "recovery_required")
  BY <1>1, EndSafe
<1>2. ASSUME NEW t \in tombs,
             Start(p, "tombstone", FirstPhase("tombstone"), t.id, 0),
             UNCHANGED <<repoVars, controlVars, callerVars, touched, faults>>
      PROVE  Safe'
  <2>1. /\ SameMarks /\ Faulty
        /\ UNCHANGED <<targets, dirs, active, owned, tombs, touched>>
    BY <1>2 DEF SameMarks, Faulty, repoVars, controlVars
  <2>2. active = NoPlan /\ entries' = {}
    BY <1>2 DEF RecoverTombstone, Safe, Durable, EmptyWithoutJournal, controlVars
  <2>3. Durable'
    BY <2>1, <2>2, DurableFrame DEF Typed, Safe
  <2>4. run' = "tombstone" /\ phase' = "compactTerminalTombstone"
    BY <1>2 DEF Start, FirstPhase
  <2>5. HolderJournal' /\ HolderDirection' /\ HolderMarker'
    BY <2>1, <2>2, <2>4
       DEF HolderJournal, HolderDirection, HolderMarker, Recording, Unmarked, Marked
  <2>6. HolderCut' /\ HolderDirectories' /\ HolderTombstones'
    BY <2>4 DEF HolderCut, HolderDirectories, HolderTombstones, AtStart, Unmarked,
                NothingMade, Discarded
  <2> QED BY <2>3, <2>5, <2>6 DEF Safe, Holder
<1> QED BY <1>1, <1>2 DEF RecoverTombstone

LEMMA CommandSafe ==
    ASSUME Typed, Safe, NEW p \in Proc, Command(p) PROVE Safe'
<1>1. CASE BuildPlan(p)
  BY <1>1, QuietSafe DEF BuildPlan, jobVars
<1>2. CASE ApplyPreflight(p)
  BY <1>2, QuietSafe, EndSafe DEF ApplyPreflight, jobVars
<1>3. CASE Busy(p)
  BY <1>3, EndSafe DEF Busy
<1>4. CASE ReplayApplied(p)
  BY <1>4, EndSafe DEF ReplayApplied
<1> QED BY <1>1, <1>2, <1>3, <1>4, ApplyAdmitSafe, RecoverActiveSafe,
           RecoverTombstoneSafe DEF Command

LEMMA CrashSafe == ASSUME Typed, Safe, Crash PROVE Safe'
<1>1. /\ SameMarks /\ Faulty
      /\ UNCHANGED <<targets, dirs, active, owned, tombs, touched>>
  BY FaultyStep DEF Crash, SameMarks, repoVars, controlVars
<1>2. active = NoPlan => entries' = {}
  BY DEF Crash, Safe, Durable, EmptyWithoutJournal, controlVars
<1> QED BY <1>1, <1>2, DurableFrame, ReturnHolder DEF Crash, Typed, Safe

LEMMA ForeignEditSafe ==
    ASSUME Typed, Safe, NEW i \in Path, NEW content \in Contents,
           ForeignEdit(i, content)
    PROVE  Safe'
<1>1. /\ targets' = [targets EXCEPT ![i] = content] /\ touched' = touched \cup {i}
      /\ UNCHANGED <<dirs, active, entries, owned, tombs>>
      /\ UNCHANGED <<run, phase, work, pos>> /\ faults' = faults + 1
  BY DEF ForeignEdit, Fault, controlVars, jobVars
<1>2. targets \in Vector
  BY DEF Typed, DurableOK
<1>3. \A pl, c : Cut(pl, c) => Cut(pl, c)'
  BY <1>1, <1>2, CutGrows DEF Vector
<1>4. TargetsCut'
  BY <1>1, <1>3 DEF Safe, Durable, TargetsCut, PrefixOnly
<1>5. DirectoriesFit'
  <2>1. Tree'
    BY <1>1, <1>2 DEF ForeignEdit, Safe, Durable, DirectoriesFit, Tree, Vector
  <2>2. (active # NoPlan => PlanFits(active))'
    BY <1>1, FitsSame DEF Safe, Durable, DirectoriesFit
  <2>3. UnrecordedDirectoryIsEmpty'
    BY <1>1, <1>2
       DEF Safe, Durable, DirectoriesFit, UnrecordedDirectoryIsEmpty, Vector
  <2>4. RolledBackLeavesNoDirectory'
    BY <1>1 DEF Safe, Durable, DirectoriesFit, RolledBackLeavesNoDirectory
  <2>5. (active # NoPlan /\ "ready" \notin entries => active.created \cap dirs = {})'
    BY <1>1 DEF Safe, Durable, DirectoriesFit
  <2> QED BY <2>1, <2>2, <2>3, <2>4, <2>5 DEF DirectoriesFit
<1>6. TombstonesFit'
  BY <1>1, <1>3
     DEF Safe, Durable, TombstonesFit, ControlStateAdmissible, TombstoneTellsTheTruth
<1>7. StalePlanNeverJournalled'
  BY <1>1, FaultsCounted DEF StalePlanNeverJournalled, Typed
<1>8. EmptyWithoutJournal' /\ OneDirection' /\ MarkersAgree'
  BY <1>1 DEF Safe, Durable, EmptyWithoutJournal, OneDirection, MarkersAgree
<1>9. /\ Recording' = Recording
      /\ Unmarked' = Unmarked
      /\ Marked' = Marked
      /\ AtStart' = AtStart
      /\ RollsBack' = RollsBack
      /\ NothingMade' = NothingMade
      /\ Discarded' = Discarded
  BY <1>1 DEF Recording, Unmarked, Marked, AtStart, RollsBack, NothingMade, Discarded
<1>10. HolderJournal' /\ HolderDirection'
  BY <1>1, <1>9 DEF Safe, Holder, HolderJournal, HolderDirection
<1>11. HolderMarker'
  BY <1>1, <1>9 DEF Safe, Holder, HolderMarker, Marker
<1>12. HolderCut'
  BY <1>1, <1>3, <1>9 DEF Safe, Holder, HolderCut
<1>13. HolderDirectories' /\ HolderTombstones'
  BY <1>1, <1>9, FitsSame DEF Safe, Holder, HolderDirectories, HolderTombstones
<1> QED BY <1>4, <1>5, <1>6, <1>7, <1>8, <1>10, <1>11, <1>12, <1>13
        DEF Safe, Durable, Holder

LEMMA InitSafe == Init => Safe
<1> SUFFICES ASSUME Init PROVE Safe
  OBVIOUS
<1>1. run = "none" /\ phase = "none" /\ tombs = {} /\ touched = {} /\ dirs = {}
      /\ owned = {} /\ faults = 0
  BY DEF Init
<1>2. Holder
  <2>1. HolderJournal /\ HolderDirection /\ HolderMarker
    BY <1>1 DEF HolderJournal, HolderDirection, HolderMarker, Recording, Unmarked, Marked
  <2>2. HolderCut /\ HolderDirectories /\ HolderTombstones
    BY <1>1 DEF HolderCut, HolderDirectories, HolderTombstones, AtStart, Unmarked,
                NothingMade, Discarded
  <2> QED BY <2>1, <2>2 DEF Holder
<1>3. Tree /\ targets \in Vector
  BY DEF Init, Tree
<1>4. /\ entries \in {{}, {"journal.tmp"}} /\ (active = NoPlan => entries = {})
      /\ active # NoPlan => \E v \in Desired : active = InitialPlan(v)
  <2>1. \A v \in Desired : InitialPlan(v) \in Plan
    BY <1>3, ContentsAssumption DEF InitialPlan, Plan, Missing
  <2> QED BY <2>1, NamesAssumption DEF Init
<1>5. active # NoPlan => Cut(active, 0) /\ PlanFits(active)
  <2> SUFFICES ASSUME NEW v \in Desired, active = InitialPlan(v)
               PROVE  Cut(active, 0) /\ PlanFits(active)
    BY <1>4
  <2>1. active.before = targets /\ active.after = v /\ active.created = Missing(v)
    BY DEF InitialPlan
  <2>2. Cut(active, 0)
    BY <2>1 DEF Cut, Path
  <2>3. PlanFits(active)
    BY <1>1, <1>3, <2>1, DirsAssumption DEF PlanFits, Missing, Tree
  <2> QED BY <2>2, <2>3
<1>6. EmptyWithoutJournal /\ OneDirection /\ MarkersAgree
  BY <1>1, <1>4 DEF EmptyWithoutJournal, OneDirection, MarkersAgree
<1>7. TargetsCut
  BY <1>4, <1>5, SizesAssumption DEF TargetsCut, PrefixOnly
<1>8. DirectoriesFit
  BY <1>1, <1>3, <1>4, <1>5
     DEF DirectoriesFit, RolledBackLeavesNoDirectory, UnrecordedDirectoryIsEmpty
<1>9. TombstonesFit /\ StalePlanNeverJournalled
  BY <1>1 DEF TombstonesFit, ControlStateAdmissible, TombstoneTellsTheTruth,
              StalePlanNeverJournalled
<1> QED BY <1>2, <1>6, <1>7, <1>8, <1>9 DEF Safe, Durable

LEMMA NextSafe == Typed /\ Safe /\ [Next]_vars => Typed' /\ Safe'
<1> SUFFICES ASSUME Typed, Safe, [Next]_vars PROVE Typed' /\ Safe'
  OBVIOUS
<1>1. Typed'
  BY NextType DEF Typed
<1>2. CASE Engine
  BY <1>1, <1>2, EngineSafe
<1>3. ASSUME NEW p \in Proc, Command(p) PROVE Safe'
  BY <1>3, CommandSafe
<1>4. CASE Crash
  BY <1>1, <1>4, CrashSafe
<1>5. ASSUME NEW i \in Path, NEW content \in Contents, ForeignEdit(i, content)
      PROVE  Safe'
  BY <1>5, ForeignEditSafe
<1>6. CASE UNCHANGED vars
  BY <1>1, <1>6, QuietSafe DEF vars, repoVars, controlVars, jobVars
<1> QED BY <1>1, <1>2, <1>3, <1>4, <1>5, <1>6 DEF Next

\* Durable and Holder hold, with the types, in every reachable state.
LEMMA AlwaysSafe == Spec => [](Typed /\ Safe)
<1>1. Init => Typed /\ Safe
  BY InitType, InitSafe DEF Typed
<1> QED BY <1>1, NextSafe, PTL DEF Spec

\* Whatever failed or died, the targets of an unfinished transaction are cut into
\* published and untouched ones, and nothing of it was published before the ready
\* marker: applyForward, classifyTargets and the recovery's dispatch rest on it.
THEOREM PublicationReadable == Spec => []PublicationIsReadable
<1>1. Safe => PublicationIsReadable
  BY DEF Safe, Durable, TargetsCut, DirectoriesFit, PublicationIsReadable,
         NothingBeforeReady
<1> QED BY <1>1, AlwaysSafe, PTL

\* A terminal marker, a receipt and an archived tombstone say what the targets
\* hold, and no transaction ever has both outcomes: writeTerminalMarker and
\* archiveTerminal, through every failed and repeated step.
THEOREM OutcomesTrue == Spec => []OutcomesTellTheTruth
<1>1. Safe => OutcomesTellTheTruth
  BY DEF Safe, Durable, TargetsCut, MarkersAgree, TombstonesFit,
         OutcomesTellTheTruth, MarkersTellTheTruth
<1> QED BY <1>1, AlwaysSafe, PTL

\* Rolled back means that the directories the transaction made are gone, and a
\* directory it has not recorded holds nothing of it: ensureTargetDirectories and
\* removeCreatedDirectories.
THEOREM DirectoriesRight == Spec => []DirectoriesAccountedFor
<1>1. Safe => DirectoriesAccountedFor
  BY DEF Safe, Durable, DirectoriesFit, DirectoriesAccountedFor
<1> QED BY <1>1, AlwaysSafe, PTL

\* A plan that another transaction made stale is never journalled: apply checks
\* its plan again under the lock, and no cooperating process moves a target then.
THEOREM StaleNeverJournalled == Spec => []StalePlanNeverJournalled
<1>1. Safe => StalePlanNeverJournalled
  BY DEF Safe, Durable
<1> QED BY <1>1, AlwaysSafe, PTL

\* The entries of a transaction nobody interfered with always admit a direction.
LEMMA SomeDirection ==
    ASSUME Typed, Safe, active # NoPlan, touched = {}
    PROVE  \E action \in {"resume", "rollback"} : Dispatch(action) # "refused"
<1>1. \A c : Cut(active, c) => At(active, c)
  BY DEF Cut, At
<1>2. /\ OneDirection /\ MarkersAgree /\ TargetsCut
  BY DEF Safe, Durable
<1>3. CASE "committed" \in entries
  <2>1. At(active, N)
    BY <1>1, <1>2, <1>3 DEF TargetsCut
  <2>2. {"rolled-back", "rollback", "rolled_back"} \cap entries = {}
    BY <1>2, <1>3 DEF MarkersAgree
  <2>3. NotContradicted("resume") /\ "rolled-back" \notin entries
    BY <2>2 DEF NotContradicted
  <2>4. \A action : /\ action = "resume" /\ NotContradicted(action)
                    /\ At(active, N)
                    => Dispatch(action) = "committed"
    BY <1>3, <2>3 DEF Dispatch
  <2> QED BY <2>1, <2>3, <2>4
<1>4. CASE "committed" \notin entries /\ "rolled-back" \in entries
  <2>1. At(active, 0) /\ NotContradicted("rollback")
    BY <1>1, <1>2, <1>4 DEF TargetsCut, MarkersAgree, NotContradicted
  <2>2. Dispatch("rollback") = "rolledBack"
    BY <1>4, <2>1 DEF Dispatch
  <2> QED BY <2>2
<1>5. CASE {"committed", "rolled-back", "ready"} \cap entries = {}
  <2>1. At(active, 0) /\ NotContradicted("rollback")
    BY <1>1, <1>2, <1>5 DEF TargetsCut, OneDirection, NotContradicted
  <2>2. Dispatch("rollback") = "preparing"
    BY <1>5, <2>1 DEF Dispatch
  <2> QED BY <2>2
<1>6. CASE {"committed", "rolled-back"} \cap entries = {} /\ "ready" \in entries
  <2>1. Classified(active)
    BY <1>1, <1>2 DEF TargetsCut, PrefixOnly, Classified
  <2>2. NotContradicted("resume") \/ NotContradicted("rollback")
    BY <1>2 DEF OneDirection, NotContradicted
  <2>3. \A action : NotContradicted(action) => Dispatch(action) = action
    BY <1>6, <2>1 DEF Dispatch
  <2> QED BY <2>2, <2>3
<1> QED BY <1>3, <1>4, <1>5, <1>6

\* Wherever a process stops, the next command can read the control state and go
\* on from it: admission of the control directory and recoverActive's dispatch.
THEOREM AlwaysRecoverable == Spec => []ControlStateRecoverable
<1>1. Typed /\ Safe => ControlStateRecoverable
  <2>1. Typed /\ Safe => RecoveryNeverRefused
    BY SomeDirection DEF RecoveryNeverRefused
  <2> QED BY <2>1 DEF Safe, Durable, TombstonesFit, ControlStateRecoverable
<1> QED BY <1>1, AlwaysSafe, PTL

---------------------------------------------------------------------------
(* Results.  A step that ends a command under the lock reports what is there. *)

\* A phase other than the first and the last works on the journalled plan.
LEMMA PhaseRecords ==
    ASSUME Typed, Safe, phase \notin {"none", "prepareJournal", "compactTerminalTombstone"}
    PROVE  active # NoPlan
<1>1. Recording
  BY DEF Typed, MemoryOK, RunShape, PhasesOf, Recording
<1> QED BY <1>1, HolderJournalled

\* The directory `active` is itself pending work.
LEMMA RecoveryIsPending ==
    ASSUME NEW result \in {"recovery_required", "cleanup_required"},
           Return(result), active' # NoPlan
    PROVE  ReportedResult
BY DEF Return, ReportedResult, Pending

\* The phases between the journal and the archive leave `active` alone and end a
\* command only when they fail.
Failing ==
    \/ UNCHANGED lock
    \/ Return("recovery_required") /\ UNCHANGED active

LEMMA PhasesFail ==
    \/ StageObjects \/ WriteReady \/ FinishPreparingFailure
    \/ RollbackAfterFailure \/ SelectRecoveryAction \/ DiscardTerminalReceipt
    \/ EnsureTargetDirectories \/ Publish \/ RollbackPrefix
    \/ RemoveInterruptedTemporary \/ RemoveCreatedDirectories \/ WriteTerminalMarker
    => Failing
<1>1. StageObjects \/ WriteReady \/ FinishPreparingFailure \/ RollbackAfterFailure
      => Failing
  BY DEF StageObjects, WriteReady, FinishPreparingFailure, RollbackAfterFailure,
         WriteEntry, GoTo, Proceed, Failing, controlVars
<1>2. SelectRecoveryAction \/ DiscardTerminalReceipt \/ WriteTerminalMarker => Failing
  BY DEF SelectRecoveryAction, DiscardTerminalReceipt, WriteTerminalMarker,
         WriteEntry, GoTo, Proceed, Stay, jobVars, Failing, controlVars
<1>3. EnsureTargetDirectories \/ RemoveInterruptedTemporary \/ RemoveCreatedDirectories
      => Failing
  BY DEF EnsureTargetDirectories, RemoveInterruptedTemporary,
         RemoveCreatedDirectories, ForwardFails, GoTo, Proceed, Stay, jobVars,
         Failing
<1>4. ASSUME NEW i, NEW expected, NEW content, NEW next, NEW failed,
             failed => UNCHANGED lock \/ Return("recovery_required"),
             \/ Inspect(i, expected, content, failed)
             \/ Replace(i, content, next, failed)
      PROVE  Failing
  BY <1>4 DEF Inspect, Replace, Failing
<1>5. ForwardFails => UNCHANGED lock \/ Return("recovery_required")
  BY DEF ForwardFails, GoTo
<1>6. Publish => Failing
  BY <1>4, <1>5 DEF Publish, SkipUnchanged, GoTo, Proceed, Failing, controlVars
<1>7. RollbackPrefix => Failing
  BY <1>4 DEF RollbackPrefix, SkipUnchanged, GoTo, Proceed, Failing, controlVars
<1> QED BY <1>1, <1>2, <1>3, <1>6, <1>7

LEMMA PhasesFailTruly ==
    ASSUME Typed, Safe, Failing, lock' # lock,
           phase \notin {"none", "prepareJournal", "compactTerminalTombstone"}
    PROVE  ReportedResult
BY PhaseRecords, RecoveryIsPending DEF Failing

\* Up to the rename that publishes the journal a failure is a plain error;
\* after it the caller is told to recover.
LEMMA PrepareJournalReports ==
    ASSUME Typed, Safe, PrepareJournal, lock' # lock
    PROVE  ReportedResult
<1>1. work # NoPlan
  BY HolderHasPlan, NamesAssumption DEF PrepareJournal, Typed
<1>2. CASE active' = work /\ Return(JournalFailure(TRUE))
  BY <1>1, <1>2, RecoveryIsPending DEF JournalFailure
<1>3. CASE active' = active /\ Return(JournalFailure(FALSE))
  <2>1. last' = "error"
    BY <1>3 DEF JournalFailure, Return
  <2> QED BY <1>3, <2>1 DEF ReportedResult
<1> QED BY <1>2, <1>3 DEF PrepareJournal, Proceed, GoTo

\* A transaction that could not be archived is pending, and so is its tombstone
\* until it is compacted.
LEMMA ArchiveReports ==
    ASSUME Typed, Safe, ArchiveTerminal, lock' # lock
    PROVE  ReportedResult
<1>1. active # NoPlan
  BY PhaseRecords DEF ArchiveTerminal
<1>2. last' = "cleanup_required"
  BY DEF ArchiveTerminal, WriteEntry, Stay, jobVars, Proceed, GoTo, Return
<1>3. CASE active' = active
  BY <1>1, <1>2, <1>3 DEF ReportedResult, Pending
<1>4. CASE tombs' = tombs \cup {[id |-> work, state |-> Outcome,
                                 retired |-> FALSE, rest |-> "full"]}
  <2> DEFINE new == [id |-> work, state |-> Outcome, retired |-> FALSE, rest |-> "full"]
  <2>1. new \in tombs' /\ new.rest = "full"
    BY <1>4
  <2>2. Pending'
    BY <2>1 DEF Pending
  <2> QED BY <1>2, <2>2 DEF ReportedResult
<1> QED BY <1>3, <1>4 DEF ArchiveTerminal, WriteEntry, controlVars

\* A compaction that is acknowledged leaves the one receipt that says so.
LEMMA CompactReports ==
    ASSUME Typed, Safe, CompactTerminalTombstone
    PROVE  ReportedResult
<1>1. active = NoPlan /\ active' = NoPlan
  BY DEF CompactTerminalTombstone, Safe, Holder, HolderJournal
<1>2. PICK t \in tombs :
        /\ t.id = work /\ ~t.retired
        /\ \/ /\ tombs' = (tombs \ {t}) \cup {[t EXCEPT !.rest = "receipt"]}
              /\ Return(t.state) \/ Return("durability_unknown")
           \/ /\ t.rest = "full" /\ UNCHANGED tombs
              /\ Return("cleanup_required")
  BY DEF CompactTerminalTombstone
<1>3. tombs = {t} /\ t \in Tombstone
  BY <1>2 DEF Safe, Durable, TombstonesFit, ControlStateAdmissible, Typed, DurableOK
<1>4. CASE Return("durability_unknown")
  BY <1>1, <1>4 DEF ReportedResult, Return
<1>5. CASE t.rest = "full" /\ UNCHANGED tombs /\ Return("cleanup_required")
  <2>1. Pending'
    BY <1>2, <1>3, <1>5 DEF Pending
  <2> QED BY <1>1, <1>5, <2>1 DEF ReportedResult, Return
<1>6. CASE /\ tombs' = (tombs \ {t}) \cup {[t EXCEPT !.rest = "receipt"]}
           /\ Return(t.state)
  <2> DEFINE u == [t EXCEPT !.rest = "receipt"]
  <2>1. u.id = work /\ u.state = t.state /\ u.rest = "receipt"
    BY <1>2, <1>3 DEF Tombstone
  <2>2. tombs' = {u}
    BY <1>3, <1>6
  <2>3. ~Pending'
    BY <1>1, <2>1, <2>2 DEF Pending
  <2>4. t.state \in {"applied", "rolled_back"} /\ last' = t.state
    BY <1>3, <1>6 DEF Tombstone, Return
  <2> QED BY <1>1, <2>1, <2>2, <2>3, <2>4 DEF ReportedResult
<1> QED BY <1>2, <1>4, <1>5, <1>6

LEMMA EngineReports ==
    ASSUME Typed, Safe, Engine, lock' # lock PROVE ReportedResult
<1>1. CASE PrepareJournal \/ ArchiveTerminal \/ CompactTerminalTombstone
  BY <1>1, PrepareJournalReports, ArchiveReports, CompactReports
<1>2. CASE ~(PrepareJournal \/ ArchiveTerminal \/ CompactTerminalTombstone)
  <2>1. Failing
    BY <1>2, PhasesFail DEF Engine
  <2>2. phase \notin {"none", "prepareJournal", "compactTerminalTombstone"}
    BY <1>2 DEF Engine, StageObjects, WriteReady, FinishPreparingFailure,
                RollbackAfterFailure, SelectRecoveryAction, DiscardTerminalReceipt,
                EnsureTargetDirectories, Publish, RollbackPrefix,
                RemoveInterruptedTemporary, RemoveCreatedDirectories,
                WriteTerminalMarker
  <2> QED BY <2>1, <2>2, PhasesFailTruly
<1> QED BY <1>1, <1>2

\* No other step releases the lock and reports a result.
LEMMA OnlyEngineReleases ==
    ASSUME Next, ~Engine, lock # Nobody, last' # "none" PROVE UNCHANGED lock
<1>1. ASSUME NEW p \in Proc, Command(p) PROVE UNCHANGED lock
  BY <1>1 DEF Command, BuildPlan, ApplyPreflight, ApplyAdmit, Busy, ReplayApplied,
              RecoverActive, RecoverTombstone, Drop, jobVars
<1>2. Crash => last' = "none"
  BY DEF Crash, Return
<1>3. ASSUME NEW i \in Path, NEW content \in Contents, ForeignEdit(i, content)
      PROVE  UNCHANGED lock
  BY <1>3 DEF ForeignEdit, jobVars
<1> QED BY <1>1, <1>2, <1>3 DEF Next

\* A command reports the truth: pending work exists when it says so, a receipt of
\* this very transaction exists when it acknowledges an outcome, and a plain error
\* means that nothing was journalled.
THEOREM ResultsTrue == Spec => ResultsAreTrue
<1>1. Typed /\ Safe /\ [Next]_vars =>
        [lock # Nobody /\ lock' = Nobody /\ last' # "none" => ReportedResult]_vars
  <2> SUFFICES ASSUME Typed, Safe, Next, lock # Nobody, lock' = Nobody, last' # "none"
               PROVE  ReportedResult
    OBVIOUS
  <2> QED BY EngineReports, OnlyEngineReleases
<1> QED BY <1>1, AlwaysSafe, PTL DEF Spec, ResultsAreTrue

---------------------------------------------------------------------------
(* One direction.  The recorded choice outlives every step but the archive, *)
(* and a target moves only in the direction that was chosen.                *)

Choice == {"resume", "rollback", "committed", "rolled-back"}

LEMMA QuietKeeps ==
    ASSUME UNCHANGED targets, active' = active => Choice \cap entries \subseteq entries'
    PROVE  DirectionKept
BY DEF DirectionKept, Choice

LEMMA MarksKept == SameMarks => Choice \cap entries \subseteq entries'
BY DEF SameMarks, Marks, Choice

\* Most steps of the holder move no target, and only the archive drops a choice.
LEMMA PhasesKeep ==
    ASSUME active # NoPlan, Engine, ~Publish, ~RollbackPrefix, ~PrepareJournal
    PROVE  DirectionKept
<1>1. UNCHANGED targets
  BY DEF Engine, StageObjects, WriteReady, FinishPreparingFailure,
         RollbackAfterFailure, SelectRecoveryAction, DiscardTerminalReceipt,
         EnsureTargetDirectories, RemoveInterruptedTemporary,
         RemoveCreatedDirectories, WriteTerminalMarker, ArchiveTerminal,
         CompactTerminalTombstone, repoVars
<1>2. CASE \/ StageObjects \/ WriteReady \/ FinishPreparingFailure
           \/ RollbackAfterFailure \/ SelectRecoveryAction \/ WriteTerminalMarker
  <2>1. entries \subseteq entries'
    BY <1>2 DEF StageObjects, WriteReady, FinishPreparingFailure, WriteEntry,
                RollbackAfterFailure, SelectRecoveryAction, WriteTerminalMarker,
                controlVars
  <2> QED BY <1>1, <2>1, QuietKeeps
<1>3. CASE \/ DiscardTerminalReceipt \/ EnsureTargetDirectories
           \/ RemoveCreatedDirectories \/ CompactTerminalTombstone
  <2>1. entries' = entries
    BY <1>3 DEF DiscardTerminalReceipt, EnsureTargetDirectories,
                RemoveCreatedDirectories, CompactTerminalTombstone
  <2> QED BY <1>1, <2>1, QuietKeeps
<1>4. CASE RemoveInterruptedTemporary
  <2>1. entries' \in {entries, entries \ {"publish.tmp"}}
    BY <1>4 DEF RemoveInterruptedTemporary
  <2> QED BY <1>1, <2>1, QuietKeeps DEF Choice
<1>5. CASE ArchiveTerminal
  <2>1. active' = active => entries \subseteq entries'
    BY <1>5 DEF ArchiveTerminal, WriteEntry, controlVars
  <2> QED BY <1>1, <2>1, QuietKeeps
<1> QED BY <1>2, <1>3, <1>4, <1>5 DEF Engine

LEMMA PublishKeeps == ASSUME Typed, Safe, Publish PROVE DirectionKept
<1>1. phase = "publish"
  BY DEF Publish
<1>2. /\ active = work /\ run \in {"apply", "resume"} /\ Terminal \cap entries = {}
  BY <1>1, ForwardKnows
<1>3. {"rollback", "rolled-back"} \cap entries = {}
  <2>1. "rollback" \notin entries
    BY <1>1, <1>2 DEF Safe, Holder, HolderDirection, Recording
  <2>2. "rolled-back" \notin entries
    BY <1>2 DEF Terminal
  <2> QED BY <2>1, <2>2
<1>4. CASE UNCHANGED <<targets, entries>>
  BY <1>4, QuietKeeps
<1>5. ASSUME NEW i \in Path, Inspect(i, work.before[i], work.after[i], ForwardFails)
      PROVE  DirectionKept
  BY <1>5, InspectMarks, MarksKept, QuietKeeps
<1>6. ASSUME NEW i \in Path, i = pos + 1, Replace(i, work.after[i], i, ForwardFails)
      PROVE  DirectionKept
  <2>1. /\ SameMarks
        /\ targets' \in {targets, [targets EXCEPT ![i] = work.after[i]]}
    BY <1>6, ReplaceMarks
  <2>2. Choice \cap entries \subseteq entries'
    BY <2>1, MarksKept
  <2>3. \A j \in Path : targets'[j] # targets[j] => targets'[j] = active.after[j]
    BY <1>2, <2>1 DEF Typed, DurableOK, Vector
  <2> QED BY <1>3, <2>2, <2>3 DEF DirectionKept, Choice, Forward
<1> QED BY <1>4, <1>5, <1>6 DEF Publish, SkipUnchanged, repoVars, controlVars

LEMMA RollbackKeeps == ASSUME Typed, Safe, RollbackPrefix PROVE DirectionKept
<1>1. phase = "rollbackPrefix" /\ run \in {"applyRollback", "rollback"}
  BY AfterRollbackPrefix DEF RollbackPrefix, Typed
<1>2. active = work
  BY <1>1, HolderJournalled DEF Recording
<1>3. {"resume", "committed"} \cap entries = {}
  <2>1. "resume" \notin entries
    BY <1>1 DEF Safe, Holder, HolderDirection, Recording, RollsBack
  <2>2. "committed" \notin entries
    BY <1>1 DEF Safe, Holder, HolderMarker, Unmarked, Terminal
  <2> QED BY <2>1, <2>2
<1>4. CASE UNCHANGED <<targets, entries>>
  BY <1>4, QuietKeeps
<1>5. ASSUME NEW i \in Path,
             Inspect(i, work.after[i], work.before[i], Return("recovery_required"))
      PROVE  DirectionKept
  BY <1>5, InspectMarks, MarksKept, QuietKeeps
<1>6. ASSUME NEW i \in Path,
             Replace(i, work.before[i], i - 1, Return("recovery_required"))
      PROVE  DirectionKept
  <2>1. /\ SameMarks
        /\ targets' \in {targets, [targets EXCEPT ![i] = work.before[i]]}
    BY <1>6, ReplaceMarks
  <2>2. Choice \cap entries \subseteq entries'
    BY <2>1, MarksKept
  <2>3. \A j \in Path : targets'[j] # targets[j] => targets'[j] = active.before[j]
    BY <1>2, <2>1 DEF Typed, DurableOK, Vector
  <2> QED BY <1>3, <2>2, <2>3 DEF DirectionKept, Choice, Backward
<1> QED BY <1>4, <1>5, <1>6 DEF RollbackPrefix, SkipUnchanged, repoVars, controlVars

LEMMA OthersKeep == ASSUME Typed, Next, ~Engine PROVE DirectionKept
<1>1. ASSUME NEW p \in Proc, Command(p) PROVE DirectionKept
  <2>1. UNCHANGED <<targets, active>> /\ entries' \in {entries, entries \ {"journal.tmp"}}
    BY <1>1 DEF Command, BuildPlan, ApplyPreflight, ApplyAdmit, Busy, ReplayApplied,
                RecoverActive, RecoverTombstone, Drop, Refuse, repoVars, controlVars
  <2> QED BY <2>1, QuietKeeps DEF Choice
<1>2. CASE Crash
  BY <1>2, QuietKeeps DEF Crash, repoVars, controlVars
<1>3. ASSUME NEW i \in Path, NEW content \in Contents, ForeignEdit(i, content)
      PROVE  DirectionKept
  <2>1. \A j \in Path \ touched' : targets'[j] = targets[j]
    BY <1>3 DEF ForeignEdit, Typed, DurableOK, Vector
  <2>2. entries' = entries
    BY <1>3 DEF ForeignEdit, controlVars
  <2> QED BY <2>1, <2>2 DEF DirectionKept
<1> QED BY <1>1, <1>2, <1>3 DEF Next

\* Recovery never reverses: selectRecoveryAction's choice and the terminal marker
\* bind every later step of the transaction, of whatever process.
THEOREM NeverReverses == Spec => NoReversal
<1>1. Typed /\ Safe /\ [Next]_vars => [DirectionKept]_vars
  <2> SUFFICES ASSUME Typed, Safe, Next, active # NoPlan PROVE DirectionKept
    BY DEF DirectionKept
  <2>1. ~PrepareJournal
    BY DEF PrepareJournal, Safe, Holder, HolderJournal
  <2> QED BY <2>1, PhasesKeep, PublishKeeps, RollbackKeeps, OthersKeep
<1> QED BY <1>1, AlwaysSafe, PTL DEF Spec, NoReversal

---------------------------------------------------------------------------
(* Refinement.  Every step of the engine is a step of AtomicTransaction or  *)
(* leaves what it describes alone.                                          *)

SameOutcome == \A m \in {"committed", "rolled-back"} : m \in entries' <=> m \in entries

LEMMA AbstractStutters ==
    ASSUME UNCHANGED <<active, touched>>, SameOutcome,
           active = NoPlan => UNCHANGED targets
    PROVE  UNCHANGED Atomic!vars
<1>1. AbstractOpen' = AbstractOpen
  BY DEF AbstractOpen
<1>2. AbstractDecided' = AbstractDecided
  BY DEF AbstractDecided, SameOutcome
<1>3. AbstractValue' = AbstractValue
  BY DEF AbstractValue
<1> QED BY <1>1, <1>2, <1>3 DEF Atomic!vars

LEMMA AbstractInit == Init => Atomic!Init
<1> SUFFICES ASSUME Init PROVE Atomic!Init
  OBVIOUS
<1>1. targets \in Vector /\ touched = {} /\ entries \in {{}, {"journal.tmp"}}
  BY DEF Init
<1>2. AbstractDecided = "none"
  BY <1>1 DEF AbstractDecided
<1>3. CASE active = NoPlan
  <2>1. AbstractValue = targets
    BY <1>1, <1>3 DEF AbstractValue, Vector
  <2>2. AbstractOpen = NoPlan
    BY <1>3 DEF AbstractOpen
  <2> QED BY <1>1, <1>2, <2>1, <2>2 DEF Atomic!Init, Atomic!Vector, Vector
<1>4. CASE active # NoPlan
  <2>1. PICK v \in Desired : active = InitialPlan(v)
    BY <1>4 DEF Init
  <2>2. active.before = targets /\ active.after = v
    BY <2>1 DEF InitialPlan
  <2>3. AbstractValue = targets
    BY <1>1, <1>4, <2>2 DEF AbstractValue, Vector
  <2>4. AbstractOpen = [before |-> targets, after |-> v] /\ v \in Vector
    BY <1>4, <2>2, ContentsAssumption DEF AbstractOpen
  <2> QED BY <1>1, <1>2, <2>3, <2>4 DEF Atomic!Init, Atomic!Vector, Vector
<1> QED BY <1>3, <1>4

\* prepareJournal's rename opens the transaction.
LEMMA JournalBegins ==
    ASSUME Typed, Safe, PrepareJournal PROVE [Atomic!Next]_(Atomic!vars)
<1>1. phase = "prepareJournal" /\ work \in Plan /\ work # NoPlan
  BY HolderHasPlan, NamesAssumption DEF PrepareJournal, Typed
<1>2. active = NoPlan /\ Cut(work, 0)
  BY <1>1 DEF Safe, Holder, HolderJournal, HolderCut, AtStart
<1>3. CASE UNCHANGED <<active, entries, touched>>
  BY <1>3, AbstractStutters DEF PrepareJournal, SameOutcome, repoVars
<1>4. CASE active' = work /\ entries' = {}
           /\ touched' = {i \in Path : targets[i] # work.before[i]}
  <2>1. AbstractOpen = NoPlan
    BY <1>2 DEF AbstractOpen
  <2>2. AbstractOpen' = [before |-> work.before, after |-> work.after]
    BY <1>1, <1>4 DEF AbstractOpen
  <2>3. AbstractDecided' = "none"
    BY <1>4 DEF AbstractDecided
  <2>4. AbstractValue' = [i \in Path |-> IF i \in touched' THEN Foreign ELSE work.before[i]]
    BY <1>1, <1>4 DEF AbstractValue
  <2>5. \A i \in Path : AbstractValue[i] \in {work.before[i], Foreign}
    BY <1>2 DEF AbstractValue, Cut, Path
  <2>6. work.before \in Atomic!Vector /\ work.after \in Atomic!Vector
    BY <1>1 DEF Plan, Vector, Atomic!Vector
  <2>7. touched' \in SUBSET Path
    BY <1>4
  <2>8. Atomic!Begin(work.before, work.after)
    BY <2>1, <2>2, <2>3, <2>4, <2>5, <2>7 DEF Atomic!Begin
  <2> QED BY <2>6, <2>8 DEF Atomic!Next
<1> QED BY <1>3, <1>4 DEF PrepareJournal

LEMMA OpenIsATransaction ==
    ASSUME Typed, active # NoPlan
    PROVE  /\ active.before \in Vector /\ active.after \in Vector
           /\ AbstractOpen = [before |-> active.before, after |-> active.after]
           /\ AbstractOpen # NoPlan
<1>1. active \in Plan
  BY DEF Typed, DurableOK
<1>2. active.before \in Vector /\ active.after \in Vector
  BY <1>1 DEF Plan
<1> QED BY <1>2, OpenAssumption DEF AbstractOpen

\* The terminal marker decides it.
LEMMA MarkerDecides ==
    ASSUME Typed, Safe, WriteTerminalMarker PROVE [Atomic!Next]_(Atomic!vars)
<1>1. phase \in {"writeCommitted", "writeRolledBack"}
  BY DEF WriteTerminalMarker
<1>2. active # NoPlan /\ Terminal \cap entries = {}
  BY <1>1, PhaseRecords DEF Safe, Holder, HolderMarker, Unmarked
<1>3. UNCHANGED <<targets, active, touched>>
  BY DEF WriteTerminalMarker, WriteEntry, repoVars
<1>4. CASE UNCHANGED entries
  BY <1>3, <1>4, AbstractStutters DEF SameOutcome
<1>5. ASSUME NEW m \in {"committed", "rolled-back"}, entries' = entries \cup {m}
      PROVE  Atomic!Next
  <2> DEFINE outcome == IF m = "committed" THEN "applied" ELSE "rolled_back"
  <2>1. AbstractDecided = "none" /\ AbstractDecided' = outcome
    BY <1>2, <1>5 DEF AbstractDecided, Terminal
  <2>2. AbstractOpen # NoPlan /\ AbstractOpen' = AbstractOpen
    BY <1>2, <1>3, OpenIsATransaction DEF AbstractOpen
  <2>3. AbstractValue' = AbstractValue
    BY <1>3 DEF AbstractValue
  <2>4. Atomic!Decide(outcome)
    BY <2>1, <2>2, <2>3 DEF Atomic!Decide
  <2> QED BY <2>4 DEF Atomic!Next
<1> QED BY <1>4, <1>5 DEF WriteTerminalMarker, WriteEntry

\* The rename of `active` to a tombstone closes it.
LEMMA ArchiveCloses ==
    ASSUME Typed, Safe, ArchiveTerminal PROVE [Atomic!Next]_(Atomic!vars)
<1>1. phase = "archiveTerminal" /\ UNCHANGED <<targets, touched>>
  BY DEF ArchiveTerminal, repoVars
<1>2. active # NoPlan
  BY <1>1, PhaseRecords
<1>3. CASE active' = active /\ entries' \in {entries, entries \cup {Outcome}}
  BY <1>1, <1>2, <1>3, OutcomeType, AbstractStutters DEF SameOutcome
<1>4. CASE active' = NoPlan /\ entries' = {} /\ Outcome \in entries
  <2>1. "committed" \in entries \/ "rolled-back" \in entries
    BY <1>4, OutcomeType DEF Safe, Durable, MarkersAgree
  <2>2. AbstractDecided # "none"
    BY <2>1 DEF AbstractDecided
  <2>3. AbstractOpen # NoPlan /\ active.before \in Vector
        /\ AbstractOpen = [before |-> active.before, after |-> active.after]
    BY <1>2, OpenIsATransaction
  <2>4. AbstractOpen' = NoPlan /\ AbstractDecided' = "none"
    BY <1>4 DEF AbstractOpen, AbstractDecided
  <2>5. ASSUME NEW i \in Path \ touched PROVE targets[i] = Atomic!Result(i)
    <3>1. CASE "committed" \in entries
      <4>1. targets[i] = active.after[i]
        BY <3>1 DEF Safe, Durable, TargetsCut, Cut, Path
      <4>2. AbstractDecided = "applied"
        BY <3>1 DEF AbstractDecided
      <4> QED BY <2>3, <4>1, <4>2 DEF Atomic!Result
    <3>2. CASE "committed" \notin entries
      <4>1. targets[i] = active.before[i]
        BY <2>1, <3>2 DEF Safe, Durable, TargetsCut, Cut, Path
      <4>2. AbstractDecided = "rolled_back"
        BY <2>1, <3>2 DEF AbstractDecided
      <4> QED BY <2>3, <4>1, <4>2 DEF Atomic!Result
    <3> QED BY <3>1, <3>2
  <2>6. \A i \in Path : AbstractValue[i] = Foreign <=> i \in touched
    BY <1>2, <2>3, ForeignAssumption DEF AbstractValue, Vector
  <2>7. AbstractValue' = [i \in Path |-> IF i \in touched THEN Foreign ELSE targets[i]]
    BY <1>1, <1>4 DEF AbstractValue
  <2>8. AbstractValue' = [i \in Path |-> IF AbstractValue[i] = Foreign THEN Foreign
                                         ELSE Atomic!Result(i)]
    BY <2>5, <2>6, <2>7
  <2>9. Atomic!Close
    BY <2>2, <2>3, <2>4, <2>8 DEF Atomic!Close
  <2> QED BY <2>9 DEF Atomic!Next
<1> QED BY <1>3, <1>4 DEF ArchiveTerminal, WriteEntry, controlVars

\* The other phases work on an open transaction without deciding it, or on a
\* tombstone.
LEMMA PhasesStutter ==
    ASSUME Typed, Safe, Engine,
           ~PrepareJournal, ~WriteTerminalMarker, ~ArchiveTerminal
    PROVE  UNCHANGED Atomic!vars
<1>1. CASE \/ StageObjects \/ WriteReady \/ FinishPreparingFailure
           \/ RollbackAfterFailure \/ SelectRecoveryAction
  <2>1. active # NoPlan
    BY <1>1, PhaseRecords
       DEF StageObjects, WriteReady, FinishPreparingFailure, RollbackAfterFailure,
           SelectRecoveryAction
  <2>2. UNCHANGED <<active, touched>>
    BY <1>1 DEF StageObjects, WriteReady, FinishPreparingFailure, WriteEntry,
                RollbackAfterFailure, SelectRecoveryAction, controlVars
  <2>3. \E e \in {"objects", "ready", "resume", "rollback"} :
           entries' \in {entries, entries \cup {e}}
    BY <1>1 DEF StageObjects, WriteReady, FinishPreparingFailure, WriteEntry,
                RollbackAfterFailure, SelectRecoveryAction, Action, controlVars
  <2>4. SameOutcome
    BY <2>3 DEF SameOutcome
  <2> QED BY <2>1, <2>2, <2>4, AbstractStutters
<1>2. CASE \/ DiscardTerminalReceipt \/ EnsureTargetDirectories
           \/ RemoveCreatedDirectories
  <2>1. active # NoPlan
    BY <1>2, PhaseRecords
       DEF DiscardTerminalReceipt, EnsureTargetDirectories, RemoveCreatedDirectories
  <2>2. UNCHANGED <<active, entries, touched>>
    BY <1>2 DEF DiscardTerminalReceipt, EnsureTargetDirectories,
                RemoveCreatedDirectories
  <2> QED BY <2>1, <2>2, AbstractStutters DEF SameOutcome
<1>3. CASE RemoveInterruptedTemporary
  <2>1. active # NoPlan
    BY <1>3, PhaseRecords DEF RemoveInterruptedTemporary
  <2>2. UNCHANGED <<active, touched>> /\ entries' \in {entries, entries \ {"publish.tmp"}}
    BY <1>3 DEF RemoveInterruptedTemporary
  <2>3. SameOutcome
    BY <2>2 DEF SameOutcome
  <2> QED BY <2>1, <2>2, <2>3, AbstractStutters
<1>4. CASE Publish \/ RollbackPrefix
  <2>1. active # NoPlan
    BY <1>4, PhaseRecords DEF Publish, RollbackPrefix
  <2>2. ASSUME NEW i, NEW expected, NEW content, NEW next, NEW failed,
               \/ Inspect(i, expected, content, failed)
               \/ Replace(i, content, next, failed)
        PROVE  UNCHANGED <<active, touched>> /\ SameMarks
    BY <2>2, InspectMarks, ReplaceMarks
  <2>3. UNCHANGED <<active, touched>> /\ (SameMarks \/ UNCHANGED entries)
    BY <1>4, <2>2 DEF Publish, RollbackPrefix, SkipUnchanged, controlVars
  <2>4. SameOutcome
    BY <2>3 DEF SameOutcome, SameMarks, Marks
  <2> QED BY <2>1, <2>3, <2>4, AbstractStutters
<1>5. CASE CompactTerminalTombstone
  BY <1>5, AbstractStutters DEF CompactTerminalTombstone, repoVars, SameOutcome
<1> QED BY <1>1, <1>2, <1>3, <1>4, <1>5 DEF Engine

\* A foreign edit takes the target out of the transaction's hands.
LEMMA EditIsForeign ==
    ASSUME Typed, NEW i \in Path, NEW content \in Contents, ForeignEdit(i, content)
    PROVE  Atomic!Edit(i)
<1>1. /\ targets' = [targets EXCEPT ![i] = content] /\ touched' = touched \cup {i}
      /\ UNCHANGED <<active, entries>>
  BY DEF ForeignEdit, controlVars
<1>2. AbstractOpen' = AbstractOpen /\ AbstractDecided' = AbstractDecided
  BY <1>1 DEF AbstractOpen, AbstractDecided
<1>3. targets \in [Path -> Contents]
  BY DEF Typed, DurableOK, Vector
<1>4. AbstractValue' = [j \in Path |-> IF j = i THEN Foreign ELSE AbstractValue[j]]
  BY <1>1, <1>3 DEF AbstractValue
<1>5. [AbstractValue EXCEPT ![i] = Foreign]
        = [j \in Path |-> IF j = i THEN Foreign ELSE AbstractValue[j]]
  BY DEF AbstractValue
<1> QED BY <1>2, <1>4, <1>5 DEF Atomic!Edit

LEMMA StepImplements ==
    Typed /\ Safe /\ [Next]_vars => [Atomic!Next]_(Atomic!vars)
<1> SUFFICES ASSUME Typed, Safe, [Next]_vars PROVE [Atomic!Next]_(Atomic!vars)
  OBVIOUS
<1>1. CASE Engine
  BY <1>1, PhasesStutter, JournalBegins, MarkerDecides, ArchiveCloses
<1>2. ASSUME NEW p \in Proc, Command(p) PROVE UNCHANGED Atomic!vars
  <2>1. UNCHANGED <<targets, active, touched>>
        /\ entries' \in {entries, entries \ {"journal.tmp"}}
    BY <1>2 DEF Command, BuildPlan, ApplyPreflight, ApplyAdmit, Busy, ReplayApplied,
                RecoverActive, RecoverTombstone, Drop, Refuse, repoVars, controlVars
  <2>2. SameOutcome
    BY <2>1 DEF SameOutcome
  <2> QED BY <2>1, <2>2, AbstractStutters
<1>3. CASE Crash \/ UNCHANGED vars
  BY <1>3, AbstractStutters DEF Crash, vars, repoVars, controlVars, SameOutcome
<1>4. ASSUME NEW i \in Path, NEW content \in Contents, ForeignEdit(i, content)
      PROVE  Atomic!Next
  BY <1>4, EditIsForeign DEF Atomic!Next
<1> QED BY <1>1, <1>2, <1>3, <1>4 DEF Next

\* The engine implements all-or-nothing transactions, whatever fails, dies or is
\* repeated: apply, recover and the compaction of what they leave.
THEOREM Implements == Spec => AllOrNothing
<1>1. Init => Atomic!Init
  BY AbstractInit
<1> QED BY <1>1, StepImplements, AlwaysSafe, PTL DEF Spec, AllOrNothing, Atomic!Spec
==========================================================================
