------------------------- MODULE TransactionClients -------------------------
(***************************************************************************)
(* Commands that drive the repository transaction engine: integration and  *)
(* adopt materialize, each with plan, apply and recover.  An operator      *)
(* plans and approves; any process later applies what was approved,        *)
(* perhaps with another version of the tool, perhaps again because an      *)
(* answer was lost, or recovers what an earlier process left.  Owners edit *)
(* the files, a signal interrupts a process, a crash ends it.              *)
(*                                                                         *)
(* The engine appears as AtomicTransaction states it, and its detail is in *)
(* RepositoryTransaction: one journalled transaction at a time, ready,     *)
(* decided once, archived as a receipt, the receipt compacted.  Its files  *)
(* change at the decision, since nothing that cooperates reads them        *)
(* between the journal and the receipt.                                    *)
(***************************************************************************)
EXTENDS LifecyclePlan, Naturals

CONSTANTS Process, Nobody,
          MaxReviews, MaxRuns, MaxTroubles   \* bounds

\* Nobody is not a process: it stands for a free lock.
ASSUME ClientsAssumption == Nobody \notin Process

VARIABLES
    file,       \* what every target holds
    engine,     \* the journalled transaction, with its durable markers
    terminal,   \* the retained receipt of the last transaction archived
    holder,     \* the process with the exclusive lock
    run,        \* the command every process runs
    scope,      \* its signal scope
    reviewed,   \* plans that were shown as ready
    \* ghosts
    last,       \* the last decision of the engine
    moved,      \* processes whose run decided that files change
    signals,    \* signals delivered to the run of every process
    spent       \* what the bounds count
clientVars == <<file, engine, terminal, holder, run, scope, reviewed,
                last, moved, signals, spent>>

NoTx == [client |-> "none"]
NoEngine == [tx |-> NoTx, ready |-> FALSE, decided |-> "none", selected |-> "none"]
NoReceipt == [tx |-> NoTx, outcome |-> "none", compact |-> TRUE]
Idle == [pc |-> "idle"]

Spend(what) == spent' = [spent EXCEPT ![what] = @ + 1]
\* Edits, failures and crashes share a bound with signals, which weigh half.
Trouble(what) ==
    /\ Spend(what)
    /\ 2 * (spent'.edits + spent'.faults) + spent'.signals <= MaxTroubles

Pending == engine.tx # NoTx \/ ~terminal.compact
PendingTx == IF engine.tx # NoTx THEN engine.tx ELSE terminal.tx

AllBefore(tx) == \A i \in Target[tx.client] : file[i] = tx.before[i]
AllAfter(tx)  == \A i \in Target[tx.client] : file[i] = tx.after[i]
\* What holds the desired bytes, and whether it is a prefix of what changes.
Published(tx) == {i \in Changed(tx) : file[i] = tx.after[i]}
ClassifyPrefix(tx) ==
    /\ \A i \in Target[tx.client] \ Published(tx) : file[i] = tx.before[i]
    /\ Published(tx) \in {{}, Changed(tx)} \/ First[tx.client] \in Published(tx)

\* Another process holds the lock, or reads under it at this moment.
Busy(p) == holder # Nobody \/ \E q \in Process \ {p} : run[q].pc = "replan"
Free(p) == holder = Nobody
Cancelled(p) == scope[p] \in {"cancelled", "restored"}

Goto(p, pc) == run' = [run EXCEPT ![p].pc = pc]
\* The run goes on to move these targets, forwards or back.
Work(p, pc, targets) ==
    run' = [run EXCEPT ![p] = [pc |-> pc, kind |-> run[p].kind, op |-> run[p].op,
                               tx |-> run[p].tx, todo |-> targets]]
\* The receipt, its failure class and the transaction its result names.
Reply(p, state, reason, tx) ==
    run' = [run EXCEPT ![p] = [pc |-> "write", state |-> state, reason |-> reason, tx |-> tx]]
Untouched == UNCHANGED <<file, engine, terminal, holder>>
Quiet == UNCHANGED <<scope, reviewed, signals>>

ClientsInit ==
    /\ \E installed \in Contents \ {"foreign"} :
           file = [i \in UNION {Target[c] : c \in Client} |->
                      IF i \in Target["integration"] THEN installed ELSE "absent"]
    /\ engine = NoEngine /\ terminal = NoReceipt /\ holder = Nobody
    /\ run = [p \in Process |-> Idle] /\ scope = [p \in Process |-> "none"]
    /\ reviewed = {} /\ last = [tx |-> NoTx, outcome |-> "none"]
    /\ moved = {} /\ signals = [p \in Process |-> 0]
    /\ spent = [runs |-> 0, edits |-> 0, faults |-> 0, signals |-> 0]

-----------------------------------------------------------------------------
(* Review: a plan command reads under a shared lease and prints the plan.  *)
(* Its refusals change nothing and are those of Replan.                    *)

Review(client, op, v) ==
    LET tx == PlanTransaction(client, op, v, file)
        plan == [op |-> op, tx |-> tx]
    IN  /\ Cardinality(reviewed) < MaxReviews /\ plan \notin reviewed
        /\ holder = Nobody /\ ~Pending
        /\ \E current \in BOOLEAN : Conflict(op, v, tx, current) = ""
        /\ reviewed' = reviewed \cup {plan}
        /\ Untouched
        /\ UNCHANGED <<run, scope, last, moved, signals, spent>>

\* Arguments are admitted and input is read before the signal scope opens.
Start(p, command) ==
    /\ run[p].pc = "idle" /\ spent.runs < MaxRuns /\ Spend("runs")
    /\ run' = [run EXCEPT ![p] = command]
    /\ scope' = [scope EXCEPT ![p] = "open"]
    /\ Untouched /\ UNCHANGED <<reviewed, last, moved, signals>>

StartApply(p) == \E plan \in reviewed :
    Start(p, [pc |-> "replan", kind |-> "apply", op |-> plan.op, tx |-> plan.tx])

\* Either command recovers a transaction that the other one left; reports
\* name the one that is pending or retained.
StartRecover(p) == \E plan \in reviewed, action \in {"resume", "rollback"} :
    /\ plan.tx \in {engine.tx, terminal.tx}
    /\ Start(p, [pc |-> "recover", kind |-> "recover", op |-> action, tx |-> plan.tx])

-----------------------------------------------------------------------------
(* Apply rebuilds the plan and compares both identities with the approved. *)

\* The installed tool may have changed since the review.
Replan(p) == \E v \in Version, current \in BOOLEAN :
    LET r == run[p]
        now == PlanTransaction(r.tx.client, r.op, v, file)
        conflict == Conflict(r.op, v, now, current)
    IN  /\ r.pc = "replan"
        /\ \/ Cancelled(p) /\ Reply(p, "error", "cancelled", NoTx)
           \/ /\ ~Cancelled(p) /\ holder # Nobody
              /\ Reply(p, BusyState(r.tx.client, "replan"), "transaction_busy", NoTx)
           \/ /\ ~Cancelled(p) /\ holder = Nobody /\ Pending
              /\ Reply(p, "recovery_required", "pending_transaction_state", PendingTx)
           \/ /\ ~Cancelled(p) /\ holder = Nobody /\ ~Pending
              /\ \/ conflict # "" /\ Reply(p, RefusedState(r.tx.client), conflict, NoTx)
                 \/ /\ conflict = "" /\ now.after # r.tx.after
                    /\ Reply(p, "blocked", "desired_state_identity_mismatch", NoTx)
                 \/ /\ conflict = "" /\ now.after = r.tx.after /\ now # r.tx /\ HasChanges(now)
                    /\ Reply(p, "blocked", "transaction_identity_mismatch", NoTx)
                 \/ /\ conflict = "" /\ now.after = r.tx.after /\ now # r.tx /\ ~HasChanges(now)
                    /\ Goto(p, "replay")
                 \/ conflict = "" /\ now = r.tx /\ Goto(p, "engine")
        /\ Untouched /\ Quiet /\ UNCHANGED <<last, moved, spent>>

\* Nothing is left to change: acknowledge only the exact applied receipt.
ReplayAppliedVariant(p) ==
    LET r == run[p] IN
    /\ r.pc = "replay"
    /\ IF Pending THEN Reply(p, "recovery_required", "pending_transaction_state", PendingTx)
       ELSE IF AllAfter(r.tx) THEN Reply(p, "passed", "", r.tx)
       ELSE Reply(p, "blocked", "transaction_identity_mismatch", NoTx)
    /\ Untouched /\ Quiet /\ UNCHANGED <<last, moved, spent>>

ReplayApplied(p) ==
    LET r == run[p] IN
    /\ r.pc = "replay"
    /\ \/ Cancelled(p) /\ Reply(p, "error", "cancelled", NoTx)
       \/ /\ ~Cancelled(p) /\ Busy(p)
          /\ Reply(p, BusyState(r.tx.client, "replay"), "transaction_busy", NoTx)
       \/ /\ ~Cancelled(p) /\ Free(p) /\ Pending
          /\ Reply(p, "recovery_required", "pending_transaction_state", PendingTx)
       \/ /\ ~Cancelled(p) /\ Free(p) /\ ~Pending
          /\ IF AllAfter(r.tx) /\ terminal.tx = r.tx /\ terminal.outcome = "applied"
             THEN Reply(p, "passed", "", r.tx)
             ELSE Reply(p, "blocked", "transaction_identity_mismatch", NoTx)
    /\ Untouched /\ Quiet /\ UNCHANGED <<last, moved, spent>>

\* The engine classifies the targets again under the lock.
Journal(p) ==
    LET tx == run[p].tx IN
    /\ run[p].pc = "engine"
    /\ \/ Cancelled(p) /\ Reply(p, "error", "cancelled", NoTx) /\ Untouched
       \/ /\ ~Cancelled(p) /\ Busy(p)
          /\ Reply(p, BusyState(tx.client, "engine"), "transaction_busy", NoTx)
          /\ Untouched
       \/ /\ ~Cancelled(p) /\ Free(p) /\ Pending
          /\ Reply(p, "recovery_required", "pending_transaction_state", PendingTx)
          /\ Untouched
       \/ /\ ~Cancelled(p) /\ ~AllAfter(tx) /\ ~AllBefore(tx)
          /\ Reply(p, "error", "target_changed", NoTx) /\ Untouched
       \/ /\ ~Cancelled(p) /\ Free(p) /\ ~Pending /\ AllAfter(tx)
          /\ Reply(p, "passed", "", tx) /\ Untouched
       \/ /\ ~Cancelled(p) /\ Free(p) /\ ~Pending /\ ~AllAfter(tx) /\ AllBefore(tx)
          /\ engine' = [NoEngine EXCEPT !.tx = tx]
          /\ holder' = p /\ Work(p, "forward", Changed(tx))
          /\ UNCHANGED <<file, terminal>>
    /\ Quiet /\ UNCHANGED <<last, moved, spent>>

-----------------------------------------------------------------------------
(* The journalled transaction, in the hands of the process with the lock.  *)

\* The context is asked between staging and the marker; an interruption that
\* comes later is one that comes after the marker.
WriteReady(p) ==
    /\ run[p].pc = "forward" /\ ~engine.ready /\ ~Cancelled(p)
    /\ AllBefore(engine.tx)
    /\ engine' = [engine EXCEPT !.ready = TRUE] /\ terminal' = NoReceipt
    /\ Quiet /\ UNCHANGED <<file, holder, run, last, moved, spent>>

\* Every target left to do is moved from one image of the plan to the other.
From(outcome) == IF outcome = "applied" THEN engine.tx.before ELSE engine.tx.after
To(outcome)   == IF outcome = "applied" THEN engine.tx.after ELSE engine.tx.before
Obstructed(p, outcome) == \E i \in run[p].todo : file[i] # From(outcome)[i]
Settle(p, outcome) ==
    /\ ~Obstructed(p, outcome)
    /\ engine' = [engine EXCEPT !.decided = outcome]
    /\ file' = [i \in DOMAIN file |-> IF i \in run[p].todo THEN To(outcome)[i] ELSE file[i]]
    /\ last' = [tx |-> engine.tx, outcome |-> outcome]
    /\ moved' = IF outcome = "applied" THEN moved \cup {p} ELSE moved
    /\ Goto(p, "archive")

Commit(p) ==
    /\ run[p].pc = "forward" /\ engine.ready /\ ~Cancelled(p)
    /\ Settle(p, "applied")
    /\ Quiet /\ UNCHANGED <<terminal, holder, spent>>

\* A failure, an interruption or an edited target before the decision selects
\* rollback, when what the targets hold can be told.
Retreat(p) ==
    /\ run[p].pc = "forward"
    /\ IF engine.ready THEN ClassifyPrefix(engine.tx) ELSE AllBefore(engine.tx)
    /\ \/ (Cancelled(p) \/ Obstructed(p, "applied")) /\ UNCHANGED spent
       \/ ~Cancelled(p) /\ Trouble("faults")
    /\ engine' = [engine EXCEPT !.selected = "rollback"]
    /\ Work(p, "retreat", Published(engine.tx))
    /\ Quiet /\ UNCHANGED <<file, terminal, holder, last, moved>>

RollBack(p) ==
    /\ run[p].pc = "retreat"
    /\ Settle(p, "rolled_back")
    /\ terminal' = NoReceipt
    /\ Quiet /\ UNCHANGED <<holder, spent>>

Archive(p) ==
    /\ run[p].pc = "archive"
    /\ engine' = NoEngine
    /\ terminal' = [tx |-> engine.tx, outcome |-> engine.decided, compact |-> FALSE]
    /\ Goto(p, "compact")
    /\ Quiet /\ UNCHANGED <<file, holder, last, moved, spent>>

Compact(p) ==
    /\ run[p].pc = "compact"
    /\ terminal' = [terminal EXCEPT !.compact = TRUE]
    /\ holder' = Nobody
    /\ Reply(p, ReceiptState(run[p].kind, terminal.outcome), "", terminal.tx)
    /\ Quiet /\ UNCHANGED <<file, engine, last, moved, spent>>

Outcome(action) == IF action = "resume" THEN "applied" ELSE "rolled_back"

\* The run ends before the transaction does; the lock is released.
Unfinished(p) == CASE run[p].pc = "archive" -> "cleanup_required"
                   [] run[p].pc = "compact" -> "durability_unknown"
                   [] OTHER -> "recovery_required"
\* An edited target stops the work on it, and the return from it.
Stuck(p) ==
    \/ run[p].pc = "forward" /\ ~engine.ready /\ ~AllBefore(engine.tx)
    \/ /\ run[p].pc = "forward" /\ engine.ready /\ ~ClassifyPrefix(engine.tx)
       /\ Cancelled(p) \/ Obstructed(p, "applied")
    \/ run[p].pc = "retreat" /\ Obstructed(p, "rolled_back")
    \/ run[p].pc = "recovering" /\ Obstructed(p, Outcome(run[p].op))
GiveUp(p) ==
    /\ run[p].pc \in {"forward", "retreat", "recovering", "archive", "compact"}
    /\ \/ Stuck(p) /\ UNCHANGED spent
       \/ Trouble("faults")
    /\ holder' = Nobody
    /\ Reply(p, ReceiptState(run[p].kind, Unfinished(p)), "unfinished", PendingTx)
    /\ Quiet /\ UNCHANGED <<file, engine, terminal, last, moved>>

-----------------------------------------------------------------------------
(* Recovery: the action must suit what is durable.                         *)

Suits(action) ==
    /\ engine.selected \in {"none", action}
    /\ CASE engine.decided = "applied" -> action = "resume" /\ AllAfter(engine.tx)
         [] engine.decided = "rolled_back" -> action = "rollback" /\ AllBefore(engine.tx)
         [] engine.decided = "none" /\ engine.ready -> ClassifyPrefix(engine.tx)
         [] engine.decided = "none" /\ ~engine.ready ->
                action = "rollback" /\ AllBefore(engine.tx)

TombstoneSuits(action) ==
    \/ terminal.outcome = "applied" /\ action = "resume"
    \/ terminal.outcome = "rolled_back" /\ action = "rollback"

RecoverTerminal(p) ==
    LET r == run[p] IN
    \/ /\ terminal.tx = r.tx /\ TombstoneSuits(r.op)
       /\ holder' = p /\ Goto(p, "compact")
    \/ /\ terminal.tx = r.tx /\ ~TombstoneSuits(r.op)
       /\ Reply(p, "recovery_required", "state_mismatch", r.tx)
       /\ UNCHANGED holder
    \/ /\ terminal.tx \notin {r.tx, NoTx}
       /\ Reply(p, "recovery_required", "conflicting_control_state", NoTx)
       /\ UNCHANGED holder
    \/ /\ terminal.tx = NoTx
       /\ Reply(p, "error", "absent", NoTx) /\ UNCHANGED holder

RecoverActive(p) ==
    LET r == run[p] IN
    \/ /\ engine.tx # r.tx
       /\ Reply(p, "error", "identity", NoTx) /\ UNCHANGED <<engine, terminal, holder>>
    \/ /\ engine.tx = r.tx /\ ~Suits(r.op)
       /\ Reply(p, "recovery_required", "state_mismatch", r.tx)
       /\ UNCHANGED <<engine, terminal, holder>>
    \/ /\ engine.tx = r.tx /\ Suits(r.op)
       /\ engine' = [engine EXCEPT !.selected = IF engine.decided = "none"
                                                THEN r.op ELSE @]
       /\ terminal' = NoReceipt /\ holder' = p
       /\ Work(p, IF engine.decided = "none" THEN "recovering" ELSE "archive",
                  IF r.op = "resume" THEN Changed(engine.tx) \ Published(engine.tx)
                  ELSE Published(engine.tx))

Recover(p) ==
    /\ run[p].pc = "recover"
    /\ \/ Cancelled(p) /\ Reply(p, "error", "cancelled", NoTx) /\ Untouched
       \/ /\ ~Cancelled(p) /\ Busy(p)
          /\ \E client \in Client :
                 Reply(p, BusyState(client, "recover"), "transaction_busy", NoTx)
          /\ Untouched
       \/ /\ ~Cancelled(p) /\ Free(p) /\ engine.tx = NoTx
          /\ RecoverTerminal(p) /\ UNCHANGED <<file, engine, terminal>>
       \/ /\ ~Cancelled(p) /\ Free(p) /\ engine.tx # NoTx
          /\ RecoverActive(p) /\ UNCHANGED file
    /\ Quiet /\ UNCHANGED <<last, moved, spent>>

\* Once the action is selected an interruption is ignored.
Recovered(p) ==
    /\ run[p].pc = "recovering"
    /\ Settle(p, Outcome(run[p].op))
    /\ Quiet /\ UNCHANGED <<terminal, holder, spent>>

-----------------------------------------------------------------------------
(* The answer, the signal scope and the end of a process.                  *)

End(p) ==
    /\ run' = [run EXCEPT ![p] = Idle]
    /\ scope' = [scope EXCEPT ![p] = "none"]
    /\ moved' = moved \ {p}
    /\ signals' = [signals EXCEPT ![p] = 0]

\* The scope is closed once the answer is written: the handlers are restored
\* and the waiter has ended.
WriteVariant(p) ==
    /\ run[p].pc = "write"
    /\ IF scope[p] = "restored" THEN End(p)
       ELSE /\ scope' = [scope EXCEPT ![p] = "restored"] /\ UNCHANGED <<run, moved, signals>>
    /\ Untouched /\ UNCHANGED <<reviewed, last, spent>>

Write(p) ==
    /\ run[p].pc = "write"
    /\ End(p) /\ Untouched /\ UNCHANGED <<reviewed, last, spent>>

Die(p) ==
    /\ holder' = IF holder = p THEN Nobody ELSE holder
    /\ End(p) /\ UNCHANGED <<file, engine, terminal, reviewed, last>>

\* A caught signal cancels, one before the handlers are restored is dropped,
\* one after ends the process.
Signal(p) ==
    /\ run[p].pc # "idle" /\ Trouble("signals")
    /\ \/ /\ scope[p] \in {"open", "cancelled"}
          /\ scope' = [scope EXCEPT ![p] = "cancelled"]
          /\ signals' = [signals EXCEPT ![p] = @ + 1]
          /\ Untouched /\ UNCHANGED <<run, reviewed, last, moved>>
       \/ scope[p] = "restored" /\ Die(p)

\* The waiter restores the handlers once the context is cancelled.
Restore(p) ==
    /\ scope[p] = "cancelled"
    /\ scope' = [scope EXCEPT ![p] = "restored"]
    /\ Untouched /\ UNCHANGED <<run, reviewed, last, moved, signals, spent>>

Crash(p) ==
    /\ run[p].pc # "idle" /\ Trouble("faults")
    /\ Die(p)

\* An owner writes, removes or restores a target.
Edit(i, content) ==
    /\ Trouble("edits") /\ file[i] # content
    /\ file' = [file EXCEPT ![i] = content]
    /\ UNCHANGED <<engine, terminal, holder, run, last, moved>> /\ Quiet

CommandStep(p) ==
    \/ StartApply(p) \/ StartRecover(p)
    \/ Replan(p) \/ ReplayApplied(p) \/ Journal(p)
    \/ WriteReady(p) \/ Commit(p) \/ Retreat(p) \/ RollBack(p)
    \/ Archive(p) \/ Compact(p) \/ GiveUp(p)
    \/ Recover(p) \/ Recovered(p)
    \/ Write(p) \/ Signal(p) \/ Restore(p) \/ Crash(p)

ClientsNext ==
    \/ \E client \in Client, v \in Version : \E op \in Operation[client] : Review(client, op, v)
    \/ \E p \in Process : CommandStep(p)
    \/ \E i \in DOMAIN file, content \in Contents : Edit(i, content)

ClientsSpec == ClientsInit /\ [][ClientsNext]_clientVars

-----------------------------------------------------------------------------
(* Properties.                                                             *)

\* A transaction moves a target only between what an approved plan found and
\* what that plan wanted, and never a target whose bytes no version of the
\* client wrote, whatever was edited, retried or recovered in between.
PlannedMove(i) ==
    file'[i] # file[i] /\ spent'.edits = spent.edits =>
        /\ file[i] # "foreign"
        /\ \E plan \in reviewed :
              /\ i \in Target[plan.tx.client] /\ plan.tx = engine.tx
              /\ <<file[i], file'[i]>> \in
                     {<<plan.tx.before[i], plan.tx.after[i]>>,
                      <<plan.tx.after[i], plan.tx.before[i]>>}
OwnersBytesSurvive == [][\A i \in DOMAIN file : PlannedMove(i)]_clientVars

Answers(p) == run[p].pc # "write" /\ run'[p].pc = "write"
Decided(tx, outcome) == last = [tx |-> tx, outcome |-> outcome]

\* Passed means that the approved transaction is the last one decided as the
\* command asked; an apply that found the exact plan also passes when the
\* targets already hold what it wanted, a replay does not.
PassedIsTrue(r) ==
    IF r.kind = "apply"
    THEN Decided(r.tx, "applied") \/ (r.pc = "engine" /\ AllAfter(r.tx))
    ELSE Decided(r.tx, Outcome(r.op))
\* A run that decided a change never denies it, a transaction to recover is
\* one that recovery knows, and a retry whose first answer was lost is
\* refused only after another decision, an edit, or with another tool.
AnswerIsTrue(p) ==
    LET r == run[p]
        answer == run'[p]
    IN
    /\ answer.state = "passed" => PassedIsTrue(r)
    /\ p \in moved => answer.state \notin {"failed", "blocked", "error"}
    /\ answer.state \notin {"passed", "failed", "blocked", "error"} /\ answer.tx # NoTx =>
           answer.tx \in {engine.tx, terminal.tx}
    /\ answer.reason = "transaction_identity_mismatch" =>
           ~(Decided(r.tx, "applied") /\ AllAfter(r.tx))
AnswersAreTrue == [][\A p \in Process : Answers(p) => AnswerIsTrue(p)]_clientVars

\* One signal, whenever it comes, is answered: a command is ended without
\* its answer only by a second signal of the operator, or by a crash.
EndsAnswered(p) ==
    run[p].pc # "idle" /\ run'[p].pc = "idle" /\ spent'.signals > spent.signals =>
        signals[p] > 0
OneSignalIsAnswered == [][\A p \in Process : EndsAnswered(p)]_clientVars
=============================================================================
