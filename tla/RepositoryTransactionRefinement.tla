----------------- MODULE RepositoryTransactionRefinement -----------------
(***************************************************************************)
(* RepositoryTransaction implements AtomicTransaction: the journal opens a *)
(* transaction, the terminal marker decides it and the rename of `active`  *)
(* to a tombstone closes it.                                               *)
(***************************************************************************)
EXTENDS RepositoryTransaction

CONSTANT Foreign
ASSUME ForeignAssumption == Foreign \notin Contents
ASSUME OpenAssumption == NoPlan \notin [before : Vector, after : Vector]

AbstractOpen ==
    IF active = NoPlan THEN NoPlan
    ELSE [before |-> active.before, after |-> active.after]

AbstractValue ==
    [i \in Path |-> IF i \in touched THEN Foreign
                    ELSE IF active = NoPlan THEN targets[i] ELSE active.before[i]]

AbstractDecided ==
    IF "committed" \in entries THEN "applied"
    ELSE IF "rolled-back" \in entries THEN "rolled_back" ELSE "none"

Atomic == INSTANCE AtomicTransaction WITH
    value <- AbstractValue, open <- AbstractOpen, decided <- AbstractDecided

\* Every behaviour of the engine, through failed steps, crashes and repeated
\* recoveries, is one of all-or-nothing transactions.
AllOrNothing == Atomic!Spec
==========================================================================
