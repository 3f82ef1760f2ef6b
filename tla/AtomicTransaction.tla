------------------------- MODULE AtomicTransaction -------------------------
(***************************************************************************)
(* What the repository transaction engine promises: a transaction that was *)
(* journalled is decided once, and it then leaves every target with what   *)
(* the plan wanted, or every target with what the plan found.  A target    *)
(* that a non-cooperating writer edits is Foreign: nothing is promised of  *)
(* it until a later plan observes it again.                                *)
(***************************************************************************)
CONSTANTS Path, Contents, Foreign, NoPlan

Vector == [Path -> Contents]

VARIABLES
    value,     \* what a target holds, as far as transactions determine it
    open,      \* the journalled transaction that is not closed, or NoPlan
    decided    \* its outcome once it has one
vars == <<value, open, decided>>

Init ==
    /\ value \in Vector
    /\ decided = "none"
    /\ \/ open = NoPlan
       \/ open \in [before : {value}, after : Vector]

\* The plan observed every target that no foreign writer touched since.
Begin(before, after) ==
    /\ open = NoPlan
    /\ \A i \in Path : value[i] \in {before[i], Foreign}
    /\ open' = [before |-> before, after |-> after]
    /\ value' \in {[i \in Path |-> IF i \in F THEN Foreign ELSE before[i]] :
                       F \in SUBSET Path}
    /\ decided' = "none"

Decide(outcome) ==
    /\ open # NoPlan /\ decided = "none"
    /\ decided' = outcome
    /\ UNCHANGED <<value, open>>

Result(i) == IF decided = "applied" THEN open.after[i] ELSE open.before[i]

Close ==
    /\ open # NoPlan /\ decided # "none"
    /\ value' = [i \in Path |-> IF value[i] = Foreign THEN Foreign ELSE Result(i)]
    /\ open' = NoPlan /\ decided' = "none"

Edit(i) ==
    /\ value' = [value EXCEPT ![i] = Foreign]
    /\ UNCHANGED <<open, decided>>

Next ==
    \/ \E before, after \in Vector : Begin(before, after)
    \/ \E outcome \in {"applied", "rolled_back"} : Decide(outcome)
    \/ Close
    \/ \E i \in Path : Edit(i)

Spec == Init /\ [][Next]_vars
============================================================================
