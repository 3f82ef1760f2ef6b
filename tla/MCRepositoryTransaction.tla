--------------------- MODULE MCRepositoryTransaction ---------------------
(* Instances of RepositoryTransaction for TLC: two targets, the second in a
   directory that a transaction may have to create. *)
EXTENDS RepositoryTransactionInvariant

CONSTANTS absent, old, new

MCN == 2
MCD == 1
MCContents == {absent, old, new}
MCParents == <<{}, {1}>>
MCAbove == <<{}>>
MCDesired == {<<new, new>>, <<absent, new>>, <<old, absent>>}
==========================================================================
