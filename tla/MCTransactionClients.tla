------------------------ MODULE MCTransactionClients ------------------------
EXTENDS TransactionClients, TLC

\* Neither the processes nor the versions are told apart by a definition.
Symmetry == Permutations(Process) \cup Permutations(Version)
=============================================================================
