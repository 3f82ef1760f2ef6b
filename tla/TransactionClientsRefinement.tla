-------------------- MODULE TransactionClientsRefinement --------------------
(***************************************************************************)
(* What one client sees of the engine it shares: TransactionClients, seen  *)
(* through the targets of a client, implements AtomicTransaction.  Journal *)
(* opens a transaction, the decision decides it and Archive closes it; a   *)
(* transaction of the other client is not seen.                            *)
(***************************************************************************)
EXTENDS TransactionClients

\* A history variable: the targets edited since a transaction found them last.
VARIABLE touched
watchedVars == <<clientVars, touched>>

Edited == {i \in DOMAIN file : spent'.edits > spent.edits /\ file'[i] # file[i]}
Found  == IF engine.tx = NoTx /\ engine'.tx # NoTx THEN Target[engine'.tx.client] ELSE {}
Watch  == touched' = (touched \cup Edited) \ Found

WatchedSpec == ClientsInit /\ touched = {} /\ [][ClientsNext /\ Watch]_watchedVars

-----------------------------------------------------------------------------
\* An edited target is Foreign, whatever its owner wrote; the others hold what
\* the client's transaction found until it is closed.
Seen(client) == engine.tx # NoTx /\ engine.tx.client = client

SeenValue(client) ==
    [i \in Target[client] |-> IF i \in touched THEN "foreign"
                              ELSE IF Seen(client) THEN engine.tx.before[i] ELSE file[i]]

SeenOpen(client) ==
    IF Seen(client) THEN [before |-> engine.tx.before, after |-> engine.tx.after] ELSE NoTx

SeenDecided(client) == IF Seen(client) THEN engine.decided ELSE "none"

View(client) == INSTANCE AtomicTransaction WITH
    Path <- Target[client], Foreign <- "foreign", NoPlan <- NoTx,
    value <- SeenValue(client), open <- SeenOpen(client), decided <- SeenDecided(client)
=============================================================================
