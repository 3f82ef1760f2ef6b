---------------------------- MODULE LifecyclePlan ----------------------------
(***************************************************************************)
(* What a client of the repository transaction engine decides before it    *)
(* asks for a transaction.  Two clients share the engine: "integration"    *)
(* owns a bootstrap and the baseline that records it, "materialize" owns a *)
(* project artifact and the manifest that routes to it.  A target holds    *)
(* nothing, the bytes of one version of its client, or bytes that no       *)
(* version of the client wrote (mode, encoding or owner included).  The    *)
(* baseline of a version is named by the version: it holds the digest of   *)
(* that version's bootstrap, and the manifest holds its source plan.       *)
(***************************************************************************)
EXTENDS FiniteSets

CONSTANT Version    \* documents of the integration, requests of the adoption

\* A version is told from nothing and from bytes that no version wrote.
ASSUME VersionAssumption == {"absent", "foreign"} \cap Version = {}

Client == {"integration", "materialize"}
Target == [integration |-> {"bootstrap", "baseline"},
           materialize |-> {"child", "manifest"}]
\* Targets are visited in the order of their paths.
First == [integration |-> "bootstrap", materialize |-> "child"]
Contents == Version \cup {"absent", "foreign"}
Files == [UNION {Target[c] : c \in Client} -> Contents]

Operation == [integration |-> {"install", "update", "remove"},
              materialize |-> {"apply"}]

\* The identity of a transaction is the digest of the snapshots it goes from
\* and to, so the record stands for the identity; `after` alone is the
\* identity of the desired state.
PlanTransaction(client, op, v, file) ==
    [client |-> client,
     before |-> [i \in Target[client] |-> file[i]],
     after  |-> [i \in Target[client] |-> IF op = "remove" THEN "absent" ELSE v]]

HasChanges(tx) == tx.before # tx.after
Changed(tx) == {i \in Target[tx.client] : tx.before[i] # tx.after[i]}

\* Which pair of files an operation recognises.  The baseline of a version
\* records the bootstrap of that version, so equality is the digest match.
RecognizeLifecyclePairVariant(op, v, tx) ==
    IF tx.before["baseline"] = "foreign" THEN "invalid_baseline"
    ELSE IF tx.before["baseline"] \in {"absent", tx.before["bootstrap"]} \/ op = "remove"
    THEN "" ELSE "baseline_mismatch"

RecognizeLifecyclePair(op, v, tx) ==
    LET bootstrap == tx.before["bootstrap"]
        baseline  == tx.before["baseline"]
        enrolled  == baseline # "absent"
    IN  CASE ~enrolled /\ bootstrap = "absent" ->
                 IF op = "update" THEN "not_installed" ELSE ""
          [] ~enrolled /\ bootstrap \notin {"absent", v} -> "unrecognized_bootstrap"
          [] ~enrolled /\ bootstrap = v ->
                 IF op = "install" THEN "" ELSE "missing_baseline"
          [] enrolled /\ baseline = "foreign" -> "invalid_baseline"
          [] enrolled /\ baseline # "foreign" /\ bootstrap = "absent" ->
                 IF op = "remove" THEN "" ELSE "orphan_baseline"
          [] enrolled /\ baseline # "foreign" /\ bootstrap \notin {"absent", baseline} ->
                 "baseline_mismatch"
          [] enrolled /\ baseline # "foreign" /\ bootstrap = baseline ->
                 IF op = "install" /\ HasChanges(tx) THEN "update_required" ELSE ""

\* Existing artifacts must be the project's own, and the request's source
\* plan is the recorded one or was made for the repository as it is now.
RecognizeArtifacts(v, tx, current) ==
    CASE \E i \in Target["materialize"] : tx.before[i] = "foreign" ->
             "incompatible_ownership"
      [] /\ \A i \in Target["materialize"] : tx.before[i] # "foreign"
         /\ tx.before["manifest"] # v /\ ~current -> "stale_source_plan"
      [] OTHER -> ""

Conflict(op, v, tx, current) ==
    IF tx.client = "integration"
    THEN RecognizeLifecyclePair(op, v, tx)
    ELSE RecognizeArtifacts(v, tx, current)

-----------------------------------------------------------------------------
\* The engine's result as the receipt of the command that asked.
ReceiptState(kind, result) ==
    CASE result \in {"applied", "already_satisfied"} -> "passed"
      [] result = "rolled_back" -> IF kind = "recover" THEN "passed" ELSE "failed"
      [] result \in {"cleanup_required", "durability_unknown", "recovery_required"} ->
             result

\* A busy engine is a report of the integration and of adoption's apply once
\* the plan is rebuilt; elsewhere adoption returns the error.
BusyState(client, step) ==
    IF client = "integration" \/ step \in {"engine", "replay"} THEN "blocked" ELSE "error"
\* A plan the client does not accept.
RefusedState(client) == IF client = "integration" THEN "blocked" ELSE "error"
=============================================================================
