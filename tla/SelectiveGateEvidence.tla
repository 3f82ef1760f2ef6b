------------------------ MODULE SelectiveGateEvidence -----------------------
(***************************************************************************)
(* From the receipts of the planned commands to a decision per obligation: *)
(* the producer admission (receiptproduceradmission), the evidence report  *)
(* (selectivegateevidence), currentness and scope (receiptcurrentnessscope),*)
(* trust classes (receipttrustclass), the projection of all of them onto   *)
(* obligations, and the decision (obligationdecision).                     *)
(*                                                                         *)
(* A list of failures is reduced to whether it is empty, except where its  *)
(* members lead to different states.  Receipts are a set: two for one      *)
(* command are wrong whether or not they are equal.                        *)
(***************************************************************************)
EXTENDS SelectiveGatePlan

CONSTANT None       \* an optional reference that is absent

Statuses == {"passed", "failed", "blocked", "not_run"}
Levels == {"advisory", "merge_satisfying"}

---------------------------------------------------------------------------
(* Producer admission *)

\* What the admission of its input guarantees: ids are unique, and kinds and
\* environments are words of the declared vocabularies.
AdmissionReadable(adm) ==
    /\ \A p, q \in adm.producers : p.id = q.id => p = q
    /\ \A r, s \in adm.receipts : r.id = s.id => r = s
    /\ \A p \in adm.producers :
          p.level \in Levels /\ p.kinds \subseteq adm.kinds /\ p.envs \subseteq adm.envs
    /\ \A r \in adm.receipts :
          r.status \in Statuses /\ r.kind \in adm.kinds /\ r.env \in adm.envs

ProducersCover(adm) ==
    /\ \A k \in adm.kinds : \E p \in adm.producers : k \in p.kinds
    /\ \A e \in adm.envs : \E p \in adm.producers : e \in p.envs

MergeClaimHolds(p, r) ==
    p.level = "merge_satisfying" /\ r.status = "passed" /\ r.provenance # None

ReceiptAllowed(adm, r) ==
    \E p \in adm.producers :
        /\ p.id = r.producer /\ r.kind \in p.kinds /\ r.env \in p.envs
        /\ r.merge => MergeClaimHolds(p, r)

AdmissionPasses(adm) ==
    /\ AdmissionReadable(adm)
    /\ ProducersCover(adm)
    /\ \A r \in adm.receipts : ReceiptAllowed(adm, r)

LevelOf(adm, r) == (CHOOSE p \in adm.producers : p.id = r.producer).level

---------------------------------------------------------------------------
(* The evidence report *)

Planned(plan) == {Key(c) : c \in plan.required}

Group(filed, key) == {r \in filed : r.key = key}

SameIdVariant(filed) ==
    {r.key : r \in {r \in filed : {s \in filed : s.key.id = r.key.id} # {r}}}

Missing(plan, filed)    == {k \in Planned(plan) : Group(filed, k) = {}}
Duplicate(filed)        == {r.key : r \in {r \in filed : Group(filed, r.key) # {r}}}
Unexpected(plan, filed) == {r \in filed : r.key \notin Planned(plan)}

\* A receipt that names a producer receipt must tell the same story.
SameStory(r, p) ==
    /\ p.id = r.producer /\ p.subject = r.key.id /\ p.status = r.status
    /\ p.evidence = r.evidence /\ p.artifacts = r.artifacts
    /\ r.status = "passed" => p.merge /\ p.provenance # None

\* One producer receipt vouches for one command.
Unshared(filed, planned) ==
    \A r, s \in filed :
        r.key \in planned /\ s.key \in planned /\ r.producer # None
        /\ r.producer = s.producer => r.key = s.key

ReceiptsBound(adm, filed, planned) ==
    /\ Unshared(filed, planned)
    /\ \A r \in {r \in filed : r.key \in planned} :
          IF r.producer = None THEN r.status # "passed"
          ELSE \E p \in adm.receipts : SameStory(r, p)

ProducersAgree(class, adm, filed, plan) ==
    IF adm = None THEN class # "merge_satisfying"
    ELSE AdmissionPasses(adm) /\ ReceiptsBound(adm, filed, Planned(plan))

EvidenceFails(class, plan, adm, filed) ==
    \/ plan.failures # {}
    \/ Missing(plan, filed) # {} \/ Duplicate(filed) # {}
    \/ Unexpected(plan, filed) # {}
    \/ \E r \in filed : r.status \in {"failed", "not_run"}
    \/ ~ProducersAgree(class, adm, filed, plan)

EvidenceState(class, plan, adm, filed) ==
    IF EvidenceFails(class, plan, adm, filed) THEN "failed"
    ELSE IF plan.state = "fail_closed" \/ \E r \in filed : r.status = "blocked"
    THEN "blocked" ELSE "passed"

---------------------------------------------------------------------------
(* Currentness and scope of one obligation's receipt *)

ScopeFinding(s) ==
    \/ s.state \in {"not_admitted_current_scope", "unknown_current_scope"}
    \/ s.state = "admitted_current_scope" /\ s.recorded # None /\ s.current # None
       /\ s.recorded # s.current

StaleVariant(entry) == {}
Stale(entry) ==
    IF \E c \in entry.checks : c.recorded # c.current THEN {"stale_receipt"} ELSE {}

OutOfScope(entry) ==
    IF \E s \in entry.scopes : ScopeFinding(s) THEN {"unknown_scope"} ELSE {}

CurrentnessStates(entry) ==
    IF Stale(entry) \cup OutOfScope(entry) # {} THEN Stale(entry) \cup OutOfScope(entry)
    ELSE IF \A s \in entry.scopes : s.state = "not_applicable"
    THEN {"not_applicable"} ELSE {}

CurrentnessReadable(entries) ==
    /\ entries # {}
    /\ \A d, e \in entries : d.obligation = e.obligation => d = e
    /\ \A e \in entries : e.checks # {} /\ e.scopes # {}

---------------------------------------------------------------------------
(* Trust classes *)

Refines(lower, higher) ==
    /\ lower.needsArtifacts => higher.needsArtifacts
    /\ lower.needsProvenance => higher.needsProvenance
    /\ higher.levels \subseteq lower.levels /\ higher.statuses \subseteq lower.statuses

\* requireMonotonicTrustClasses compares neighbours by rank.
Neighbours(classes, lower, higher) ==
    /\ lower.rank < higher.rank
    /\ ~\E c \in classes : lower.rank < c.rank /\ c.rank < higher.rank

PolicyReadable(policy) ==
    /\ policy.classes # {}
    /\ \A c, d \in policy.classes : c.id = d.id \/ c.rank = d.rank => c = d
    /\ \A c, d \in policy.classes : Neighbours(policy.classes, c, d) => Refines(c, d)
    /\ \A p, q \in policy.proofs : p.id = q.id => p = q
    /\ \A p \in policy.proofs : \E c \in policy.classes : c.id = p.minimum

Classes(policy, id) == {c \in policy.classes : c.id = id}
Proofs(policy, id) == {p \in policy.proofs : p.id = id}

BelowMinimum(policy, c, p) ==
    \E m \in Classes(policy, p.minimum) : c.rank < m.rank

InvalidProducer(policy, e) ==
    \/ Proofs(policy, e.proof) = {} \/ Classes(policy, e.class) = {}
    \/ \E c \in Classes(policy, e.class) :
          \/ e.level \notin c.levels
          \/ \E p \in Proofs(policy, e.proof) : BelowMinimum(policy, c, p)

InvalidReceipt(policy, e) ==
    \/ \E p \in Proofs(policy, e.proof) : e.kind \notin p.kinds \/ e.env \notin p.envs
    \/ \E c \in Classes(policy, e.class) :
          \/ e.status \notin c.statuses
          \/ c.needsProvenance /\ e.provenance = None
          \/ c.needsArtifacts /\ e.artifacts = {}

TrustStates(policy, e) ==
    (IF InvalidProducer(policy, e) THEN {"invalid_producer"} ELSE {})
    \cup (IF InvalidReceipt(policy, e) THEN {"invalid_receipt"} ELSE {})

TrustReadable(policy, entries) ==
    /\ PolicyReadable(policy)
    /\ entries # {}
    /\ \A d, e \in entries : d.obligation = e.obligation => d = e

---------------------------------------------------------------------------
(* The projection onto obligations *)

\* Every planned command has one route, and no route is foreign or shared.
RoutesAdmitted(plan, routes) ==
    /\ {r.key : r \in routes} = Planned(plan)
    /\ \A r, s \in routes : r.key = s.key \/ r.obligation = s.obligation => r = s

\* A diagnostic belongs to an obligation with one receipt, and names that receipt.
Anchored(e, routes, filed) ==
    \E r \in routes, f \in filed :
        /\ r.obligation = e.obligation /\ r.proofRoute = e.proofRoute
        /\ Group(filed, r.key) = {f}
        /\ f.producer # None /\ f.producer = e.receipt

\* If diagnostics are given, no obligation that could have one may lack it.
Complete(entries, routes, filed) ==
    \A r \in routes :
        (\E f \in filed : Group(filed, r.key) = {f})
            => \E e \in entries : e.obligation = r.obligation

CurrentnessAdmitted(entries, routes, filed) ==
    \/ entries = None
    \/ /\ CurrentnessReadable(entries)
       /\ \A e \in entries : Anchored(e, routes, filed)
       /\ Complete(entries, routes, filed)

\* validateTrustReceiptBinding: the entry repeats what was filed and admitted.
TrustBound(e, adm, filed) ==
    /\ adm # None
    /\ \E p \in adm.receipts, f \in filed :
          /\ p.id = e.receipt /\ f.producer = e.receipt
          /\ e.kind = p.kind /\ e.env = p.env /\ e.level = LevelOf(adm, p)
          /\ e.status = f.status /\ e.status = p.status
          /\ e.artifacts = f.artifacts /\ e.artifacts = p.artifacts
          /\ e.provenance = p.provenance

TrustAdmitted(policy, entries, routes, adm, filed) ==
    \/ entries = None
    \/ /\ TrustReadable(policy, entries)
       /\ \A e \in entries : Anchored(e, routes, filed) /\ TrustBound(e, adm, filed)
       /\ Complete(entries, routes, filed)

\* ProjectObligationDecision refuses what cannot be pinned on one command.
Projectable(class, plan, adm, filed) ==
    /\ plan.failures = {} /\ plan.state # "fail_closed"
    /\ Unexpected(plan, filed) = {}
    /\ ProducersAgree(class, adm, filed, plan)

SelectiveEvidenceState(group) ==
    IF group = {} THEN "missing_receipt"
    ELSE IF Cardinality(group) > 1 THEN "invalid_receipt"
    ELSE LET r == CHOOSE r \in group : TRUE
         IN  CASE r.status = "failed"  -> "failed"
               [] r.status = "blocked" -> "blocked_missing_precondition"
               [] r.status = "not_run" -> "missing_receipt"
               [] OTHER                -> "satisfied"

EntriesFor(entries, obligation) == {e \in entries : e.obligation = obligation}

\* Without diagnostics the scope is unknown and the producer invalid.
CandidateStates(route, filed, currentness, policy, trust) ==
    {SelectiveEvidenceState(Group(filed, route.key))}
    \cup (IF currentness = None \/ EntriesFor(currentness, route.obligation) = {}
          THEN {"unknown_scope"}
          ELSE UNION {CurrentnessStates(e) : e \in EntriesFor(currentness, route.obligation)})
    \cup (IF trust = None \/ EntriesFor(trust, route.obligation) = {}
          THEN {"invalid_producer"}
          ELSE UNION {TrustStates(policy, e) : e \in EntriesFor(trust, route.obligation)})

---------------------------------------------------------------------------
(* The decision *)

\* obligationDecisionStates, the worst first.
Ranked ==
    << "invalid_producer", "invalid_receipt", "stale_receipt", "failed",
       "missing_receipt", "blocked_missing_precondition", "unavailable_live",
       "unknown_scope", "deferred_admitted", "advisory_skipped", "not_applicable",
       "satisfied" >>

Rank(state) == CHOOSE i \in DOMAIN Ranked : Ranked[i] = state

Decide(states) == CHOOSE s \in states : \A t \in states : Rank(s) <= Rank(t)

Satisfiable == {"satisfied", "not_applicable"}

Blocks(class, state) == class = "blocking" /\ state \notin Satisfiable
===========================================================================
