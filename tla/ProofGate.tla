------------------------------ MODULE ProofGate -----------------------------
(***************************************************************************)
(* A change passes the proof gate: changed paths are collected, a plan is  *)
(* made from them, handed over and admitted, producers run the planned     *)
(* commands, their receipts are filed, diagnosed and decided upon.  Each   *)
(* command of agentic-proofkit is one action; between two of them the      *)
(* repository is edited, and whoever carries the JSON from one to the next *)
(* makes up to MaxFaults mistakes: a command lost from the plan, a wrong   *)
(* claim of a producer, a receipt for something else, a diagnostic too few.*)
(***************************************************************************)
EXTENDS SelectiveGateEvidence

CONSTANTS
    Inputs,         \* the facts a caller may plan with
    Changes(_),     \* the sets of paths a source may name, given the facts
    BadPath,        \* a path that is not admitted
    Sources,        \* the sources of changed paths
    Producers, Kinds, Envs,
    HonestClaims, OddClaims,    \* what a producer says of a run
    Policy, ProofClass, TrustClass, WeakClass,
    Foreign,        \* a command nobody planned
    MaxFaults,      \* mistakes of whoever carries the records
    MaxBurden       \* planned commands, mistakes, edits, and useless runs and receipts

\* What the caller's diagnostics say of an honest run that may satisfy a merge.
HonestEntry(claim) ==
    [kind |-> claim.kind, env |-> claim.env, status |-> "passed",
     level |-> "merge_satisfying", class |-> TrustClass, proof |-> ProofClass,
     provenance |-> claim.provenance, artifacts |-> {claim}]

\* The caller claims a class that its own policy grants to such a run; with another
\* one no evidence could ever decide an obligation.
ASSUME TrustAssumption ==
    /\ PolicyReadable(Policy)
    /\ \A claim \in HonestClaims :
          claim.status = "passed" /\ claim.merge /\ claim.provenance # None =>
              TrustStates(Policy, HonestEntry(claim)) = {}

VARIABLES
    facts, changed, upstream,   \* what the plan is made of
    plan, tampered,             \* the plan as handed over, and whether it was changed
    stage,
    content,                    \* the version of the repository's content
    runs,                       \* the producers' receipts, with what they ran and saw
    filed,                      \* the receipts filed for the planned commands
    currentness, trust, seen,   \* the diagnostics, and the content they are about
    routes, decided, evidence, verdict,
    faults

planVars   == <<facts, changed, upstream, plan, tampered>>
runVars    == <<runs, filed>>
entryVars  == <<currentness, trust, seen>>
resultVars == <<routes, decided, evidence, verdict>>
vars == <<planVars, stage, content, runVars, entryVars, resultVars, faults>>

NoPlan == [state |-> "none", required |-> {}]

Open == stage = "gated"

\* Mistakes, edits, and the runs and receipts a faultless gate would not have.
Setbacks ==
    faults + content
    + Cardinality(runs) - Cardinality({r.command : r \in {r \in runs : r.status = "passed"}})
    + Cardinality(filed) - Cardinality({f.key : f \in {f \in filed : f.producer # None}})

Bearable == (Cardinality(plan.required) + Setbacks)' <= MaxBurden

\* Whoever carries the records may err, now and then.
Errs == faults < MaxFaults /\ faults' = faults + 1

---------------------------------------------------------------------------
(* Planning *)

AdmittedPaths(given)  == UNION {given[s] \ {BadPath} : s \in DOMAIN given}
PathFailures(given)   == {<<"invalid path", s>> : s \in {s \in DOMAIN given : BadPath \in given[s]}}

CollectPaths ==
    /\ stage = "collecting"
    /\ \E given \in [Sources -> Changes(facts)] :
          /\ changed' = AdmittedPaths(given)
          /\ upstream' = PathFailures(given)
    /\ stage' = "planning"
    /\ UNCHANGED <<facts, plan, tampered, content, runVars, entryVars, resultVars, faults>>

PlanGate ==
    /\ stage = "planning"
    /\ IF FactsAdmitted(facts)
       THEN plan' = BuildPlan(facts, changed, upstream) /\ stage' = "handing"
       ELSE plan' = plan /\ stage' = "rejected"
    /\ UNCHANGED <<facts, changed, upstream, tampered, content, runVars, entryVars,
                   resultVars, faults>>

\* On its way the plan loses a command, its failures or its state.
LosePart ==
    /\ stage = "handing" /\ Errs
    /\ \/ \E c \in plan.required : plan' = [plan EXCEPT !.required = @ \ {c}]
       \/ plan' = [plan EXCEPT !.state = "ok"]
       \/ plan' = [plan EXCEPT !.failures = {}]
       \/ plan' = [plan EXCEPT !.state = "ok", !.failures = {}]
    /\ plan' # plan /\ tampered' = TRUE
    /\ UNCHANGED <<facts, changed, upstream, stage, content, runVars, entryVars, resultVars>>
    /\ Bearable

AdmitPlan ==
    /\ stage = "handing"
    /\ stage' = IF PlanAdmitted(plan) THEN "gated" ELSE "refused"
    /\ UNCHANGED <<planVars, content, runVars, entryVars, resultVars, faults>>

---------------------------------------------------------------------------
(* Producers and the repository *)

Admission == [producers |-> Producers, kinds |-> Kinds, envs |-> Envs, receipts |-> runs]

\* A run of the same command on the same content says the same; its id says it all.
RunId(key, claim) == <<key, claim, content>>

Run(key, claim) ==
    /\ Open
    /\ runs' = runs \cup
          {[id |-> RunId(key, claim), subject |-> key.id, producer |-> claim.producer,
            kind |-> claim.kind, env |-> claim.env, status |-> claim.status,
            provenance |-> claim.provenance, merge |-> claim.merge,
            evidence |-> RunId(key, claim), artifacts |-> {RunId(key, claim)},
            command |-> key, digest |-> content]}
    /\ UNCHANGED <<planVars, stage, content, filed, entryVars, resultVars>>

Runs ==
    /\ \E key \in Planned(plan) :
          \/ \E claim \in HonestClaims : Run(key, claim) /\ UNCHANGED faults
          \/ \E claim \in OddClaims : Run(key, claim) /\ Errs
    /\ Bearable

Edit ==
    /\ Open
    /\ content' = content + 1
    /\ UNCHANGED <<planVars, stage, runVars, entryVars, resultVars, faults>>
    /\ Bearable

---------------------------------------------------------------------------
(* Filing *)

Receipt(key, r) ==
    [key |-> key, status |-> r.status, producer |-> r.id, evidence |-> r.evidence,
     artifacts |-> r.artifacts]

Excuse(key, status) ==
    [key |-> key, status |-> status, producer |-> None, evidence |-> None, artifacts |-> {}]

Files(f) ==
    /\ Open /\ f \notin filed
    /\ filed' = filed \cup {f}
    /\ UNCHANGED <<planVars, stage, content, runs, entryVars, resultVars>>

File ==
    /\ \/ \E r \in runs : Files(Receipt(r.command, r))
       \/ \E key \in Planned(plan), status \in {"blocked", "not_run"} :
             Files(Excuse(key, status))
    /\ UNCHANGED faults /\ Bearable

\* A receipt for another command, of another status or without its producer.
Misfile ==
    /\ \/ \E r \in runs, key \in Planned(plan) \cup {Foreign} :
             key # r.command /\ Files(Receipt(key, r))
       \/ \E r \in runs : r.status = "failed"
             /\ Files([Receipt(r.command, r) EXCEPT !.status = "passed"])
       \/ \E r \in runs : Files([Receipt(r.command, r) EXCEPT !.producer = None])
       \/ \E r \in runs : Files([Receipt(r.command, r) EXCEPT !.evidence = None])
    /\ Errs /\ Bearable

---------------------------------------------------------------------------
(* Diagnosis *)

\* The receipts a diagnostic can be about.
Single == {f \in filed : Group(filed, f.key) = {f} /\ f.producer # None}
RunOf(f) == CHOOSE r \in runs : r.id = f.producer

\* The caller compares what the run saw with what is there now.
CurrentEntry(f) ==
    [obligation |-> f.key, proofRoute |-> f.key, receipt |-> f.producer,
     checks |-> {[recorded |-> RunOf(f).digest, current |-> content]},
     scopes |-> {[state |-> "admitted_current_scope", recorded |-> None, current |-> None]}]

TrustEntry(f) ==
    [obligation |-> f.key, proofRoute |-> f.key, receipt |-> f.producer,
     kind |-> RunOf(f).kind, env |-> RunOf(f).env, status |-> f.status,
     level |-> LevelOf(Admission, RunOf(f)), class |-> TrustClass, proof |-> ProofClass,
     provenance |-> RunOf(f).provenance, artifacts |-> f.artifacts]

Given(entries) == IF entries = {} THEN None ELSE entries

CurrentEntries == {CurrentEntry(f) : f \in Single}
TrustEntries   == {TrustEntry(f) : f \in Single}

Moved(f, key) == [CurrentEntry(f) EXCEPT !.obligation = key, !.proofRoute = key]
Rescoped(f, state) ==
    [CurrentEntry(f) EXCEPT
        !.scopes = {[state |-> state, recorded |-> None, current |-> None]}]

Exchanged(entries, old, new) == (entries \ {old}) \cup {new}

\* One entry is lost, about another receipt, out of scope or of another class.
LostEntry == {CurrentEntries \ {CurrentEntry(f)} : f \in Single}
MovedEntry ==
    {Exchanged(CurrentEntries, CurrentEntry(f), Moved(g, f.key)) : f \in Single, g \in Single}
RescopedEntry ==
    {Exchanged(CurrentEntries, CurrentEntry(f), Rescoped(f, state)) :
        f \in Single, state \in {"unknown_current_scope", "not_applicable"}}
OddCurrentEntries == (LostEntry \cup MovedEntry \cup RescopedEntry) \ {CurrentEntries}

OddTrustEntries ==
    ({TrustEntries \ {TrustEntry(f)} : f \in Single}
     \cup {Exchanged(TrustEntries, TrustEntry(f), [TrustEntry(f) EXCEPT !.class = WeakClass]) :
               f \in Single}
     \cup {Exchanged(TrustEntries, TrustEntry(f),
                     [TrustEntry(f) EXCEPT !.level = "merge_satisfying"]) :
               f \in Single}) \ {TrustEntries}

Diagnoses(current, trusted) ==
    /\ Open /\ currentness = None /\ trust = None /\ Single # {}
    /\ currentness' = Given(current) /\ trust' = Given(trusted) /\ seen' = content
    /\ UNCHANGED <<planVars, stage, content, runVars, resultVars>>

Diagnose ==
    /\ \/ Diagnoses(CurrentEntries, TrustEntries) /\ UNCHANGED faults
       \/ \E entries \in OddCurrentEntries :
             Diagnoses(entries, TrustEntries) /\ Errs
       \/ \E entries \in OddTrustEntries :
             Diagnoses(CurrentEntries, entries) /\ Errs
    /\ Bearable

---------------------------------------------------------------------------
(* The decision *)

Route(key, class) ==
    [key |-> key, obligation |-> key, proofRoute |-> key, class |-> class]

\* One route for each planned command; those of the waived need not block.
Routing(waived) ==
    {Route(key, IF key \in waived THEN "deferred" ELSE "blocking") : key \in Planned(plan)}

Projected(class, adm, chosen) ==
    /\ Projectable(class, plan, adm, filed)
    /\ RoutesAdmitted(plan, chosen)
    /\ CurrentnessAdmitted(currentness, chosen, filed)
    /\ TrustAdmitted(Policy, trust, chosen, adm, filed)

StateOf(route) == Decide(CandidateStates(route, filed, currentness, Policy, trust))

DecideObligations(class, adm, chosen) ==
    /\ Open
    /\ stage' = "decided" /\ routes' = chosen
    /\ evidence' = EvidenceState(class, plan, adm, filed)
    /\ IF Projected(class, adm, chosen)
       THEN /\ decided' = [r \in chosen |-> StateOf(r)]
            /\ verdict' = IF \E r \in chosen : Blocks(r.class, StateOf(r))
                          THEN "failed" ELSE "passed"
       ELSE decided' = decided /\ verdict' = "refused"
    /\ UNCHANGED <<planVars, content, runVars, entryVars>>

Decision ==
    \/ \E waived \in {{}} \cup {{key} : key \in Planned(plan)} :
          /\ DecideObligations("merge_satisfying", Admission, Routing(waived))
          /\ UNCHANGED faults
    \/ \E class \in Levels : DecideObligations(class, None, Routing({})) /\ Errs
    \/ \E lost \in Routing({}) :
          /\ DecideObligations("merge_satisfying", Admission, Routing({}) \ {lost})
          /\ Errs

---------------------------------------------------------------------------
Init ==
    /\ facts \in Inputs /\ changed = {} /\ upstream = {}
    /\ plan = NoPlan /\ tampered = FALSE /\ stage = "collecting"
    /\ content = 0 /\ runs = {} /\ filed = {}
    /\ currentness = None /\ trust = None /\ seen = 0
    /\ routes = {} /\ decided = [r \in {} |-> "none"] /\ evidence = "none" /\ verdict = "none"
    /\ faults = 0

Next ==
    \/ CollectPaths \/ PlanGate \/ LosePart \/ AdmitPlan
    \/ Runs \/ Edit \/ File \/ Misfile \/ Diagnose \/ Decision

Spec == Init /\ [][Next]_vars

---------------------------------------------------------------------------
(* Properties *)

\* The commands a reader can derive from what the plan reports, to the text,
ReportedCommands ==
    {ScanCommand(facts.scan)}
    \cup FallbackCommands(AssessUnknownEdges(facts.edges, facts.coverage), facts.coverage)
    \cup IntegrityCommands(ArtifactIntegrity(facts, changed))
    \cup WitnessCommands(facts.witnesses)

\* and those of which the plan reports only what they are for.
ReportedRoutes ==
    GeneratedCommands(facts, GeneratedArtifacts(facts, changed))
    \cup OnlyIf(facts.apiTouched,
                Command("public-api", facts.apiText, NoPath,
                        "public_api_contract_surface_changed"))
    \cup OnlyIf(ProofLikePaths(facts, changed) # {},
                Command("requirement-impact", facts.impactText, NoPath,
                        "changed_requirement_or_proof_surface"))

\* AdmitEvidencePlan accepts every plan buildPlan makes, ok or failed, and a plan that
\* was changed on its way and still says ok has lost none of the reported commands.
PlanSurvivesHandover ==
    /\ stage = "refused" => tampered
    /\ stage \in {"gated", "decided"} /\ plan.state = "ok" =>
          /\ \A c \in ReportedCommands : HasCommand(plan, c)
          /\ \A c \in ReportedRoutes : HasRoute(plan, c.id, c.path, c.reason)

Backs(r, f, route) ==
    /\ Group(filed, route.key) = {f} /\ f.producer = r.id /\ r.subject = route.key.id
    /\ f.status = "passed" /\ r.status = "passed" /\ r.digest = seen
    /\ r.provenance # None /\ LevelOf(Admission, r) = "merge_satisfying"

\* ProjectObligationDecision and obligationdecision: an obligation decided satisfied
\* has one receipt, of a passing run with provenance, by a producer admitted to satisfy
\* a merge, on the content the diagnostics are about; no run backs two obligations.
DecisionIsBacked ==
    \A t \in DOMAIN decided : decided[t] \in Satisfiable =>
        \E r \in runs, f \in filed :
            /\ Backs(r, f, t)
            /\ \A u \in DOMAIN decided, g \in filed :
                  u # t /\ decided[u] \in Satisfiable => ~Backs(r, g, u)

\* A command ran and passed, under its own receipt.
Ran(c) ==
    \E r \in runs, f \in filed :
        f.key = Key(c) /\ f.producer = r.id /\ r.subject = c.id /\ r.status = "passed"

RanFor(id, path) == \E c \in plan.required : c.id = id /\ c.path = path /\ Ran(c)

EveryRouteBlocks == \A r \in routes : r.class = "blocking"

\* buildPlan through obligationdecision: a gate that passes with every obligation
\* blocking, on the plan as made, leaves no change without its check: all paths were
\* admitted, every changed proof was run by a witness that binds it, every archive met
\* its policy, every generated file changed with its source and was compared with it,
\* and every edge of the unknown has a fallback that ran.
PassedCoversChange ==
    verdict = "passed" /\ EveryRouteBlocks /\ ~tampered =>
        /\ upstream = {}
        /\ \A p \in (changed \cap facts.proofLike) \ facts.ignored :
              /\ \E w \in facts.witnesses : w.path = p
              /\ RanFor("requirement-witness", p) /\ RanFor("requirement-impact", NoPath)
        /\ \A p \in (changed \cap facts.archive) \ facts.private :
              RanFor("artifact-integrity", p)
        /\ \A r \in facts.rules :
              /\ r.path \in changed => r.sources \cap changed # {}
              /\ r.sources \cap changed # {} => RanFor("generated-artifact", r.path)
        /\ \A e \in facts.edges :
              \E k \in facts.coverage : e.class \in k.classes /\ Ran(k.command)
        /\ \A t \in facts.triggered : t.patterns \cap changed # {} => Ran(t.command)

FreshDiagnostics ==
    /\ currentness # None /\ trust # None
    /\ {e.obligation : e \in currentness} = Planned(plan)
    /\ \A r \in runs : r.digest = seen

\* selectivegateevidence against obligationdecision, two reports of one set of
\* receipts: a decision that passes with every obligation blocking never contradicts
\* the evidence report, and evidence that passes, faultlessly diagnosed as current, is
\* never decided against.
ReportsAgree ==
    /\ verdict = "passed" /\ EveryRouteBlocks => evidence = "passed"
    /\ faults = 0 /\ evidence = "passed" /\ FreshDiagnostics => verdict = "passed"
===========================================================================
