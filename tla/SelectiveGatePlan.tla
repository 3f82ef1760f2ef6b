------------------------- MODULE SelectiveGatePlan -------------------------
(***************************************************************************)
(* The selective gate planner of src/internal/command/selectivegateplan:   *)
(* from the changed paths and the caller's policy (facts) to the commands  *)
(* that must run, and the admission that every consumer of a plan makes    *)
(* before it believes the plan (AdmitEvidencePlan).                        *)
(*                                                                         *)
(* Paths, texts and ids are model values.  A pattern is the set of paths   *)
(* it matches.  A failure is a tuple that names its cause.                 *)
(***************************************************************************)
EXTENDS FiniteSets, Naturals, Sequences

CONSTANT NoPath     \* the sourcePath of a command that has none

Command(id, text, path, reason) ==
    [id |-> id, text |-> text, path |-> path, reason |-> reason]

\* commandKey: two commands of one key are one gate.
Key(c) == [id |-> c.id, text |-> c.text, path |-> c.path]

ScanCommand(scan) == Command(scan.id, scan.text, NoPath, scan.reason)

---------------------------------------------------------------------------
(* What may be planned with *)

ProofkitScans == {"text-policy", "secret-scan"}

\* validateScanObligation: who owns the scan decides its id and reason.
ScanAdmitted(scan) ==
    \/ scan.owner = "proofkit_text_policy" /\ scan.id = "text-policy"
       /\ scan.reason = "text_policy"
    \/ scan.owner = "proofkit_secret_scan" /\ scan.id = "secret-scan"
       /\ scan.reason = "secret_scan"
    \/ scan.owner = "caller_owned_external" /\ scan.id \notin ProofkitScans
       /\ scan.reason = "external_secret_scan"

FactsAdmitted(f) ==
    /\ ScanAdmitted(f.scan)
    /\ Cardinality(f.full) <= 1
    /\ \A w \in f.witnesses : w.texts # {}
    /\ \A j, k \in f.coverage : k.classes # {} /\ (j.command.id = k.command.id => j = k)
    /\ \A d, e \in f.edges : d.id = e.id => d = e

---------------------------------------------------------------------------
(* What the changed paths oblige *)

PathTriggered(f, changed) ==
    {t.command : t \in {t \in f.triggered : t.patterns \cap changed # {}}}

\* The fallbacks declared for the class of an edge; none leaves it uncovered.
FallbackIds(coverage, class) ==
    {k.command.id : k \in {k \in coverage : class \in k.classes}}

AssessUnknownEdges(edges, coverage) ==
    {[id |-> e.id, class |-> e.class,
      fallbacks |-> FallbackIds(coverage, e.class)] : e \in edges}

Uncovered(assessed) == {e \in assessed : e.fallbacks = {}}

FallbackCommands(assessed, coverage) ==
    {k.command : k \in {k \in coverage :
                            \E e \in assessed : k.command.id \in e.fallbacks}}

SourceChanged(rule, changed) == rule.sources \cap changed # {}

GeneratedArtifacts(f, changed) ==
    {[path |-> r.path,
      reason |-> IF SourceChanged(r, changed)
                 THEN "source_changed" ELSE "generated_artifact_changed"] :
        r \in {r \in f.rules : SourceChanged(r, changed) \/ r.path \in changed}}

GeneratedCommands(f, artifacts) ==
    UNION {{Command("generated-artifact", r.text, r.path, <<"generated_artifact", a.reason>>) :
                r \in {r \in f.rules : r.path = a.path}} : a \in artifacts}

ProofLikePaths(f, changed) == (changed \cap f.proofLike) \ f.ignored

RequirementImpactTouched(f, changed) ==
    f.impactTouched \/ ProofLikePaths(f, changed) # {}

WitnessCommands(witnesses) ==
    UNION {{Command("requirement-witness", text, w.path, "changed_requirement_witness") :
                text \in w.texts} : w \in witnesses}

\* The first policy of the caller's list whose pattern matches the path.
Policies(f, path) == {i \in DOMAIN f.policies : path \in f.policies[i].pattern}
PolicyOf(f, path) ==
    f.policies[CHOOSE i \in Policies(f, path) : \A j \in Policies(f, path) : i <= j]

ArchivePaths(f, changed) == (changed \cap f.archive) \ f.private

ArtifactIntegrity(f, changed) ==
    {[path |-> p, text |-> PolicyOf(f, p).text, policy |-> PolicyOf(f, p).policy] :
        p \in {p \in ArchivePaths(f, changed) : Policies(f, p) # {}}}

IntegrityCommands(obligations) ==
    {Command("artifact-integrity", o.text, o.path, o.policy) : o \in obligations}

---------------------------------------------------------------------------
(* The plan *)

OnlyIf(condition, c) == IF condition THEN {c} ELSE {}

\* Everything buildPlan pushes, group by group in its order.
Pushed(f, changed) ==
    << f.base,
       {ScanCommand(f.scan)},
       f.full,
       f.package,
       PathTriggered(f, changed),
       FallbackCommands(AssessUnknownEdges(f.edges, f.coverage), f.coverage),
       GeneratedCommands(f, GeneratedArtifacts(f, changed)),
       OnlyIf(RequirementImpactTouched(f, changed),
              Command("requirement-impact", f.impactText, NoPath,
                      "changed_requirement_or_proof_surface")),
       WitnessCommands(f.witnesses),
       OnlyIf(f.dependencyPaths # {},
              Command("dependency-freshness", f.dependencyText, NoPath,
                      "workspace_dependency_surface_changed")),
       OnlyIf(f.apiTouched,
              Command("public-api", f.apiText, NoPath,
                      "public_api_contract_surface_changed")),
       IntegrityCommands(ArtifactIntegrity(f, changed)) >>

AllPushed(f, changed) == UNION {Pushed(f, changed)[g] : g \in DOMAIN Pushed(f, changed)}

\* push: one key under two reasons is a failure, and the first reason stays.
Collisions(f, changed) ==
    {<<"reason collision", Key(c)>> :
        c \in {c \in AllPushed(f, changed) :
                   \E d \in AllPushed(f, changed) : Key(c) = Key(d) /\ c.reason # d.reason}}

FirstPushed(f, changed, key) ==
    LET groups == {g \in DOMAIN Pushed(f, changed) :
                       \E c \in Pushed(f, changed)[g] : Key(c) = key}
        first  == CHOOSE g \in groups : \A h \in groups : g <= h
    IN  CHOOSE c \in Pushed(f, changed)[first] : Key(c) = key

\* Only the scan declares an owner; whatever shares its key inherits it.
Owned(f, c) ==
    [id |-> c.id, text |-> c.text, path |-> c.path, reason |-> c.reason,
     owner |-> IF Key(c) = Key(ScanCommand(f.scan)) THEN f.scan.owner ELSE "none"]

RequiredCommands(f, changed) ==
    {Owned(f, FirstPushed(f, changed, Key(c))) : c \in AllPushed(f, changed)}

UnboundVariant(f, changed) == {}

\* A changed proof that no touched witness binds.
Unbound(f, changed) == ProofLikePaths(f, changed) \ {w.path : w \in f.witnesses}

PlanFailures(f, changed, preexisting) ==
    preexisting
    \cup Collisions(f, changed)
    \cup {<<"uncovered edge", e.id>> :
             e \in Uncovered(AssessUnknownEdges(f.edges, f.coverage))}
    \cup {<<"generated without source", r.path>> :
             r \in {r \in f.rules : r.path \in changed /\ ~SourceChanged(r, changed)}}
    \cup {<<"unbound proof", p>> : p \in Unbound(f, changed)}
    \cup {<<"no policy", p>> :
             p \in {p \in ArchivePaths(f, changed) : Policies(f, p) = {}}}

BuildPlan(f, changed, preexisting) ==
    [state      |-> IF PlanFailures(f, changed, preexisting) = {}
                    THEN "ok" ELSE "fail_closed",
     failures   |-> PlanFailures(f, changed, preexisting),
     required   |-> RequiredCommands(f, changed),
     scan       |-> f.scan,
     coverage   |-> f.coverage,
     edges      |-> AssessUnknownEdges(f.edges, f.coverage),
     generated  |-> GeneratedArtifacts(f, changed),
     integrity  |-> ArtifactIntegrity(f, changed),
     witnesses  |-> f.witnesses,
     proofLike  |-> ProofLikePaths(f, changed),
     apiTouched |-> f.apiTouched]

---------------------------------------------------------------------------
(* What a consumer of a plan checks again *)

HasCommand(plan, expected) == \E c \in plan.required : Key(c) = Key(expected)

HasRoute(plan, id, path, reason) ==
    \E c \in plan.required : c.id = id /\ c.path = path /\ c.reason = reason

HasReasoned(plan, expected) ==
    \E c \in plan.required : Key(c) = Key(expected) /\ c.reason = expected.reason

DerivedVariant(plan) == TRUE

\* validateDerivedCommands: every obligation the plan lists has its command.
DerivedCommandsPresent(plan) ==
    /\ plan.apiTouched =>
          HasRoute(plan, "public-api", NoPath, "public_api_contract_surface_changed")
    /\ plan.proofLike # {} =>
          HasRoute(plan, "requirement-impact", NoPath,
                   "changed_requirement_or_proof_surface")
    /\ \A a \in plan.generated :
          HasRoute(plan, "generated-artifact", a.path, <<"generated_artifact", a.reason>>)
    /\ \A c \in IntegrityCommands(plan.integrity) : HasReasoned(plan, c)
    /\ \A c \in WitnessCommands(plan.witnesses) : HasReasoned(plan, c)

ScanPresent(plan) ==
    \E c \in plan.required :
        Key(c) = Key(ScanCommand(plan.scan)) /\ c.owner = plan.scan.owner

\* validateOutputRelations: a failed plan stays reportable, an ok plan must carry
\* the commands of its obligations.
PlanAdmitted(plan) ==
    /\ ScanAdmitted(plan.scan)
    /\ (plan.state = "ok") = (plan.failures = {})
    /\ \A c, d \in plan.required : Key(c) = Key(d) => c = d
    /\ \A j, k \in plan.coverage : j.command.id = k.command.id => j = k
    /\ \A d, e \in plan.edges : d.id = e.id => d = e
    /\ \A e \in plan.edges : e.fallbacks = FallbackIds(plan.coverage, e.class)
    /\ plan.state = "ok" =>
          /\ Uncovered(plan.edges) = {}
          /\ \A c \in FallbackCommands(plan.edges, plan.coverage) : HasCommand(plan, c)
          /\ ScanPresent(plan)
          /\ DerivedCommandsPresent(plan)
===========================================================================
