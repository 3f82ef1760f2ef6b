----------------------------- MODULE MCProofGate ----------------------------
(***************************************************************************)
(* ProofGate for TLC: fourteen sets of facts over four paths, two producers   *)
(* (one may satisfy a merge, one only advises) and a policy of two trust   *)
(* classes.  Each set of facts exercises one derivation of the planner     *)
(* and, with it, what the gate makes of the derived commands.              *)
(***************************************************************************)
EXTENDS ProofGate

Scan == [id |-> "text-policy", text |-> "scan all", reason |-> "text_policy",
         owner |-> "proofkit_text_policy"]
OwnScan == [id |-> "gate", text |-> "scan all", reason |-> "external_secret_scan",
            owner |-> "caller_owned_external"]

Quiet ==
    [base |-> {}, scan |-> Scan, full |-> {}, package |-> {}, triggered |-> {},
     edges |-> {}, coverage |-> {}, rules |-> {}, proofLike |-> {}, ignored |-> {},
     impactTouched |-> FALSE, impactText |-> "impact", witnesses |-> {},
     dependencyPaths |-> {}, dependencyText |-> "freshness", apiTouched |-> FALSE,
     apiText |-> "api", archive |-> {}, private |-> {}, policies |-> <<>>]

\* One id, two texts: two commands; and a base command that is the scan itself.
Twins ==
    [Quiet EXCEPT !.scan = OwnScan,
                  !.base = {Command("gate", "scan some", NoPath, "base"),
                            ScanCommand(OwnScan)}]

\* The scan's key under another reason.
Colliding == [Quiet EXCEPT !.full = {Command("text-policy", "scan all", NoPath, "full")}]

\* Facts that are not admitted: a borrowed scan id, a witness that runs nothing.
Borrowed == [Quiet EXCEPT !.scan = [OwnScan EXCEPT !.id = "secret-scan"]]
Idle == [Quiet EXCEPT !.witnesses = {[path |-> "proof", texts |-> {}]}]

Triggered ==
    [Quiet EXCEPT !.triggered =
        {[command |-> Command("lint", "lint", NoPath, "touched"), patterns |-> {"source"}]}]

Fallback == [command |-> Command("all-tests", "test all", NoPath, "unknown"),
             classes |-> {"dynamic"}]
Edges ==
    [Quiet EXCEPT !.coverage = {Fallback},
                  !.edges = {[id |-> "loader", class |-> "dynamic"]}]
UncoveredEdge == [Edges EXCEPT !.edges = {[id |-> "loader", class |-> "external"]}]

Mirrors ==
    [Quiet EXCEPT !.rules = {[path |-> "mirror", sources |-> {"source"}, text |-> "compare"]}]

\* The proof is bound by a witness, the package is one nobody binds.
Witnessed ==
    [Quiet EXCEPT !.proofLike = {"proof", "package", "mirror"}, !.ignored = {"mirror"},
                  !.witnesses = {[path |-> "proof", texts |-> {"prove"}]}]
Unwitnessed == [Witnessed EXCEPT !.witnesses = {}]

\* The first of two policies holds for the package, none for the mirror.
Archives ==
    [Quiet EXCEPT !.archive = {"package", "mirror", "proof"}, !.private = {"proof"},
                  !.policies = << [pattern |-> {"package"}, text |-> "unpack", policy |-> "strict"],
                                  [pattern |-> {"package", "source"}, text |-> "list",
                                   policy |-> "lax"] >>]

Exported == [Quiet EXCEPT !.apiTouched = TRUE]
Depended == [Quiet EXCEPT !.dependencyPaths = {"source"}]

GateInputs == {Quiet, Twins, Colliding, Triggered, Edges, UncoveredEdge, Mirrors,
               Witnessed, Unwitnessed, Archives, Exported, Depended, Borrowed, Idle}

\* For each set of facts the changes that matter to it; two sources name one each.
GateChanges(f) ==
    IF f = Quiet THEN {{"source"}, {"source", "outside"}}
    ELSE IF f = Mirrors THEN {{"source"}, {"mirror"}}
    ELSE IF f = Witnessed THEN {{"proof", "mirror"}}
    ELSE IF f = Archives THEN {{"package", "proof"}, {"mirror"}}
    ELSE IF f = Unwitnessed THEN {{"proof"}} ELSE {{"source"}}

GateProducers ==
    {[id |-> "ci", level |-> "merge_satisfying", kinds |-> {"test"}, envs |-> {"hosted"}],
     [id |-> "dev", level |-> "advisory", kinds |-> {"test"}, envs |-> {"hosted", "desk"}]}

Claim(producer, env, status, provenance, merge) ==
    [producer |-> producer, kind |-> "test", env |-> env, status |-> status,
     provenance |-> provenance, merge |-> merge]

Honest ==
    {Claim("ci", "hosted", "passed", "log", TRUE), Claim("ci", "hosted", "failed", "log", FALSE)}

Odd ==
    {Claim("dev", "desk", "passed", "log", TRUE), Claim("dev", "desk", "passed", "log", FALSE),
     Claim("ci", "hosted", "passed", None, TRUE), Claim("ci", "desk", "passed", "log", TRUE)}

TrustPolicy ==
    [classes |-> {[id |-> "local", rank |-> 1, levels |-> {"advisory", "merge_satisfying"},
                   statuses |-> {"passed", "failed"}, needsProvenance |-> FALSE,
                   needsArtifacts |-> FALSE],
                  [id |-> "attested", rank |-> 2, levels |-> {"merge_satisfying"},
                   statuses |-> {"passed"}, needsProvenance |-> TRUE, needsArtifacts |-> TRUE]},
     proofs |-> {[id |-> "gate", minimum |-> "attested", kinds |-> {"test"},
                  envs |-> {"hosted"}]}]

ForeignKey == [id |-> "foreign", text |-> "other", path |-> NoPath]
===========================================================================
