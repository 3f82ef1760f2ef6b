CONSTANTS
    NoPath = NoPath
    None = None
    Changes <- GateChanges
    BadPath = "outside"
    Sources = {"diff", "caller"}
    Inputs <- GateInputs
    Producers <- GateProducers
    Kinds = {"test"}
    Envs = {"hosted", "desk"}
    HonestClaims <- Honest
    OddClaims <- Odd
    Policy <- TrustPolicy
    ProofClass = "gate"
    TrustClass = "attested"
    WeakClass = "local"
    Foreign <- ForeignKey
    MaxFaults = 1
    MaxBurden = 4
SPECIFICATION Spec
INVARIANTS PlanSurvivesHandover DecisionIsBacked PassedCoversChange ReportsAgree
CHECK_DEADLOCK FALSE
