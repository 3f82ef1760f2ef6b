CONSTANTS
    Refusing = TRUE
    Stealing = TRUE
SPECIFICATION GitSpec
\* gitOutput returns once.
CHECK_DEADLOCK FALSE
INVARIANTS
    OutputIsWhole
    NoStraySignal FinishIsConclusive
PROPERTY
    LossRevokesTargeting
