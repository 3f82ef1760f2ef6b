CONSTANTS
    Operator = {o1, o2}
    NoNode = NoNode
    Nobody = Nobody
    MaxNodes = 2
    MaxForeign = 2
SPECIFICATION ResidueSpec
INVARIANTS
    OutcomeIsHonest RetryIsRecognised ResidueIsKept
PROPERTY JournalStaysPut
