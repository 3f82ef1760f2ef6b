SPECIFICATION Spec
CHECK_DEADLOCK FALSE
CONSTANTS
    N = 3
    Prefix <- Strings
    Lexical <- MCLexical
    PrefixOf <- MCPrefixOf
    Name = {"a", "b"}
    Policy <- Policies
    NoPolicy = NoPolicy
INVARIANTS
    SelectorReportIsExact PolicyReportIsExact
