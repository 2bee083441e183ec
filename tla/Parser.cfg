SPECIFICATION Spec
CONSTANTS
    Letter = {"a"}
    MaxChars = 7
INVARIANTS
    TypeOK
    BlocksNested
    TokensClean
    RoundTrip
\* The parser ends.
CHECK_DEADLOCK FALSE
