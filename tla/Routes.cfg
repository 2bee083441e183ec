SPECIFICATION Spec
CONSTANTS
    Location <- MCLocation
    Target <- MCTarget
    PrefixOf <- MCPrefixOf
    LengthOf <- MCLengthOf
    HandlerName = {"EchoHandler"}
    OtherName = {"EchoHandlr"}
    MaxStatements = 3
    Nowhere = Nowhere
INVARIANT ServedByLongestPrefix
