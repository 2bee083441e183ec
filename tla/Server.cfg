SPECIFICATION FairSpec
CONSTANTS
    Session = {s1, s2, s3}
    Threads <- OneOrTwo
    ThreadLimit = 7
INVARIANTS
    TypeOK
    OneOperationPerSession
    OnlySilentAreStranded
    AcceptorArmed
    ThreadAccounting
    SomeoneRuns
    OneHandlerAtATime
PROPERTIES
    EveryCompletionHandled
    OthersServed
\* The process may end, and clients may stay silent.
CHECK_DEADLOCK FALSE
