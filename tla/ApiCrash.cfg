SPECIFICATION Spec
CONSTANTS
    EntityName <- MCTwoEntities
    FileName <- MCFiles
    Stoi <- MCStoi
    ToString <- MCToString
    MaxId = 2
    Body = {b1}
    Runner = {r1}
    MayCrash = TRUE
    DiskErrors = TRUE
    Absent = Absent
    NoEntry = NoEntry
    NotANumber = NotANumber
    Truncated = Truncated
INVARIANTS TypeOK NextIdHasKey QuiescentMapMatchesDisk AckedSurvives
PROPERTY ImplementsAtomic
CONSTRAINT OneDirectory
