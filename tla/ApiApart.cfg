SPECIFICATION ApartSpec
CONSTANTS
    EntityName <- MCTwoEntities
    FileName <- MCNumericFiles
    Stoi <- MCStoi
    ToString <- MCToString
    MaxId = 2
    Body = {b1}
    Runner = {r1, r2}
    MayCrash = FALSE
    DiskErrors = FALSE
    Absent = Absent
    NoEntry = NoEntry
    NotANumber = NotANumber
    Truncated = Truncated
INVARIANTS
    NextIdHasKey
    QuiescentMapMatchesDisk
    AckedSurvives
SYMMETRY MCSymmetry
