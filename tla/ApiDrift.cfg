SPECIFICATION Spec
CONSTANTS
    EntityName <- MCEntities
    FileName <- MCFiles
    Stoi <- MCStoi
    ToString <- MCToString
    MaxId = 2
    Body = {b1}
    OutsideEdits = TRUE
    Detours = TRUE
    Absent = Absent
    NoEntry = NoEntry
    NotANumber = NotANumber
INVARIANTS
    TypeOK
    NextIdHasKey
PROPERTY RequestsNeverAddDrift
