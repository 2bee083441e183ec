SPECIFICATION Spec
CONSTANTS
    EntityName <- MCOneEntity
    FileName <- MCTwoSpellings
    Stoi <- MCStoi
    ToString <- MCToString
    MaxId = 1
    Body = {b1, b2}
    OutsideEdits = FALSE
    Detours = FALSE
    Absent = Absent
    NoEntry = NoEntry
    NotANumber = NotANumber
PROPERTY PostNeverOverwrites
