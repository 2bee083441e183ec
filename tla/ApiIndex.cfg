SPECIFICATION Spec
CONSTANTS
    EntityName = {shoes, hats}
    FileName <- MCNumericFiles
    Stoi <- MCStoi
    ToString <- MCToString
    MaxId = 2
    Body = {b1, b2}
    OutsideEdits = FALSE
    Detours = FALSE
    Absent = Absent
    NoEntry = NoEntry
    NotANumber = NotANumber
INVARIANTS
    NextIdHasKey
    MapMatchesDisk
PROPERTIES
    PostNeverOverwrites
    ImplementsCrudStore
SYMMETRY MCSymmetry
