SPECIFICATION Spec
CONSTANTS
    EntityName <- MCFakeEntities
    FileName <- MCTwoFiles
    Stoi <- MCStoi
    ToString <- MCToString
    MaxId = 2
    Body <- MCFakeTokens
    Absent = Absent
    NoEntry = NoEntry
    NotANumber = NotANumber
    Token <- MCFakeTokens
    Kid <- MCKid
    KeyOf <- MCKeyOf
    ClientId = "kachow"
    Issuer = "google"
    AuthType = "FAKE"
    MaxTime = 0
    Missing = Missing
    Garbage = Garbage
    NoJson = NoJson
    Qualified <- MCFakeQualified
    PublicName = {}
    RootEntry = {"priv", "pub"}
    NoToken = NoToken
PROPERTY PostsNeverOverwrite
