SPECIFICATION FairSpec
CONSTANTS
    EntityName <- MCEntities
    FileName <- MCOneFile
    Stoi <- MCStoi
    ToString <- MCToString
    MaxId = 1
    Body <- MCTokens
    Absent = Absent
    NoEntry = NoEntry
    NotANumber = NotANumber
    Token <- MCTokens
    Kid <- MCKid
    KeyOf <- MCKeyOf
    ClientId = "kachow"
    Issuer = "google"
    AuthType = "OAUTH"
    MaxTime = 1
    Missing = Missing
    Garbage = Garbage
    NoJson = NoJson
    Qualified <- MCQualified
    PublicName <- MCPublicNames
    RootEntry = {"priv", "pub"}
    NoToken = NoToken
INVARIANTS
    TypeOK
    OwnDataOnly
    KeysSinceStart
PROPERTIES
    OwnersOnlyChange
    NewEntitiesNeverOverwritten
    WithdrawnKeysRefused
    PublishedKeysReturn
