\* Every package, one unit of which may decay at any moment.
CONSTANTS
    Block = 2
    Record = 4
    MaxManifest = 2
    SignatureSize = 1
    MaxWasm = 4
    Slack = 14
    WasmUnits <- MCWasmUnits
    Magic <- MCMagic
    Clean <- MCClean
    Names = 2
    Entries = 2
    MediumContents <- AllContents
    Claims <- MCClaims
    MaxDecays = 1
SPECIFICATION FairSpec
INVARIANTS AcceptedIsSigned NothingLeftBehind
PROPERTIES Answers
