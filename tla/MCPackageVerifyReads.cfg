\* A good package that does not decay: only reads and the digests may fail.
CONSTANTS
    Block = 2
    Record = 4
    MaxManifest = 2
    SignatureSize = 1
    MaxWasm = 4
    Slack = 14
    WasmUnits <- MCWasmUnits
    Magic <- MCMagic
    Clean <- MCClean
    Names = 2
    Entries = 2
    MediumContents <- OneGood
    Claims <- MCClaims
    MaxDecays = 0
SPECIFICATION Spec
INVARIANTS ReadFailuresReported
