\* One client, every kind of failure, two boots.
CONSTANTS
    f1 = f1
    f2 = f2
    p1 = p1
    p2 = p2
    p3 = p3
    p4 = p4
    c1 = c1
    c2 = c2
    o1 = o1
    o2 = o2
    Zero = Zero
    Garbage = Garbage
    NoClient = NoClient
    Firmwares = {f1, f2}
    Packages = {p1, p2, p3}
    OperationIds = {o1, o2}
    SlotSize <- MCSlotSize
    MaxSequence = 6
    Clients = {c1}
    Info <- MCInfo
    Trusted <- MCTrusted
    Claims <- AllClaims
    Installations <- OneFirmwareInstallations
    InitialFlash <- MCInitialFlash
    FirmwareSets <- FirmwareAdded
    MaxBoots = 2
    Faults <- AllFaults
SPECIFICATION Spec
INVARIANTS TypeOK ReferencedBytesIntact OnlyQualifiedBound
PROPERTIES ResultsTellTheTruth DamagePreserved ReservedBeforeErase BootDecisionSound
SYMMETRY MCSymmetry
