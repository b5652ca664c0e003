\* Two firmwares that share a package, updated in turn until the slots are
\* reused; power may fail, and a boot may find either firmware running.
CONSTANTS
    f1 = f1
    f2 = f2
    p1 = p1
    p2 = p2
    p3 = p3
    p4 = p4
    c1 = c1
    c2 = c2
    o1 = o1
    o2 = o2
    Zero = Zero
    Garbage = Garbage
    NoClient = NoClient
    Firmwares = {f1, f2}
    Packages = {p1, p2, p4}
    OperationIds = {o1, o2}
    SlotSize <- MCSlotSize
    MaxSequence = 12
    Clients = {c1}
    Info <- MCInfo
    Trusted <- MCTrusted
    Claims <- UpdateClaims
    Installations <- TwoFirmwareInstallations
    InitialFlash <- MCInitialFlash
    FirmwareSets <- TwoFirmwares
    MaxBoots = 2
    Faults = {"power"}
SPECIFICATION Spec
PROPERTIES RollbackPackageKept SchemaKept NoSpuriousInvalid
SYMMETRY MCSymmetry
