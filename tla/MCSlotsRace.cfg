\* Two clients race over the update of one firmware; NVS writes may fail
\* or lie and power may fail once.
CONSTANTS
    f1 = f1
    f2 = f2
    p1 = p1
    p2 = p2
    p3 = p3
    p4 = p4
    c1 = c1
    c2 = c2
    o1 = o1
    o2 = o2
    Zero = Zero
    Garbage = Garbage
    NoClient = NoClient
    Firmwares = {f1}
    Packages = {p1, p2, p3}
    OperationIds = {o1, o2}
    SlotSize <- MCSlotSize
    MaxSequence = 6
    Clients = {c1, c2}
    Info <- MCInfo
    Trusted <- MCTrusted
    Claims <- OneClaim
    Installations <- OneFirmwareInstallations
    InitialFlash <- MCInitialFlash
    FirmwareSets <- OneFirmware
    MaxBoots = 2
    Faults = {"nvs_write", "nvs_damage", "power"}
SPECIFICATION Spec
INVARIANTS SnapshotsNotAliased InstanceBytesIntact
PROPERTIES NoLostUpdate RefinesProduct
SYMMETRY MCSymmetry
