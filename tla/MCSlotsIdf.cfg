\* Accepted geometries, and one package operation on each, with failures; reads
\* and writes of two records in NVS, every failure, loss of power anywhere.
CONSTANTS
    Word = 32
    SlotIoBytes = 4
    PlainWrite = 1
    EncryptedWrite = 2
    Tables <- MCTables
    Configs <- MCConfigs
    PackageSizes <- MCSizes
    Absent = Absent
    Damaged = Damaged
    Blobs = {b1, b2}
SPECIFICATION MCSpec
INVARIANTS OwnSlotOnly NoSpuriousRefusal ProgrammedOnce HandlesClosed
PROPERTIES RefinesRegister
