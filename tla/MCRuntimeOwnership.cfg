\* Safety and liveness with three tasks (no symmetry: there is a liveness check).
CONSTANTS
    t1 = t1
    t2 = t2
    t3 = t3
    Tasks <- MCTasks
    Imports <- MCImports
SPECIFICATION FairSpec
INVARIANTS EngineExclusive NothingDangles CallsProtected
PROPERTIES ClaimReturned
