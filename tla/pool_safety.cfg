SPECIFICATION FairSpec
CONSTANTS
    N = 2
    Cap = 6
    MaxBatches = 2
    MaxSeeds = 3
    MaxFaults = 1
    Fates <- OkErr
INVARIANTS
    TypeOK
    CleanBatchInOrder
    NativeLeavesClean
    NoOrphanWait
    OnlyFaultsLose
PROPERTY
    BatchEnds
