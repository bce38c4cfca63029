SPECIFICATION FairSpec
CONSTANTS
    N = 1
    Cap = 1
    MaxBatches = 1
    MaxSeeds = 4
    MaxFaults = 0
    Fates <- OkOnly
PROPERTY
    BatchEnds
CHECK_DEADLOCK FALSE
