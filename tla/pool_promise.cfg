SPECIFICATION FairSpec
CONSTANTS
    N = 2
    Cap = 2
    MaxBatches = 3
    MaxSeeds = 3
    MaxFaults = 0
    Fates <- OkOnly
PROPERTY
    KeepsPromise
