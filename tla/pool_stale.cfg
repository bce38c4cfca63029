SPECIFICATION Spec
CONSTANTS
    N = 2
    Cap = 4
    MaxBatches = 2
    MaxSeeds = 2
    MaxFaults = 0
    Fates <- OkErr
PROPERTY
    KeepsPromise
