CONSTANTS
    Frontends = {"console"}
    Programs <- MCPrograms
    Bytes = {1, 2}
    MaxRetries = 2
    MaxQueued = 1
SPECIFICATION FairSpec
PROPERTY ProgramEndsInRepl
CHECK_DEADLOCK FALSE
