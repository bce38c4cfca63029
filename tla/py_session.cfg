CONSTANTS
    Frontends = {"session", "console"}
    Programs <- MCPrograms
    Bytes = {1, 2}
    MaxRetries = 2
    MaxQueued = 1
SPECIFICATION FairSpec
INVARIANT CommandIsForThisPause
PROPERTIES SessionGoesAway ProgramEnds ConsoleSeesEnd EveryVisitPauses
CHECK_DEADLOCK FALSE
