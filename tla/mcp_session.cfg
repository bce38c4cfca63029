SPECIFICATION FairSpec
CONSTANTS
  Callers = {c1, c2}
  Programs <- TwoPrograms
  Lines = {2, 5}
INVARIANT OneOwner
INVARIANT CommandIsForThisPause
INVARIANT ResultDelivered
PROPERTY NoPauseSkipped
PROPERTY StepStaysShallow
PROPERTY ProgramEnds
CHECK_DEADLOCK FALSE
