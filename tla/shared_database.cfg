SPECIFICATION FairSpec
CONSTANTS
  p1 = p1
  p2 = p2
  p3 = p3
  r1 = r1
  r2 = r2
  NoRun = NoRun
  Procs <- ThreeProcs
  Runs <- OneRun
  MaxAttempts = 2
  Costs <- FreeOrPriced
  LongTurns = TRUE
INVARIANTS
  TypeOK CompleteIsExplained FailureIsExplained CallsAreDense CostIsRolledUp
  OwnerWasToldTheTruth
PROPERTIES TurnEnds OrphansAreClosed
