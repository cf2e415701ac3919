SPECIFICATION FairSpec
CONSTANTS
  p1 = p1
  p2 = p2
  p3 = p3
  r1 = r1
  r2 = r2
  NoRun = NoRun
  Procs <- TwoProcs
  Runs <- TwoRuns
  MaxAttempts = 1
  Costs <- FreeOrPriced
  LongTurns = FALSE
INVARIANTS ApartInv AnswerIsExplained CheckNeverFires
PROPERTIES OnlyLegalEdges ImplementsTurns SweepEnds
