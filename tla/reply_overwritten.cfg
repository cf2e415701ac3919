SPECIFICATION Spec
CONSTANTS
  p1 = p1
  p2 = p2
  p3 = p3
  r1 = r1
  r2 = r2
  NoRun = NoRun
  Procs <- TwoProcs
  Runs <- OneRun
  MaxAttempts = 1
  Costs <- Free
  LongTurns = TRUE
INVARIANTS AnswerIsExplained
