SPECIFICATION Spec
CONSTANTS
  t1 = t1
  t2 = t2
  Tasks <- TwoTasks
  Millis <- ThreeMs
  CounterMax = 3
  Seeds <- OneBit
  MaxIds = 5
INVARIANTS SortedWhileTimeAdvances
