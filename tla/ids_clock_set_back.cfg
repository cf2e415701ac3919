SPECIFICATION Spec
CONSTANTS
  t1 = t1
  t2 = t2
  Tasks <- OneTask
  Millis <- ThreeMs
  CounterMax = 3
  Seeds <- OneBit
  MaxIds = 4
INVARIANTS SameMillisecondIncreases
