\* A start between the two halves of a stop.
SPECIFICATION Spec
CONSTANTS
  Commands = {c1, c2}
  Runners = {r1, r2, r3}
  Configs = {k1}
  NoFile = NoFile
  Torn = Torn
  None = None
  MaxCalls = 3
  MaxCuts = 0
  MaxCrashes = 0
  MaxBadDirs = 0
INVARIANTS
  StoppedIsStopped
CHECK_DEADLOCK FALSE
