\* Three commands of two browser tabs, one crash, one cut request.
SPECIFICATION FairSpec
CONSTANTS
  Commands = {c1, c2}
  Runners = {r1, r2, r3}
  Configs = {k1, k2}
  NoFile = NoFile
  Torn = Torn
  None = None
  MaxCalls = 3
  MaxCuts = 1
  MaxCrashes = 1
  MaxBadDirs = 1
INVARIANTS
  TypeOK
  OneRunner
  ImportTakesOver
  RestsHonestly
PROPERTIES
  CommandsReturn
CHECK_DEADLOCK FALSE
