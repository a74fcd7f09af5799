\* Two requests at a time against two retention workers.
SPECIFICATION Spec
CONSTANTS
  Events = {e1}
  Photos = {p1}
  Titles = {t1}
  Workers = {w1, w2}
  Requests = {r1, r2}
  Ephemeral = {}
  None = None
  MaxFaults = 1
  MaxAborts = 1
  MaxRestarts = 1
SYMMETRY Symmetry
INVARIANTS
  TypeOK
  KeptOrArchived
  GalleryIntact
  ErasedWithEvent
PROPERTIES
  ServesAsVault
CHECK_DEADLOCK FALSE
