\* Two events handled in one cycle, through one DbContext, by the CronJob's worker.
SPECIFICATION Spec
CONSTANTS
  Events = {e1, e2}
  Photos = {p1, p2}
  Titles = {t1}
  Workers = {w1}
  Requests = {r1}
  Ephemeral = {w1}
  None = None
  MaxFaults = 1
  MaxAborts = 0
  MaxRestarts = 1
SYMMETRY Symmetry
INVARIANTS
  ArchivedBeforeRemoval
CHECK_DEADLOCK FALSE
