\* Two workers that fail and restart, and requests that end.
SPECIFICATION FairSpec
CONSTANTS
  Events = {e1}
  Photos = {p1}
  Titles = {t1}
  Workers = {w1, w2}
  Requests = {r1}
  Ephemeral = {}
  None = None
  MaxFaults = 1
  MaxAborts = 0
  MaxRestarts = 1
PROPERTIES
  ExpiredEventuallyRemoved
CHECK_DEADLOCK FALSE
