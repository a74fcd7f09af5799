\* A delete request cut off after the file and before the row.
SPECIFICATION FairSpec
CONSTANTS
  Events = {e1}
  Photos = {p1}
  Titles = {t1}
  Workers = {w1}
  Requests = {r1}
  Ephemeral = {}
  None = None
  MaxFaults = 0
  MaxAborts = 1
  MaxRestarts = 0
PROPERTIES
  ExpiredEventuallyRemoved
CHECK_DEADLOCK FALSE
