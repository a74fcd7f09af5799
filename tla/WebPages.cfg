SPECIFICATION Spec
CONSTANTS
  Devices = {d1, d2}
  Weddings = {w1}
  Emails = {m1, m2}
  Days = {0, 30, 90}
  DefaultDays = 90
  AlbumLimit = 2
  Photos = {p1, p2}
  Captions = {"", "kiss"}
  Settings = {s1, s2}
  Passwords <- SomePasswords
  Codes = {k1, k2}
  Keys = {k1, k2}
  Calls = {c1, c2}
  MaxInputs = 4
  None = None
INVARIANTS
  TypeOK
  OneAtATime
  ShowsOwnWork
  DeletedStaysDeleted
  UntouchedDaysOrDefault
  UploadsAreTrue
  VerifiedIsTested
  RulesAgree
  KeyUsedOnce
CHECK_DEADLOCK FALSE
