\* One picture, taken before the admin has assigned an event.
SPECIFICATION Spec
CONSTANTS
  Files = {f1, f2}
  Weddings = {w1}
  RefreshEvery = 2
  Pauses = FALSE
  MaxInputs = 4
  None = None
PROPERTIES
  UploadsWait
CHECK_DEADLOCK FALSE
