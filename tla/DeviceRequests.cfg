\* Copies of two requests at two handlers, with no bound on what they wait for, and
\* a booth whose clock is off.
SPECIFICATION Spec
CONSTANTS
  Devices = {d1}
  None = None
  Nonces = {n1, n2}
  Pods = {a}
  Handlers = {h1, h2}
  Tolerance = 1
  Lifetime = 3
  Skew = 1
  PodSkew = 0
  MaxNow = 3
SYMMETRY Symmetry
INVARIANTS
  TypeOK
  RepeatsHaveWaited
PROPERTIES
  DeliversOnce
CHECK_DEADLOCK FALSE
