SPECIFICATION FairSpec
CONSTANTS
  Tabs = {t1}
  Calls = {timer, page}
  Clock = timer
  Tokens = {k1, k2, k3}
  Accounts = {"Admin"}
  None = None
INVARIANTS
  TypeOK
  SignedOutHoldsNothing
  CookieIsLive
PROPERTIES
  RedirectsSettle
  EveryCallEnds
  FlagClears
CHECK_DEADLOCK FALSE
