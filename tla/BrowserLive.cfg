SPECIFICATION FairSpec
CONSTANTS
  Tabs = {a}
  Home = a
  Sessions = {s1, s2}
  Tokens = {k1, k2, k3, k4}
  Requests = {r1, r2, r3, r4}
  MayFail = TRUE
  None = None
PROPERTIES BootEnds RevocationNoticed
CHECK_DEADLOCK FALSE
