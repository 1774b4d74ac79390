SPECIFICATION Spec
CONSTANTS
  Tabs = {a, b}
  Home = a
  Sessions = {s1, s2}
  Tokens = {k1, k2, k3, k4}
  Requests = {r1, r2, r3, r4}
  MayFail = FALSE
  None = None
VIEW Shown
INVARIANTS NoSelfReplay OneFlightPerTab LogoutRevokes
CHECK_DEADLOCK FALSE
