SPECIFICATION FairSpec
CONSTANTS
  Sessions = {s1}
  Tokens = {t1, t2, t3}
  Requests = {r1, r2, r3}
  MayFail = TRUE
  None = None
INVARIANTS OneUsableToken LateNeverGranted NoFalseAlarm NoHalfRevocation
PROPERTIES ReplayEndsSession
CHECK_DEADLOCK FALSE
