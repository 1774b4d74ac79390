SPECIFICATION Spec
CONSTANTS
  Users = {u1, u2}
  Emails = {ann, bob}
  Names = {ann, bob}
  NameOf <- OwnNames
  VerifyLinks = {v1, v2, v3}
  ResetLinks = {p1}
  Requests = {r1, r2, r3, r4}
  MayFail = TRUE
  None = None
SYMMETRY Symmetric
INVARIANTS ClaimedOnce PasswordOrigin SupersededStayDead NeverStranded
CHECK_DEADLOCK FALSE
