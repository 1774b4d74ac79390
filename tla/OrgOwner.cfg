SPECIFICATION Spec
CONSTANTS
  ann = ann  bob = bob  cid = cid  i1 = i1  i2 = i2
  Users = {ann, bob, cid}
  Founder = ann
  Invitations = {i1, i2}
  Invitee <- SamePerson
  InviteRole <- TheRoles
  MaxMembers = 3
  Requests = {r1, r2}
  None = None
SYMMETRY Symmetric
INVARIANTS OwnerProtected
CHECK_DEADLOCK FALSE
