SPECIFICATION Spec
CONSTANTS
  Requests = {r1, r2, r3}
  Talkers = {r1, r2}
  Keys = {k0, k1, k2, k3, k4}
  k1 = k1
  Users = {u1}
  Stored = {k0}
  Avatars <- Named
  People = {ann, ben, cat, dan}
  ben = ben
  cat = cat
  dan = dan
  Creator = ben
  Assignable = {cat}
  Moderators = {cat}
  Members = {ann, ben, cat}
  Actors = {ann, cat}
  Mentioned <- Lists
  Comments = {d1, d2}
  First = d1
  Liking = {ann}
  None = None
INVARIANTS
  ErasedForGood
  AvatarOnDisk
  NoOrphans
  AnsweredMeansNotified
  TogglesAddUp
CHECK_DEADLOCK FALSE
