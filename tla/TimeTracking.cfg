SPECIFICATION FairTimeSpec
CONSTANTS
  ann = ann  bob = bob  design = design  build = build
  e1 = e1  e2 = e2  e3 = e3
  Users = {ann, bob}
  Tasks = {design, build}
  Entries = {e1, e2, e3}
  Requests = {r1, r2, r3, r4}
  EntryUser <- TheUsers
  EntryTask <- TheTasks
  Durations = {1, 2}
  MayFail = TRUE
  None = None
INVARIANTS OneRunningTimer CountedOnce TrackedIsSum
PROPERTIES Answered
CHECK_DEADLOCK FALSE
