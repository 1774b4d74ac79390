SPECIFICATION Spec
CONSTANTS
  todo = todo  done = done  again = again  open = open  closed = closed  b1 = b1
  Columns = {todo, done, again}
  Tasks = {t1}
  Requests = {r1, r2, r3}
  Boards = {b1}
  Statuses = {open, closed}
  ColumnBoard <- OneBoard
  ColumnStatus <- Rivals
  MayFail = TRUE
  None = None
SYMMETRY Symmetric
INVARIANTS Placed OneColumnPerStatus MovesKeepNumbers
CHECK_DEADLOCK FALSE
