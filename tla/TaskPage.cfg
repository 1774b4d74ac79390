SPECIFICATION PageSpec
CONSTANTS
  Changes = {c1, c2, c3}
  Early = {c1}
  Kinds = {"add", "edit", "drop", "task", "subtask"}
  Own = {"add", "edit", "drop", "task", "subtask"}
  Shown = {"checklists", "activity"}
  Nil = Nil
SYMMETRY Sym
INVARIANTS
  PageTypeOK
  Converges
CHECK_DEADLOCK FALSE
