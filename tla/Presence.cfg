SPECIFICATION Spec
CONSTANTS
  ann = ann
  ben = ben
  a1 = a1
  a2 = a2
  b1 = b1
  Users = {ann, ben}
  Sockets = {a1, a2, b1}
  Removable = {ann}
  roadmap = roadmap
  backlog = backlog
  Opened <- Watched
  UserOf <- Owners
  Projects = {roadmap, backlog}
  Jobs = {j1, j2, j3}
  MaxSubscriptions = 1
  None = None
VIEW Shown
INVARIANTS TypeOK ViewsConverge NoneLeftBehind NoEavesdropper
CHECK_DEADLOCK FALSE
