SPECIFICATION Spec
CONSTANTS
  i1 = i1
  i2 = i2
  a = a
  b = b
  Ids = {i1, i2}
  Tasks = {a, b}
  NoTask = NoTask
  NoId = NoId
  Loop = Loop
  Users = {u1}
  Workers = {w1}
  Torn = Torn
  MaxRestarts = 1
  MaxFaults = 0
SYMMETRY Symmetry
INVARIANTS ResumeSkipsCompleted
CHECK_DEADLOCK FALSE
