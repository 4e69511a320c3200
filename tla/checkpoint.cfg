SPECIFICATION Spec
CONSTANTS
  i1 = i1
  i2 = i2
  a = a
  b = b
  Ids = {i1, i2}
  Tasks = {a, b}
  NoTask = NoTask
  NoId = NoId
  Loop = Loop
  Users = {u1}
  Workers = {w1}
  Torn = Torn
  MaxRestarts = 1
  MaxFaults = 1
SYMMETRY Symmetry
INVARIANTS TerminalRowsTrue RowsCurrent SavedForGood
CHECK_DEADLOCK FALSE
