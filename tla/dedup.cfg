SPECIFICATION Spec
CONSTANTS
  h1 = h1
  h2 = h2
  h3 = h3
  h4 = h4
  Handles = {h1, h2, h3, h4}
  a = a
  b = b
  Keys = {a, b}
  NoKey = NoKey
  t1 = t1
  t2 = t2
  Threads = {t1, t2}
  NoHandle = NoHandle
SYMMETRY Symmetry
INVARIANTS EntriesLive LatestFound OneLiveUnlessRaced
CHECK_DEADLOCK FALSE
