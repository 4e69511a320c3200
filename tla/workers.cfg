SPECIFICATION FairSpec
CONSTANTS
  a = a
  b = b
  w = w
  o = o
  Handles = {a, b, w, o}
  Kind <- MixedKinds
  Awaited <- WaitForB
  Budget = {b}
  Workers <- OneWorker
  DefaultThreads = 3
  Cancellable = {a, o}
INVARIANTS QueuedBehindRunaways
PROPERTIES CallsEnd ShutdownReturns
CHECK_DEADLOCK FALSE
