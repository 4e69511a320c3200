SPECIFICATION FairSpec
CONSTANTS
  j1 = j1
  j2 = j2
  j3 = j3
  Jobs = {j1, j2, j3}
  Kind <- TimedKinds
  Period <- TimedPeriods
  NextAfter <- TimedNext
  NoTime = NoTime
  Faulty = {j1}
  Cancellable = {j2}
  Threads = {t1}
  WaitOnStop = {TRUE}
  NoThread = NoThread
  MaxClock = 3
  MaxEvents = 1
  MaxFired = 5
INVARIANTS FiresOncePerDue
PROPERTIES StopReturns DueFires
