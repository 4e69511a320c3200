SPECIFICATION FairSpec
CONSTANTS
  j1 = j1
  j2 = j2
  j3 = j3
  Jobs = {j1, j2, j3}
  Kind <- MixedKinds
  Period <- MixedPeriods
  NextAfter <- MixedNext
  NoTime = NoTime
  Faulty = {j1, j3}
  Cancellable = {j1, j2, j3}
  Threads = {t1, t2}
  WaitOnStop = {TRUE}
  NoThread = NoThread
  MaxClock = 3
  MaxEvents = 1
  MaxFired = 4
INVARIANTS OneLoop FiresOncePerDue OneMoreFire NoOrphanSubscription
