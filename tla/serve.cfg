SPECIFICATION FairSpec
CONSTANTS
  h1 = h1
  h2 = h2
  NoTask = NoTask
  Handles = {h1, h2}
  Pools = {"main"}
  PoolKind <- AsyncPool
  MaxWorkers <- One
  ReservedSlots <- NoReservation
  ReserveFor <- NobodyReserved
  Sources = {"manual"}
  TaskConfigs <- ServeConfigs
  Modes = {"serve"}
  OnTaskError = "raise"
  Concurrent = {"submit", "stop"}
  MaxCancels = 1
INVARIANTS NeverStalls
PROPERTIES ServedOnceWoken StopEndsServe
