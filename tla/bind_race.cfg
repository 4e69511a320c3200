SPECIFICATION FairSpec
CONSTANTS
  h1 = h1
  NoTask = NoTask
  Handles = {h1}
  Pools = {"main"}
  PoolKind <- AsyncPool
  MaxWorkers <- One
  ReservedSlots <- NoReservation
  ReserveFor <- NobodyReserved
  Sources = {"manual"}
  TaskConfigs <- ServeConfigs
  Modes = {"serve"}
  OnTaskError = "raise"
  Concurrent = {"submit", "stop"}
  MaxCancels = 0
PROPERTIES EverySubmissionServed
