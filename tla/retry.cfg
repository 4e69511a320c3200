SPECIFICATION LoopFairSpec
CONSTANTS
  h1 = h1
  h2 = h2
  NoTask = NoTask
  Handles = {h1, h2}
  Pools = {"main", "thread", "process"}
  PoolKind <- ThreeKinds
  MaxWorkers <- One
  ReservedSlots <- NoReservation
  ReserveFor <- NobodyReserved
  Sources = {"manual"}
  TaskConfigs <- RetryConfigs
  Modes = {"run"}
  OnTaskError = "raise"
  Concurrent = {"interrupt"}
  MaxCancels = 2
INVARIANTS SlotAccounting NoLostCancel RetryBudget QuietWhenOff
PROPERTIES NoRetryOnceCancelled RunTerminates CancelSettles
