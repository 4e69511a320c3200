SPECIFICATION Spec
CONSTANTS
  h1 = h1
  h2 = h2
  h3 = h3
  NoTask = NoTask
  Handles = {h1, h2, h3}
  Pools = {"main"}
  PoolKind <- AsyncPool
  MaxWorkers <- Two
  ReservedSlots <- OneReserved
  ReserveFor <- ForUi
  Sources = {"manual", "ui"}
  TaskConfigs <- PolicyConfigs
  Modes = {"run"}
  OnTaskError = "raise"
  Concurrent = {}
  MaxCancels = 1
SYMMETRY Symmetry
INVARIANTS TypeOK IInv PoolCapacity DependencyGate DependencyVerdict RunSettlesSnapshot
PROPERTIES ImplementsWorkflow
