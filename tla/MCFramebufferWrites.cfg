SPECIFICATION Spec
CONSTANTS
  Nodes = {n1}
  Txns = {t1, t2}
  NoTxn = NoTxn
  TimerIds = {1, 2}
  NoTimer = NoTimer
  MaxPacketsWithErrors = 2
  NumPacketsToWaitAfterError = 1
INVARIANTS
  CounterMatchesList
  PendingIsGuarded
  EraseIsOwn
  PauseFollowsErrors
PROPERTIES
  WritesResolve
