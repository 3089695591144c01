CONSTANTS
  d1 = d1
  d2 = d2
  Works = {d1, d2}
  Delayed = {d1, d2}
  NoWork = NoWork
  Lincli = lincli
  Clients = {c1}
  Delays = {0, 2}
  JiffiesMod = 12
  MaxLate = 1
SPECIFICATION WorkFairSpec
INVARIANTS PendingIsLinked RunningIsRun
PROPERTIES AcceptedWorkRuns CancelReturns QueueIsWorkPool HandlerLeavesNoneExpired
