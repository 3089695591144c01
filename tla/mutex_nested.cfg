CONSTANTS
  t1 = t1
  t2 = t2
  t3 = t3
  q1 = q1
  q2 = q2
  Tasks = {t1, t2, t3}
  Idle = Idle
  MaxPriorities = 4
  TimeSliceTicks = 1
  TickMod = 4
  Queues = {q1, q2}
  QueueType <- AllPlain
  NoQueue = NoQueue
  Boot <- BootThree
  Calls = {"delay"}
  CreatePrios = {}
  SetPrios = {}
  DelayTicks = {1}
  Intervals = {}
  MaxLock = 0
  YieldBlocked = FALSE
  MutexTimeouts <- JustForever
  MayHaveTwo = TRUE
  MaxDepth = 1
SPECIFICATION MutexSpec
INVARIANTS PriorityRestored
