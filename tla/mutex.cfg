CONSTANTS
  t1 = t1
  t2 = t2
  t3 = t3
  q1 = q1
  q2 = q2
  Tasks = {t1, t2, t3}
  Idle = Idle
  MaxPriorities = 4
  TimeSliceTicks = 1
  TickMod = 4
  Queues = {q1, q2}
  QueueType <- OneOfEach
  NoQueue = NoQueue
  Boot <- BootThree
  Calls = {"delay", "delete"}
  CreatePrios = {}
  SetPrios = {}
  DelayTicks = {1}
  Intervals = {}
  MaxLock = 0
  YieldBlocked = FALSE
  MutexTimeouts <- TickOrForever
  MaxDepth = 2
  MayHaveTwo = FALSE
SPECIFICATION MutexSpec
INVARIANTS HolderConsistent OwnerIsHolder HolderOutranksWaiters PriorityRestored WokenIsHolder
VIEW Seen
