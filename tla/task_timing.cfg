CONSTANTS
  t1 = t1
  t2 = t2
  t3 = t3
  Tasks = {t1, t2, t3}
  Idle = Idle
  MaxPriorities = 2
  TimeSliceTicks = 1
  TickMod = 6
  Queues = {}
  QueueType <- NoQueueType
  NoQueue = NoQueue
  Boot <- BootThree
  Calls = {"delay", "abort_delay"}
  CreatePrios = {}
  SetPrios = {}
  DelayTicks = {1, 2}
  Intervals = {}
  MaxLock = 0
  YieldBlocked = FALSE
SPECIFICATION FairSpec
INVARIANTS DelayWindows
PROPERTIES DelaysAreExact RoundRobin DelayEnds
