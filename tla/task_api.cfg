CONSTANTS
  t1 = t1
  t2 = t2
  t3 = t3
  Tasks = {t1, t2}
  Idle = Idle
  MaxPriorities = 3
  TimeSliceTicks = 1
  TickMod = 4
  Queues = {}
  QueueType <- NoQueueType
  NoQueue = NoQueue
  Boot <- BootOne
  Calls = {"create", "yield", "delay", "delay_until", "suspend", "resume", "abort_delay", "set_priority", "delete", "lock"}
  CreatePrios = {2}
  SetPrios = {2}
  DelayTicks = {1}
  Intervals = {1}
  MaxLock = 1
  YieldBlocked = FALSE
SPECIFICATION Spec
INVARIANTS TypeOK ReadyConsistent DelayConsistent PoolConsistent RunningIsCurrent NoMissedSwitch
PROPERTIES LockHoldsCpu
