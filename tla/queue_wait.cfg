CONSTANTS
  t1 = t1
  t2 = t2
  t3 = t3
  q1 = q1
  s1 = s1
  Tasks = {t1, t2, t3}
  Idle = Idle
  MaxPriorities = 3
  TimeSliceTicks = 1
  TickMod = 4
  Queues = {q1}
  QueueType <- AllBase
  NoQueue = NoQueue
  Boot <- BootOneHigher
  Calls = {"abort_delay"}
  CreatePrios = {}
  SetPrios = {}
  DelayTicks = {}
  Intervals = {}
  MaxLock = 0
  YieldBlocked = FALSE
  Length <- LengthOne
  DataQueues = {q1}
  Available <- NoneYet
  Items = {a}
  Urgent = {}
  NoItem = NoItem
  QueueCalls = {"send", "recv", "isr_recv"}
  Timeouts = {1}
SPECIFICATION QueueSpec
INVARIANTS WaitersConsistent NoLostWakeup EventListsSorted
PROPERTIES WokenInTurn
SYMMETRY Twins
