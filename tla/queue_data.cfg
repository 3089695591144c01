CONSTANTS
  t1 = t1
  t2 = t2
  t3 = t3
  q1 = q1
  s1 = s1
  Tasks = {t1, t2}
  Idle = Idle
  MaxPriorities = 3
  TimeSliceTicks = 1
  TickMod = 4
  Queues = {q1, s1}
  QueueType <- AllBase
  NoQueue = NoQueue
  Boot <- BootMixed
  Calls = {}
  CreatePrios = {}
  SetPrios = {}
  DelayTicks = {}
  Intervals = {}
  MaxLock = 0
  YieldBlocked = FALSE
  Length <- OneAndTwo
  DataQueues = {q1}
  Available <- NoneYet
  Items = {a, u}
  Urgent = {u}
  NoItem = NoItem
  QueueCalls = {"send", "recv", "peek", "isr_send"}
  Timeouts <- JustForever
SPECIFICATION QueueSpec
INVARIANTS QueueTypeOK QueueNoMissedSwitch
PROPERTIES QueuesAreMailboxes
