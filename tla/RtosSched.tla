------------------------------ MODULE RtosSched ------------------------------
(***************************************************************************)
(* The kernel state of LinRTOS and the operations of sched.c on it.        *)
(*                                                                         *)
(* g_kernel, the task control blocks and the queue objects are one record  *)
(* k.  Every function of the C code that runs inside one critical section  *)
(* is an operator from k to the k it leaves behind, so a handler that      *)
(* calls several of them is their composition.  An intrusive list is the   *)
(* sequence of the tasks linked on it, head first.                         *)
(***************************************************************************)
EXTENDS IntrusiveLists

CONSTANTS
  Tasks,            \* the TCB slots of s_tcb_pool (RTOS_MAX_TASKS of them)
  Idle,             \* s_idle_tcb
  MaxPriorities,    \* RTOS_MAX_PRIORITIES
  TimeSliceTicks,   \* RTOS_TIME_SLICE_TICKS
  TickMod,          \* 2^32 in the code: tick_count is a uint32_t
  Queues,           \* the struct rtos_queue objects of the application
  QueueType,        \* their queue_type
  NoQueue           \* a NULL struct rtos_queue pointer

ASSUME IdleAssumption     == Idle \notin Tasks
ASSUME PriorityAssumption == MaxPriorities \in Nat \ {0, 1}
ASSUME SliceAssumption    == TimeSliceTicks \in Nat \ {0}
ASSUME TickAssumption     == TickMod \in Nat /\ TickMod >= 4 /\ TickMod % 2 = 0
ASSUME QueueAssumption    ==
  /\ NoQueue \notin Queues \cup Tasks \cup {Idle}
  /\ QueueType \in [Queues -> {"BASE", "MUTEX", "COUNTING", "BINARY", "RECURSIVE"}]

Threads    == Tasks \cup {Idle}
Prio       == 0 .. MaxPriorities - 1
Ticks      == 0 .. TickMod - 1
NotBoosted == MaxPriorities        \* original_priority = 0xFFFFFFFF
NoTask     == NoQueue              \* a NULL struct rtos_tcb pointer

\* The two event lists of a queue, tasks_waiting_to_send and
\* tasks_waiting_to_receive, and the NULL event_list of a task on neither.
EventLists == Queues \X {"send", "receive"}
NoList     == <<>>

TaskState == {"READY", "RUNNING", "BLOCKED", "SUSPENDED", "DELETED"}
OnReadyList == {"READY", "RUNNING"}

Kernel ==
  [ ready_list        : [Prio -> Seq(Threads)],
    ready_map         : SUBSET Prio,
    tick_count        : Ticks,
    sched_lock        : Nat,
    need_resched      : BOOLEAN,
    delay_list        : Seq(Threads),    \* *px_delayed_task_list
    overflow_list     : Seq(Threads),    \* *px_overflow_delayed_task_list
    terminated_list   : Seq(Threads),
    current           : Threads,         \* rtos_current_tcb
    pend_sv           : BOOLEAN,         \* SCB ICSR.PENDSVSET
    used              : SUBSET Tasks,    \* s_tcb_used_mask
    priority          : [Threads -> Prio],
    time_slice        : [Threads -> 0 .. TimeSliceTicks],
    state             : [Threads -> TaskState],
    event_list        : [Threads -> EventLists \cup {NoList}],
    wakeup_reason     : [Threads -> 0 .. 2],
    wake_tick         : [Threads -> Ticks],
    held_queue        : [Threads -> Queues \cup {NoQueue}],
    waiting           : [EventLists -> Seq(Threads)],
    messages_waiting  : [Queues -> Nat],
    mutex_holder      : [Queues -> Threads \cup {NoTask}],
    original_priority : [Queues -> Prio \cup {NotBoosted}],
    recursive_count   : [Queues -> Int] ]

-----------------------------------------------------------------------------
\* sched.c

TaskReady(k, t) ==
  LET p == k.priority[t] IN
  [k EXCEPT !.ready_list[p] = Append(@, t),
            !.ready_map     = @ \cup {p},
            !.state[t]      = "READY"]

TaskUnready(k, t) ==
  LET p     == k.priority[t]
      lists == [q \in Prio |-> Unlink(k.ready_list[q], t)]
  IN  [k EXCEPT !.ready_list = lists,
                !.ready_map  = IF lists[p] = <<>> THEN @ \ {p} ELSE @]

\* Move t to the tail of its priority's list: neither ready_map nor state changes.
RotateToTail(k, t) ==
  [k EXCEPT !.time_slice[t] = TimeSliceTicks,
            !.ready_list    =
              [q \in Prio |-> IF q = k.priority[t]
                              THEN Append(Unlink(k.ready_list[q], t), t)
                              ELSE Unlink(k.ready_list[q], t)]]

PickHighestReady(k) ==
  IF k.ready_map = {} THEN Idle ELSE Head(k.ready_list[Max(k.ready_map)])

\* Mutant: the task switched out keeps its state.
SwitchContextKeepsState(k) ==
  [k EXCEPT !.pend_sv = FALSE, !.current = PickHighestReady(k),
            !.state[PickHighestReady(k)] = "RUNNING"]

\* Called by PendSV_Handler, which clears the pending bit on entry.
SwitchContext(k) ==
  LET next == PickHighestReady(k)
      curr == k.current
      out  == IF k.state[curr] = "RUNNING" THEN "READY" ELSE k.state[curr]
  IN  IF next = curr
      THEN [k EXCEPT !.pend_sv = FALSE]
      ELSE [k EXCEPT !.pend_sv = FALSE,
                     !.state   = [@ EXCEPT ![curr] = out, ![next] = "RUNNING"],
                     !.current = next]

\* Mutant: a request made under the scheduler lock is forgotten.
SchedCheckForgets(k) == [k EXCEPT !.need_resched = FALSE]

\* rtos_sched up to the end of its critical section.  The switch itself is
\* requested after the critical section, and only if the lock was free.
SchedCheck(k) == [k EXCEPT !.need_resched = k.sched_lock > 0]

RequestSwitch(k) == [k EXCEPT !.pend_sv = TRUE]

\* Mutant: handlers switch tasks in spite of the scheduler lock.
SchedIgnoresLock(k) == RequestSwitch(SchedCheck(k))

\* rtos_sched from a handler or a critical section, where nothing intervenes.
Sched(k) ==
  IF k.sched_lock > 0 THEN SchedCheck(k) ELSE RequestSwitch(SchedCheck(k))

\* Mutant: the slice is reloaded and the task stays where it is.
SchedTimeSliceNoRotation(k, t) ==
  [k EXCEPT !.time_slice[t] = IF @ > 1 THEN @ - 1 ELSE TimeSliceTicks]

SchedTimeSlice(k, t) ==
  IF k.state[t] \notin OnReadyList \/ k.time_slice[t] = 0
  THEN k
  ELSE IF k.time_slice[t] > 1
  THEN [k EXCEPT !.time_slice[t] = @ - 1]
  ELSE LET r == RotateToTail(k, t) IN
       IF Head(r.ready_list[k.priority[t]]) # t
       THEN [r EXCEPT !.need_resched = TRUE]
       ELSE r

=============================================================================
