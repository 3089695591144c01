------------------------------- MODULE RtosTask -------------------------------
(***************************************************************************)
(* The kernel at work: the task API of task.c called by the running task,  *)
(* PendSV, which switches tasks, and SysTick, which interrupts them.       *)
(*                                                                         *)
(* One core.  A step of a task is one critical section of the code, or the *)
(* code between two of them; SysTick and PendSV run between such steps.    *)
(* Both have the lowest priority and PendSV wins when both are pending.    *)
(***************************************************************************)
EXTENDS RtosTick

CONSTANTS
  Boot,           \* for each priority, the tasks main() creates of it, in order
  Calls,          \* the functions of task.h the application calls
  CreatePrios,    \* the priorities it passes to rtos_task_create
  SetPrios,       \* the priorities it passes to rtos_task_set_priority
  DelayTicks,     \* the delays it passes to rtos_task_delay
  Intervals,      \* the intervals it passes to rtos_task_delay_until
  MaxLock,        \* bound: how deep it nests rtos_sched_lock
  YieldBlocked    \* does it yield when, under the lock, it is not ready?

ASSUME BootAssumption  ==
  /\ Boot \in [Prio -> Seq(Tasks)]
  /\ \A p \in Prio : Distinct(Boot[p])
  /\ \A p, q \in Prio : p # q => ToSet(Boot[p]) \cap ToSet(Boot[q]) = {}
ASSUME CallAssumption  ==
  /\ CreatePrios \subseteq Prio /\ SetPrios \subseteq Prio
  /\ DelayTicks \subseteq Nat /\ Intervals \subseteq Nat \ {0}
  /\ MaxLock \in Nat /\ YieldBlocked \in BOOLEAN
\* Delays below half the range of tick_count: int32_t compares the others wrongly.
ASSUME DelayAssumption == \A n \in DelayTicks \cup Intervals : n < TickMod \div 2

VARIABLES
  k,        \* the kernel
  isr,      \* "tick" while rtos_tick_handler is in its critical section
  pc,       \* where each thread is
  ret,      \* where a thread goes on after rtos_sched
  arg,      \* a thread's local: the slot it creates or frees, or a delay
  handles   \* the tasks the application has a valid handle of

threadVars == <<pc, ret, arg>>
vars == <<k, isr, pc, ret, arg, handles>>

Labels == {"run", "sched", "pend", "dead", "create", "created", "until", "free"}
Locals == Threads \cup Nat

-----------------------------------------------------------------------------
\* Operators: the critical sections of task.c

\* The delay_node and the event_node of a BLOCKED task are unlinked.
Unblock(s, t) == EventRemove(DelayRemove(s, t), t)

Delay(s, ticks) ==
  LET t    == s.current
      free == IF s.state[t] = "BLOCKED" THEN Unblock(s, t) ELSE s
  IN  DelayInsert(
        TaskUnready([free EXCEPT !.state[t] = "BLOCKED", !.event_list[t] = NoList], t),
        t, ticks)

Yield(s) == [RotateToTail(s, s.current) EXCEPT !.need_resched = TRUE]

\* Mutant: a BLOCKED task stays on the delay list.
DeactivateKeepsTimer(s, t) ==
  IF s.state[t] \in OnReadyList THEN TaskUnready(s, t) ELSE EventRemove(s, t)

Deactivate(s, t) ==
  CASE s.state[t] \in OnReadyList -> TaskUnready(s, t)
    [] s.state[t] = "BLOCKED"     -> Unblock(s, t)
    [] OTHER                      -> s

Suspend(s, t) ==
  IF s.state[t] \in OnReadyList \cup {"BLOCKED"}
  THEN [Deactivate(s, t) EXCEPT !.state[t] = "SUSPENDED"]
  ELSE s

AbortDelay(s, t) ==
  TaskReady([Unblock(s, t) EXCEPT !.wake_tick[t] = 0], t)

\* Mutant: the priority changes before the task leaves its ready list.
SetPriorityTooEarly(s, t, p) ==
  LET moved == [s EXCEPT !.priority[t] = p]
  IN  IF s.state[t] \in OnReadyList THEN TaskReady(TaskUnready(moved, t), t) ELSE moved

SetPriority(s, t, p) ==
  LET moved == IF s.state[t] \in OnReadyList
               THEN TaskReady([TaskUnready(s, t) EXCEPT !.priority[t] = p], t)
               ELSE [s EXCEPT !.priority[t] = p]
      q     == moved.held_queue[t]
  IN  IF q # NoQueue /\ moved.original_priority[q] # NotBoosted
      THEN [moved EXCEPT !.original_priority[q] = p]
      ELSE moved

Terminate(s, t) ==
  ReleaseHeld([Deactivate(s, t) EXCEPT !.state[t] = "DELETED"], t)

DeleteOther(s, t) == [Terminate(s, t) EXCEPT !.used = @ \ {t}]

\* Mutant: a task that deletes itself frees its TCB at once.
DeleteSelfFrees(s) ==
  [Terminate(s, s.current) EXCEPT
     !.used = @ \ {s.current}, !.sched_lock = 0, !.need_resched = TRUE,
     !.terminated_list = Append(@, s.current)]

\* The loop that drops every level of the scheduler lock requests a switch at
\* the last one, since need_resched was set before it.
DeleteSelf(s) ==
  LET t   == s.current
      end == [Terminate(s, t) EXCEPT !.terminated_list = Append(@, t),
                                     !.sched_lock = 0]
  IN  IF s.sched_lock > 0
      THEN RequestSwitch([end EXCEPT !.need_resched = FALSE])
      ELSE [end EXCEPT !.need_resched = TRUE]

SchedUnlock(s) ==
  IF s.sched_lock = 1 /\ s.need_resched
  THEN [s EXCEPT !.sched_lock = 0, !.need_resched = FALSE]
  ELSE [s EXCEPT !.sched_lock = @ - 1]

\* rtos_tcb_alloc of slot t, and the fields rtos_task_create fills in.
TcbAlloc(s, t, p) ==
  [s EXCEPT !.used = @ \cup {t}, !.priority[t] = p,
            !.time_slice[t] = TimeSliceTicks, !.state[t] = "READY",
            !.event_list[t] = NoList, !.wakeup_reason[t] = 0,
            !.wake_tick[t] = 0, !.held_queue[t] = NoQueue]

-----------------------------------------------------------------------------
\* Threads

\* Thread c executes: it is current and no handler is active or pending.
At(c, label) ==
  /\ c = k.current /\ pc[c] = label
  /\ isr = "none" /\ ~k.pend_sv

\* A task is in application code and calls f.
Calling(c, f) == c # Idle /\ At(c, "run") /\ f \in Calls

\* What an API function does after its critical section: return, or rtos_sched.
Return == UNCHANGED <<threadVars, isr>>
GoTo(c, label) == pc' = [pc EXCEPT ![c] = label] /\ UNCHANGED <<ret, arg, isr>>
CallSched(c, after) ==
  /\ pc'  = [pc EXCEPT ![c] = "sched"]
  /\ ret' = [ret EXCEPT ![c] = after]
  /\ UNCHANGED <<arg, isr>>
SchedIf(c, cond) == IF cond THEN CallSched(c, "run") ELSE Return

\* rtos_sched of a thread: the check, and after its critical section the request.
RtosSched(c) ==
  /\ At(c, "sched")
  /\ k' = SchedCheck(k)
  /\ GoTo(c, IF k.sched_lock > 0 THEN ret[c] ELSE "pend")
  /\ UNCHANGED handles

RtosRequestSwitch(c) ==
  /\ At(c, "pend")
  /\ k' = RequestSwitch(k)
  /\ GoTo(c, ret[c])
  /\ UNCHANGED handles

\* A task that is not ready yields only if the application is that careless.
TaskYield(c) ==
  /\ \/ Calling(c, "yield")
     \/ Calling(c, "delay") /\ 0 \in DelayTicks
  /\ YieldBlocked \/ k.state[c] \in OnReadyList
  /\ k' = Yield(k)
  /\ CallSched(c, "run")
  /\ UNCHANGED handles

TaskDelay(c) ==
  /\ Calling(c, "delay")
  /\ \E n \in DelayTicks \ {0} : k' = Delay(k, n)
  /\ CallSched(c, "run")
  /\ UNCHANGED handles

\* rtos_task_delay_until reads the tick in one critical section ...  The
\* application's *prev_wake_tick is as old as it likes; if the tick aimed at has
\* passed, the call returns without touching the kernel.
TaskDelayUntil(c) ==
  /\ Calling(c, "delay_until")
  /\ \E prev \in Ticks, n \in Intervals :
       LET next == (prev + n) % TickMod IN
       /\ After(next, k.tick_count)
       /\ arg'    = [arg EXCEPT ![c] = (next - k.tick_count) % TickMod]
  /\ pc' = [pc EXCEPT ![c] = "until"]
  /\ UNCHANGED <<k, isr, ret, handles>>

\* ... and delays by the difference in another.
TaskDelayUntilSleep(c) ==
  /\ At(c, "until")
  /\ k' = Delay(k, arg[c])
  /\ pc'     = [pc EXCEPT ![c] = "sched"]
  /\ arg'    = [arg EXCEPT ![c] = 0]
  /\ UNCHANGED <<isr, ret, handles>>

TaskSuspend(c) ==
  /\ Calling(c, "suspend")
  /\ \E t \in handles :
       /\ k' = Suspend(k, t)
       /\ SchedIf(c, t = c /\ k.state[t] \in OnReadyList)
  /\ UNCHANGED handles

TaskResume(c) ==
  /\ Calling(c, "resume")
  /\ \E t \in handles :
       /\ k.state[t] = "SUSPENDED"
       /\ k' = TaskReady(k, t)
       /\ SchedIf(c, k.priority[t] > k.priority[c])
  /\ UNCHANGED handles

TaskAbortDelay(c) ==
  /\ Calling(c, "abort_delay")
  /\ \E t \in handles :
       /\ k.state[t] = "BLOCKED"
       /\ k' = AbortDelay(k, t)
  /\ CallSched(c, "run")
  /\ UNCHANGED handles

TaskSetPriority(c) ==
  /\ Calling(c, "set_priority")
  /\ \E t \in handles, p \in SetPrios : k' = SetPriority(k, t, p)
  /\ CallSched(c, "run")
  /\ UNCHANGED handles

TaskDeleteOther(c) ==
  /\ Calling(c, "delete")
  /\ \E t \in handles \ {c} :
       /\ k' = DeleteOther(k, t)
       /\ handles' = handles \ {t}
       /\ pc'  = [pc EXCEPT ![t] = "dead"]
       /\ ret' = [ret EXCEPT ![t] = "run"]
       /\ arg' = [arg EXCEPT ![t] = 0]
  /\ UNCHANGED isr

TaskDeleteSelf(c) ==
  /\ Calling(c, "delete")
  /\ k' = DeleteSelf(k)
  /\ handles' = handles \ {c}
  /\ CallSched(c, "dead")

RtosSchedLock(c) ==
  /\ Calling(c, "lock")
  /\ k.sched_lock < MaxLock
  /\ k' = [k EXCEPT !.sched_lock = @ + 1]
  /\ Return
  /\ UNCHANGED handles

\* Mutant: the nesting count is not checked.
RtosSchedUnlockUnchecked(c) ==
  /\ Calling(c, "lock")
  /\ k' = SchedUnlock(k)
  /\ SchedIf(c, k.sched_lock = 1 /\ k.need_resched)
  /\ UNCHANGED handles

RtosSchedUnlock(c) ==
  /\ Calling(c, "lock")
  /\ k.sched_lock > 0
  /\ k' = SchedUnlock(k)
  /\ SchedIf(c, k.sched_lock = 1 /\ k.need_resched)
  /\ UNCHANGED handles

\* rtos_task_create allocates a TCB, makes the task ready, and then publishes
\* the handle and compares priorities, each in a critical section of its own.
TaskCreate(c) ==
  /\ Calling(c, "create")
  /\ \E t \in Tasks \ k.used, p \in CreatePrios :
       /\ k'   = TcbAlloc(k, t, p)
       /\ arg' = [arg EXCEPT ![c] = t]
       /\ pc'  = [pc EXCEPT ![c] = "create", ![t] = "run"]
       /\ ret' = [ret EXCEPT ![t] = "run"]
  /\ UNCHANGED <<isr, handles>>

TaskCreateReady(c) ==
  /\ At(c, "create")
  /\ k' = TaskReady(k, arg[c])
  /\ handles' = handles \cup {arg[c]}
  /\ GoTo(c, "created")

TaskCreateReturn(c) ==
  /\ At(c, "created")
  /\ pc'  = [pc EXCEPT ![c] = IF k.priority[arg[c]] > k.priority[c] THEN "sched" ELSE "run"]
  /\ arg' = [arg EXCEPT ![c] = 0]
  /\ UNCHANGED <<k, isr, ret, handles>>

\* The idle task unlinks a self-deleted task in one critical section and frees
\* its TCB in another.
IdleReclaim ==
  /\ At(Idle, "run")
  /\ k.terminated_list # <<>>
  /\ k'   = [k EXCEPT !.terminated_list = Tail(@)]
  /\ arg' = [arg EXCEPT ![Idle] = Head(k.terminated_list)]
  /\ pc'  = [pc EXCEPT ![Idle] = "free"]
  /\ UNCHANGED <<isr, ret, handles>>

IdleFree ==
  /\ At(Idle, "free")
  /\ k' = [k EXCEPT !.used = @ \ {arg[Idle]}]
  /\ pc'  = [pc EXCEPT ![Idle] = "run"]
  /\ arg' = [arg EXCEPT ![Idle] = 0]
  /\ UNCHANGED <<isr, ret, handles>>

-----------------------------------------------------------------------------
\* Handlers

PendSV ==
  /\ isr = "none" /\ k.pend_sv
  /\ k' = SwitchContext(k)
  /\ UNCHANGED <<threadVars, isr, handles>>

SysTick ==
  /\ isr = "none" /\ ~k.pend_sv
  /\ k' = TickBegin(k)
  /\ isr' = "tick"
  /\ UNCHANGED <<threadVars, handles>>

SysTickWake ==
  /\ isr = "tick" /\ HeadExpired(k)
  /\ k' = TickWake(k)
  /\ UNCHANGED <<threadVars, isr, handles>>

SysTickEnd ==
  /\ isr = "tick" /\ ~HeadExpired(k)
  /\ k' = TickEnd(k)
  /\ isr' = "none"
  /\ UNCHANGED <<threadVars, handles>>

-----------------------------------------------------------------------------
\* The state rtos_scheduler_start hands to the first task.

BootTasks   == UNION {ToSet(Boot[p]) : p \in Prio}
BootPrio(t) == IF t \in BootTasks THEN CHOOSE p \in Prio : t \in ToSet(Boot[p]) ELSE 0
BootLists   == [Boot EXCEPT ![0] = Append(@, Idle)]
BootMap     == {p \in Prio : BootLists[p] # <<>>}
First       == Head(BootLists[Max(BootMap)])

InitKernel ==
  [ ready_list        |-> BootLists,
    ready_map         |-> BootMap,
    tick_count        |-> 0,
    sched_lock        |-> 0,
    need_resched      |-> FALSE,
    delay_list        |-> <<>>,
    overflow_list     |-> <<>>,
    terminated_list   |-> <<>>,
    current           |-> First,
    pend_sv           |-> FALSE,
    used              |-> BootTasks,
    priority          |-> [t \in Threads |-> BootPrio(t)],
    time_slice        |-> [t \in Threads |-> IF t \in BootTasks \cup {Idle}
                                          THEN TimeSliceTicks ELSE 0],
    state             |-> [t \in Threads |-> IF t = First THEN "RUNNING" ELSE "READY"],
    event_list        |-> [t \in Threads |-> NoList],
    wakeup_reason     |-> [t \in Threads |-> 0],
    wake_tick         |-> [t \in Threads |-> 0],
    held_queue        |-> [t \in Threads |-> NoQueue],
    waiting           |-> [e \in EventLists |-> <<>>],
    messages_waiting  |-> [q \in Queues |-> IF IsMutex(q) THEN 1 ELSE 0],
    mutex_holder      |-> [q \in Queues |-> NoTask],
    original_priority |-> [q \in Queues |-> IF IsMutex(q) THEN NotBoosted ELSE 0],
    recursive_count   |-> [q \in Queues |-> 0] ]

InitThreads ==
  /\ isr = "none"
  /\ pc = [t \in Threads |-> "run"]
  /\ ret = [t \in Threads |-> "run"]
  /\ arg = [t \in Threads |-> 0]
  /\ handles = BootTasks

Init == k = InitKernel /\ InitThreads

Thread(c) ==
  \/ RtosSched(c) \/ RtosRequestSwitch(c)
  \/ TaskYield(c) \/ TaskDelay(c) \/ TaskDelayUntil(c) \/ TaskDelayUntilSleep(c)
  \/ TaskSuspend(c) \/ TaskResume(c) \/ TaskAbortDelay(c) \/ TaskSetPriority(c)
  \/ TaskDeleteOther(c) \/ TaskDeleteSelf(c)
  \/ RtosSchedLock(c) \/ RtosSchedUnlock(c)
  \/ TaskCreate(c) \/ TaskCreateReady(c) \/ TaskCreateReturn(c)

IdleThread == IdleReclaim \/ IdleFree
Handler    == PendSV \/ SysTick \/ SysTickWake \/ SysTickEnd

Next == (\E c \in Tasks : Thread(c)) \/ IdleThread \/ Handler

Spec == Init /\ [][Next]_vars

\* What the hardware and the processor guarantee: SysTick stays pending in the
\* NVIC until it is taken, so it is taken even if PendSV keeps it waiting; PendSV
\* and the code of the kernel run to their end.  Applications promise nothing.
Fairness ==
  /\ SF_vars(SysTick) /\ WF_vars(SysTickWake) /\ WF_vars(SysTickEnd)
  /\ WF_vars(PendSV)
  /\ \A c \in Tasks : WF_vars(RtosSched(c)) /\ WF_vars(RtosRequestSwitch(c))

FairSpec == Spec /\ Fairness

-----------------------------------------------------------------------------
\* Properties

\* The variables keep the types of the C objects they stand for; in particular
\* sched_lock never drops below zero (rtos_sched_unlock) and tick_count wraps.
TypeOK ==
  /\ k \in Kernel
  /\ isr \in {"none", "tick"}
  /\ pc \in [Threads -> Labels] /\ ret \in [Threads -> Labels]
  /\ arg \in [Threads -> Locals]
  /\ handles \in SUBSET Tasks

Live == handles \cup {Idle}

ReadyOnce     == \A p \in Prio : Distinct(k.ready_list[p])
ReadySound    == \A p \in Prio : \A t \in ToSet(k.ready_list[p]) :
                   t \in Live /\ k.priority[t] = p /\ k.state[t] \in OnReadyList
ReadyComplete == \A t \in Live :
                   k.state[t] \in OnReadyList => t \in ToSet(k.ready_list[k.priority[t]])
MapExact      == \A p \in Prio : p \in k.ready_map <=> k.ready_list[p] # <<>>

\* The ready queues and the states of the tasks agree: a task whose state is
\* READY or RUNNING is linked exactly once, on the list of its priority, no other
\* task is on any of them, and ready_map has the bits of the non-empty ones.
ReadyConsistent == ReadyOnce /\ ReadySound /\ ReadyComplete /\ MapExact

\* A task on a delay list is BLOCKED and is there once; a BLOCKED task can still
\* be woken, by the tick or by an event.
DelayConsistent ==
  /\ Distinct(k.delay_list) /\ Distinct(k.overflow_list)
  /\ ToSet(k.delay_list) \cap ToSet(k.overflow_list) = {}
  /\ \A t \in Threads : OnDelayList(k, t) => t \in handles /\ k.state[t] = "BLOCKED"
  /\ \A t \in handles : k.state[t] = "BLOCKED" =>
                          OnDelayList(k, t) \/ k.event_list[t] # NoList

Ascending(s) == \A i, j \in DOMAIN s : i < j => k.wake_tick[s[i]] <= k.wake_tick[s[j]]

\* The two delay lists are what makes the wrap of tick_count harmless: both are
\* sorted as plain integers, all of the active one lies ahead of tick_count, and
\* all of the other one lies behind it, to be reached after the wrap.
DelayWindows ==
  /\ Ascending(k.delay_list) /\ Ascending(k.overflow_list)
  /\ \A t \in ToSet(k.delay_list)    : \/ k.wake_tick[t] > k.tick_count
                                       \/ k.wake_tick[t] = k.tick_count /\ isr = "tick"
  /\ \A t \in ToSet(k.overflow_list) : k.wake_tick[t] < k.tick_count

\* No TCB slot is given out twice: a free slot is on no list and nobody is about
\* to make it ready or to free it, and a self-deleted task waits for the idle
\* task exactly once and is out of the application's reach.
PoolConsistent ==
  /\ handles \subseteq k.used
  /\ Distinct(k.terminated_list)
  /\ \A t \in ToSet(k.terminated_list) :
       t \in k.used \ handles /\ k.state[t] = "DELETED" /\ ~OnDelayList(k, t)
  /\ pc[Idle] = "free" =>
       arg[Idle] \in k.used \ (handles \cup ToSet(k.terminated_list))
  /\ \A c \in handles : pc[c] = "create" => arg[c] \in k.used \ handles
  /\ \A c, d \in handles : pc[c] = "create" /\ pc[d] = "create" /\ arg[c] = arg[d] => c = d

\* Only the current task is RUNNING: rtos_switch_context takes the state away from
\* the task it switches out.
RunningIsCurrent == \A t \in Threads : k.state[t] = "RUNNING" => t = k.current

\* When the processor goes on with a task that is not the first of the highest
\* priority, a switch is on its way: pending, about to be requested by the
\* running task, or remembered in need_resched until the lock is released.
NoMissedSwitch ==
  isr = "none" /\ ~k.pend_sv /\ k.current # PickHighestReady(k) =>
    \/ pc[k.current] \in {"sched", "pend", "created"}
    \/ k.sched_lock > 0 /\ k.need_resched

\* While a task holds the scheduler lock no other task gets the processor, however
\* many ticks, wake-ups and requests to switch there are (rtos_sched).
LockHoldsCpu == [][k.sched_lock > 0 /\ k'.sched_lock > 0 => k'.current = k.current]_vars

\* The kernel's delays as the timers of module Timers.
Sleeping == INSTANCE Timers WITH
  Horizon <- TickMod \div 2 - 1,
  left    <- [t \in Threads |-> IF OnDelayList(k, t)
                                THEN (k.wake_tick[t] - k.tick_count) % TickMod
                                ELSE -1]

\* The two delay lists of rtos_task_delay and rtos_tick_handler implement Timers:
\* a sleeping task is woken by exactly the tick it asked for.
DelaysAreExact == Sleeping!Spec

\* A task on a delay list does not stay there: rtos_tick_handler gets to it.
DelayEnds == \A t \in Tasks : OnDelayList(k, t) ~> ~OnDelayList(k, t)

TopReady(t) ==
  /\ t \in handles /\ k.state[t] \in OnReadyList
  /\ \A u \in handles : k.state[u] \in OnReadyList => k.priority[u] <= k.priority[t]

\* Tasks of one priority take turns: one that is ready, with none of a higher
\* priority ready, gets the processor without having to wait for another to yield
\* (rtos_sched_time_slice).  Priority 0 is left out: the idle task has it, is never
\* rotated (tick.c), and starves the others of that priority.
RoundRobin ==
  \A t \in Tasks : TopReady(t) /\ k.priority[t] > 0 ~> (k.current = t \/ ~TopReady(t))

=============================================================================
