------------------------------- MODULE RtosTick -------------------------------
(***************************************************************************)
(* The two delay lists and the tick handler (tick.c), and the event lists  *)
(* a task can block on (the helpers of queue.c).                           *)
(*                                                                         *)
(* The handler's loop over the delay list is three operators, TickBegin,   *)
(* TickWake (one iteration) and TickEnd: they run in one critical section  *)
(* and nothing happens between them.                                       *)
(***************************************************************************)
EXTENDS RtosSched

\* (int32_t)(a - b), compared with zero: the sign of a difference of ticks.
NotBefore(a, b) == (a - b) % TickMod < TickMod \div 2
After(a, b)     == a # b /\ NotBefore(a, b)

-----------------------------------------------------------------------------
\* Delay lists

InsertByWakeTick(k, s, t) ==
  InsertBefore(s, t, SelectInSeq(s, LAMBDA p : After(k.wake_tick[p], k.wake_tick[t])))

\* Arm t's wake-up ticks from now: on the overflow list if the sum wrapped.
DelayInsert(k, t, ticks) ==
  LET w     == (k.tick_count + ticks) % TickMod
      armed == [k EXCEPT !.wake_tick[t] = w]
  IN  IF w < k.tick_count
      THEN [armed EXCEPT !.overflow_list = InsertByWakeTick(armed, @, t)]
      ELSE [armed EXCEPT !.delay_list    = InsertByWakeTick(armed, @, t)]

DelayRemove(k, t) ==
  [k EXCEPT !.delay_list    = Unlink(@, t),
            !.overflow_list = Unlink(@, t)]

OnDelayList(k, t) == t \in ToSet(k.delay_list) \cup ToSet(k.overflow_list)

-----------------------------------------------------------------------------
\* Event lists

EventRemove(k, t) ==
  LET e == k.event_list[t] IN
  IF e = NoList
  THEN k
  ELSE [k EXCEPT !.waiting[e] = Unlink(@, t), !.event_list[t] = NoList]

\* Mutant: a task joins the tail of the list whatever its priority.
EventInsertAtTail(k, e, t) ==
  [k EXCEPT !.event_list[t] = e, !.waiting[e] = Append(@, t)]

\* Mutant: a task joins the list before its equals.
EventInsertBeforeEquals(k, e, t) ==
  [k EXCEPT !.event_list[t] = e,
            !.waiting[e] =
              InsertBefore(@, t, SelectInSeq(@, LAMBDA p : k.priority[t] >= k.priority[p]))]

\* prv_insert_task_to_event_list: by priority, first come first served.
EventInsert(k, e, t) ==
  [k EXCEPT !.event_list[t] = e,
            !.waiting[e] =
              InsertBefore(@, t, SelectInSeq(@, LAMBDA p : k.priority[t] > k.priority[p]))]

\* prv_block_current_task, with the timeout RTOS_WAIT_FOREVER or a number of ticks.
Forever == -1

BlockCurrent(k, e, timeout) ==
  LET t      == k.current
      queued == EventInsert(k, e, t)
      timed  == IF timeout = Forever THEN queued ELSE DelayInsert(queued, t, timeout)
  IN  TaskUnready([timed EXCEPT !.state[t] = "BLOCKED"], t)

FirstWaiting(k, e) == IF k.waiting[e] = <<>> THEN NoTask ELSE Head(k.waiting[e])

\* prv_wake_highest_from_event_list: the woken task is FirstWaiting(k, e).
WakeHighest(k, e) ==
  LET t == FirstWaiting(k, e) IN
  IF t = NoTask
  THEN k
  ELSE TaskReady(
         DelayRemove([k EXCEPT !.waiting[e]       = Tail(@),
                               !.event_list[t]    = NoList,
                               !.wakeup_reason[t] = 1], t), t)

IsMutex(q) == QueueType[q] \in {"MUTEX", "RECURSIVE"}

\* Mutant: the mutex of a deleted task is released and its waiters are not woken.
ReleaseHeldWakesNobody(k, t) ==
  LET q     == k.held_queue[t]
      unset == [k EXCEPT !.held_queue[t] = NoQueue]
  IN  IF q = NoQueue
      THEN k
      ELSE [unset EXCEPT !.original_priority[q] = NotBoosted, !.recursive_count[q] = 0,
                         !.messages_waiting[q] = 1, !.mutex_holder[q] = NoTask]

\* rtos_queue_release_held: the mutex that held_queue names is passed on.
ReleaseHeld(k, t) ==
  LET q     == k.held_queue[t]
      e     == <<q, "receive">>
      heir  == FirstWaiting(k, e)
      unset == [k EXCEPT !.held_queue[t] = NoQueue]
      clear == [unset EXCEPT
                  !.recursive_count[q]   = IF QueueType[q] = "RECURSIVE" THEN 0 ELSE @,
                  !.original_priority[q] = NotBoosted]
  IN  IF q = NoQueue
      THEN k
      ELSE IF ~IsMutex(q)
      THEN unset
      ELSE IF heir = NoTask
      THEN [clear EXCEPT !.messages_waiting[q] = 1, !.mutex_holder[q] = NoTask]
      ELSE [WakeHighest(clear, e) EXCEPT !.mutex_holder[q]  = heir,
                                         !.held_queue[heir] = q]

-----------------------------------------------------------------------------
\* rtos_tick_handler

\* Mutant: the lists are not swapped when tick_count wraps.
TickBeginNoSwap(k) == [k EXCEPT !.tick_count = (@ + 1) % TickMod]

TickBegin(k) ==
  LET now == (k.tick_count + 1) % TickMod IN
  IF now = 0
  THEN [k EXCEPT !.tick_count = now, !.delay_list = k.overflow_list,
                 !.overflow_list = k.delay_list]
  ELSE [k EXCEPT !.tick_count = now]

\* Mutant: a task is woken one tick late.
HeadExpiredLate(k) ==
  /\ k.delay_list # <<>>
  /\ After(k.tick_count, k.wake_tick[Head(k.delay_list)])

\* The loop goes on while the head of the list has expired.
HeadExpired(k) ==
  /\ k.delay_list # <<>>
  /\ NotBefore(k.tick_count, k.wake_tick[Head(k.delay_list)])

\* Mutant: a task whose wait times out stays on the event list.
TickWakeKeepsEvent(k) ==
  LET t     == Head(k.delay_list)
      awake == [k EXCEPT !.delay_list       = Tail(@),
                         !.wake_tick[t]     = 0,
                         !.wakeup_reason[t] = 2]
      ready == TaskReady(awake, t)
  IN  IF k.priority[t] > k.priority[k.current]
      THEN [ready EXCEPT !.need_resched = TRUE]
      ELSE ready

TickWake(k) ==
  LET t     == Head(k.delay_list)
      awake == [k EXCEPT !.delay_list       = Tail(@),
                         !.wake_tick[t]     = 0,
                         !.wakeup_reason[t] = 2]
      ready == TaskReady(EventRemove(awake, t), t)
  IN  IF k.priority[t] > k.priority[k.current]
      THEN [ready EXCEPT !.need_resched = TRUE]
      ELSE ready

TickEnd(k) ==
  Sched(IF k.current = Idle THEN k ELSE SchedTimeSlice(k, k.current))

=============================================================================
