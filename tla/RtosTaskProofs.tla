---------------------------- MODULE RtosTaskProofs ----------------------------
(***************************************************************************)
(* Theorems about RtosTask, for any number of tasks, priorities, ticks and *)
(* levels of the scheduler lock.                                           *)
(*                                                                         *)
(* The inductive invariant has a part about the kernel, KernelInv, which   *)
(* every operator of task.c, sched.c and tick.c is shown to preserve, and  *)
(* a part about where the threads are in their calls, ThreadInv.           *)
(***************************************************************************)
EXTENDS RtosTask, ListLemmas

-----------------------------------------------------------------------------
\* Lists and priorities

\* Max returns the greatest of a set of priorities: rtos_pick_highest_ready finds it
\* by counting leading zeros.
LEMMA MaxElement ==
  ASSUME NEW P \in SUBSET Prio, P # {}
  PROVE  Max(P) \in P /\ \A y \in P : Max(P) >= y
<1> DEFINE I == {MaxPriorities - 1 - p : p \in P}
<1>1. MaxPriorities \in Nat
  BY PriorityAssumption
<1>2. \A p \in P : p \in Nat /\ MaxPriorities - 1 - p \in Nat
  BY <1>1 DEF Prio
<1>3. I \in SUBSET Nat /\ I # {}
  BY <1>2
<1>4. Min(I) \in I /\ \A y \in I : Min(I) <= y
  <2> HIDE DEF I
  <2> QED BY <1>3, MinElement
<1>5. PICK p \in P : Min(I) = MaxPriorities - 1 - p
  BY <1>4
<1>6. \A y \in P : Min(I) <= MaxPriorities - 1 - y
  BY <1>4
<1>7. \A y \in P : p >= y
  BY <1>1, <1>2, <1>5, <1>6
<1> QED BY <1>7 DEF Max

\* The delay lists: rtos_task_delay links the task once, wherever it finds its place.
LEMMA InsertByWakeTickDistinct ==
  ASSUME NEW a, NEW s \in Seq(Threads), NEW t \in Threads
  PROVE  /\ InsertByWakeTick(a, s, t) \in Seq(Threads)
         /\ ToSet(InsertByWakeTick(a, s, t)) = ToSet(s) \cup {t}
         /\ Distinct(s) /\ t \notin ToSet(s) => Distinct(InsertByWakeTick(a, s, t))
<1> DEFINE I == {i \in 1 .. Len(s) : After(a.wake_tick[s[i]], a.wake_tick[t])}
<1>1. InsertByWakeTick(a, s, t) = IF I # {} /\ Min(I) # 0 THEN InsertAt(s, Min(I), t)
                                            ELSE Append(s, t)
  BY Zenon DEF InsertByWakeTick, InsertBefore, SelectInSeq
<1>2. ASSUME I # {} PROVE Min(I) \in 1 .. Len(s)
  <2>1. I \in SUBSET Nat /\ I \subseteq 1 .. Len(s)
    OBVIOUS
  <2> HIDE DEF I
  <2> QED BY <1>2, <2>1, MinElement
<1> HIDE DEF I
<1>3. CASE I # {} /\ Min(I) # 0
  BY <1>1, <1>2, <1>3, InsertAtDistinct
<1>4. CASE ~(I # {} /\ Min(I) # 0)
  BY <1>1, <1>4, AppendDistinct
<1> QED BY <1>3, <1>4

\* The application keeps to what rtos_task_yield expects: it yields when it is ready.
YieldsReady == YieldBlocked = FALSE

-----------------------------------------------------------------------------
\* The inductive invariant

\* The ready queues are well formed whatever the states of the tasks are: they hold
\* between two operators of one critical section too.
ReadyListsOK(s) ==
  /\ \A p \in Prio : Distinct(s.ready_list[p])
  /\ \A p \in Prio : \A t \in ToSet(s.ready_list[p]) : s.priority[t] = p
  /\ \A p \in Prio : p \in s.ready_map <=> s.ready_list[p] # <<>>

Queued(s) == {t \in Threads : t \in ToSet(s.ready_list[s.priority[t]])}

DelayListsOK(s) ==
  /\ Distinct(s.delay_list) /\ Distinct(s.overflow_list)
  /\ ToSet(s.delay_list) \cap ToSet(s.overflow_list) = {}

Delayed(s) == ToSet(s.delay_list) \cup ToSet(s.overflow_list)

\* The event_list of a task names the list that links it.
EventsOK(s) ==
  /\ \A e \in EventLists : Distinct(s.waiting[e])
  /\ \A e \in EventLists : \A t \in Threads : s.event_list[t] = e <=> t \in ToSet(s.waiting[e])

Waiting(s) == {t \in Threads : s.event_list[t] # NoList}

ListsOK(s) == s \in Kernel /\ ReadyListsOK(s) /\ DelayListsOK(s) /\ EventsOK(s)

\* The lists, the states and the TCB pool when the application has the handles H.
KernelCore(s, H) ==
  /\ ListsOK(s) /\ H \subseteq s.used
  /\ Queued(s) = {t \in H \cup {Idle} : s.state[t] \in OnReadyList}
  /\ Delayed(s) \cup Waiting(s) = {t \in H : s.state[t] = "BLOCKED"}
  /\ s.state[Idle] \in OnReadyList
  /\ \A t \in Threads : s.state[t] = "RUNNING" => t = s.current
  /\ Distinct(s.terminated_list)
  /\ ToSet(s.terminated_list) \subseteq s.used \ H
  /\ \A t \in ToSet(s.terminated_list) : s.state[t] = "DELETED"

\* The running task is the application's or has just deleted itself.
KernelInv(s, H) ==
  KernelCore(s, H) /\ s.current \in H \cup {Idle} \cup ToSet(s.terminated_list)

\* The slots that are neither free nor the application's nor terminated: somebody
\* is about to publish them or to free them.
Limbo == k.used \ (handles \cup ToSet(k.terminated_list))

\* Where a thread can be in the calls of task.h, queue.h and mutex.h.
AllLabels == Labels \cup {"wait", "woken", "take", "count", "give"}

ThreadTypes ==
  /\ isr \in {"none", "tick"}
  /\ pc \in [Threads -> AllLabels] /\ ret \in [Threads -> AllLabels]
  /\ arg \in [Threads -> Locals]
  /\ handles \in SUBSET Tasks

\* Each slot in limbo has at most one thread that has it in arg.
SlotsInv ==
  /\ pc[Idle] \in {"run", "free"}
  /\ pc[Idle] = "free" => arg[Idle] \in Limbo
  /\ \A c \in Tasks : pc[c] = "create" =>
       /\ arg[c] \in Limbo
       /\ pc[Idle] = "free" => arg[Idle] # arg[c]
       /\ \A d \in Tasks : pc[d] = "create" /\ arg[d] = arg[c] => d = c

LocalsInv ==
  /\ \A c \in Tasks : pc[c] \in {"created", "woken"} => arg[c] \in Tasks
  /\ \A c \in Tasks : pc[c] = "until" => arg[c] \in Nat
  /\ \A c \in Tasks : ret[c] \in {"run", "dead", "wait"}

\* A task that deleted itself does nothing more than ask for the switch.
DyingInv ==
  \A t \in ToSet(k.terminated_list) :
    \/ pc[t] = "dead"
    \/ pc[t] \in {"sched", "pend"} /\ ret[t] = "dead"

\* No request to switch is outstanding while the scheduler is locked.
LockInv == k.sched_lock > 0 => ~k.pend_sv /\ pc[k.current] # "pend"

ThreadInv == ThreadTypes /\ SlotsInv /\ LocalsInv /\ DyingInv /\ LockInv

IInv == KernelInv(k, handles) /\ ThreadInv

-----------------------------------------------------------------------------
\* What the operators leave alone

SameDelays(s, r) == r.delay_list = s.delay_list /\ r.overflow_list = s.overflow_list

SameTicks(s, r) ==
  SameDelays(s, r) /\ r.tick_count = s.tick_count /\ r.wake_tick = s.wake_tick

SameEvents(s, r) == r.waiting = s.waiting /\ r.event_list = s.event_list

SameWaits(s, r) ==
  SameEvents(s, r) /\ Delayed(r) = Delayed(s) /\ r.wakeup_reason = s.wakeup_reason

SameQueued(s, r) ==
  r.ready_list = s.ready_list /\ r.ready_map = s.ready_map /\ r.priority = s.priority

\* The queue objects and the mutex that each task holds.
SameObjects(s, r) ==
  /\ r.held_queue = s.held_queue /\ r.messages_waiting = s.messages_waiting
  /\ r.mutex_holder = s.mutex_holder /\ r.original_priority = s.original_priority
  /\ r.recursive_count = s.recursive_count

\* All of them but the priority that a holder goes back to.
SameHolders(s, r) ==
  /\ r.held_queue = s.held_queue /\ r.messages_waiting = s.messages_waiting
  /\ r.mutex_holder = s.mutex_holder /\ r.recursive_count = s.recursive_count

SameRest(s, r) ==
  /\ r.tick_count = s.tick_count /\ r.sched_lock = s.sched_lock
  /\ r.need_resched = s.need_resched /\ r.pend_sv = s.pend_sv
  /\ r.current = s.current /\ r.used = s.used
  /\ r.terminated_list = s.terminated_list

SameLists(s, r) == SameQueued(s, r) /\ SameDelays(s, r) /\ SameEvents(s, r)

\* r differs from s in ticks, slices, objects and the flags of the scheduler at most.
SameCore(s, r) ==
  /\ SameLists(s, r) /\ r.state = s.state
  /\ r.used = s.used /\ r.terminated_list = s.terminated_list
  /\ r.current = s.current

\* r is s with Q queued, D delayed, W waiting and the states st, and nothing else
\* that matters.
Effect(s, r, Q, D, W, st) ==
  /\ ListsOK(r) /\ SameRest(s, r) /\ SameObjects(s, r)
  /\ Queued(r) = Q /\ Delayed(r) = D /\ Waiting(r) = W /\ r.state = st

LEMMA SameListsOK ==
  ASSUME NEW s, ListsOK(s), NEW r \in Kernel, SameLists(s, r)
  PROVE  /\ ListsOK(r) /\ Queued(r) = Queued(s)
         /\ Delayed(r) = Delayed(s) /\ Waiting(r) = Waiting(s)
<1>1. ReadyListsOK(r) /\ Queued(r) = Queued(s)
  BY DEF ListsOK, SameLists, SameQueued, ReadyListsOK, Queued
<1>2. DelayListsOK(r) /\ Delayed(r) = Delayed(s)
  BY DEF ListsOK, SameLists, SameDelays, DelayListsOK, Delayed
<1>3. EventsOK(r) /\ Waiting(r) = Waiting(s)
  BY DEF ListsOK, SameLists, SameEvents, EventsOK, Waiting
<1> QED BY <1>1, <1>2, <1>3 DEF ListsOK

LEMMA FrameEffect ==
  ASSUME NEW s, ListsOK(s), NEW r \in Kernel, SameLists(s, r), SameRest(s, r),
         SameObjects(s, r)
  PROVE  Effect(s, r, Queued(s), Delayed(s), Waiting(s), r.state)
BY SameListsOK DEF Effect

LEMMA NoListIsNone == NoList \notin EventLists
<1>1. ASSUME NEW e \in EventLists PROVE Len(e) = 2
  BY SMTT(40) DEF EventLists
<1> QED BY <1>1 DEF NoList

\* rtos_task_ready links the task at the tail of its priority's list.
LEMMA TaskReadyFields ==
  ASSUME NEW s \in Kernel, NEW t \in Threads
  PROVE  LET r == TaskReady(s, t)
             p == s.priority[t]
         IN  /\ r \in Kernel /\ SameDelays(s, r) /\ SameEvents(s, r)
             /\ SameRest(s, r) /\ SameObjects(s, r)
             /\ r.priority = s.priority /\ r.wake_tick = s.wake_tick
             /\ r.wakeup_reason = s.wakeup_reason
             /\ r.state = [s.state EXCEPT ![t] = "READY"]
             /\ r.ready_map = s.ready_map \cup {p}
             /\ r.ready_list = [s.ready_list EXCEPT ![p] = Append(@, t)]
<1>1. s.priority[t] \in Prio
  BY DEF Kernel
<1>2. Append(s.ready_list[s.priority[t]], t) \in Seq(Threads)
  BY <1>1, AppendProperties DEF Kernel
<1>3. TaskReady(s, t) \in Kernel
  BY <1>1, <1>2 DEF Kernel, TaskReady, TaskState
<1> QED BY ZenonT(60), <1>1, <1>3 DEF Kernel, TaskReady, SameDelays, SameEvents, SameRest, SameObjects

LEMMA TaskReadyQueues ==
  ASSUME NEW s \in Kernel, NEW t \in Threads, ReadyListsOK(s), t \notin Queued(s)
  PROVE  ReadyListsOK(TaskReady(s, t)) /\ Queued(TaskReady(s, t)) = Queued(s) \cup {t}
<1> DEFINE r == TaskReady(s, t)
           p == s.priority[t]
<1>1. /\ r.priority = s.priority /\ r.ready_map = s.ready_map \cup {p}
      /\ r.ready_list = [s.ready_list EXCEPT ![p] = Append(@, t)]
  BY TaskReadyFields
<1>2. p \in Prio /\ s.ready_list \in [Prio -> Seq(Threads)] /\ s.priority \in [Threads -> Prio]
  BY DEF Kernel
<1>3. t \notin ToSet(s.ready_list[p])
  BY <1>2 DEF Queued
<1>4. /\ Distinct(r.ready_list[p]) /\ r.ready_list[p] # <<>>
      /\ ToSet(r.ready_list[p]) = ToSet(s.ready_list[p]) \cup {t}
  BY SMTT(40), <1>1, <1>2, <1>3, AppendDistinct DEF ReadyListsOK
<1>5. \A q \in Prio \ {p} : r.ready_list[q] = s.ready_list[q]
  BY SMTT(40), <1>1, <1>2
<1> HIDE DEF r
<1>6. ReadyListsOK(r)
  BY <1>1, <1>2, <1>4, <1>5 DEF ReadyListsOK
<1>7. Queued(r) = Queued(s) \cup {t}
  BY <1>1, <1>2, <1>3, <1>4, <1>5 DEF Queued
<1> QED BY <1>6, <1>7 DEF r

\* rtos_task_unready unlinks the task, and clears the bit of a list left empty.
LEMMA TaskUnreadyFields ==
  ASSUME NEW s \in Kernel, NEW t \in Threads, ReadyListsOK(s)
  PROVE  LET r == TaskUnready(s, t)
             p == s.priority[t]
         IN  /\ r \in Kernel /\ SameDelays(s, r) /\ SameEvents(s, r)
             /\ SameRest(s, r) /\ SameObjects(s, r)
             /\ r.priority = s.priority /\ r.wake_tick = s.wake_tick
             /\ r.wakeup_reason = s.wakeup_reason
             /\ r.state = s.state
             /\ r.ready_list = [q \in Prio |-> Unlink(s.ready_list[q], t)]
             /\ r.ready_map = IF r.ready_list[p] = <<>> THEN s.ready_map \ {p}
                                                       ELSE s.ready_map
<1>1. s.priority[t] \in Prio
  BY DEF Kernel
<1>2. [q \in Prio |-> Unlink(s.ready_list[q], t)] \in [Prio -> Seq(Threads)]
  BY UnlinkDistinct DEF Kernel, ReadyListsOK
<1> DEFINE l == [q \in Prio |-> Unlink(s.ready_list[q], t)]
           m == IF l[s.priority[t]] = <<>> THEN s.ready_map \ {s.priority[t]} ELSE s.ready_map
           r == TaskUnready(s, t)
<1>3. r = [s EXCEPT !.ready_list = l, !.ready_map = m]
  BY DEF TaskUnready
<1>4. l \in [Prio -> Seq(Threads)] /\ m \in SUBSET Prio
  BY <1>1, <1>2 DEF Kernel
<1> HIDE DEF l, m, r
<1>5. /\ r \in Kernel /\ r.ready_list = l /\ r.ready_map = m
      /\ SameDelays(s, r) /\ SameEvents(s, r) /\ SameRest(s, r) /\ SameObjects(s, r)
      /\ r.priority = s.priority /\ r.wake_tick = s.wake_tick
      /\ r.wakeup_reason = s.wakeup_reason /\ r.state = s.state
  BY <1>3, <1>4 DEF Kernel, SameDelays, SameEvents, SameRest, SameObjects
<1> QED BY <1>5 DEF r, l, m

LEMMA TaskUnreadyQueues ==
  ASSUME NEW s \in Kernel, NEW t \in Threads, ReadyListsOK(s)
  PROVE  ReadyListsOK(TaskUnready(s, t)) /\ Queued(TaskUnready(s, t)) = Queued(s) \ {t}
<1> DEFINE r == TaskUnready(s, t)
           p == s.priority[t]
<1>1. /\ r.priority = s.priority
      /\ r.ready_list = [q \in Prio |-> Unlink(s.ready_list[q], t)]
      /\ r.ready_map = IF r.ready_list[p] = <<>> THEN s.ready_map \ {p} ELSE s.ready_map
  BY TaskUnreadyFields
<1>2. p \in Prio /\ s.ready_list \in [Prio -> Seq(Threads)] /\ s.priority \in [Threads -> Prio]
  BY DEF Kernel
<1>3. \A q \in Prio : /\ Distinct(r.ready_list[q])
                      /\ ToSet(r.ready_list[q]) = ToSet(s.ready_list[q]) \ {t}
  BY <1>1, <1>2, UnlinkDistinct DEF ReadyListsOK
<1>4. \A q \in Prio \ {p} : r.ready_list[q] = s.ready_list[q]
  BY <1>1, <1>2, UnlinkAbsent DEF ReadyListsOK
<1>5. r.ready_list[p] # <<>> => s.ready_list[p] # <<>>
  <2>1. s.ready_list[p] = <<>> => t \notin ToSet(s.ready_list[p])
    BY DEF ToSet
  <2> QED BY <1>1, <1>2, <2>1, UnlinkAbsent
<1> HIDE DEF r
<1>6. ReadyListsOK(r)
  <2>1. \A q \in Prio : Distinct(r.ready_list[q])
    BY <1>3
  <2>2. \A q \in Prio : \A u \in ToSet(r.ready_list[q]) : r.priority[u] = q
    BY <1>1, <1>3 DEF ReadyListsOK
  <2>3. ASSUME NEW q \in Prio
        PROVE  q \in r.ready_map <=> r.ready_list[q] # <<>>
    <3>1. q \in s.ready_map <=> s.ready_list[q] # <<>>
      BY DEF ReadyListsOK
    <3>2. CASE q = p
      BY <1>1, <1>5, <3>1, <3>2
    <3>3. CASE q # p
      BY <1>1, <1>4, <3>1, <3>3
    <3> QED BY <3>2, <3>3
  <2> QED BY <2>1, <2>2, <2>3, Zenon DEF ReadyListsOK
<1>7. Queued(r) = Queued(s) \ {t}
  <2>1. \A x \in Threads : x \in Queued(r) <=> x \in Queued(s) \ {t}
    BY <1>1, <1>2, <1>3 DEF Queued
  <2> QED BY <2>1 DEF Queued
<1> QED BY <1>6, <1>7 DEF r

\* Rotating a linked task to the tail of its list keeps the list of the linked ones.
LEMMA RotateToTailFields ==
  ASSUME NEW s \in Kernel, NEW t \in Threads, ReadyListsOK(s), t \in Queued(s)
  PROVE  LET r == RotateToTail(s, t)
         IN  /\ r \in Kernel /\ SameDelays(s, r) /\ SameEvents(s, r)
             /\ SameRest(s, r) /\ SameObjects(s, r)
             /\ r.priority = s.priority /\ r.wake_tick = s.wake_tick
             /\ r.wakeup_reason = s.wakeup_reason
             /\ r.state = s.state /\ r.ready_map = s.ready_map
             /\ ReadyListsOK(r) /\ Queued(r) = Queued(s)
<1> DEFINE r == RotateToTail(s, t)
           p == s.priority[t]
           l == [q \in Prio |-> IF q = p THEN Append(Unlink(s.ready_list[q], t), t)
                                         ELSE Unlink(s.ready_list[q], t)]
<1>1. p \in Prio /\ s.ready_list \in [Prio -> Seq(Threads)] /\ s.priority \in [Threads -> Prio]
  BY DEF Kernel
<1>2. t \in ToSet(s.ready_list[p]) /\ s.ready_list[p] # <<>>
  <2>1. t \in ToSet(s.ready_list[p])
    BY DEF Queued
  <2> QED BY <2>1 DEF ToSet
<1>3. \A q \in Prio : /\ Unlink(s.ready_list[q], t) \in Seq(Threads)
                      /\ Distinct(Unlink(s.ready_list[q], t))
                      /\ ToSet(Unlink(s.ready_list[q], t)) = ToSet(s.ready_list[q]) \ {t}
  BY <1>1, UnlinkDistinct DEF ReadyListsOK
<1>4. \A q \in Prio \ {p} : Unlink(s.ready_list[q], t) = s.ready_list[q]
  BY <1>1, UnlinkAbsent DEF ReadyListsOK
<1>5. /\ l[p] \in Seq(Threads) /\ l[p] # <<>> /\ Distinct(l[p])
      /\ ToSet(l[p]) = ToSet(s.ready_list[p])
  <2> DEFINE u == Unlink(s.ready_list[p], t)
  <2>1. u \in Seq(Threads) /\ Distinct(u) /\ ToSet(u) = ToSet(s.ready_list[p]) \ {t}
    BY <1>1, <1>3
  <2>2. l[p] = Append(u, t)
    BY <1>1
  <2> HIDE DEF u, l
  <2>3. /\ Append(u, t) \in Seq(Threads) /\ Append(u, t) # <<>> /\ Distinct(Append(u, t))
        /\ ToSet(Append(u, t)) = ToSet(u) \cup {t}
    BY <2>1, AppendDistinct
  <2> QED BY <1>2, <2>1, <2>2, <2>3
<1>6. \A q \in Prio \ {p} : l[q] = s.ready_list[q]
  BY <1>4
<1>7. l \in [Prio -> Seq(Threads)]
  BY <1>1, <1>5, <1>6
<1>8. r = [s EXCEPT !.time_slice[t] = TimeSliceTicks, !.ready_list = l]
  BY DEF RotateToTail
<1> HIDE DEF l
<1>9. r \in Kernel
  <2>1. TimeSliceTicks \in 0 .. TimeSliceTicks
    BY SliceAssumption
  <2>2. [s.time_slice EXCEPT ![t] = TimeSliceTicks] \in [Threads -> 0 .. TimeSliceTicks]
    BY <2>1 DEF Kernel
  <2>3. r = [s EXCEPT !.time_slice = [s.time_slice EXCEPT ![t] = TimeSliceTicks],
                      !.ready_list = l]
    BY <1>8
  <2> DEFINE slice == [s.time_slice EXCEPT ![t] = TimeSliceTicks]
  <2> HIDE DEF slice, r
  <2> QED BY <1>7, <2>2, <2>3 DEF Kernel, slice
<1>10. /\ r.ready_list = l /\ r.priority = s.priority /\ r.wake_tick = s.wake_tick
       /\ r.wakeup_reason = s.wakeup_reason
       /\ r.state = s.state /\ r.ready_map = s.ready_map
       /\ SameDelays(s, r) /\ SameEvents(s, r)
       /\ SameRest(s, r) /\ SameObjects(s, r)
  BY <1>8 DEF Kernel, SameDelays, SameEvents, SameRest, SameObjects
<1> HIDE DEF r
<1>11. ReadyListsOK(r)
  <2>1. /\ \A q \in Prio : Distinct(l[q])
        /\ \A q \in Prio : \A u \in ToSet(l[q]) : s.priority[u] = q
    BY <1>1, <1>5, <1>6 DEF ReadyListsOK
  <2>2. \A q \in Prio : q \in s.ready_map <=> l[q] # <<>>
    BY <1>1, <1>2, <1>5, <1>6 DEF ReadyListsOK
  <2> QED BY <1>10, <2>1, <2>2 DEF ReadyListsOK
<1>12. Queued(r) = Queued(s)
  BY <1>1, <1>5, <1>6, <1>10 DEF Queued
<1> QED BY <1>9, <1>10, <1>11, <1>12 DEF r

-----------------------------------------------------------------------------
\* What the operators change

LEMMA TaskReadyEffect ==
  ASSUME NEW s, ListsOK(s), NEW t \in Threads, t \notin Queued(s)
  PROVE  Effect(s, TaskReady(s, t), Queued(s) \cup {t}, Delayed(s), Waiting(s),
                [s.state EXCEPT ![t] = "READY"])
<1> DEFINE r == TaskReady(s, t)
<1>1. /\ r \in Kernel /\ SameDelays(s, r) /\ SameEvents(s, r) /\ SameRest(s, r)
      /\ SameObjects(s, r) /\ r.state = [s.state EXCEPT ![t] = "READY"]
  BY TaskReadyFields DEF ListsOK
<1>2. ReadyListsOK(r) /\ Queued(r) = Queued(s) \cup {t}
  BY TaskReadyQueues DEF ListsOK
<1> HIDE DEF r
<1>3. /\ DelayListsOK(r) /\ Delayed(r) = Delayed(s)
      /\ EventsOK(r) /\ Waiting(r) = Waiting(s)
  BY <1>1 DEF ListsOK, DelayListsOK, EventsOK, Waiting, Delayed, SameDelays, SameEvents
<1> QED BY <1>1, <1>2, <1>3 DEF Effect, ListsOK, r

LEMMA TaskUnreadyEffect ==
  ASSUME NEW s, ListsOK(s), NEW t \in Threads
  PROVE  Effect(s, TaskUnready(s, t), Queued(s) \ {t}, Delayed(s), Waiting(s), s.state)
<1> DEFINE r == TaskUnready(s, t)
<1>1. /\ r \in Kernel /\ SameDelays(s, r) /\ SameEvents(s, r) /\ SameRest(s, r)
      /\ SameObjects(s, r) /\ r.state = s.state
  BY TaskUnreadyFields DEF ListsOK
<1>2. ReadyListsOK(r) /\ Queued(r) = Queued(s) \ {t}
  BY TaskUnreadyQueues DEF ListsOK
<1> HIDE DEF r
<1>3. /\ DelayListsOK(r) /\ Delayed(r) = Delayed(s)
      /\ EventsOK(r) /\ Waiting(r) = Waiting(s)
  BY <1>1 DEF ListsOK, DelayListsOK, EventsOK, Waiting, Delayed, SameDelays, SameEvents
<1> QED BY <1>1, <1>2, <1>3 DEF Effect, ListsOK, r

LEMMA RotateToTailEffect ==
  ASSUME NEW s, ListsOK(s), NEW t \in Queued(s)
  PROVE  Effect(s, RotateToTail(s, t), Queued(s), Delayed(s), Waiting(s), s.state)
<1> DEFINE r == RotateToTail(s, t)
<1>1. t \in Threads
  BY DEF Queued
<1>2. /\ r \in Kernel /\ SameDelays(s, r) /\ SameEvents(s, r) /\ SameRest(s, r)
      /\ SameObjects(s, r) /\ r.state = s.state
      /\ ReadyListsOK(r) /\ Queued(r) = Queued(s)
  BY <1>1, RotateToTailFields DEF ListsOK
<1> HIDE DEF r
<1>3. /\ DelayListsOK(r) /\ Delayed(r) = Delayed(s)
      /\ EventsOK(r) /\ Waiting(r) = Waiting(s)
  BY <1>2 DEF ListsOK, DelayListsOK, EventsOK, Waiting, Delayed, SameDelays, SameEvents
<1> QED BY <1>2, <1>3 DEF Effect, ListsOK, r

\* The tick counter is a tick, hence a natural number.
LEMMA TickCountNat ==
  ASSUME NEW s, ListsOK(s)
  PROVE  s \in Kernel /\ s.tick_count \in Ticks /\ s.tick_count \in Nat
<1>1. s \in Kernel
  BY DEF ListsOK
<1>2. s.tick_count \in Ticks
  BY <1>1 DEF Kernel
<1>3. \A w \in Ticks : w \in Nat
  BY TickAssumption DEF Ticks
<1> QED BY <1>1, <1>2, <1>3

\* Arming a task's wake-up links it on one of the two delay lists.
LEMMA DelayInsertEffect ==
  ASSUME NEW s, ListsOK(s), NEW t \in Threads, t \notin Delayed(s), NEW n \in Nat
  PROVE  LET r == DelayInsert(s, t, n)
         IN  /\ Effect(s, r, Queued(s), Delayed(s) \cup {t}, Waiting(s), s.state)
             /\ SameQueued(s, r) /\ SameEvents(s, r) /\ r.wakeup_reason = s.wakeup_reason
<1> DEFINE w == (s.tick_count + n) % TickMod
           a == [s EXCEPT !.wake_tick[t] = w]
           d == InsertByWakeTick(a, a.delay_list, t)
           o == InsertByWakeTick(a, a.overflow_list, t)
           r == DelayInsert(s, t, n)
<1>1. s \in Kernel /\ w \in Ticks
  <2>1. s \in Kernel /\ s.tick_count \in Nat
    BY TickCountNat
  <2>2. TickMod \in Nat /\ TickMod > 0
    BY TickAssumption
  <2> QED BY <2>1, <2>2 DEF Ticks
<1>2. /\ s.delay_list \in Seq(Threads) /\ s.overflow_list \in Seq(Threads)
      /\ a.delay_list = s.delay_list /\ a.overflow_list = s.overflow_list
  BY <1>1 DEF Kernel
<1>3. a \in Kernel
  <2>1. [s.wake_tick EXCEPT ![t] = w] \in [Threads -> Ticks]
    BY <1>1 DEF Kernel
  <2> HIDE DEF w
  <2> QED BY <1>1, <2>1 DEF Kernel
<1>4. /\ r = [a EXCEPT !.overflow_list = o] \/ r = [a EXCEPT !.delay_list = d]
  BY DEF DelayInsert
<1>5. /\ t \notin ToSet(s.delay_list) /\ t \notin ToSet(s.overflow_list)
      /\ Distinct(s.delay_list) /\ Distinct(s.overflow_list)
      /\ ToSet(s.delay_list) \cap ToSet(s.overflow_list) = {}
  BY DEF ListsOK, DelayListsOK, Delayed
<1>6. /\ d \in Seq(Threads) /\ Distinct(d) /\ ToSet(d) = ToSet(s.delay_list) \cup {t}
      /\ o \in Seq(Threads) /\ Distinct(o) /\ ToSet(o) = ToSet(s.overflow_list) \cup {t}
  <2> HIDE DEF a
  <2>1. \A l \in Seq(Threads) : Distinct(l) /\ t \notin ToSet(l) =>
          /\ InsertByWakeTick(a, l, t) \in Seq(Threads)
          /\ Distinct(InsertByWakeTick(a, l, t))
          /\ ToSet(InsertByWakeTick(a, l, t)) = ToSet(l) \cup {t}
    BY InsertByWakeTickDistinct
  <2> QED BY <1>2, <1>5, <2>1
<1>7. /\ SameQueued(s, a) /\ SameEvents(s, a) /\ SameRest(s, a) /\ SameObjects(s, a)
      /\ a.state = s.state /\ a.wakeup_reason = s.wakeup_reason
  BY <1>1 DEF Kernel, SameQueued, SameEvents, SameRest, SameObjects
<1> HIDE DEF w, a, d, o, r
<1>8. /\ r \in Kernel /\ SameQueued(s, r) /\ SameEvents(s, r) /\ SameRest(s, r)
      /\ SameObjects(s, r) /\ r.state = s.state /\ r.wakeup_reason = s.wakeup_reason
  <2>1. CASE r = [a EXCEPT !.overflow_list = o]
    BY <1>3, <1>6, <1>7, <2>1 DEF Kernel, SameQueued, SameEvents, SameRest, SameObjects
  <2>2. CASE r = [a EXCEPT !.delay_list = d]
    BY <1>3, <1>6, <1>7, <2>2 DEF Kernel, SameQueued, SameEvents, SameRest, SameObjects
  <2> QED BY <1>4, <2>1, <2>2
<1>9. \/ r.delay_list = d /\ r.overflow_list = s.overflow_list
      \/ r.delay_list = s.delay_list /\ r.overflow_list = o
  BY <1>2, <1>3, <1>4 DEF Kernel
<1>10. DelayListsOK(r) /\ Delayed(r) = Delayed(s) \cup {t}
  BY <1>5, <1>6, <1>9 DEF DelayListsOK, Delayed
<1>11. ReadyListsOK(r) /\ Queued(r) = Queued(s) /\ EventsOK(r) /\ Waiting(r) = Waiting(s)
  BY <1>8 DEF ListsOK, ReadyListsOK, Queued, EventsOK, Waiting, SameQueued, SameEvents
<1> QED BY <1>8, <1>10, <1>11 DEF Effect, ListsOK, r

LEMMA DelayRemoveEffect ==
  ASSUME NEW s, ListsOK(s), NEW t \in Threads
  PROVE  LET r == DelayRemove(s, t)
         IN  /\ Effect(s, r, Queued(s), Delayed(s) \ {t}, Waiting(s), s.state)
             /\ SameQueued(s, r) /\ SameEvents(s, r) /\ r.wakeup_reason = s.wakeup_reason
<1> DEFINE d == Unlink(s.delay_list, t)
           o == Unlink(s.overflow_list, t)
           r == DelayRemove(s, t)
<1>1. /\ s \in Kernel
      /\ s.delay_list \in Seq(Threads) /\ s.overflow_list \in Seq(Threads)
      /\ Distinct(s.delay_list) /\ Distinct(s.overflow_list)
      /\ ToSet(s.delay_list) \cap ToSet(s.overflow_list) = {}
  BY DEF ListsOK, DelayListsOK, Kernel
<1>2. /\ d \in Seq(Threads) /\ Distinct(d) /\ ToSet(d) = ToSet(s.delay_list) \ {t}
      /\ o \in Seq(Threads) /\ Distinct(o) /\ ToSet(o) = ToSet(s.overflow_list) \ {t}
  BY <1>1, UnlinkDistinct
<1>3. r = [s EXCEPT !.delay_list = d, !.overflow_list = o]
  BY DEF DelayRemove
<1> HIDE DEF d, o, r
<1>4. /\ r \in Kernel /\ SameQueued(s, r) /\ SameEvents(s, r) /\ SameRest(s, r)
      /\ SameObjects(s, r) /\ r.state = s.state /\ r.wakeup_reason = s.wakeup_reason
      /\ r.delay_list = d /\ r.overflow_list = o
  BY <1>1, <1>2, <1>3 DEF Kernel, SameQueued, SameEvents, SameRest, SameObjects
<1>5. DelayListsOK(r) /\ Delayed(r) = Delayed(s) \ {t}
  BY <1>1, <1>2, <1>4 DEF DelayListsOK, Delayed
<1>6. ReadyListsOK(r) /\ Queued(r) = Queued(s) /\ EventsOK(r) /\ Waiting(r) = Waiting(s)
  BY <1>4 DEF ListsOK, ReadyListsOK, Queued, EventsOK, Waiting, SameQueued, SameEvents
<1> QED BY <1>4, <1>5, <1>6 DEF Effect, ListsOK, r

\* A task leaves the event list that its event_list names ...
LEMMA EventUnlinked ==
  ASSUME NEW s, ListsOK(s), NEW t \in Threads, NEW e \in EventLists,
         NEW l \in Seq(Threads), Distinct(l),
         s.event_list[t] = e, ToSet(l) = ToSet(s.waiting[e]) \ {t},
         NEW r \in Kernel, SameQueued(s, r), SameDelays(s, r), SameRest(s, r),
         SameObjects(s, r), r.state = s.state,
         r.waiting = [s.waiting EXCEPT ![e] = l],
         r.event_list = [s.event_list EXCEPT ![t] = NoList]
  PROVE  Effect(s, r, Queued(s), Delayed(s), Waiting(s) \ {t}, s.state)
<1>1. /\ s.waiting \in [EventLists -> Seq(Threads)] /\ EventsOK(s)
      /\ s.event_list \in [Threads -> EventLists \cup {NoList}]
  BY DEF ListsOK, Kernel
<1>2. /\ r.waiting[e] = l /\ \A d \in EventLists \ {e} : r.waiting[d] = s.waiting[d]
      /\ r.event_list[t] = NoList /\ \A u \in Threads \ {t} : r.event_list[u] = s.event_list[u]
  BY <1>1
<1>3. EventsOK(r)
  <2>1. \A d \in EventLists : Distinct(r.waiting[d])
    BY <1>1, <1>2 DEF EventsOK
  <2>2. ASSUME NEW d \in EventLists, NEW u \in Threads
        PROVE  r.event_list[u] = d <=> u \in ToSet(r.waiting[d])
    <3>1. s.event_list[u] = d <=> u \in ToSet(s.waiting[d])
      BY <1>1 DEF EventsOK
    <3>2. d # NoList /\ e # NoList
      BY NoListIsNone
    <3> QED BY <1>2, <3>1, <3>2
  <2> QED BY <2>1, <2>2 DEF EventsOK
<1>4. Waiting(r) = Waiting(s) \ {t}
  BY <1>2, NoListIsNone DEF Waiting
<1>5. /\ ReadyListsOK(r) /\ Queued(r) = Queued(s)
      /\ DelayListsOK(r) /\ Delayed(r) = Delayed(s)
  BY DEF ListsOK, ReadyListsOK, Queued, DelayListsOK, Delayed, SameQueued, SameDelays
<1> QED BY <1>3, <1>4, <1>5 DEF Effect, ListsOK

\* ... or joins one when it is on none.
LEMMA EventLinked ==
  ASSUME NEW s, ListsOK(s), NEW t \in Threads, NEW e \in EventLists,
         NEW l \in Seq(Threads), Distinct(l),
         s.event_list[t] = NoList, ToSet(l) = ToSet(s.waiting[e]) \cup {t},
         NEW r \in Kernel, SameQueued(s, r), SameDelays(s, r), SameRest(s, r),
         SameObjects(s, r), r.state = s.state,
         r.waiting = [s.waiting EXCEPT ![e] = l],
         r.event_list = [s.event_list EXCEPT ![t] = e]
  PROVE  Effect(s, r, Queued(s), Delayed(s), Waiting(s) \cup {t}, s.state)
<1>1. /\ s.waiting \in [EventLists -> Seq(Threads)] /\ EventsOK(s)
      /\ s.event_list \in [Threads -> EventLists \cup {NoList}]
  BY DEF ListsOK, Kernel
<1>2. /\ r.waiting[e] = l /\ \A d \in EventLists \ {e} : r.waiting[d] = s.waiting[d]
      /\ r.event_list[t] = e /\ \A u \in Threads \ {t} : r.event_list[u] = s.event_list[u]
  BY <1>1
<1>3. EventsOK(r)
  <2>1. \A d \in EventLists : Distinct(r.waiting[d])
    BY <1>1, <1>2 DEF EventsOK
  <2>2. ASSUME NEW d \in EventLists, NEW u \in Threads
        PROVE  r.event_list[u] = d <=> u \in ToSet(r.waiting[d])
    <3>1. s.event_list[u] = d <=> u \in ToSet(s.waiting[d])
      BY <1>1 DEF EventsOK
    <3>2. d # NoList /\ e # NoList
      BY NoListIsNone
    <3> QED BY <1>2, <3>1, <3>2
  <2> QED BY <2>1, <2>2 DEF EventsOK
<1>4. Waiting(r) = Waiting(s) \cup {t}
  BY <1>2, NoListIsNone DEF Waiting
<1>5. /\ ReadyListsOK(r) /\ Queued(r) = Queued(s)
      /\ DelayListsOK(r) /\ Delayed(r) = Delayed(s)
  BY DEF ListsOK, ReadyListsOK, Queued, DelayListsOK, Delayed, SameQueued, SameDelays
<1> QED BY <1>3, <1>4, <1>5 DEF Effect, ListsOK

LEMMA EventRemoveEffect ==
  ASSUME NEW s, ListsOK(s), NEW t \in Threads
  PROVE  LET r == EventRemove(s, t)
         IN  /\ Effect(s, r, Queued(s), Delayed(s), Waiting(s) \ {t}, s.state)
             /\ SameQueued(s, r) /\ SameDelays(s, r) /\ r.wakeup_reason = s.wakeup_reason
             /\ r.event_list = [s.event_list EXCEPT ![t] = NoList]
             /\ \A e \in EventLists : r.waiting[e] = Unlink(s.waiting[e], t)
<1> DEFINE e == s.event_list[t]
           l == Unlink(s.waiting[e], t)
<1>1. /\ s \in Kernel /\ s.waiting \in [EventLists -> Seq(Threads)] /\ EventsOK(s)
      /\ s.event_list \in [Threads -> EventLists \cup {NoList}]
  BY DEF ListsOK, Kernel
<1>2. \A d \in EventLists \ {e} : Unlink(s.waiting[d], t) = s.waiting[d]
  BY <1>1, UnlinkAbsent DEF EventsOK
<1>3. CASE e = NoList
  <2>1. EventRemove(s, t) = s
    BY <1>3 DEF EventRemove
  <2>2. Waiting(s) = Waiting(s) \ {t}
    BY <1>3 DEF Waiting
  <2>3. Effect(s, s, Queued(s), Delayed(s), Waiting(s), s.state)
    BY DEF Effect, SameRest, SameObjects
  <2>4. s.event_list = [s.event_list EXCEPT ![t] = NoList]
    BY <1>1, <1>3
  <2>5. \A d \in EventLists : s.waiting[d] = Unlink(s.waiting[d], t)
    BY <1>2, <1>3, NoListIsNone
  <2> QED BY <2>1, <2>2, <2>3, <2>4, <2>5 DEF SameQueued, SameDelays
<1>4. CASE e # NoList
  <2>1. e \in EventLists
    BY <1>1, <1>4
  <2>2. l \in Seq(Threads) /\ Distinct(l) /\ ToSet(l) = ToSet(s.waiting[e]) \ {t}
    BY <1>1, <2>1, UnlinkDistinct DEF EventsOK
  <2>3. EventRemove(s, t) = [s EXCEPT !.waiting[e] = l, !.event_list[t] = NoList]
    BY <1>4 DEF EventRemove
  <2> DEFINE r == EventRemove(s, t)
             w == [s.waiting EXCEPT ![e] = l]
             f == [s.event_list EXCEPT ![t] = NoList]
  <2>4. \A d \in EventLists : w[d] = Unlink(s.waiting[d], t)
    BY <1>1, <1>2, <2>1
  <2>5. w \in [EventLists -> Seq(Threads)] /\ f \in [Threads -> EventLists \cup {NoList}]
    BY <1>1, <2>2
  <2>6. r = [s EXCEPT !.waiting = w, !.event_list = f]
    BY <2>3
  <2> HIDE DEF w, f, r
  <2>7. /\ r \in Kernel /\ SameQueued(s, r) /\ SameDelays(s, r) /\ SameRest(s, r)
        /\ SameObjects(s, r) /\ r.state = s.state /\ r.wakeup_reason = s.wakeup_reason
        /\ r.waiting = w /\ r.event_list = f
    BY <1>1, <2>5, <2>6 DEF Kernel, SameQueued, SameDelays, SameRest, SameObjects
  <2>8. /\ r.waiting = [s.waiting EXCEPT ![e] = l] /\ s.event_list[t] = e
        /\ r.event_list = [s.event_list EXCEPT ![t] = NoList]
    BY <2>7 DEF w, f
  <2> HIDE DEF e, l
  <2>9. Effect(s, r, Queued(s), Delayed(s), Waiting(s) \ {t}, s.state)
    BY ZenonT(60), <2>1, <2>2, <2>7, <2>8, EventUnlinked
  <2>10. \A d \in EventLists : r.waiting[d] = Unlink(s.waiting[d], t)
    BY <2>4, <2>7
  <2> QED BY <2>7, <2>9, <2>10 DEF r, f
<1> QED BY <1>3, <1>4

\* Where prv_insert_task_to_event_list links a task: before the first of a lower priority.
EventPlace(s, e, t) == SelectInSeq(s.waiting[e], LAMBDA p : s.priority[t] > s.priority[p])

LEMMA EventPlaceFirst ==
  ASSUME NEW s \in Kernel, NEW e \in EventLists, NEW t \in Threads
  PROVE  LET n == EventPlace(s, e, t)
             l == s.waiting[e]
         IN  /\ n \in 0 .. Len(l)
             /\ \A i \in 1 .. Len(l) : n = 0 \/ i < n => s.priority[t] <= s.priority[l[i]]
             /\ n # 0 => s.priority[t] > s.priority[l[n]]
<1> DEFINE n == EventPlace(s, e, t)
           l == s.waiting[e]
           I == {i \in 1 .. Len(l) : s.priority[t] > s.priority[l[i]]}
<1>1. n = IF I = {} THEN 0 ELSE Min(I)
  BY Zenon DEF EventPlace, SelectInSeq
<1>2. l \in Seq(Threads) /\ s.priority \in [Threads -> Prio]
  BY DEF Kernel
<1>3. Len(l) \in Nat /\ \A i \in 1 .. Len(l) : l[i] \in Threads
  BY <1>2, LenProperties
<1>4. I \in SUBSET Nat /\ I \subseteq 1 .. Len(l)
  BY <1>3
<1>5. \A i \in 1 .. Len(l) : i \notin I => s.priority[t] <= s.priority[l[i]]
  BY <1>2, <1>3, PriorityAssumption DEF Prio
<1>6. \A i \in I : s.priority[t] > s.priority[l[i]]
  OBVIOUS
<1> HIDE DEF I, n, l
<1>7. I # {} => Min(I) \in I /\ \A y \in I : Min(I) <= y
  BY <1>4, MinElement
<1>8. n \in 0 .. Len(l) /\ (n # 0 => s.priority[t] > s.priority[l[n]])
  BY <1>1, <1>3, <1>4, <1>6, <1>7
<1>9. ASSUME NEW i \in 1 .. Len(l), n = 0 \/ i < n PROVE i \notin I
  <2>1. CASE I = {}
    BY <2>1
  <2>2. CASE I # {}
    <3>1. n = Min(I) /\ Min(I) \in 1 .. Len(l)
      BY <1>1, <1>4, <1>7, <2>2
    <3>2. n # 0 /\ i < n /\ n \in Int /\ i \in Int
      BY <1>3, <1>9, <3>1
    <3>3. i \in I => n <= i
      BY <1>7, <2>2, <3>1
    <3> QED BY <3>2, <3>3
  <2> QED BY <2>1, <2>2
<1> QED BY <1>5, <1>8, <1>9 DEF n, l

\* A task joins an event list at the place its priority gives it.
LEMMA EventInsertEffect ==
  ASSUME NEW s, ListsOK(s), NEW t \in Threads, NEW e \in EventLists,
         s.event_list[t] = NoList
  PROVE  LET r == EventInsert(s, e, t)
             n == EventPlace(s, e, t)
         IN  /\ Effect(s, r, Queued(s), Delayed(s), Waiting(s) \cup {t}, s.state)
             /\ SameQueued(s, r) /\ SameDelays(s, r) /\ r.wakeup_reason = s.wakeup_reason
             /\ r.event_list = [s.event_list EXCEPT ![t] = e]
             /\ r.waiting = [s.waiting EXCEPT ![e] = InsertBefore(@, t, n)]
<1> DEFINE n == EventPlace(s, e, t)
           l == InsertBefore(s.waiting[e], t, n)
           w == [s.waiting EXCEPT ![e] = l]
           f == [s.event_list EXCEPT ![t] = e]
           r == EventInsert(s, e, t)
<1>1. /\ s \in Kernel /\ s.waiting \in [EventLists -> Seq(Threads)] /\ EventsOK(s)
      /\ s.event_list \in [Threads -> EventLists \cup {NoList}]
  BY DEF ListsOK, Kernel
<1>2. Distinct(s.waiting[e]) /\ t \notin ToSet(s.waiting[e]) /\ s.waiting[e] \in Seq(Threads)
  BY <1>1, NoListIsNone DEF EventsOK
<1>3. n \in 0 .. Len(s.waiting[e])
  BY <1>1, EventPlaceFirst
<1> HIDE DEF n
<1>4. l \in Seq(Threads) /\ Distinct(l) /\ ToSet(l) = ToSet(s.waiting[e]) \cup {t}
  BY <1>2, <1>3, InsertBeforeDistinct
<1> HIDE DEF l
<1>5. w \in [EventLists -> Seq(Threads)] /\ f \in [Threads -> EventLists \cup {NoList}]
  BY <1>1, <1>4
<1>6. r = [s EXCEPT !.waiting = w, !.event_list = f]
  BY Zenon DEF EventInsert, EventPlace, w, f, l, n
<1> HIDE DEF w, f, r
<1>7. /\ r \in Kernel /\ SameQueued(s, r) /\ SameDelays(s, r) /\ SameRest(s, r)
      /\ SameObjects(s, r) /\ r.state = s.state /\ r.wakeup_reason = s.wakeup_reason
      /\ r.waiting = w /\ r.event_list = f
  BY ZenonT(60), <1>1, <1>5, <1>6 DEF Kernel, SameQueued, SameDelays, SameRest, SameObjects
<1>8. /\ r.waiting = [s.waiting EXCEPT ![e] = l]
      /\ r.event_list = [s.event_list EXCEPT ![t] = e]
  BY <1>7 DEF w, f
<1>9. Effect(s, r, Queued(s), Delayed(s), Waiting(s) \cup {t}, s.state)
  BY <1>4, <1>7, <1>8, EventLinked
<1> QED BY <1>7, <1>8, <1>9 DEF r, l, n

LEMMA StateEffect ==
  ASSUME NEW s, ListsOK(s), NEW t \in Threads, NEW v \in TaskState
  PROVE  LET r == [s EXCEPT !.state[t] = v]
         IN  /\ Effect(s, r, Queued(s), Delayed(s), Waiting(s), [s.state EXCEPT ![t] = v])
             /\ SameLists(s, r) /\ r.wakeup_reason = s.wakeup_reason
<1> DEFINE f == [s.state EXCEPT ![t] = v]
           r == [s EXCEPT !.state = f]
<1>1. s \in Kernel /\ f \in [Threads -> TaskState]
  BY DEF ListsOK, Kernel
<1> HIDE DEF f
<1>2. /\ r \in Kernel /\ SameLists(s, r) /\ SameRest(s, r) /\ SameObjects(s, r)
      /\ r.state = f /\ r.wakeup_reason = s.wakeup_reason
  BY <1>1 DEF Kernel, SameLists, SameQueued, SameDelays, SameEvents, SameRest, SameObjects
<1> HIDE DEF r
<1>3. Effect(s, r, Queued(s), Delayed(s), Waiting(s), f)
  BY <1>2, FrameEffect
<1> QED BY <1>2, <1>3 DEF r, f

\* The fields of wake_tick and wakeup_reason are in no list.
SetWake(s, r, f, g) == r = [s EXCEPT !.wake_tick = f, !.wakeup_reason = g]

LEMMA WakeEffect ==
  ASSUME NEW s, ListsOK(s), NEW f \in [Threads -> Ticks], NEW g \in [Threads -> 0 .. 2],
         NEW r, SetWake(s, r, f, g)
  PROVE  /\ Effect(s, r, Queued(s), Delayed(s), Waiting(s), s.state)
         /\ SameLists(s, r) /\ r.wakeup_reason = g
<1>1. s \in Kernel
  BY DEF ListsOK
<1>2. /\ r \in Kernel /\ SameLists(s, r) /\ SameRest(s, r) /\ SameObjects(s, r)
      /\ r.state = s.state /\ r.wakeup_reason = g
  BY <1>1 DEF SetWake, Kernel, SameLists, SameQueued, SameDelays, SameEvents, SameRest,
              SameObjects
<1>3. Effect(s, r, Queued(s), Delayed(s), Waiting(s), s.state)
  BY <1>2, FrameEffect
<1> QED BY <1>2, <1>3

LEMMA EffectTrans ==
  ASSUME NEW s, NEW r, NEW u, NEW Q, NEW D, NEW W, NEW f, NEW Q2, NEW D2, NEW W2, NEW f2,
         Effect(s, r, Q, D, W, f), Effect(r, u, Q2, D2, W2, f2)
  PROVE  Effect(s, u, Q2, D2, W2, f2)
BY DEF Effect, SameRest, SameObjects

\* What an effect leaves behind.
LEMMA EffectLists ==
  ASSUME NEW s, NEW r, NEW Q, NEW D, NEW W, NEW f, Effect(s, r, Q, D, W, f)
  PROVE  /\ ListsOK(r) /\ Queued(r) = Q /\ Delayed(r) = D /\ Waiting(r) = W /\ r.state = f
         /\ SameRest(s, r) /\ SameObjects(s, r)
BY DEF Effect

\* Both nodes of a task are unlinked.
LEMMA UnblockEffect ==
  ASSUME NEW s, ListsOK(s), NEW t \in Threads
  PROVE  LET r == Unblock(s, t)
         IN  /\ Effect(s, r, Queued(s), Delayed(s) \ {t}, Waiting(s) \ {t}, s.state)
             /\ SameQueued(s, r) /\ r.wakeup_reason = s.wakeup_reason
             /\ r.event_list = [s.event_list EXCEPT ![t] = NoList]
             /\ \A e \in EventLists : r.waiting[e] = Unlink(s.waiting[e], t)
<1> DEFINE m == DelayRemove(s, t)
           r == EventRemove(m, t)
<1>1. /\ Effect(s, m, Queued(s), Delayed(s) \ {t}, Waiting(s), s.state)
      /\ SameQueued(s, m) /\ SameEvents(s, m) /\ m.wakeup_reason = s.wakeup_reason
  BY DelayRemoveEffect
<1> HIDE DEF m
<1>2. ListsOK(m) /\ Queued(m) = Queued(s) /\ Delayed(m) = Delayed(s) \ {t}
      /\ Waiting(m) = Waiting(s) /\ m.state = s.state
  BY <1>1 DEF Effect
<1>3. /\ Effect(m, r, Queued(m), Delayed(m), Waiting(m) \ {t}, m.state)
      /\ SameQueued(m, r) /\ r.wakeup_reason = m.wakeup_reason
      /\ r.event_list = [m.event_list EXCEPT ![t] = NoList]
      /\ \A e \in EventLists : r.waiting[e] = Unlink(m.waiting[e], t)
  BY ZenonT(60), <1>2, EventRemoveEffect
<1> HIDE DEF r
<1>4. Effect(m, r, Queued(s), Delayed(s) \ {t}, Waiting(s) \ {t}, s.state)
  BY <1>2, <1>3
<1>5. Effect(s, r, Queued(s), Delayed(s) \ {t}, Waiting(s) \ {t}, s.state)
  BY <1>1, <1>4, EffectTrans
<1> QED BY <1>1, <1>3, <1>5 DEF SameQueued, SameEvents, Unblock, r, m

\* The priority of a task that is not queued.
LEMMA PriorityEffect ==
  ASSUME NEW s, ListsOK(s), NEW t \in Threads, t \notin Queued(s), NEW p \in Prio
  PROVE  LET r == [s EXCEPT !.priority[t] = p]
         IN  /\ Effect(s, r, Queued(s), Delayed(s), Waiting(s), s.state)
             /\ r.ready_list = s.ready_list /\ r.ready_map = s.ready_map
             /\ r.priority = [s.priority EXCEPT ![t] = p]
<1> DEFINE f == [s.priority EXCEPT ![t] = p]
           r == [s EXCEPT !.priority = f]
<1>1. s \in Kernel /\ f \in [Threads -> Prio]
  BY DEF ListsOK, Kernel
<1>2. \A q \in Prio : t \notin ToSet(s.ready_list[q])
  BY DEF ListsOK, ReadyListsOK, Queued
<1>3. \A u \in Threads : f[u] = IF u = t THEN p ELSE s.priority[u]
  BY <1>1 DEF Kernel
<1> HIDE DEF f
<1>4. /\ r \in Kernel /\ SameDelays(s, r) /\ SameEvents(s, r) /\ SameRest(s, r)
      /\ SameObjects(s, r) /\ r.state = s.state
      /\ r.priority = f /\ r.ready_list = s.ready_list /\ r.ready_map = s.ready_map
  BY <1>1 DEF Kernel, SameDelays, SameEvents, SameRest, SameObjects
<1> HIDE DEF r
<1>5. \A q \in Prio : \A u \in ToSet(s.ready_list[q]) : u \in Threads
  BY <1>1 DEF Kernel, ToSet
<1>6. ReadyListsOK(r)
  BY <1>2, <1>3, <1>4, <1>5 DEF ListsOK, ReadyListsOK
<1>7. Queued(r) = Queued(s)
  BY <1>1, <1>2, <1>3, <1>4 DEF Queued, Kernel
<1>8. /\ DelayListsOK(r) /\ Delayed(r) = Delayed(s)
      /\ EventsOK(r) /\ Waiting(r) = Waiting(s)
  BY <1>4 DEF ListsOK, DelayListsOK, Delayed, EventsOK, Waiting, SameDelays, SameEvents
<1>9. Effect(s, r, Queued(s), Delayed(s), Waiting(s), s.state)
  BY <1>4, <1>6, <1>7, <1>8 DEF Effect, ListsOK
<1> QED BY <1>4, <1>9 DEF r, f

-----------------------------------------------------------------------------
\* The critical sections of task.c and queue.c keep KernelCore

\* f with v for x; the provers find a lemma easier to use when this is not expanded.
With(f, x, v) == [f EXCEPT ![x] = v]

\* t is ready again, off the lists it waited on.
MadeReady(s, r, t) ==
  Effect(s, r, Queued(s) \cup {t}, Delayed(s) \ {t}, Waiting(s) \ {t},
         [s.state EXCEPT ![t] = "READY"])

LEMMA CoreFacts ==
  ASSUME NEW s, NEW H, KernelCore(s, H)
  PROVE  /\ s \in Kernel /\ ListsOK(s) /\ H \subseteq s.used /\ s.used \subseteq Tasks
         /\ H \subseteq Tasks /\ H \cup {Idle} \subseteq Threads /\ Idle \notin H
         /\ s.state \in [Threads -> TaskState] /\ s.current \in Threads
         /\ ToSet(s.terminated_list) \subseteq Tasks \ H
BY IdleAssumption DEF KernelCore, ListsOK, Kernel, Threads

\* A task that is made ready leaves the delay lists and the event lists.
LEMMA BecomesReady ==
  ASSUME NEW s, NEW H, NEW r, KernelCore(s, H), NEW t \in Tasks, t \in s.used,
         t \notin ToSet(s.terminated_list),
         MadeReady(s, r, t)
  PROVE  KernelCore(r, H \cup {t})
<1>1. t \in Threads /\ t # Idle /\ s.state \in [Threads -> TaskState]
  BY IdleAssumption DEF KernelCore, ListsOK, Kernel, Threads
<1> DEFINE f == [s.state EXCEPT ![t] = "READY"]
<1>2. f[t] = "READY" /\ \A u \in Threads \ {t} : f[u] = s.state[u]
  BY <1>1
<1>3. /\ ListsOK(r) /\ SameRest(s, r) /\ r.state = f /\ Queued(r) = Queued(s) \cup {t}
      /\ Delayed(r) = Delayed(s) \ {t} /\ Waiting(r) = Waiting(s) \ {t}
  BY DEF MadeReady, Effect
<1> HIDE DEF f
<1>4. H \cup {t, Idle} \subseteq Threads /\ ToSet(s.terminated_list) \subseteq Threads
  BY <1>1, CoreFacts DEF Threads
<1>5. /\ Queued(r) = {u \in (H \cup {t}) \cup {Idle} : f[u] \in OnReadyList}
      /\ f[Idle] \in OnReadyList /\ \A u \in Threads : f[u] = "RUNNING" => u = s.current
  BY <1>1, <1>2, <1>3, <1>4 DEF KernelCore, OnReadyList
<1>6. Delayed(r) \cup Waiting(r) = {u \in H \cup {t} : f[u] = "BLOCKED"}
  BY <1>1, <1>2, <1>3, <1>4 DEF KernelCore
<1>7. \A u \in ToSet(s.terminated_list) : f[u] = "DELETED"
  BY <1>2, <1>4 DEF KernelCore
<1> QED BY <1>3, <1>5, <1>6, <1>7 DEF KernelCore, SameRest

\* A task that blocks leaves its ready queue for a delay list, an event list or both.
LEMMA BecomesBlocked ==
  ASSUME NEW s, NEW H, NEW r, KernelCore(s, H), NEW t \in H, NEW D, NEW W,
         D \cup W = (Delayed(s) \ {t}) \cup (Waiting(s) \ {t}) \cup {t},
         Effect(s, r, Queued(s) \ {t}, D, W, [s.state EXCEPT ![t] = "BLOCKED"])
  PROVE  KernelCore(r, H)
<1>1. /\ t \in Threads /\ t # Idle /\ s.state \in [Threads -> TaskState]
      /\ H \cup {Idle} \subseteq Threads /\ ToSet(s.terminated_list) \subseteq Threads \ {t}
  BY CoreFacts DEF Threads
<1> DEFINE f == [s.state EXCEPT ![t] = "BLOCKED"]
<1>2. f[t] = "BLOCKED" /\ \A u \in Threads \ {t} : f[u] = s.state[u]
  BY <1>1
<1>3. /\ ListsOK(r) /\ SameRest(s, r) /\ r.state = f /\ Queued(r) = Queued(s) \ {t}
      /\ Delayed(r) = D /\ Waiting(r) = W
  BY EffectLists
<1> HIDE DEF f
<1>4. /\ Queued(r) = {u \in H \cup {Idle} : f[u] \in OnReadyList}
      /\ f[Idle] \in OnReadyList /\ \A u \in Threads : f[u] = "RUNNING" => u = s.current
  BY <1>1, <1>2, <1>3 DEF KernelCore, OnReadyList
<1>5. Delayed(r) \cup Waiting(r) = {u \in H : f[u] = "BLOCKED"}
  BY <1>1, <1>2, <1>3 DEF KernelCore
<1>6. \A u \in ToSet(s.terminated_list) : f[u] = "DELETED"
  BY <1>1, <1>2 DEF KernelCore
<1> QED BY <1>3, <1>4, <1>5, <1>6 DEF KernelCore, SameRest

\* A task that is suspended or deleted leaves every list; a deleted one is no longer
\* the application's.
LEMMA LeavesLists ==
  ASSUME NEW s, NEW H, NEW r, KernelCore(s, H), NEW t \in H, NEW v \in {"SUSPENDED", "DELETED"},
         Effect(s, r, Queued(s) \ {t}, Delayed(s) \ {t}, Waiting(s) \ {t},
                [s.state EXCEPT ![t] = v])
  PROVE  /\ KernelCore(r, H)
         /\ v = "DELETED" => KernelCore(r, H \ {t})
<1>1. /\ t \in Threads /\ t # Idle /\ s.state \in [Threads -> TaskState]
      /\ H \cup {Idle} \subseteq Threads /\ ToSet(s.terminated_list) \subseteq Threads \ {t}
  BY CoreFacts DEF Threads
<1> DEFINE f == [s.state EXCEPT ![t] = v]
<1>2. f[t] = v /\ \A u \in Threads \ {t} : f[u] = s.state[u]
  BY <1>1
<1>3. /\ ListsOK(r) /\ SameRest(s, r) /\ r.state = f /\ Queued(r) = Queued(s) \ {t}
      /\ Delayed(r) = Delayed(s) \ {t} /\ Waiting(r) = Waiting(s) \ {t}
  BY EffectLists
<1> HIDE DEF f
<1>4. v \notin OnReadyList /\ v # "BLOCKED" /\ v # "RUNNING"
  BY DEF OnReadyList
<1>5. /\ Queued(r) = {u \in H \cup {Idle} : f[u] \in OnReadyList}
      /\ Queued(r) = {u \in (H \ {t}) \cup {Idle} : f[u] \in OnReadyList}
      /\ f[Idle] \in OnReadyList /\ \A u \in Threads : f[u] = "RUNNING" => u = s.current
  BY <1>1, <1>2, <1>3, <1>4 DEF KernelCore
<1>6. /\ Delayed(r) \cup Waiting(r) = {u \in H : f[u] = "BLOCKED"}
      /\ Delayed(r) \cup Waiting(r) = {u \in H \ {t} : f[u] = "BLOCKED"}
  BY <1>1, <1>2, <1>3, <1>4 DEF KernelCore
<1>7. \A u \in ToSet(s.terminated_list) : f[u] = "DELETED"
  BY <1>1, <1>2 DEF KernelCore
<1> QED BY <1>3, <1>5, <1>6, <1>7 DEF KernelCore, SameRest

\* The fields KernelCore does not speak of may change at will.
LEMMA SameCoreInv ==
  ASSUME NEW s, NEW H, KernelCore(s, H), NEW r \in Kernel, SameCore(s, r)
  PROVE  KernelCore(r, H) /\ (KernelInv(s, H) => KernelInv(r, H))
<1>1. /\ ListsOK(r) /\ Queued(r) = Queued(s)
      /\ Delayed(r) = Delayed(s) /\ Waiting(r) = Waiting(s)
  BY SameListsOK DEF KernelCore, SameCore
<1> QED BY <1>1 DEF KernelCore, KernelInv, SameCore

LEMMA RestInv ==
  ASSUME NEW s, NEW H, KernelInv(s, H), NEW r, KernelCore(r, H), SameRest(s, r)
  PROVE  KernelInv(r, H)
BY DEF KernelInv, SameRest

LEMMA DeactivateEffect ==
  ASSUME NEW s, NEW H, KernelCore(s, H), NEW t \in H
  PROVE  Effect(s, Deactivate(s, t), Queued(s) \ {t}, Delayed(s) \ {t}, Waiting(s) \ {t}, s.state)
<1>1. ListsOK(s) /\ t \in Threads
  BY CoreFacts
<1>2. CASE s.state[t] \in OnReadyList
  <2>0. s.state[t] # "BLOCKED"
    BY <1>2 DEF OnReadyList
  <2>1. t \notin Delayed(s) /\ t \notin Waiting(s)
    BY <2>0 DEF KernelCore
  <2>2. Deactivate(s, t) = TaskUnready(s, t)
    BY <1>2, <2>0, Zenon DEF Deactivate
  <2>3. Effect(s, TaskUnready(s, t), Queued(s) \ {t}, Delayed(s), Waiting(s), s.state)
    BY <1>1, TaskUnreadyEffect
  <2>4. Delayed(s) = Delayed(s) \ {t} /\ Waiting(s) = Waiting(s) \ {t}
    BY <2>1
  <2> QED BY <2>2, <2>3, <2>4
<1>3. CASE s.state[t] = "BLOCKED"
  <2>1. t \notin Queued(s) /\ s.state[t] \notin OnReadyList
    BY <1>3 DEF KernelCore, OnReadyList
  <2>2. Deactivate(s, t) = Unblock(s, t)
    BY <1>3, <2>1, Zenon DEF Deactivate
  <2>3. Effect(s, Unblock(s, t), Queued(s), Delayed(s) \ {t}, Waiting(s) \ {t}, s.state)
    BY <1>1, UnblockEffect
  <2>4. Queued(s) = Queued(s) \ {t}
    BY <2>1
  <2> QED BY <2>2, <2>3, <2>4
<1>4. CASE s.state[t] \notin OnReadyList /\ s.state[t] # "BLOCKED"
  <2>1. t \notin Queued(s) /\ t \notin Delayed(s) /\ t \notin Waiting(s)
    BY <1>4, CoreFacts DEF KernelCore
  <2>2. Deactivate(s, t) = s
    BY <1>4, Zenon DEF Deactivate
  <2>3. /\ Queued(s) = Queued(s) \ {t} /\ Delayed(s) = Delayed(s) \ {t}
        /\ Waiting(s) = Waiting(s) \ {t}
    BY <2>1
  <2>4. Effect(s, s, Queued(s), Delayed(s), Waiting(s), s.state)
    BY <1>1 DEF Effect, SameRest, SameObjects
  <2> QED BY <2>2, <2>3, <2>4
<1> QED BY <1>2, <1>3, <1>4

\* Deactivate followed by an assignment to the state, as rtos_task_suspend and
\* rtos_task_delete do.
LEMMA DeactivateStateEffect ==
  ASSUME NEW s, NEW H, KernelCore(s, H), NEW t \in H, NEW v \in TaskState
  PROVE  Effect(s, [Deactivate(s, t) EXCEPT !.state[t] = v], Queued(s) \ {t},
                Delayed(s) \ {t}, Waiting(s) \ {t}, [s.state EXCEPT ![t] = v])
<1> DEFINE r == Deactivate(s, t)
<1>1. t \in Threads
  BY CoreFacts
<1>2. Effect(s, r, Queued(s) \ {t}, Delayed(s) \ {t}, Waiting(s) \ {t}, s.state)
  BY DeactivateEffect
<1> HIDE DEF r
<1>3. /\ ListsOK(r) /\ Queued(r) = Queued(s) \ {t} /\ Delayed(r) = Delayed(s) \ {t}
      /\ Waiting(r) = Waiting(s) \ {t} /\ r.state = s.state
  BY <1>2 DEF Effect
<1>4. Effect(r, [r EXCEPT !.state[t] = v], Queued(r), Delayed(r), Waiting(r),
             [r.state EXCEPT ![t] = v])
  BY <1>1, <1>3, StateEffect
<1>5. Effect(r, [r EXCEPT !.state[t] = v], Queued(s) \ {t}, Delayed(s) \ {t},
             Waiting(s) \ {t}, [s.state EXCEPT ![t] = v])
  BY <1>3, <1>4
<1>6. Effect(s, [r EXCEPT !.state[t] = v], Queued(s) \ {t}, Delayed(s) \ {t},
             Waiting(s) \ {t}, [s.state EXCEPT ![t] = v])
  BY <1>2, <1>5, EffectTrans
<1> QED BY <1>6 DEF r

LEMMA SuspendInv ==
  ASSUME NEW s, NEW H, KernelInv(s, H), NEW t \in H
  PROVE  KernelInv(Suspend(s, t), H) /\ SameRest(s, Suspend(s, t))
<1> DEFINE r == Suspend(s, t)
<1>1. CASE s.state[t] \in OnReadyList \cup {"BLOCKED"}
  <2>1. KernelCore(s, H) /\ "SUSPENDED" \in TaskState
    BY DEF KernelInv, TaskState
  <2>2. r = [Deactivate(s, t) EXCEPT !.state[t] = "SUSPENDED"]
    BY <1>1 DEF Suspend
  <2>3. Effect(s, r, Queued(s) \ {t}, Delayed(s) \ {t}, Waiting(s) \ {t},
               [s.state EXCEPT ![t] = "SUSPENDED"])
    BY <2>1, <2>2, DeactivateStateEffect
  <2> HIDE DEF r
  <2>4. KernelCore(r, H) /\ SameRest(s, r)
    BY <2>1, <2>3, LeavesLists DEF Effect
  <2> QED BY <2>4, RestInv DEF r
<1>2. CASE s.state[t] \notin OnReadyList \cup {"BLOCKED"}
  BY <1>2 DEF Suspend, SameRest
<1> QED BY <1>1, <1>2

LEMMA DelayInv ==
  ASSUME NEW s, NEW H, KernelInv(s, H), s.current \in H, NEW n \in Nat
  PROVE  KernelInv(Delay(s, n), H) /\ SameRest(s, Delay(s, n)) /\ SameObjects(s, Delay(s, n))
<1> DEFINE t    == s.current
           free == IF s.state[t] = "BLOCKED" THEN Unblock(s, t) ELSE s
           held == [free EXCEPT !.state[t] = "BLOCKED"]
           mid  == [free EXCEPT !.state[t] = "BLOCKED", !.event_list[t] = NoList]
           off  == TaskUnready(mid, t)
           r    == DelayInsert(off, t, n)
           f    == [s.state EXCEPT ![t] = "BLOCKED"]
           D    == Delayed(s) \ {t}
           W    == Waiting(s) \ {t}
<1>1. /\ t \in Threads /\ t # Idle /\ t \in H /\ ListsOK(s) /\ "BLOCKED" \in TaskState
      /\ s.state \in [Threads -> TaskState] /\ KernelCore(s, H)
  BY CoreFacts DEF KernelInv, TaskState
<1>2. Effect(s, free, Queued(s), D, W, s.state)
  <2>1. CASE s.state[t] = "BLOCKED"
    BY <1>1, <2>1, UnblockEffect
  <2>2. CASE s.state[t] # "BLOCKED"
    <3>1. Delayed(s) = D /\ Waiting(s) = W
      BY <1>1, <2>2 DEF KernelCore
    <3>2. Effect(s, s, Queued(s), Delayed(s), Waiting(s), s.state)
      BY <1>1 DEF Effect, SameRest, SameObjects
    <3> QED BY <2>2, <3>1, <3>2
  <2> QED BY <2>1, <2>2
<1> HIDE DEF free, D, W
<1>3. /\ ListsOK(free) /\ free.state = s.state /\ Queued(free) = Queued(s)
      /\ Delayed(free) = D /\ Waiting(free) = W
  BY <1>2 DEF Effect
<1>4. Effect(free, held, Queued(free), Delayed(free), Waiting(free),
             [free.state EXCEPT ![t] = "BLOCKED"])
  BY <1>1, <1>3, StateEffect
<1>5. mid = held
  <2>1. free \in Kernel /\ free.event_list[t] = NoList
    BY <1>1, <1>3 DEF ListsOK, Waiting, W
  <2>2. [free.event_list EXCEPT ![t] = NoList] = free.event_list
    BY <1>1, <2>1 DEF Kernel
  <2> QED BY <2>1, <2>2 DEF Kernel
<1> HIDE DEF mid, held
<1>6. Effect(s, mid, Queued(s), D, W, f)
  BY <1>2, <1>3, <1>4, <1>5, EffectTrans
<1>7. /\ ListsOK(mid) /\ mid.state = f /\ Queued(mid) = Queued(s)
      /\ Delayed(mid) = D /\ Waiting(mid) = W
  BY <1>6 DEF Effect
<1>8. Effect(mid, off, Queued(s) \ {t}, D, W, f)
  BY <1>1, <1>7, TaskUnreadyEffect
<1> HIDE DEF off
<1>9. /\ ListsOK(off) /\ off.state = f /\ Queued(off) = Queued(s) \ {t}
      /\ Delayed(off) = D /\ Waiting(off) = W
  BY <1>8 DEF Effect
<1>10. t \notin Delayed(off)
  BY <1>9 DEF D
<1>11. Effect(off, r, Queued(off), Delayed(off) \cup {t}, Waiting(off), off.state)
  BY <1>1, <1>9, <1>10, DelayInsertEffect
<1>12. Effect(off, r, Queued(s) \ {t}, D \cup {t}, W, f)
  BY <1>9, <1>11
<1>13. Effect(s, r, Queued(s) \ {t}, D \cup {t}, W, f)
  BY <1>6, <1>8, <1>12, EffectTrans
<1>14. Delay(s, n) = r
  BY DEF Delay, off, mid, free
<1> HIDE DEF r, f
<1>15. (D \cup {t}) \cup W = (Delayed(s) \ {t}) \cup (Waiting(s) \ {t}) \cup {t}
  BY DEF D, W
<1>16. KernelCore(r, H)
  BY <1>1, <1>13, <1>15, BecomesBlocked DEF f
<1>17. SameRest(s, r) /\ SameObjects(s, r)
  BY <1>13 DEF Effect
<1> QED BY <1>14, <1>16, <1>17, RestInv

LEMMA AbortDelayInv ==
  ASSUME NEW s, NEW H, KernelInv(s, H), NEW t \in H, s.state[t] = "BLOCKED"
  PROVE  LET r == AbortDelay(s, t)
         IN  /\ KernelInv(r, H) /\ SameRest(s, r)
             /\ MadeReady(s, r, t)
             /\ r.priority = s.priority /\ r.wakeup_reason = s.wakeup_reason
             /\ r.event_list = With(s.event_list, t, NoList)
             /\ \A e \in EventLists : r.waiting[e] = Unlink(s.waiting[e], t)
<1> DEFINE free == Unblock(s, t)
           w    == [free.wake_tick EXCEPT ![t] = 0]
           g    == free.wakeup_reason
           mid  == [free EXCEPT !.wake_tick = w, !.wakeup_reason = g]
           r    == TaskReady(mid, t)
           f    == [s.state EXCEPT ![t] = "READY"]
           D    == Delayed(s) \ {t}
           W    == Waiting(s) \ {t}
<1>1. /\ t \in Threads /\ t \in Tasks /\ ListsOK(s) /\ t \in s.used /\ KernelCore(s, H)
      /\ t \notin Queued(s) /\ t \notin ToSet(s.terminated_list)
  BY CoreFacts DEF KernelInv, KernelCore, OnReadyList
<1>2. /\ Effect(s, free, Queued(s), D, W, s.state)
      /\ SameQueued(s, free) /\ free.wakeup_reason = s.wakeup_reason
      /\ free.event_list = [s.event_list EXCEPT ![t] = NoList]
      /\ \A e \in EventLists : free.waiting[e] = Unlink(s.waiting[e], t)
  BY <1>1, UnblockEffect
<1> HIDE DEF free, D, W
<1>3. /\ ListsOK(free) /\ free \in Kernel /\ free.state = s.state /\ Queued(free) = Queued(s)
      /\ Delayed(free) = D /\ Waiting(free) = W
  BY <1>2 DEF Effect, ListsOK
<1>4. w \in [Threads -> Ticks] /\ g \in [Threads -> 0 .. 2]
  <2>1. 0 \in Ticks
    BY TickAssumption DEF Ticks
  <2> QED BY <1>3, <2>1 DEF Kernel
<1>5. AbortDelay(s, t) = r
  <2>1. [free EXCEPT !.wake_tick[t] = 0] = mid
    BY <1>3 DEF Kernel
  <2> QED BY <2>1 DEF AbortDelay, free
<1> HIDE DEF w, g
<1>6. /\ Effect(free, mid, Queued(free), Delayed(free), Waiting(free), free.state)
      /\ SameLists(free, mid) /\ mid.wakeup_reason = g
  <2>1. SetWake(free, mid, w, g)
    BY DEF SetWake
  <2>2. ListsOK(free)
    BY <1>3
  <2> HIDE DEF mid
  <2> QED BY <1>4, <2>1, <2>2, WakeEffect
<1> HIDE DEF mid
<1>7. /\ ListsOK(mid) /\ mid \in Kernel /\ t \notin Queued(mid) /\ mid.state = s.state
      /\ Queued(mid) = Queued(s) /\ Delayed(mid) = D /\ Waiting(mid) = W
  BY <1>1, <1>3, <1>6 DEF Effect, ListsOK
<1>8. Effect(mid, r, Queued(mid) \cup {t}, Delayed(mid), Waiting(mid), [mid.state EXCEPT ![t] = "READY"])
  BY <1>1, <1>7, TaskReadyEffect
<1>9. Effect(mid, r, Queued(s) \cup {t}, D, W, f)
  BY <1>7, <1>8
<1>10. Effect(s, mid, Queued(s), D, W, s.state)
  BY <1>2, <1>3, <1>6, EffectTrans
<1>11. Effect(s, r, Queued(s) \cup {t}, D, W, f)
  BY <1>9, <1>10, EffectTrans
<1>12. /\ r.priority = mid.priority /\ r.wakeup_reason = mid.wakeup_reason
       /\ SameEvents(mid, r)
  BY <1>1, <1>7, TaskReadyFields
<1> HIDE DEF r, f
<1>13. /\ r.priority = s.priority /\ r.wakeup_reason = s.wakeup_reason
       /\ r.event_list = [s.event_list EXCEPT ![t] = NoList]
       /\ \A e \in EventLists : r.waiting[e] = Unlink(s.waiting[e], t)
  BY <1>2, <1>6, <1>12 DEF SameLists, SameQueued, SameEvents, g
<1>14. MadeReady(s, r, t) /\ SameRest(s, r)
  BY <1>11 DEF MadeReady, Effect, D, W, f
<1>15. KernelCore(r, H \cup {t}) /\ H \cup {t} = H
  BY <1>1, <1>14, BecomesReady
<1> QED BY <1>5, <1>13, <1>14, <1>15, RestInv DEF With

\* rtos_task_set_priority: a queued task moves to the tail of its new list.
LEMMA MovePriority ==
  ASSUME NEW s, NEW H, KernelInv(s, H), NEW t \in H, NEW p \in Prio
  PROVE  LET r == IF s.state[t] \in OnReadyList
                  THEN TaskReady([TaskUnready(s, t) EXCEPT !.priority[t] = p], t)
                  ELSE [s EXCEPT !.priority[t] = p]
         IN  /\ KernelInv(r, H) /\ SameRest(s, r) /\ SameObjects(s, r)
             /\ Queued(r) = Queued(s) /\ Delayed(r) = Delayed(s) /\ Waiting(r) = Waiting(s)
             /\ SameEvents(s, r) /\ SameTicks(s, r) /\ SameWaits(s, r)
             /\ r.wakeup_reason = s.wakeup_reason
             /\ r.priority = With(s.priority, t, p)
             /\ r.state = With(s.state, t, IF s.state[t] \in OnReadyList THEN "READY" ELSE s.state[t])
<1> DEFINE off   == TaskUnready(s, t)
           given == [off EXCEPT !.priority[t] = p]
           put   == TaskReady(given, t)
           r     == IF s.state[t] \in OnReadyList THEN put ELSE [s EXCEPT !.priority[t] = p]
           f     == [s.state EXCEPT ![t] = "READY"]
<1>1. /\ t \in Threads /\ t # Idle /\ ListsOK(s) /\ s.state \in [Threads -> TaskState]
      /\ t \in Tasks /\ t \in s.used /\ t \notin ToSet(s.terminated_list) /\ KernelCore(s, H)
      /\ s \in Kernel
  BY CoreFacts DEF KernelInv
<1>2. CASE s.state[t] \in OnReadyList
  <2>1. Effect(s, off, Queued(s) \ {t}, Delayed(s), Waiting(s), s.state)
    BY <1>1, TaskUnreadyEffect
  <2>2. /\ SameEvents(s, off) /\ SameDelays(s, off) /\ off.wake_tick = s.wake_tick
        /\ off.wakeup_reason = s.wakeup_reason /\ off.priority = s.priority
    BY <1>1, TaskUnreadyFields DEF ListsOK
  <2> HIDE DEF off
  <2>3. ListsOK(off) /\ off \in Kernel /\ t \notin Queued(off)
    BY <2>1 DEF Effect, ListsOK
  <2>4. /\ Effect(off, given, Queued(off), Delayed(off), Waiting(off), off.state)
        /\ given.priority = [off.priority EXCEPT ![t] = p]
    BY <1>1, <2>3, PriorityEffect
  <2>5. /\ SameEvents(off, given) /\ SameDelays(off, given) /\ given.wake_tick = off.wake_tick
        /\ given.wakeup_reason = off.wakeup_reason
    BY <2>3 DEF Kernel, SameEvents, SameDelays
  <2> HIDE DEF given
  <2>6. ListsOK(given) /\ given \in Kernel /\ t \notin Queued(given)
    BY <2>3, <2>4 DEF Effect, ListsOK
  <2>7. Effect(given, put, Queued(given) \cup {t}, Delayed(given), Waiting(given),
               [given.state EXCEPT ![t] = "READY"])
    BY <1>1, <2>6, TaskReadyEffect
  <2>8. /\ SameEvents(given, put) /\ SameDelays(given, put) /\ put.wake_tick = given.wake_tick
        /\ put.wakeup_reason = given.wakeup_reason
        /\ put.priority = given.priority
    BY <1>1, <2>6, TaskReadyFields
  <2> HIDE DEF put
  <2>9. /\ t \in Queued(s) /\ t \notin Delayed(s) /\ t \notin Waiting(s)
    BY <1>1, <1>2 DEF KernelCore, OnReadyList
  <2>10. /\ (Queued(s) \ {t}) \cup {t} = Queued(s) \cup {t} /\ Queued(s) \cup {t} = Queued(s)
         /\ Delayed(s) = Delayed(s) \ {t} /\ Waiting(s) = Waiting(s) \ {t}
    BY <2>9
  <2>11. Effect(given, put, Queued(s) \cup {t}, Delayed(s) \ {t}, Waiting(s) \ {t}, f)
    BY <2>1, <2>4, <2>7, <2>10 DEF Effect
  <2>12. Effect(s, put, Queued(s) \cup {t}, Delayed(s) \ {t}, Waiting(s) \ {t}, f)
    BY <2>1, <2>4, <2>11, EffectTrans
  <2>13. KernelCore(put, H \cup {t}) /\ H \cup {t} = H
    BY <1>1, <2>12, BecomesReady DEF MadeReady
  <2>14. /\ SameRest(s, put) /\ SameObjects(s, put) /\ Queued(put) = Queued(s)
         /\ Delayed(put) = Delayed(s) /\ Waiting(put) = Waiting(s) /\ put.state = f
    BY <2>10, <2>12 DEF Effect
  <2>15. KernelInv(put, H)
    BY <2>13, <2>14, RestInv
  <2>16. /\ SameEvents(s, put) /\ SameDelays(s, put) /\ put.wake_tick = s.wake_tick
         /\ put.wakeup_reason = s.wakeup_reason
         /\ put.priority = [s.priority EXCEPT ![t] = p]
    BY <2>2, <2>4, <2>5, <2>8 DEF SameEvents, SameDelays
  <2>17. r = put
    BY <1>2
  <2>18. f = [s.state EXCEPT ![t] = IF @ \in OnReadyList THEN "READY" ELSE @]
    BY <1>2
  <2>19. SameTicks(s, put)
    BY <2>14, <2>16 DEF SameTicks, SameRest
  <2> QED BY <2>14, <2>15, <2>16, <2>17, <2>18, <2>19 DEF put, given, off, With, SameWaits
<1>3. CASE s.state[t] \notin OnReadyList
  <2> DEFINE u == [s EXCEPT !.priority[t] = p]
  <2>1. t \notin Queued(s)
    BY <1>1, <1>3 DEF KernelCore
  <2>2. /\ Effect(s, u, Queued(s), Delayed(s), Waiting(s), s.state)
        /\ u.priority = [s.priority EXCEPT ![t] = p]
    BY <1>1, <2>1, PriorityEffect
  <2>3. /\ SameEvents(s, u) /\ SameDelays(s, u) /\ u.wake_tick = s.wake_tick
        /\ u.wakeup_reason = s.wakeup_reason
    BY <1>1 DEF Kernel, SameEvents, SameDelays
  <2>4. r = u
    BY <1>3
  <2> HIDE DEF u
  <2>5. KernelInv(u, H)
    BY <2>2 DEF KernelInv, KernelCore, Effect, SameRest
  <2>6. s.state = [s.state EXCEPT ![t] = IF @ \in OnReadyList THEN "READY" ELSE @]
    BY <1>1, <1>3
  <2>7. /\ SameRest(s, u) /\ SameObjects(s, u) /\ Queued(u) = Queued(s)
        /\ Delayed(u) = Delayed(s) /\ Waiting(u) = Waiting(s) /\ u.state = s.state
    BY <2>2, EffectLists
  <2>8. SameTicks(s, u)
    BY <2>3, <2>7 DEF SameTicks, SameRest
  <2> QED BY <2>2, <2>3, <2>4, <2>5, <2>6, <2>7, <2>8 DEF u, With, SameWaits
<1> QED BY <1>2, <1>3

\* A new priority for a boosted holder of a mutex is kept for when it gives it.
LEMMA SetPriorityInv ==
  ASSUME NEW s, NEW H, KernelInv(s, H), NEW t \in H, NEW p \in Prio
  PROVE  KernelInv(SetPriority(s, t, p), H) /\ SameRest(s, SetPriority(s, t, p))
<1> DEFINE moved == IF s.state[t] \in OnReadyList
                    THEN TaskReady([TaskUnready(s, t) EXCEPT !.priority[t] = p], t)
                    ELSE [s EXCEPT !.priority[t] = p]
           q     == moved.held_queue[t]
           r     == IF q # NoQueue /\ moved.original_priority[q] # NotBoosted
                    THEN [moved EXCEPT !.original_priority[q] = p] ELSE moved
<1>1. KernelInv(moved, H) /\ SameRest(s, moved)
  BY MovePriority
<1>2. SetPriority(s, t, p) = r
  BY DEF SetPriority
<1>3. t \in Threads
  BY CoreFacts DEF KernelInv
<1> HIDE DEF moved
<1>4. moved \in Kernel /\ q \in Queues \cup {NoQueue}
  <2>1. moved \in Kernel
    BY <1>1, CoreFacts DEF KernelInv
  <2> QED BY <1>3, <2>1 DEF Kernel
<1>5. CASE q # NoQueue /\ moved.original_priority[q] # NotBoosted
  <2>1. r = [moved EXCEPT !.original_priority = [moved.original_priority EXCEPT ![q] = p]]
    BY <1>5
  <2>2. [moved.original_priority EXCEPT ![q] = p] \in [Queues -> Prio \cup {NotBoosted}]
    BY <1>4, <1>5 DEF Kernel
  <2> DEFINE o == [moved.original_priority EXCEPT ![q] = p]
  <2> HIDE DEF o, r, q
  <2>3. r \in Kernel /\ SameCore(moved, r) /\ SameRest(moved, r)
    BY <1>4, <2>1, <2>2 DEF Kernel, SameCore, SameLists, SameQueued, SameDelays, SameEvents,
       SameRest, o
  <2>4. KernelInv(r, H)
    BY <1>1, <2>3, SameCoreInv DEF KernelInv
  <2> QED BY <1>1, <1>2, <2>3, <2>4 DEF SameRest
<1>6. CASE ~(q # NoQueue /\ moved.original_priority[q] # NotBoosted)
  BY <1>1, <1>2, <1>6
<1> QED BY <1>5, <1>6

\* The running task t blocks on e, for ever or for n ticks.
Blocks(s, r, t, e, n) ==
  Effect(s, r, Queued(s) \ {t}, IF n = Forever THEN Delayed(s) ELSE Delayed(s) \cup {t},
         Waiting(s) \cup {t}, [s.state EXCEPT ![t] = "BLOCKED"])

LEMMA BlockCurrentInv ==
  ASSUME NEW s, NEW H, KernelInv(s, H), s.current \in H, s.state[s.current] # "BLOCKED",
         NEW e \in EventLists, NEW n \in Nat \cup {Forever}
  PROVE  LET t == s.current
             r == BlockCurrent(s, e, n)
             i == EventPlace(s, e, t)
         IN  /\ KernelInv(r, H) /\ Blocks(s, r, t, e, n)
             /\ r.priority = s.priority /\ r.wakeup_reason = s.wakeup_reason
             /\ r.event_list = With(s.event_list, t, e)
             /\ r.waiting = With(s.waiting, e, InsertBefore(s.waiting[e], t, i))
<1> DEFINE t   == s.current
           i   == EventPlace(s, e, t)
           a   == EventInsert(s, e, t)
           b   == IF n = Forever THEN a ELSE DelayInsert(a, t, n)
           c   == [b EXCEPT !.state[t] = "BLOCKED"]
           r   == TaskUnready(c, t)
           D   == IF n = Forever THEN Delayed(s) ELSE Delayed(s) \cup {t}
           f   == [s.state EXCEPT ![t] = "BLOCKED"]
<1>1. /\ t \in Threads /\ t \in H /\ ListsOK(s) /\ "BLOCKED" \in TaskState
      /\ s.state \in [Threads -> TaskState] /\ KernelCore(s, H)
  BY CoreFacts DEF KernelInv, TaskState
<1>2. t \notin Delayed(s) /\ t \notin Waiting(s) /\ s.event_list[t] = NoList
  BY <1>1 DEF KernelCore, Waiting
<1>3. /\ Effect(s, a, Queued(s), Delayed(s), Waiting(s) \cup {t}, s.state)
      /\ SameQueued(s, a) /\ a.wakeup_reason = s.wakeup_reason
      /\ a.event_list = [s.event_list EXCEPT ![t] = e]
      /\ a.waiting = [s.waiting EXCEPT ![e] = InsertBefore(@, t, i)]
  <2> HIDE DEF t
  <2> QED BY SMTT(40), <1>1, <1>2, EventInsertEffect
<1> HIDE DEF a, i
<1>4. /\ ListsOK(a) /\ Queued(a) = Queued(s) /\ Delayed(a) = Delayed(s)
      /\ Waiting(a) = Waiting(s) \cup {t} /\ a.state = s.state
  BY <1>3 DEF Effect
<1>5. /\ Effect(a, b, Queued(a), D, Waiting(a), a.state)
      /\ SameQueued(a, b) /\ SameEvents(a, b) /\ b.wakeup_reason = a.wakeup_reason
  <2>1. CASE n = Forever
    BY <1>4, <2>1 DEF Effect, SameRest, SameObjects, SameQueued, SameEvents
  <2>2. CASE n # Forever
    <3>1. n \in Nat /\ t \notin Delayed(a)
      BY <1>2, <1>4, <2>2
    <3>2. /\ Effect(a, DelayInsert(a, t, n), Queued(a), Delayed(a) \cup {t}, Waiting(a), a.state)
          /\ SameQueued(a, DelayInsert(a, t, n)) /\ SameEvents(a, DelayInsert(a, t, n))
          /\ DelayInsert(a, t, n).wakeup_reason = a.wakeup_reason
      BY <1>1, <1>4, <3>1, DelayInsertEffect
    <3> QED BY <1>4, <2>2, <3>2
  <2> QED BY <2>1, <2>2
<1> HIDE DEF b, D
<1>6. /\ ListsOK(b) /\ Queued(b) = Queued(s) /\ Delayed(b) = D
      /\ Waiting(b) = Waiting(s) \cup {t} /\ b.state = s.state
  BY <1>4, <1>5 DEF Effect
<1>7. /\ Effect(b, c, Queued(b), Delayed(b), Waiting(b), [b.state EXCEPT ![t] = "BLOCKED"])
      /\ SameLists(b, c) /\ c.wakeup_reason = b.wakeup_reason
  BY <1>1, <1>6, StateEffect
<1> HIDE DEF c
<1>8. /\ ListsOK(c) /\ c \in Kernel /\ Queued(c) = Queued(s) /\ Delayed(c) = D
      /\ Waiting(c) = Waiting(s) \cup {t} /\ c.state = f
  BY <1>6, <1>7 DEF Effect, ListsOK
<1>9. Effect(c, r, Queued(c) \ {t}, Delayed(c), Waiting(c), c.state)
  BY <1>1, <1>8, TaskUnreadyEffect
<1>10. /\ SameEvents(c, r) /\ r.priority = c.priority /\ r.wakeup_reason = c.wakeup_reason
  BY <1>1, <1>8, TaskUnreadyFields DEF ListsOK
<1> HIDE DEF r, f
<1>11. Effect(c, r, Queued(s) \ {t}, D, Waiting(s) \cup {t}, f)
  BY <1>8, <1>9
<1>12. Effect(s, b, Queued(s), D, Waiting(s) \cup {t}, s.state)
  BY <1>3, <1>4, <1>5, EffectTrans
<1>13. Effect(s, c, Queued(s), D, Waiting(s) \cup {t}, f)
  BY <1>6, <1>7, <1>12, EffectTrans DEF f
<1>14. Effect(s, r, Queued(s) \ {t}, D, Waiting(s) \cup {t}, f)
  BY <1>11, <1>13, EffectTrans
<1>15. D \cup (Waiting(s) \cup {t}) = (Delayed(s) \ {t}) \cup (Waiting(s) \ {t}) \cup {t}
  BY DEF D
<1>16. KernelCore(r, H) /\ SameRest(s, r)
  BY <1>1, <1>14, <1>15, BecomesBlocked DEF f, Effect
<1>17. KernelInv(r, H)
  BY <1>16, RestInv
<1>18. /\ r.priority = s.priority /\ r.wakeup_reason = s.wakeup_reason
       /\ r.event_list = [s.event_list EXCEPT ![t] = e]
       /\ r.waiting = [s.waiting EXCEPT ![e] = InsertBefore(@, t, i)]
  BY <1>3, <1>5, <1>7, <1>10 DEF SameQueued, SameEvents, SameLists
<1>19. BlockCurrent(s, e, n) = r
  BY ZenonT(60) DEF BlockCurrent, r, c, b, a
<1> QED BY <1>14, <1>17, <1>18, <1>19 DEF D, f, i, With, Blocks

\* A wake-up takes the first task of an event list off the delay lists too.
LEMMA WakeHighestEffect ==
  ASSUME NEW s, NEW H, KernelCore(s, H), NEW e \in EventLists, s.waiting[e] # <<>>
  PROVE  LET t == Head(s.waiting[e])
             p == s.priority[t]
             r == WakeHighest(s, e)
         IN  /\ t \in H /\ s.state[t] = "BLOCKED" /\ s.event_list[t] = e
             /\ t \in ToSet(s.waiting[e]) /\ t \notin Queued(s)
             /\ FirstWaiting(s, e) = t /\ t # NoTask
             /\ KernelCore(r, H)
             /\ MadeReady(s, r, t)
             /\ r.priority = s.priority
             /\ r.wakeup_reason = With(s.wakeup_reason, t, 1)
             /\ r.event_list = With(s.event_list, t, NoList)
             /\ r.waiting = With(s.waiting, e, Tail(s.waiting[e]))
             /\ r.ready_map = s.ready_map \cup {p}
             /\ r.ready_list = With(s.ready_list, p, Append(s.ready_list[p], t))
<1> DEFINE t == Head(s.waiting[e])
           l == Tail(s.waiting[e])
           w == [s.waiting EXCEPT ![e] = l]
           f == [s.event_list EXCEPT ![t] = NoList]
           g == [s.wakeup_reason EXCEPT ![t] = 1]
           a == [s EXCEPT !.waiting = w, !.event_list = f, !.wakeup_reason = g]
           b == DelayRemove(a, t)
           r == TaskReady(b, t)
           v == [s.state EXCEPT ![t] = "READY"]
<1>1. /\ s \in Kernel /\ ListsOK(s) /\ s.waiting \in [EventLists -> Seq(Threads)] /\ EventsOK(s)
      /\ s.event_list \in [Threads -> EventLists \cup {NoList}]
      /\ s.wakeup_reason \in [Threads -> 0 .. 2] /\ s.state \in [Threads -> TaskState]
  BY DEF KernelCore, ListsOK, Kernel
<1>2. /\ t \in Threads /\ t \in ToSet(s.waiting[e]) /\ l \in Seq(Threads) /\ Distinct(l)
      /\ ToSet(l) = ToSet(s.waiting[e]) \ {t}
  BY <1>1, HeadDistinct DEF EventsOK
<1>3. s.event_list[t] = e /\ t \in Waiting(s)
  BY <1>1, <1>2, NoListIsNone DEF EventsOK, Waiting
<1>4. t \in H /\ s.state[t] = "BLOCKED"
  BY <1>3 DEF KernelCore
<1>5. t \notin Queued(s) /\ t \in Tasks /\ t \in s.used /\ t \notin ToSet(s.terminated_list)
  BY <1>4, CoreFacts DEF KernelCore, OnReadyList
<1>6. FirstWaiting(s, e) = t /\ t # NoTask
  BY <1>2, QueueAssumption DEF FirstWaiting, NoTask, Threads
<1>7. WakeHighest(s, e) = r
  BY <1>6 DEF WakeHighest
<1> HIDE DEF t, l
<1>8. /\ w \in [EventLists -> Seq(Threads)] /\ f \in [Threads -> EventLists \cup {NoList}]
      /\ g \in [Threads -> 0 .. 2] /\ w = [s.waiting EXCEPT ![e] = l]
      /\ f = [s.event_list EXCEPT ![t] = NoList]
  BY <1>1, <1>2
<1> HIDE DEF w, f, g
<1>9. /\ a \in Kernel /\ SameQueued(s, a) /\ SameDelays(s, a) /\ SameRest(s, a)
      /\ SameObjects(s, a) /\ a.state = s.state /\ a.wakeup_reason = g
      /\ a.waiting = w /\ a.event_list = f /\ a.ready_list = s.ready_list
  BY ZenonT(60), <1>1, <1>8 DEF Kernel, SameQueued, SameDelays, SameRest, SameObjects
<1> HIDE DEF a
<1>10. /\ a.waiting = [s.waiting EXCEPT ![e] = l]
       /\ a.event_list = [s.event_list EXCEPT ![t] = NoList]
  BY <1>8, <1>9
<1>11. Effect(s, a, Queued(s), Delayed(s), Waiting(s) \ {t}, s.state)
  <2>1. /\ ListsOK(s) /\ t \in Threads /\ l \in Seq(Threads) /\ Distinct(l)
        /\ s.event_list[t] = e /\ ToSet(l) = ToSet(s.waiting[e]) \ {t}
    BY <1>1, <1>2, <1>3
  <2>2. /\ a \in Kernel /\ SameQueued(s, a) /\ SameDelays(s, a) /\ SameRest(s, a)
        /\ SameObjects(s, a) /\ a.state = s.state
    BY <1>9
  <2> QED BY ZenonT(60), <1>10, <2>1, <2>2, EventUnlinked
<1>12. /\ ListsOK(a) /\ Queued(a) = Queued(s) /\ Delayed(a) = Delayed(s)
       /\ Waiting(a) = Waiting(s) \ {t} /\ a.state = s.state
  BY <1>11 DEF Effect
<1>13. /\ Effect(a, b, Queued(a), Delayed(a) \ {t}, Waiting(a), a.state)
       /\ SameQueued(a, b) /\ SameEvents(a, b) /\ b.wakeup_reason = a.wakeup_reason
  BY <1>2, <1>12, DelayRemoveEffect
<1> HIDE DEF b
<1>14. /\ ListsOK(b) /\ b \in Kernel /\ Queued(b) = Queued(s) /\ Delayed(b) = Delayed(s) \ {t}
       /\ Waiting(b) = Waiting(s) \ {t} /\ b.state = s.state
  BY <1>12, <1>13 DEF Effect, ListsOK
<1>15. Effect(b, r, Queued(b) \cup {t}, Delayed(b), Waiting(b), [b.state EXCEPT ![t] = "READY"])
  BY <1>2, <1>5, <1>14, TaskReadyEffect
<1>16. Effect(b, r, Queued(s) \cup {t}, Delayed(s) \ {t}, Waiting(s) \ {t}, v)
  BY <1>14, <1>15
<1>17. Effect(s, b, Queued(s), Delayed(s) \ {t}, Waiting(s) \ {t}, s.state)
  BY <1>11, <1>12, <1>13, EffectTrans
<1>18. Effect(s, r, Queued(s) \cup {t}, Delayed(s) \ {t}, Waiting(s) \ {t}, v)
  BY <1>16, <1>17, EffectTrans
<1>19. /\ SameEvents(b, r) /\ r.priority = b.priority /\ r.wakeup_reason = b.wakeup_reason
       /\ r.ready_map = b.ready_map \cup {b.priority[t]}
       /\ r.ready_list = [b.ready_list EXCEPT ![b.priority[t]] = Append(@, t)]
  BY <1>2, <1>14, TaskReadyFields
<1> HIDE DEF r
<1>20. /\ r.priority = s.priority /\ r.wakeup_reason = g
       /\ r.event_list = f /\ r.waiting = w
       /\ r.ready_map = s.ready_map \cup {s.priority[t]}
       /\ r.ready_list = [s.ready_list EXCEPT ![s.priority[t]] = Append(@, t)]
  BY <1>9, <1>13, <1>19 DEF SameQueued, SameEvents
<1>23. MadeReady(s, r, t)
  BY <1>18, Zenon DEF MadeReady, v
<1>21. KernelCore(r, H \cup {t}) /\ H \cup {t} = H
  BY <1>4, <1>5, <1>23, BecomesReady
<1>22. /\ MadeReady(s, r, t) /\ w = With(s.waiting, e, l)
       /\ f = With(s.event_list, t, NoList) /\ g = With(s.wakeup_reason, t, 1)
       /\ r.ready_list = With(s.ready_list, s.priority[t], Append(s.ready_list[s.priority[t]], t))
  BY <1>18, <1>20 DEF With, MadeReady, v, w, f, g
<1> QED BY ZenonT(60), <1>2, <1>3, <1>4, <1>5, <1>6, <1>7, <1>20, <1>21, <1>22 DEF r, l, t

LEMMA WakeNobody ==
  ASSUME NEW s, NEW e, s.waiting[e] = <<>>
  PROVE  WakeHighest(s, e) = s /\ FirstWaiting(s, e) = NoTask
BY DEF WakeHighest, FirstWaiting

\* A wake-up leaves the tasks alone that the application has no handle of.
LEMMA WakeHighestInv ==
  ASSUME NEW s, NEW H, KernelCore(s, H), NEW e \in EventLists
  PROVE  LET r == WakeHighest(s, e)
         IN  /\ KernelCore(r, H) /\ SameRest(s, r) /\ SameObjects(s, r)
             /\ r.priority = s.priority
             /\ \A u \in Threads \ H : r.state[u] = s.state[u]
             /\ FirstWaiting(s, e) \in H \cup {NoTask}
<1>1. CASE s.waiting[e] = <<>>
  BY <1>1, WakeNobody DEF SameRest, SameObjects
<1>2. CASE s.waiting[e] # <<>>
  <2> DEFINE t == Head(s.waiting[e])
             r == WakeHighest(s, e)
  <2>1. /\ t \in H /\ KernelCore(r, H) /\ r.priority = s.priority /\ FirstWaiting(s, e) = t
        /\ MadeReady(s, r, t)
    BY <1>2, WakeHighestEffect
  <2>2. s.state \in [Threads -> TaskState]
    BY CoreFacts
  <2> HIDE DEF r, t
  <2>3. SameRest(s, r) /\ SameObjects(s, r) /\ r.state = [s.state EXCEPT ![t] = "READY"]
    BY <2>1 DEF MadeReady, Effect
  <2> QED BY <2>1, <2>2, <2>3 DEF r
<1> QED BY <1>1, <1>2

\* rtos_queue_release_held: a mutex changes hands, or is free, or there is none.
LEMMA ReleaseHeldInv ==
  ASSUME NEW s, NEW H, KernelCore(s, H), NEW t \in Threads
  PROVE  LET r == ReleaseHeld(s, t)
         IN  /\ KernelCore(r, H) /\ SameRest(s, r) /\ r.priority = s.priority
             /\ \A u \in Threads \ H : r.state[u] = s.state[u]
<1> DEFINE q     == s.held_queue[t]
           e     == <<q, "receive">>
           heir  == FirstWaiting(s, e)
           hq    == [s.held_queue EXCEPT ![t] = NoQueue]
           rc    == [s.recursive_count EXCEPT ![q] = IF QueueType[q] = "RECURSIVE" THEN 0 ELSE @]
           op    == [s.original_priority EXCEPT ![q] = NotBoosted]
           unset == [s EXCEPT !.held_queue = hq]
           clear == [unset EXCEPT !.recursive_count = rc, !.original_priority = op]
           woken == WakeHighest(clear, e)
           given == [woken EXCEPT !.mutex_holder[q] = heir, !.held_queue[heir] = q]
           freed == [clear EXCEPT !.messages_waiting[q] = 1, !.mutex_holder[q] = NoTask]
           r     == ReleaseHeld(s, t)
<1>1. s \in Kernel /\ q \in Queues \cup {NoQueue}
  BY CoreFacts DEF Kernel
<1>2. /\ hq \in [Threads -> Queues \cup {NoQueue}]
      /\ unset \in Kernel /\ SameCore(s, unset) /\ SameRest(s, unset)
  <2>1. hq \in [Threads -> Queues \cup {NoQueue}]
    BY <1>1 DEF Kernel
  <2> HIDE DEF hq
  <2> QED BY <1>1, <2>1 DEF Kernel, SameCore, SameLists, SameQueued, SameDelays, SameEvents, SameRest
<1>3. KernelCore(unset, H)
  BY <1>2, SameCoreInv
<1>4. CASE q = NoQueue
  BY <1>4 DEF ReleaseHeld, SameRest
<1>5. CASE q # NoQueue /\ ~IsMutex(q)
  <2>1. r = unset
    BY <1>5 DEF ReleaseHeld
  <2> HIDE DEF r, unset
  <2> QED BY <1>2, <1>3, <2>1 DEF SameCore, SameLists, SameQueued, r
<1>6. CASE q # NoQueue /\ IsMutex(q)
  <2>1. q \in Queues /\ e \in EventLists
    BY <1>1, <1>6 DEF EventLists
  <2>2. rc \in [Queues -> Int] /\ op \in [Queues -> Prio \cup {NotBoosted}]
    BY SMTT(40), <1>1, <2>1 DEF Kernel
  <2>3. clear \in Kernel /\ SameCore(s, clear) /\ SameRest(s, clear) /\ clear.held_queue = hq
    <3> HIDE DEF rc, op, unset
    <3>1. clear \in Kernel /\ SameCore(unset, clear) /\ SameRest(unset, clear)
          /\ clear.held_queue = unset.held_queue
      BY <1>2, <2>2 DEF Kernel, SameCore, SameLists, SameQueued, SameDelays, SameEvents, SameRest
    <3>2. unset.held_queue = hq
      BY <1>1 DEF Kernel, unset
    <3> QED BY <1>2, <3>1, <3>2 DEF SameCore, SameLists, SameQueued, SameDelays, SameEvents, SameRest
  <2>4. KernelCore(clear, H) /\ clear.state = s.state /\ clear.priority = s.priority
    BY <2>3, SameCoreInv DEF SameCore, SameLists, SameQueued
  <2>5. heir = FirstWaiting(clear, e)
    BY <2>3 DEF FirstWaiting, SameCore, SameLists, SameEvents
  <2>6. r = IF heir = NoTask THEN freed ELSE given
    BY <1>6 DEF ReleaseHeld
  <2> HIDE DEF clear, heir, q, e, r
  <2>7. CASE heir = NoTask
    <3> DEFINE mw == [clear.messages_waiting EXCEPT ![q] = 1]
               mh == [clear.mutex_holder EXCEPT ![q] = NoTask]
    <3>1. mw \in [Queues -> Nat] /\ mh \in [Queues -> Threads \cup {NoTask}]
      BY <2>1, <2>3 DEF Kernel
    <3>2. r = [clear EXCEPT !.messages_waiting = mw, !.mutex_holder = mh]
      BY <2>6, <2>7
    <3> HIDE DEF mw, mh
    <3>3. r \in Kernel /\ SameCore(clear, r) /\ SameRest(clear, r)
      BY <2>3, <3>1, <3>2 DEF Kernel, SameCore, SameLists, SameQueued, SameDelays, SameEvents,
         SameRest
    <3> QED BY <2>3, <2>4, <3>3, SameCoreInv DEF SameCore, SameLists, SameQueued, SameRest, r
  <2>8. CASE heir # NoTask
    <3>1. /\ KernelCore(woken, H) /\ SameRest(clear, woken) /\ woken.priority = clear.priority
          /\ \A u \in Threads \ H : woken.state[u] = clear.state[u]
          /\ heir \in H \cup {NoTask}
      BY <2>1, <2>4, <2>5, WakeHighestInv
    <3>2. woken \in Kernel /\ heir \in Threads
      BY <2>8, <3>1, CoreFacts
    <3> HIDE DEF woken
    <3> DEFINE mh == [woken.mutex_holder EXCEPT ![q] = heir]
               hh == [woken.held_queue EXCEPT ![heir] = q]
    <3>3. mh \in [Queues -> Threads \cup {NoTask}] /\ hh \in [Threads -> Queues \cup {NoQueue}]
      BY <2>1, <3>2 DEF Kernel
    <3>4. r = [woken EXCEPT !.mutex_holder = mh, !.held_queue = hh]
      BY <2>6, <2>8
    <3> HIDE DEF mh, hh
    <3>5. r \in Kernel /\ SameCore(woken, r) /\ SameRest(woken, r)
      BY <3>2, <3>3, <3>4 DEF Kernel, SameCore, SameLists, SameQueued, SameDelays, SameEvents,
         SameRest
    <3>6. KernelCore(r, H)
      BY <3>1, <3>5, SameCoreInv
    <3> QED BY <2>3, <2>4, <3>1, <3>5, <3>6 DEF SameCore, SameLists, SameQueued, SameRest, r
  <2> QED BY <2>7, <2>8
<1> QED BY <1>4, <1>5, <1>6

\* A task that is deleted leaves its lists, and then gives up the mutex it holds.
LEMMA TerminateInv ==
  ASSUME NEW s, NEW H, KernelInv(s, H), NEW t \in H
  PROVE  LET r == Terminate(s, t)
         IN  KernelCore(r, H \ {t}) /\ SameRest(s, r) /\ r.state[t] = "DELETED"
<1> DEFINE m == [Deactivate(s, t) EXCEPT !.state[t] = "DELETED"]
<1>1. /\ t \in Threads /\ "DELETED" \in TaskState /\ KernelCore(s, H)
      /\ s.state \in [Threads -> TaskState]
  BY CoreFacts DEF KernelInv, TaskState
<1>2. Effect(s, m, Queued(s) \ {t}, Delayed(s) \ {t}, Waiting(s) \ {t},
             [s.state EXCEPT ![t] = "DELETED"])
  BY <1>1, DeactivateStateEffect
<1>3. Terminate(s, t) = ReleaseHeld(m, t)
  BY DEF Terminate
<1> HIDE DEF m
<1>4. KernelCore(m, H \ {t}) /\ SameRest(s, m) /\ m.state[t] = "DELETED"
  BY <1>1, <1>2, LeavesLists DEF Effect
<1>5. /\ KernelCore(ReleaseHeld(m, t), H \ {t}) /\ SameRest(m, ReleaseHeld(m, t))
      /\ \A u \in Threads \ (H \ {t}) : ReleaseHeld(m, t).state[u] = m.state[u]
  BY <1>1, <1>4, ReleaseHeldInv
<1> QED BY <1>1, <1>3, <1>4, <1>5 DEF SameRest

\* A deleted task is on no list, and its slot is free or waits for the idle task.
LEMMA DeleteOtherInv ==
  ASSUME NEW s, NEW H, KernelInv(s, H), NEW t \in H, t # s.current
  PROVE  LET r == DeleteOther(s, t)
         IN  /\ KernelInv(r, H \ {t}) /\ r.used = s.used \ {t}
             /\ r.current = s.current /\ r.terminated_list = s.terminated_list
             /\ r.sched_lock = s.sched_lock /\ r.pend_sv = s.pend_sv
             /\ r.need_resched = s.need_resched
<1> DEFINE m == Terminate(s, t)
           G == H \ {t}
           r == [m EXCEPT !.used = @ \ {t}]
<1>1. KernelCore(m, G) /\ SameRest(s, m) /\ m.state[t] = "DELETED"
  BY TerminateInv
<1>2. m \in Kernel /\ m.used = s.used
  BY <1>1, CoreFacts DEF SameRest
<1> HIDE DEF m
<1>3. /\ r \in Kernel /\ r.used = s.used \ {t} /\ SameLists(m, r) /\ r.state = m.state
      /\ r.current = m.current /\ r.terminated_list = m.terminated_list
      /\ r.sched_lock = m.sched_lock /\ r.pend_sv = m.pend_sv
      /\ r.need_resched = m.need_resched
  BY <1>2 DEF Kernel, SameLists, SameQueued, SameDelays, SameEvents
<1> HIDE DEF r
<1>4. /\ ListsOK(r) /\ Queued(r) = Queued(m) /\ Delayed(r) = Delayed(m)
      /\ Waiting(r) = Waiting(m)
  BY <1>1, <1>3, SameListsOK DEF KernelCore
<1>5. t \notin ToSet(s.terminated_list) /\ G \subseteq r.used
  BY <1>3 DEF KernelInv, KernelCore, G
<1>6. s.current \in G \cup {Idle} \cup ToSet(s.terminated_list)
  BY DEF KernelInv, G
<1> HIDE DEF G
<1>7. KernelInv(r, G)
  BY <1>1, <1>2, <1>3, <1>4, <1>5, <1>6 DEF KernelInv, KernelCore, SameRest
<1> QED BY <1>1, <1>3, <1>7 DEF DeleteOther, r, m, G, SameRest

LEMMA DeleteSelfInv ==
  ASSUME NEW s, NEW H, KernelInv(s, H), s.current \in H
  PROVE  LET r == DeleteSelf(s)
         IN  /\ KernelInv(r, H \ {s.current}) /\ r.used = s.used
             /\ r.current = s.current /\ r.sched_lock = 0
             /\ ToSet(r.terminated_list) = ToSet(s.terminated_list) \cup {s.current}
             /\ IF s.sched_lock > 0 THEN r.pend_sv ELSE r.pend_sv = s.pend_sv
<1> DEFINE t == s.current
           m == Terminate(s, t)
           l == Append(s.terminated_list, t)
           e == [m EXCEPT !.terminated_list = l, !.sched_lock = 0]
           G == H \ {t}
           r == DeleteSelf(s)
<1>1. /\ t \in Threads /\ t \in s.used /\ s.terminated_list \in Seq(Threads)
      /\ t \notin ToSet(s.terminated_list) /\ Distinct(s.terminated_list)
      /\ ToSet(s.terminated_list) \subseteq s.used \ H
  <2>1. s \in Kernel /\ KernelCore(s, H)
    BY CoreFacts DEF KernelInv
  <2> QED BY <2>1 DEF KernelCore, Kernel
<1>2. KernelCore(m, G) /\ SameRest(s, m) /\ m.state[t] = "DELETED"
  BY TerminateInv
<1>3. /\ l \in Seq(Threads) /\ Distinct(l)
      /\ ToSet(l) = ToSet(s.terminated_list) \cup {t}
  BY <1>1, AppendDistinct
<1>4. \/ s.sched_lock > 0 /\ r = [e EXCEPT !.need_resched = FALSE, !.pend_sv = TRUE]
      \/ ~(s.sched_lock > 0) /\ r = [e EXCEPT !.need_resched = TRUE]
  <2>1. m.terminated_list = s.terminated_list
    BY <1>2 DEF SameRest
  <2>2. e = [m EXCEPT !.terminated_list = Append(@, t), !.sched_lock = 0]
    BY <2>1
  <2>3. r = IF s.sched_lock > 0 THEN RequestSwitch([e EXCEPT !.need_resched = FALSE])
                                ELSE [e EXCEPT !.need_resched = TRUE]
    BY <2>2 DEF DeleteSelf
  <2> HIDE DEF e, r
  <2> QED BY <2>3 DEF RequestSwitch
<1> HIDE DEF m, l, r
<1>5. m \in Kernel /\ m.used = s.used /\ m.current = t
  BY <1>2, CoreFacts DEF SameRest
<1>6. /\ e \in Kernel /\ e.used = m.used /\ e.terminated_list = l /\ e.sched_lock = 0
      /\ SameLists(m, e) /\ e.state = m.state /\ e.current = m.current /\ e.pend_sv = m.pend_sv
  BY <1>3, <1>5 DEF Kernel, SameLists, SameQueued, SameDelays, SameEvents
<1> HIDE DEF e
<1>7. /\ ListsOK(e) /\ Queued(e) = Queued(m) /\ Delayed(e) = Delayed(m)
      /\ Waiting(e) = Waiting(m)
  BY <1>2, <1>6, SameListsOK DEF KernelCore
<1>8. /\ G \subseteq e.used /\ ToSet(l) \subseteq e.used \ G /\ t \in ToSet(l)
  BY <1>1, <1>2, <1>3, <1>5, <1>6 DEF KernelCore
<1>9. \A u \in ToSet(l) : e.state[u] = "DELETED"
  BY <1>2, <1>3, <1>6 DEF KernelCore, SameRest
<1> HIDE DEF G
<1>10. KernelInv(e, G)
  <2>1. /\ Queued(m) = {u \in G \cup {Idle} : m.state[u] \in OnReadyList}
        /\ Delayed(m) \cup Waiting(m) = {u \in G : m.state[u] = "BLOCKED"}
        /\ m.state[Idle] \in OnReadyList
        /\ \A u \in Threads : m.state[u] = "RUNNING" => u = m.current
    BY <1>2 DEF KernelCore
  <2>2. KernelCore(e, G)
    BY <1>3, <1>6, <1>7, <1>8, <1>9, <2>1 DEF KernelCore
  <2> QED BY <1>5, <1>6, <1>8, <2>2 DEF KernelInv
<1>11. /\ r \in Kernel /\ SameCore(e, r) /\ r.sched_lock = e.sched_lock
       /\ r.pend_sv = IF s.sched_lock > 0 THEN TRUE ELSE e.pend_sv
  <2>1. CASE s.sched_lock > 0 /\ r = [e EXCEPT !.need_resched = FALSE, !.pend_sv = TRUE]
    BY ZenonT(60), <1>6, <2>1 DEF Kernel, SameCore, SameLists, SameQueued, SameDelays, SameEvents
  <2>2. CASE ~(s.sched_lock > 0) /\ r = [e EXCEPT !.need_resched = TRUE]
    BY ZenonT(60), <1>6, <2>2 DEF Kernel, SameCore, SameLists, SameQueued, SameDelays, SameEvents
  <2> QED BY <1>4, <2>1, <2>2
<1>12. KernelInv(r, G)
  BY <1>10, <1>11, SameCoreInv DEF KernelInv
<1> QED BY <1>2, <1>3, <1>5, <1>6, <1>11, <1>12 DEF SameCore, SameRest, r, G

\* rtos_task_create of a free slot changes no list.
LEMMA TcbAllocInv ==
  ASSUME NEW s, NEW H, KernelInv(s, H), NEW t \in Tasks, t \notin s.used, NEW p \in Prio
  PROVE  LET r == TcbAlloc(s, t, p)
         IN  /\ KernelInv(r, H) /\ r.used = s.used \cup {t}
             /\ r.current = s.current /\ r.terminated_list = s.terminated_list
             /\ r.sched_lock = s.sched_lock /\ r.pend_sv = s.pend_sv
             /\ r.need_resched = s.need_resched
             /\ r.ready_list = s.ready_list /\ r.ready_map = s.ready_map
             /\ SameDelays(s, r) /\ SameEvents(s, r) /\ r.tick_count = s.tick_count
             /\ r.priority = With(s.priority, t, p)
             /\ r.state = With(s.state, t, "READY")
             /\ r.wake_tick = With(s.wake_tick, t, 0)
             /\ r.wakeup_reason = With(s.wakeup_reason, t, 0)
             /\ r.held_queue = With(s.held_queue, t, NoQueue)
             /\ r.messages_waiting = s.messages_waiting /\ r.mutex_holder = s.mutex_holder
             /\ r.original_priority = s.original_priority
             /\ r.recursive_count = s.recursive_count
<1> DEFINE f == [s.state EXCEPT ![t] = "READY"]
           g == [s.priority EXCEPT ![t] = p]
           a == [s EXCEPT !.priority = g]
           r == TcbAlloc(s, t, p)
<1>1. /\ s \in Kernel /\ t \in Threads /\ t # Idle /\ s.state \in [Threads -> TaskState]
      /\ H \cup {Idle} \subseteq Threads /\ s.used \subseteq Tasks /\ t \notin H
      /\ t \notin ToSet(s.terminated_list) /\ t \notin Queued(s) /\ ListsOK(s)
      /\ t # s.current /\ t \notin Waiting(s) /\ KernelCore(s, H)
      /\ ToSet(s.terminated_list) \subseteq Threads
  <2>1. /\ s \in Kernel /\ ListsOK(s) /\ H \subseteq s.used /\ s.used \subseteq Tasks
        /\ H \cup {Idle} \subseteq Threads /\ s.state \in [Threads -> TaskState]
        /\ ToSet(s.terminated_list) \subseteq s.used \ H /\ KernelCore(s, H)
    BY CoreFacts DEF KernelInv, KernelCore
  <2> QED BY <2>1, IdleAssumption DEF KernelInv, KernelCore, Threads
<1>2. Effect(s, a, Queued(s), Delayed(s), Waiting(s), s.state)
  BY <1>1, PriorityEffect
<1>3. g \in [Threads -> Prio] /\ f \in [Threads -> TaskState]
  BY <1>1 DEF Kernel, TaskState
<1>4. s.event_list = [s.event_list EXCEPT ![t] = NoList]
  BY <1>1 DEF Waiting, Kernel
<1>5. /\ [s.time_slice EXCEPT ![t] = TimeSliceTicks] \in [Threads -> 0 .. TimeSliceTicks]
      /\ [s.wakeup_reason EXCEPT ![t] = 0] \in [Threads -> 0 .. 2]
      /\ [s.wake_tick EXCEPT ![t] = 0] \in [Threads -> Ticks]
      /\ [s.held_queue EXCEPT ![t] = NoQueue] \in [Threads -> Queues \cup {NoQueue}]
  <2>1. /\ TimeSliceTicks \in 0 .. TimeSliceTicks /\ 0 \in Ticks /\ 0 \in 0 .. 2
    BY SliceAssumption, TickAssumption DEF Ticks
  <2> QED BY <1>1, <2>1 DEF Kernel
<1>6. r = [s EXCEPT !.used = s.used \cup {t}, !.priority = g,
             !.time_slice = [s.time_slice EXCEPT ![t] = TimeSliceTicks], !.state = f,
             !.event_list = [s.event_list EXCEPT ![t] = NoList],
             !.wakeup_reason = [s.wakeup_reason EXCEPT ![t] = 0],
             !.wake_tick = [s.wake_tick EXCEPT ![t] = 0],
             !.held_queue = [s.held_queue EXCEPT ![t] = NoQueue]]
  BY DEF TcbAlloc
<1> HIDE DEF f, g, r
<1>7. r \in Kernel
  BY ZenonT(60), <1>1, <1>3, <1>4, <1>5, <1>6 DEF Kernel
<1>8. /\ r.ready_list = s.ready_list /\ r.ready_map = s.ready_map
      /\ r.priority = g /\ SameDelays(s, r) /\ SameEvents(s, r) /\ r.state = f
      /\ r.used = s.used \cup {t} /\ r.terminated_list = s.terminated_list
      /\ r.current = s.current /\ r.sched_lock = s.sched_lock /\ r.pend_sv = s.pend_sv
      /\ r.need_resched = s.need_resched /\ r.tick_count = s.tick_count
      /\ r.wake_tick = With(s.wake_tick, t, 0)
      /\ r.wakeup_reason = With(s.wakeup_reason, t, 0)
      /\ r.held_queue = With(s.held_queue, t, NoQueue)
      /\ r.messages_waiting = s.messages_waiting /\ r.mutex_holder = s.mutex_holder
      /\ r.original_priority = s.original_priority
      /\ r.recursive_count = s.recursive_count
  BY <1>1, <1>4, <1>6 DEF Kernel, SameDelays, SameEvents, With
<1>9. SameLists(a, r)
  BY <1>1, <1>8 DEF Kernel, SameLists, SameQueued, SameDelays, SameEvents
<1> HIDE DEF a
<1>10. /\ ListsOK(r) /\ Queued(r) = Queued(s) /\ Delayed(r) = Delayed(s)
       /\ Waiting(r) = Waiting(s)
  BY <1>2, <1>7, <1>9, SameListsOK DEF Effect
<1>11. f[t] = "READY" /\ \A u \in Threads \ {t} : f[u] = s.state[u]
  BY <1>1 DEF f
<1>12. KernelInv(r, H)
  <2>1. Queued(r) = {u \in H \cup {Idle} : f[u] \in OnReadyList}
    BY <1>1, <1>10, <1>11 DEF KernelCore
  <2>2. Delayed(r) \cup Waiting(r) = {u \in H : f[u] = "BLOCKED"}
    BY <1>1, <1>10, <1>11 DEF KernelCore
  <2>3. f[Idle] \in OnReadyList /\ \A u \in Threads : f[u] = "RUNNING" => u = s.current
    BY <1>1, <1>11 DEF KernelCore
  <2>4. \A u \in ToSet(s.terminated_list) : f[u] = "DELETED"
    BY <1>1, <1>11 DEF KernelCore
  <2>5. /\ H \subseteq r.used /\ ToSet(s.terminated_list) \subseteq r.used \ H
        /\ s.current \in H \cup {Idle} \cup ToSet(s.terminated_list)
        /\ Distinct(s.terminated_list)
    BY <1>8 DEF KernelInv, KernelCore
  <2> QED BY <1>8, <1>10, <2>1, <2>2, <2>3, <2>4, <2>5 DEF KernelInv, KernelCore
<1> QED BY <1>8, <1>12, Zenon DEF r, f, g, With

\* There is always a task to run: the idle task is ready, so the map is not empty.
LEMMA PickQueued ==
  ASSUME NEW s, NEW H, KernelCore(s, H)
  PROVE  PickHighestReady(s) \in Queued(s)
<1>1. s \in Kernel /\ Idle \in Queued(s) /\ ReadyListsOK(s)
  BY DEF KernelCore, ListsOK
<1>2. /\ s.ready_map \in SUBSET Prio /\ s.ready_list \in [Prio -> Seq(Threads)]
      /\ s.priority \in [Threads -> Prio]
  BY <1>1 DEF Kernel
<1>3. s.ready_map # {}
  <2>1. Idle \in ToSet(s.ready_list[s.priority[Idle]]) /\ s.priority[Idle] \in Prio
    BY <1>1, <1>2 DEF Queued
  <2>2. s.ready_list[s.priority[Idle]] # <<>>
    BY <2>1 DEF ToSet
  <2> QED BY <1>1, <2>1, <2>2 DEF ReadyListsOK
<1> DEFINE p == Max(s.ready_map)
<1>4. p \in s.ready_map
  BY <1>2, <1>3, MaxElement
<1>5. PickHighestReady(s) = Head(s.ready_list[p])
  BY <1>3 DEF PickHighestReady
<1> HIDE DEF p
<1>6. p \in Prio /\ s.ready_list[p] \in Seq(Threads) /\ s.ready_list[p] # <<>>
  BY <1>1, <1>2, <1>4 DEF ReadyListsOK
<1>7. Head(s.ready_list[p]) \in Threads /\ Head(s.ready_list[p]) \in ToSet(s.ready_list[p])
  BY <1>6, HeadDistinct
<1> QED BY <1>1, <1>5, <1>6, <1>7 DEF ReadyListsOK, Queued

\* The switch gives the processor to a queued task and takes RUNNING from the other.
LEMMA SwitchContextInv ==
  ASSUME NEW s, NEW H, KernelInv(s, H)
  PROVE  LET r == SwitchContext(s)
         IN  /\ KernelInv(r, H) /\ ~r.pend_sv /\ r.used = s.used
             /\ r.terminated_list = s.terminated_list /\ r.sched_lock = s.sched_lock
             /\ r.need_resched = s.need_resched /\ r.tick_count = s.tick_count
             /\ r.current = PickHighestReady(s) /\ r.current \in Queued(s)
             /\ SameLists(s, r) /\ SameObjects(s, r) /\ r.wake_tick = s.wake_tick
             /\ r.wakeup_reason = s.wakeup_reason
             /\ \A u \in Threads : /\ r.state[u] \in OnReadyList <=> s.state[u] \in OnReadyList
                                   /\ r.state[u] = "BLOCKED" <=> s.state[u] = "BLOCKED"
<1> DEFINE next == PickHighestReady(s)
           curr == s.current
           out  == IF s.state[curr] = "RUNNING" THEN "READY" ELSE s.state[curr]
           f    == [s.state EXCEPT ![curr] = out, ![next] = "RUNNING"]
           r    == SwitchContext(s)
<1>1. /\ s \in Kernel /\ next \in Queued(s) /\ next \in Threads /\ curr \in Threads
      /\ s.state \in [Threads -> TaskState] /\ ListsOK(s) /\ KernelCore(s, H)
  BY PickQueued, CoreFacts DEF KernelInv, Queued
<1>2. CASE next = curr
  <2>1. r = [s EXCEPT !.pend_sv = FALSE]
    BY <1>2 DEF SwitchContext
  <2>2. /\ r \in Kernel /\ SameCore(s, r) /\ ~r.pend_sv /\ r.used = s.used
        /\ r.terminated_list = s.terminated_list /\ r.sched_lock = s.sched_lock
        /\ r.need_resched = s.need_resched /\ r.tick_count = s.tick_count
        /\ SameObjects(s, r) /\ r.wake_tick = s.wake_tick
        /\ r.wakeup_reason = s.wakeup_reason
    BY ZenonT(60), <1>1, <2>1 DEF Kernel, SameCore, SameLists, SameQueued, SameDelays, SameEvents, SameObjects
  <2> HIDE DEF r
  <2>3. KernelInv(r, H)
    BY <1>1, <2>2, SameCoreInv
  <2> QED BY <1>1, <1>2, <2>2, <2>3 DEF r, SameCore
<1>3. CASE next # curr
  <2>1. r = [s EXCEPT !.pend_sv = FALSE, !.state = f, !.current = next]
    BY <1>3 DEF SwitchContext
  <2>2. f \in [Threads -> TaskState] /\ f[next] = "RUNNING" /\ f[curr] = out
        /\ \A u \in Threads \ {curr, next} : f[u] = s.state[u]
    BY <1>1, <1>3 DEF TaskState
  <2>3. out # "RUNNING" /\ (out \in OnReadyList <=> s.state[curr] \in OnReadyList)
        /\ (out = "BLOCKED" <=> s.state[curr] = "BLOCKED")
        /\ (out = "DELETED" <=> s.state[curr] = "DELETED")
    BY DEF OnReadyList
  <2> HIDE DEF f, out, next, r
  <2>4. /\ r \in Kernel /\ SameLists(s, r) /\ SameObjects(s, r) /\ r.state = f
        /\ r.current = next /\ ~r.pend_sv /\ r.used = s.used
        /\ r.terminated_list = s.terminated_list /\ r.sched_lock = s.sched_lock
        /\ r.need_resched = s.need_resched /\ r.tick_count = s.tick_count
        /\ r.wake_tick = s.wake_tick /\ r.wakeup_reason = s.wakeup_reason
    BY <1>1, <2>1, <2>2 DEF Kernel, SameLists, SameQueued, SameDelays, SameEvents, SameObjects
  <2>5. /\ ListsOK(r) /\ Queued(r) = Queued(s) /\ Delayed(r) = Delayed(s)
        /\ Waiting(r) = Waiting(s)
    BY <1>1, <2>4, SameListsOK
  <2>6. /\ next \in H \cup {Idle} /\ s.state[next] \in OnReadyList
        /\ H \cup {Idle} \subseteq Threads /\ ToSet(s.terminated_list) \subseteq Threads
    BY <1>1, CoreFacts DEF KernelCore, Threads
  <2>7. \A u \in Threads : /\ f[u] \in OnReadyList <=> s.state[u] \in OnReadyList
                           /\ f[u] = "BLOCKED" <=> s.state[u] = "BLOCKED"
                           /\ f[u] = "DELETED" <=> s.state[u] = "DELETED"
                           /\ f[u] = "RUNNING" => u = next
    <3>1. \A u \in Threads : s.state[u] = "RUNNING" => u = curr
      BY <1>1 DEF KernelCore
    <3> QED BY <2>2, <2>3, <2>6, <3>1 DEF OnReadyList
  <2>8. /\ Queued(s) = {u \in H \cup {Idle} : f[u] \in OnReadyList}
        /\ Delayed(s) \cup Waiting(s) = {u \in H : f[u] = "BLOCKED"}
        /\ f[Idle] \in OnReadyList
        /\ \A u \in ToSet(s.terminated_list) : f[u] = "DELETED"
    BY <1>1, <2>6, <2>7 DEF KernelCore
  <2>9. KernelInv(r, H)
    BY <1>1, <2>4, <2>5, <2>6, <2>7, <2>8 DEF KernelInv, KernelCore
  <2> QED BY <1>1, <2>4, <2>7, <2>9 DEF r, next
<1> QED BY <1>2, <1>3

\* A handler leaves the TCB pool, the current task and the lock as they are.
SameBase(s, r) ==
  /\ r.used = s.used /\ r.terminated_list = s.terminated_list
  /\ r.current = s.current /\ r.sched_lock = s.sched_lock

LEMMA TickBeginInv ==
  ASSUME NEW s, NEW H, KernelInv(s, H)
  PROVE  LET r   == TickBegin(s)
             now == (s.tick_count + 1) % TickMod
         IN  /\ KernelInv(r, H) /\ SameBase(s, r) /\ r.pend_sv = s.pend_sv
             /\ SameQueued(s, r) /\ SameEvents(s, r) /\ SameObjects(s, r)
             /\ r.state = s.state /\ r.need_resched = s.need_resched
             /\ r.wakeup_reason = s.wakeup_reason /\ r.wake_tick = s.wake_tick
             /\ r.tick_count = now /\ Delayed(r) = Delayed(s)
             /\ IF now = 0 THEN r.delay_list = s.overflow_list /\ r.overflow_list = s.delay_list
                           ELSE SameDelays(s, r)
<1> DEFINE now == (s.tick_count + 1) % TickMod
           r   == TickBegin(s)
<1>1. s \in Kernel /\ now \in Ticks /\ ListsOK(s) /\ KernelCore(s, H)
  <2>1. s \in Kernel /\ s.tick_count \in Nat /\ ListsOK(s) /\ KernelCore(s, H)
    BY CoreFacts, TickCountNat DEF KernelInv
  <2>2. TickMod \in Nat /\ TickMod > 0
    BY TickAssumption
  <2> QED BY <2>1, <2>2 DEF Ticks
<1>2. \/ now = 0 /\ r = [s EXCEPT !.tick_count = now, !.delay_list = s.overflow_list,
                                  !.overflow_list = s.delay_list]
      \/ now # 0 /\ r = [s EXCEPT !.tick_count = now]
  BY DEF TickBegin
<1> HIDE DEF now, r
<1>3. /\ r \in Kernel /\ SameQueued(s, r) /\ r.state = s.state /\ SameBase(s, r)
      /\ SameEvents(s, r) /\ SameObjects(s, r)
      /\ r.pend_sv = s.pend_sv /\ r.need_resched = s.need_resched /\ r.tick_count = now
      /\ r.wakeup_reason = s.wakeup_reason /\ r.wake_tick = s.wake_tick
      /\ IF now = 0 THEN r.delay_list = s.overflow_list /\ r.overflow_list = s.delay_list
                    ELSE SameDelays(s, r)
  <2>1. CASE now = 0 /\ r = [s EXCEPT !.tick_count = now, !.delay_list = s.overflow_list,
                                      !.overflow_list = s.delay_list]
    BY <1>1, <2>1 DEF Kernel, SameQueued, SameBase, SameEvents, SameObjects
  <2>2. CASE now # 0 /\ r = [s EXCEPT !.tick_count = now]
    BY <1>1, <2>2 DEF Kernel, SameQueued, SameBase, SameEvents, SameObjects, SameDelays
  <2> QED BY <1>2, <2>1, <2>2
<1>4. /\ ListsOK(r) /\ Queued(r) = Queued(s) /\ Delayed(r) = Delayed(s)
      /\ Waiting(r) = Waiting(s)
  <2>1. ReadyListsOK(r) /\ Queued(r) = Queued(s) /\ EventsOK(r) /\ Waiting(r) = Waiting(s)
    BY <1>1, <1>3 DEF ListsOK, ReadyListsOK, Queued, EventsOK, Waiting, SameQueued, SameEvents
  <2>2. DelayListsOK(r) /\ Delayed(r) = Delayed(s)
    BY <1>1, <1>3 DEF ListsOK, DelayListsOK, Delayed, SameDelays
  <2> QED BY <1>3, <2>1, <2>2 DEF ListsOK
<1>5. KernelInv(r, H)
  BY <1>1, <1>3, <1>4 DEF KernelInv, KernelCore, SameBase
<1> QED BY <1>3, <1>4, <1>5 DEF r, now

\* r is s without the task t on its event list.
LeavesEvents(s, r, t) ==
  /\ Effect(s, r, Queued(s), Delayed(s), Waiting(s) \ {t}, s.state)
  /\ SameQueued(s, r) /\ SameDelays(s, r) /\ r.wakeup_reason = s.wakeup_reason
  /\ r.event_list = [s.event_list EXCEPT ![t] = NoList]
  /\ \A e \in EventLists : r.waiting[e] = Unlink(s.waiting[e], t)

LEMMA EventRemoveLeaves ==
  ASSUME NEW s, ListsOK(s), NEW t \in Threads
  PROVE  LeavesEvents(s, EventRemove(s, t), t)
BY EventRemoveEffect DEF LeavesEvents

\* One turn of the loop of rtos_tick_handler moves a task from a delay list to a
\* ready list, and off the event list it waits on.
LEMMA TickWakeInv ==
  ASSUME NEW s, NEW H, KernelInv(s, H), s.delay_list # <<>>
  PROVE  LET r == TickWake(s)
             t == Head(s.delay_list)
             p == s.priority[t]
         IN  /\ KernelInv(r, H) /\ SameBase(s, r) /\ r.pend_sv = s.pend_sv
             /\ SameObjects(s, r) /\ r.tick_count = s.tick_count
             /\ t \in H /\ s.state[t] = "BLOCKED" /\ t \in ToSet(s.delay_list)
             /\ r.need_resched = (s.need_resched \/ p > s.priority[s.current])
             /\ r.priority = s.priority /\ r.state = With(s.state, t, "READY")
             /\ r.wakeup_reason = With(s.wakeup_reason, t, 2)
             /\ r.wake_tick = With(s.wake_tick, t, 0)
             /\ r.delay_list = Tail(s.delay_list) /\ r.overflow_list = s.overflow_list
             /\ r.event_list = With(s.event_list, t, NoList)
             /\ \A e \in EventLists : r.waiting[e] = Unlink(s.waiting[e], t)
             /\ Waiting(r) = Waiting(s) \ {t} /\ Delayed(r) = Delayed(s) \ {t}
             /\ r.ready_map = s.ready_map \cup {p}
             /\ r.ready_list = With(s.ready_list, p, Append(s.ready_list[p], t))
<1> DEFINE t     == Head(s.delay_list)
           d     == Tail(s.delay_list)
           w     == [s.wake_tick EXCEPT ![t] = 0]
           g     == [s.wakeup_reason EXCEPT ![t] = 2]
           awake == [s EXCEPT !.delay_list = d, !.wake_tick = w, !.wakeup_reason = g]
           off   == EventRemove(awake, t)
           ready == TaskReady(off, t)
           high  == s.priority[t] > s.priority[s.current]
           r     == TickWake(s)
<1>1. /\ s \in Kernel /\ s.delay_list \in Seq(Threads) /\ Distinct(s.delay_list)
      /\ ListsOK(s) /\ ToSet(s.delay_list) \cap ToSet(s.overflow_list) = {}
      /\ KernelCore(s, H)
  <2>1. s \in Kernel /\ ListsOK(s) /\ KernelCore(s, H)
    BY CoreFacts DEF KernelInv
  <2> QED BY <2>1 DEF ListsOK, Kernel, DelayListsOK
<1>2. /\ t \in Threads /\ t \in ToSet(s.delay_list) /\ d \in Seq(Threads)
      /\ Distinct(d) /\ ToSet(d) = ToSet(s.delay_list) \ {t}
  BY <1>1, HeadDistinct
<1>3. /\ t \in Delayed(s) /\ t \in H /\ t \in Tasks /\ t \in s.used
      /\ t \notin ToSet(s.terminated_list) /\ t \notin Queued(s) /\ s.state[t] = "BLOCKED"
  <2>1. t \in Delayed(s) /\ s.used \subseteq Tasks
    BY <1>1, <1>2 DEF Delayed, Kernel
  <2>2. t \in H /\ s.state[t] = "BLOCKED" /\ s.state[t] \notin OnReadyList
    BY <1>1, <2>1 DEF KernelCore, OnReadyList
  <2> QED BY <1>1, <2>1, <2>2 DEF KernelCore
<1>4. r = IF high THEN [ready EXCEPT !.need_resched = TRUE] ELSE ready
  <2> DEFINE up == [s EXCEPT !.delay_list = Tail(@), !.wake_tick[t] = 0, !.wakeup_reason[t] = 2]
             on == TaskReady(EventRemove(up, t), t)
  <2>1. awake = up
    BY <1>1 DEF Kernel
  <2>2. r = IF high THEN [on EXCEPT !.need_resched = TRUE] ELSE on
    BY Zenon DEF TickWake, t, high, on, up
  <2> HIDE DEF awake, up
  <2>3. ready = on
    BY <2>1
  <2> QED BY <2>2, <2>3
<1> HIDE DEF t, d, high
<1>5. w \in [Threads -> Ticks] /\ g \in [Threads -> 0 .. 2]
  <2>1. 0 \in Ticks /\ 2 \in 0 .. 2
    BY TickAssumption DEF Ticks
  <2> QED BY <1>1, <1>2, <2>1 DEF Kernel
<1> HIDE DEF w, g
<1>6. /\ awake \in Kernel /\ SameQueued(s, awake) /\ SameRest(s, awake)
      /\ awake.state = s.state /\ SameObjects(s, awake) /\ SameEvents(s, awake)
      /\ awake.delay_list = d /\ awake.overflow_list = s.overflow_list
      /\ awake.wake_tick = w /\ awake.wakeup_reason = g
  BY <1>1, <1>2, <1>5 DEF Kernel, SameQueued, SameRest, SameObjects, SameEvents
<1> HIDE DEF awake
<1>7. Effect(s, awake, Queued(s), Delayed(s) \ {t}, Waiting(s), s.state)
  <2>1. DelayListsOK(awake) /\ Delayed(awake) = Delayed(s) \ {t}
    BY <1>1, <1>2, <1>6 DEF ListsOK, DelayListsOK, Delayed
  <2>2. /\ ReadyListsOK(awake) /\ Queued(awake) = Queued(s)
        /\ EventsOK(awake) /\ Waiting(awake) = Waiting(s)
    BY <1>1, <1>6 DEF ListsOK, ReadyListsOK, Queued, EventsOK, Waiting, SameQueued, SameEvents
  <2> QED BY <1>6, <2>1, <2>2 DEF Effect, ListsOK
<1>8. /\ ListsOK(awake) /\ Queued(awake) = Queued(s) /\ Delayed(awake) = Delayed(s) \ {t}
      /\ Waiting(awake) = Waiting(s) /\ awake.state = s.state
  BY <1>7, EffectLists
<1>9. /\ Effect(awake, off, Queued(awake), Delayed(awake), Waiting(awake) \ {t}, awake.state)
      /\ SameQueued(awake, off) /\ SameDelays(awake, off)
      /\ off.wakeup_reason = awake.wakeup_reason
      /\ off.event_list = [awake.event_list EXCEPT ![t] = NoList]
      /\ \A e \in EventLists : off.waiting[e] = Unlink(awake.waiting[e], t)
  <2>1. LeavesEvents(awake, off, t)
    BY <1>2, <1>8, EventRemoveLeaves
  <2> QED BY <2>1 DEF LeavesEvents
<1>10. off.wake_tick = awake.wake_tick
  BY <1>6 DEF EventRemove, Kernel
<1> HIDE DEF off
<1>11. /\ ListsOK(off) /\ off \in Kernel /\ Queued(off) = Queued(s)
       /\ Delayed(off) = Delayed(s) \ {t}
       /\ Waiting(off) = Waiting(s) \ {t} /\ off.state = s.state
  BY <1>8, <1>9 DEF Effect, ListsOK
<1>12. Effect(off, ready, Queued(off) \cup {t}, Delayed(off), Waiting(off),
              [off.state EXCEPT ![t] = "READY"])
  BY <1>2, <1>3, <1>11, TaskReadyEffect
<1>13. /\ SameDelays(off, ready) /\ SameEvents(off, ready) /\ SameRest(off, ready)
       /\ ready.priority = off.priority /\ ready.wake_tick = off.wake_tick
       /\ ready.wakeup_reason = off.wakeup_reason
       /\ ready.ready_map = off.ready_map \cup {off.priority[t]}
       /\ ready.ready_list = [off.ready_list EXCEPT ![off.priority[t]] = Append(@, t)]
  BY <1>2, <1>11, TaskReadyFields
<1> HIDE DEF ready
<1>14. Effect(off, ready, Queued(s) \cup {t}, Delayed(s) \ {t}, Waiting(s) \ {t},
              [s.state EXCEPT ![t] = "READY"])
  BY <1>11, <1>12
<1>15. Effect(s, off, Queued(s), Delayed(s) \ {t}, Waiting(s) \ {t}, s.state)
  BY <1>7, <1>8, <1>9, EffectTrans
<1>16. Effect(s, ready, Queued(s) \cup {t}, Delayed(s) \ {t}, Waiting(s) \ {t},
              [s.state EXCEPT ![t] = "READY"])
  BY <1>14, <1>15, EffectTrans
<1>17. MadeReady(s, ready, t)
  BY <1>16, Zenon DEF MadeReady
<1>18. KernelCore(ready, H \cup {t}) /\ H \cup {t} = H
  BY <1>1, <1>3, <1>17, BecomesReady
<1>19. /\ SameRest(s, ready) /\ SameObjects(s, ready) /\ Waiting(ready) = Waiting(s) \ {t}
       /\ Delayed(ready) = Delayed(s) \ {t} /\ ready.state = [s.state EXCEPT ![t] = "READY"]
  BY <1>16, EffectLists
<1>20. KernelInv(ready, H) /\ ready \in Kernel
  BY <1>18, <1>19, RestInv, CoreFacts
<1>21. /\ ready.priority = s.priority /\ ready.wakeup_reason = g /\ ready.wake_tick = w
       /\ ready.delay_list = d /\ ready.overflow_list = s.overflow_list
       /\ ready.event_list = [s.event_list EXCEPT ![t] = NoList]
       /\ \A e \in EventLists : ready.waiting[e] = Unlink(s.waiting[e], t)
       /\ ready.ready_map = s.ready_map \cup {s.priority[t]}
       /\ ready.ready_list = [s.ready_list EXCEPT ![s.priority[t]] = Append(@, t)]
  BY <1>6, <1>9, <1>10, <1>13 DEF SameQueued, SameEvents, SameDelays
<1>22. /\ r \in Kernel /\ SameCore(ready, r) /\ SameObjects(ready, r)
       /\ r.pend_sv = ready.pend_sv /\ r.sched_lock = ready.sched_lock
       /\ r.tick_count = ready.tick_count
       /\ r.wake_tick = ready.wake_tick /\ r.wakeup_reason = ready.wakeup_reason
       /\ r.need_resched = (ready.need_resched \/ high)
  <2>1. ready.need_resched \in BOOLEAN /\ high \in BOOLEAN
    BY <1>20 DEF Kernel, high
  <2>2. CASE high
    <3>1. r = [ready EXCEPT !.need_resched = TRUE]
      BY <1>4, <2>2
    <3> QED BY ZenonT(60), <1>20, <2>2, <3>1 DEF Kernel, SameCore, SameLists, SameQueued, SameDelays,
          SameEvents, SameObjects
  <2>3. CASE ~high
    <3>1. r = ready
      BY <1>4, <2>3
    <3> QED BY <1>20, <2>1, <2>3, <3>1 DEF SameCore, SameLists, SameQueued, SameDelays,
          SameEvents, SameObjects
  <2> QED BY <2>2, <2>3
<1> HIDE DEF r
<1>23. KernelInv(r, H) /\ Waiting(r) = Waiting(ready) /\ Delayed(r) = Delayed(ready)
  <2>1. KernelCore(ready, H) /\ ListsOK(ready)
    BY <1>20, CoreFacts DEF KernelInv
  <2> QED BY <1>20, <1>22, <2>1, SameCoreInv, SameListsOK DEF SameCore
<1>24. /\ SameBase(s, r) /\ r.pend_sv = s.pend_sv /\ r.tick_count = s.tick_count
       /\ r.need_resched = (s.need_resched \/ high)
  BY <1>19, <1>22 DEF SameBase, SameRest, SameCore
<1>25. SameObjects(s, r) /\ r.state = With(s.state, t, "READY")
  BY <1>19, <1>22 DEF SameObjects, SameCore, With
<1>26. /\ r.priority = s.priority /\ r.wakeup_reason = g /\ r.wake_tick = w
       /\ r.delay_list = d /\ r.overflow_list = s.overflow_list
       /\ r.event_list = With(s.event_list, t, NoList)
       /\ \A e \in EventLists : r.waiting[e] = Unlink(s.waiting[e], t)
       /\ r.ready_map = s.ready_map \cup {s.priority[t]}
       /\ r.ready_list = With(s.ready_list, s.priority[t], Append(s.ready_list[s.priority[t]], t))
  BY <1>21, <1>22 DEF With, SameCore, SameLists, SameQueued, SameDelays, SameEvents
<1>27. g = With(s.wakeup_reason, t, 2) /\ w = With(s.wake_tick, t, 0)
  BY DEF g, w, With
<1>28. Waiting(r) = Waiting(s) \ {t} /\ Delayed(r) = Delayed(s) \ {t}
  BY <1>19, <1>23
<1> QED BY <1>2, <1>3, <1>23, <1>24, <1>25, <1>26, <1>27, <1>28 DEF r, t, d, high

\* Rotating a queued task and raising need_resched.
LEMMA RotateInv ==
  ASSUME NEW s, NEW H, KernelInv(s, H), NEW t \in Queued(s)
  PROVE  LET r == RotateToTail(s, t)
             u == [r EXCEPT !.need_resched = TRUE]
         IN  /\ KernelInv(r, H) /\ SameRest(s, r) /\ SameObjects(s, r) /\ SameEvents(s, r)
             /\ SameDelays(s, r) /\ r.wakeup_reason = s.wakeup_reason /\ r.state = s.state
             /\ r.priority = s.priority /\ r.wake_tick = s.wake_tick
             /\ KernelInv(u, H) /\ SameBase(s, u) /\ u.pend_sv = s.pend_sv
             /\ u.tick_count = s.tick_count /\ SameObjects(s, u) /\ SameEvents(s, u)
             /\ SameDelays(s, u) /\ u.wakeup_reason = s.wakeup_reason /\ u.state = s.state
             /\ u.priority = s.priority /\ u.wake_tick = s.wake_tick
<1> DEFINE r == RotateToTail(s, t)
           u == [r EXCEPT !.need_resched = TRUE]
<1>1. s \in Kernel /\ ListsOK(s) /\ t \in Threads /\ KernelCore(s, H) /\ ReadyListsOK(s)
  BY CoreFacts DEF KernelInv, Queued, ListsOK
<1>2. Effect(s, r, Queued(s), Delayed(s), Waiting(s), s.state)
  BY <1>1, RotateToTailEffect
<1>3. /\ r \in Kernel /\ SameRest(s, r) /\ SameObjects(s, r) /\ SameEvents(s, r)
      /\ SameDelays(s, r) /\ r.wakeup_reason = s.wakeup_reason /\ r.state = s.state
      /\ r.priority = s.priority /\ r.wake_tick = s.wake_tick
  BY <1>1, RotateToTailFields
<1> HIDE DEF r
<1>4. KernelInv(r, H)
  BY <1>1, <1>2 DEF KernelInv, KernelCore, Effect, SameRest
<1>5. /\ u \in Kernel /\ SameCore(r, u) /\ SameBase(r, u) /\ u.pend_sv = r.pend_sv
      /\ u.tick_count = r.tick_count /\ SameObjects(r, u)
      /\ u.wakeup_reason = r.wakeup_reason /\ u.wake_tick = r.wake_tick
  BY <1>3 DEF Kernel, SameCore, SameBase, SameLists, SameQueued, SameDelays, SameEvents, SameObjects
<1> HIDE DEF u
<1>6. KernelInv(u, H)
  BY <1>4, <1>5, SameCoreInv DEF KernelInv
<1>7. /\ SameBase(s, u) /\ u.pend_sv = s.pend_sv /\ u.tick_count = s.tick_count
      /\ SameObjects(s, u) /\ u.wakeup_reason = s.wakeup_reason /\ u.wake_tick = s.wake_tick
  BY <1>3, <1>5 DEF SameBase, SameRest, SameObjects
<1>8. SameEvents(s, u) /\ SameDelays(s, u) /\ u.state = s.state /\ u.priority = s.priority
  BY <1>3, <1>5 DEF SameCore, SameLists, SameEvents, SameDelays, SameQueued
<1> QED BY <1>3, <1>4, <1>6, <1>7, <1>8 DEF u, r

\* What a turn of the time slice, and the end of the tick handler, leave alone.
SliceOnly(s, r) ==
  /\ SameBase(s, r) /\ SameObjects(s, r) /\ SameEvents(s, r) /\ SameDelays(s, r)
  /\ r.tick_count = s.tick_count /\ r.wakeup_reason = s.wakeup_reason
  /\ r.state = s.state /\ r.priority = s.priority /\ r.wake_tick = s.wake_tick

LEMMA SchedTimeSliceInv ==
  ASSUME NEW s, NEW H, KernelInv(s, H)
  PROVE  LET r == SchedTimeSlice(s, s.current)
         IN  KernelInv(r, H) /\ SliceOnly(s, r) /\ r.pend_sv = s.pend_sv
<1> DEFINE t == s.current
           r == SchedTimeSlice(s, t)
<1>1. s \in Kernel /\ t \in Threads /\ KernelCore(s, H)
  BY CoreFacts DEF KernelInv
<1>2. CASE s.state[t] \notin OnReadyList \/ s.time_slice[t] = 0
  BY <1>2 DEF SchedTimeSlice, SliceOnly, SameBase, SameObjects, SameEvents, SameDelays
<1>3. CASE s.state[t] \in OnReadyList /\ s.time_slice[t] > 1
  <2> DEFINE g == [s.time_slice EXCEPT ![t] = @ - 1]
  <2>1. s.time_slice \in [Threads -> 0 .. TimeSliceTicks] /\ TimeSliceTicks \in Nat
    BY <1>1, SliceAssumption DEF Kernel
  <2>2. s.time_slice[t] - 1 \in 0 .. TimeSliceTicks /\ s.time_slice[t] # 0
    BY <1>1, <1>3, <2>1
  <2>3. g \in [Threads -> 0 .. TimeSliceTicks]
    BY <1>1, <2>1, <2>2
  <2>4. r = [s EXCEPT !.time_slice = g]
    BY <1>3, <2>2 DEF SchedTimeSlice
  <2> HIDE DEF g, r
  <2>5. r \in Kernel /\ SameCore(s, r) /\ SliceOnly(s, r) /\ r.pend_sv = s.pend_sv
    BY <1>1, <2>3, <2>4 DEF Kernel, SliceOnly, SameCore, SameBase, SameLists, SameQueued,
       SameDelays, SameEvents, SameObjects
  <2> QED BY <1>1, <2>5, SameCoreInv DEF r
<1>4. CASE s.state[t] \in OnReadyList /\ s.time_slice[t] # 0 /\ ~(s.time_slice[t] > 1)
  <2>1. t \in H \cup {Idle} \cup ToSet(s.terminated_list)
    BY DEF KernelInv
  <2>2. t \notin ToSet(s.terminated_list)
    BY <1>1, <1>4 DEF KernelCore, OnReadyList
  <2>3. t \in Queued(s)
    BY <1>1, <1>4, <2>1, <2>2 DEF KernelCore
  <2>4. \/ r = RotateToTail(s, t)
        \/ r = [RotateToTail(s, t) EXCEPT !.need_resched = TRUE]
    BY <1>4 DEF SchedTimeSlice
  <2> DEFINE m == RotateToTail(s, t)
             u == [m EXCEPT !.need_resched = TRUE]
  <2>5. /\ KernelInv(m, H) /\ SliceOnly(s, m) /\ m.pend_sv = s.pend_sv
        /\ KernelInv(u, H) /\ SliceOnly(s, u) /\ u.pend_sv = s.pend_sv
    <3> HIDE DEF t
    <3> QED BY <2>3, RotateInv DEF SliceOnly, SameRest, SameBase
  <2>6. r = m \/ r = u
    BY <2>4
  <2> HIDE DEF m, u, r
  <2>7. KernelInv(r, H) /\ SliceOnly(s, r) /\ r.pend_sv = s.pend_sv
    BY <2>5, <2>6
  <2> QED BY <2>7 DEF r
<1> QED BY <1>2, <1>3, <1>4

\* After rtos_sched in a handler a switch is pending, or remembered under the lock.
LEMMA TickEndInv ==
  ASSUME NEW s, NEW H, KernelInv(s, H)
  PROVE  LET r == TickEnd(s)
         IN  /\ KernelInv(r, H) /\ SliceOnly(s, r)
             /\ IF s.sched_lock > 0 THEN r.pend_sv = s.pend_sv /\ r.need_resched ELSE r.pend_sv
<1> DEFINE m == IF s.current = Idle THEN s ELSE SchedTimeSlice(s, s.current)
           r == Sched(m)
<1>1. KernelInv(m, H) /\ SliceOnly(s, m) /\ m.pend_sv = s.pend_sv
  BY SchedTimeSliceInv DEF SliceOnly, SameBase, SameObjects, SameEvents, SameDelays
<1>2. TickEnd(s) = r
  BY DEF TickEnd
<1> HIDE DEF m
<1>3. m \in Kernel /\ (m.sched_lock > 0) \in BOOLEAN
  BY <1>1, CoreFacts DEF KernelInv
<1>4. /\ r \in Kernel /\ SameCore(m, r) /\ SliceOnly(m, r)
      /\ IF m.sched_lock > 0 THEN r.pend_sv = m.pend_sv /\ r.need_resched ELSE r.pend_sv
  <2>1. CASE m.sched_lock > 0
    BY <1>3, <2>1 DEF Sched, SchedCheck, Kernel, SameCore, SliceOnly, SameBase,
       SameLists, SameQueued, SameDelays, SameEvents, SameObjects
  <2>2. CASE ~(m.sched_lock > 0)
    BY <1>3, <2>2 DEF Sched, SchedCheck, RequestSwitch, Kernel, SameCore, SliceOnly, SameBase,
       SameLists, SameQueued, SameDelays, SameEvents, SameObjects
  <2> QED BY <2>1, <2>2
<1> HIDE DEF r
<1>5. KernelInv(r, H)
  BY <1>1, <1>4, SameCoreInv DEF KernelInv
<1>6. SliceOnly(s, r)
  BY <1>1, <1>4 DEF SliceOnly, SameBase, SameObjects, SameEvents, SameDelays
<1>7. m.sched_lock = s.sched_lock
  BY <1>1 DEF SliceOnly, SameBase
<1> QED BY <1>1, <1>2, <1>4, <1>5, <1>6, <1>7 DEF r

-----------------------------------------------------------------------------
\* The invariant holds at boot

LEMMA BootFacts ==
  /\ BootTasks \subseteq Tasks
  /\ \A p \in Prio : \A t \in ToSet(Boot[p]) : t \in Tasks /\ BootPrio(t) = p
  /\ BootPrio(Idle) = 0 /\ 0 \in Prio
  /\ \A t \in Threads : BootPrio(t) \in Prio
<1>1. 0 \in Prio
  BY PriorityAssumption DEF Prio
<1>2. \A p \in Prio : \A t \in ToSet(Boot[p]) : t \in Tasks
  BY BootAssumption DEF ToSet
<1>3. BootTasks \subseteq Tasks
  BY <1>2 DEF BootTasks
<1>4. ASSUME NEW p \in Prio, NEW t \in ToSet(Boot[p])
      PROVE  BootPrio(t) = p
  <2>1. t \in BootTasks
    BY DEF BootTasks
  <2>2. \A q \in Prio : t \in ToSet(Boot[q]) => q = p
    BY BootAssumption
  <2> QED BY <2>1, <2>2 DEF BootPrio
<1>5. BootPrio(Idle) = 0
  BY <1>3, IdleAssumption DEF BootPrio
<1>6. ASSUME NEW t \in Threads PROVE BootPrio(t) \in Prio
  <2>1. CASE t \in BootTasks
    <3>1. PICK p \in Prio : t \in ToSet(Boot[p])
      BY <2>1 DEF BootTasks
    <3> QED BY <3>1, <1>4
  <2>2. CASE t \notin BootTasks
    BY <1>1, <2>2 DEF BootPrio
  <2> QED BY <2>1, <2>2
<1> QED BY <1>1, <1>2, <1>3, <1>4, <1>5, <1>6

LEMMA BootQueues ==
  /\ BootLists \in [Prio -> Seq(Threads)]
  /\ \A p \in Prio : Distinct(BootLists[p])
  /\ \A p \in Prio : \A t \in ToSet(BootLists[p]) : BootPrio(t) = p
  /\ \A t \in Threads : t \in ToSet(BootLists[BootPrio(t)]) <=> t \in BootTasks \cup {Idle}
<1>1. /\ 0 \in Prio /\ Boot \in [Prio -> Seq(Tasks)] /\ Idle \in Threads
      /\ \A p \in Prio : Distinct(Boot[p])
  BY BootFacts, BootAssumption DEF Threads
<1>2. \A p \in Prio : Boot[p] \in Seq(Threads)
  <2>1. \A x : x \in Seq(Tasks) => x \in Seq(Threads)
    BY DEF Threads
  <2> QED BY <1>1, <2>1
<1>3. Idle \notin ToSet(Boot[0])
  BY <1>1, IdleAssumption, BootFacts
<1> DEFINE l == Append(Boot[0], Idle)
<1>4. l \in Seq(Threads) /\ Distinct(l) /\ ToSet(l) = ToSet(Boot[0]) \cup {Idle}
  BY <1>1, <1>2, <1>3, AppendDistinct
<1>5. BootLists = [Boot EXCEPT ![0] = l]
  BY DEF BootLists
<1> HIDE DEF l
<1>6. /\ BootLists[0] = l /\ \A p \in Prio \ {0} : BootLists[p] = Boot[p]
      /\ BootLists \in [Prio -> Seq(Threads)]
  BY <1>1, <1>2, <1>4, <1>5
<1>7. \A p \in Prio : ToSet(BootLists[p]) = ToSet(Boot[p]) \cup (IF p = 0 THEN {Idle} ELSE {})
  BY <1>4, <1>6
<1>8. \A p \in Prio : Distinct(BootLists[p])
  BY <1>1, <1>4, <1>6
<1>9. \A p \in Prio : \A t \in ToSet(BootLists[p]) : BootPrio(t) = p
  BY <1>7, BootFacts
<1>10. ASSUME NEW t \in Threads
       PROVE  t \in ToSet(BootLists[BootPrio(t)]) <=> t \in BootTasks \cup {Idle}
  <2>1. CASE t = Idle
    BY <1>1, <1>7, <2>1, BootFacts
  <2>2. CASE t \in BootTasks
    <3>1. PICK p \in Prio : t \in ToSet(Boot[p])
      BY <2>2 DEF BootTasks
    <3>2. BootPrio(t) = p
      BY <3>1, BootFacts
    <3> QED BY <1>7, <2>2, <3>1, <3>2
  <2>3. CASE t # Idle /\ t \notin BootTasks
    <3>1. BootPrio(t) \in Prio
      BY BootFacts
    <3>2. t \notin ToSet(Boot[BootPrio(t)])
      BY <2>3, <3>1 DEF BootTasks
    <3> QED BY <1>7, <2>3, <3>1, <3>2
  <2> QED BY <2>1, <2>2, <2>3
<1> QED BY <1>6, <1>8, <1>9, <1>10

LEMMA FirstQueued == First \in BootTasks \cup {Idle}
<1>1. BootMap \subseteq Prio /\ BootMap # {}
  <2>1. Idle \in ToSet(BootLists[0]) /\ 0 \in Prio
    BY BootFacts, BootQueues DEF Threads
  <2>2. BootLists[0] # <<>>
    BY <2>1 DEF ToSet
  <2> QED BY <2>1, <2>2 DEF BootMap
<1> DEFINE p == Max(BootMap)
<1>2. p \in BootMap
  BY <1>1, MaxElement
<1> HIDE DEF p
<1>3. p \in Prio /\ BootLists[p] # <<>> /\ BootLists[p] \in Seq(Threads)
  BY <1>2, BootQueues DEF BootMap
<1>4. Head(BootLists[p]) \in Threads /\ Head(BootLists[p]) \in ToSet(BootLists[p])
  BY <1>3, HeadDistinct
<1>5. Head(BootLists[p]) \in BootTasks \cup {Idle}
  BY <1>3, <1>4, BootQueues
<1> QED BY <1>5 DEF First, p

LEMMA EmptyDistinct == Distinct(<<>>) /\ ToSet(<<>>) = {}
BY DEF Distinct, IsInjective, ToSet

LEMMA InitKernelInv ==
  /\ KernelInv(InitKernel, BootTasks)
  /\ InitKernel.need_resched = FALSE /\ InitKernel.pend_sv = FALSE
  /\ InitKernel.sched_lock = 0 /\ InitKernel.terminated_list = <<>>
  /\ InitKernel.current = PickHighestReady(InitKernel)
<1> DEFINE s == InitKernel
           H == BootTasks
<1>1. /\ First \in Threads /\ BootTasks \subseteq Tasks /\ Idle \notin BootTasks
      /\ Idle \in Threads /\ BootTasks \subseteq Threads
  BY FirstQueued, BootFacts, IdleAssumption DEF Threads
<1>2. s \in Kernel
  <2>1. BootMap \in SUBSET Prio
    BY DEF BootMap
  <2>2. 0 \in Ticks /\ 0 \in 0 .. 2 /\ 0 \in Nat /\ 0 \in Int
    BY TickAssumption DEF Ticks
  <2>3. [t \in Threads |-> BootPrio(t)] \in [Threads -> Prio]
    BY BootFacts
  <2>4. [t \in Threads |-> IF t \in BootTasks \cup {Idle} THEN TimeSliceTicks ELSE 0]
          \in [Threads -> 0 .. TimeSliceTicks]
    BY SliceAssumption
  <2>5. [t \in Threads |-> IF t = First THEN "RUNNING" ELSE "READY"] \in [Threads -> TaskState]
    BY DEF TaskState
  <2>6. <<>> \in Seq(Threads)
    OBVIOUS
  <2>7. /\ [q \in Queues |-> IF IsMutex(q) THEN 1 ELSE 0] \in [Queues -> Nat]
        /\ [q \in Queues |-> IF IsMutex(q) THEN NotBoosted ELSE 0]
             \in [Queues -> Prio \cup {NotBoosted}]
    BY PriorityAssumption DEF Prio
  <2> QED BY <1>1, <2>1, <2>2, <2>3, <2>4, <2>5, <2>6, <2>7, BootQueues
          DEF InitKernel, Kernel
<1>3. /\ s.ready_list = BootLists /\ s.ready_map = BootMap
      /\ s.delay_list = <<>> /\ s.overflow_list = <<>> /\ s.terminated_list = <<>>
      /\ s.current = First /\ s.used = BootTasks
      /\ s.need_resched = FALSE /\ s.pend_sv = FALSE /\ s.sched_lock = 0
      /\ \A t \in Threads : /\ s.priority[t] = BootPrio(t)
                            /\ s.state[t] = IF t = First THEN "RUNNING" ELSE "READY"
                            /\ s.event_list[t] = NoList /\ s.held_queue[t] = NoQueue
      /\ \A e \in EventLists : s.waiting[e] = <<>>
  BY DEF InitKernel
<1> HIDE DEF s
<1>4. EventsOK(s) /\ Waiting(s) = {}
  BY <1>3, EmptyDistinct, NoListIsNone DEF EventsOK, Waiting
<1>5. DelayListsOK(s) /\ Delayed(s) = {}
  BY <1>3, EmptyDistinct DEF DelayListsOK, Delayed
<1>6. ReadyListsOK(s)
  <2>1. \A p \in Prio : \A t \in ToSet(BootLists[p]) : t \in Threads
    BY BootQueues DEF ToSet
  <2>2. \A p \in Prio : p \in BootMap <=> BootLists[p] # <<>>
    BY DEF BootMap
  <2> QED BY <1>3, <2>1, <2>2, BootQueues DEF ReadyListsOK
<1>7. Queued(s) = BootTasks \cup {Idle}
  BY <1>1, <1>3, BootQueues DEF Queued
<1>8. \A t \in Threads : s.state[t] \in OnReadyList /\ s.state[t] # "BLOCKED"
  BY <1>3 DEF OnReadyList
<1>9. ListsOK(s)
  BY <1>2, <1>4, <1>5, <1>6 DEF ListsOK
<1>10. KernelCore(s, H)
  BY <1>1, <1>3, <1>4, <1>5, <1>7, <1>8, <1>9, EmptyDistinct DEF KernelCore
<1>11. KernelInv(s, H)
  BY <1>3, <1>10, FirstQueued DEF KernelInv
<1>12. First = PickHighestReady(s)
  <2>1. BootMap # {}
    <3>1. Idle \in ToSet(BootLists[0]) /\ 0 \in Prio
      BY BootFacts, BootQueues DEF Threads
    <3>2. BootLists[0] # <<>>
      BY <3>1 DEF ToSet
    <3> QED BY <3>1, <3>2 DEF BootMap
  <2> QED BY <1>3, <2>1 DEF First, PickHighestReady
<1> QED BY <1>3, <1>11, <1>12 DEF s

LEMMA InitInv ==
  ASSUME k = InitKernel, InitThreads
  PROVE  IInv
<1>1. KernelInv(k, handles)
  BY InitKernelInv DEF InitThreads
<1>2. ThreadInv
  <2>1. /\ isr = "none" /\ handles = BootTasks /\ k.sched_lock = 0
        /\ \A t \in Threads : pc[t] = "run" /\ ret[t] = "run"
        /\ k.terminated_list = <<>>
    BY InitKernelInv DEF InitThreads
  <2>2. ThreadTypes
    <3>1. 0 \in Locals /\ "run" \in AllLabels /\ BootTasks \subseteq Tasks
      BY BootFacts DEF Locals, Labels, AllLabels
    <3> QED BY <3>1 DEF InitThreads, ThreadTypes
  <2>3. /\ \A c \in Tasks : c \in Threads
        /\ Idle \in Threads
    BY DEF Threads
  <2> QED BY <2>1, <2>2, <2>3, EmptyDistinct
          DEF ThreadInv, SlotsInv, LocalsInv, DyingInv, LockInv
<1> QED BY <1>1, <1>2 DEF IInv

-----------------------------------------------------------------------------
\* Every step keeps the invariant

\* What the scheduler lock promises of one step.
KeepsCpu == k.sched_lock > 0 => k'.current = k.current

\* The kernel of a reachable state, and the types of the variables.
LEMMA TypeFacts ==
  ASSUME IInv
  PROVE  /\ k \in Kernel /\ KernelInv(k, handles) /\ KernelCore(k, handles)
         /\ ListsOK(k) /\ k.used \subseteq Tasks
         /\ handles \subseteq k.used /\ handles \subseteq Tasks
         /\ ToSet(k.terminated_list) \subseteq k.used \ handles
         /\ ToSet(k.terminated_list) \subseteq Tasks \ handles /\ Limbo \subseteq Tasks
         /\ pc \in [Threads -> AllLabels] /\ ret \in [Threads -> AllLabels]
         /\ arg \in [Threads -> Locals]
         /\ Idle \in Threads /\ Idle \notin Tasks /\ \A t \in Tasks : t \in Threads
         /\ k.current \in Threads /\ k.sched_lock \in Nat
<1>1. KernelInv(k, handles) /\ KernelCore(k, handles)
  BY DEF IInv, KernelInv
<1>2. k \in Kernel /\ ListsOK(k)
  BY <1>1 DEF KernelCore, ListsOK
<1>3. k.used \subseteq Tasks /\ k.current \in Threads /\ k.sched_lock \in Nat
  BY <1>2 DEF Kernel
<1>4. handles \subseteq k.used /\ ToSet(k.terminated_list) \subseteq k.used \ handles
  BY <1>1 DEF KernelCore
<1> QED BY <1>1, <1>2, <1>3, <1>4, IdleAssumption DEF IInv, ThreadInv, ThreadTypes, Limbo, Threads

\* The places where a task runs its own code or that of a call.
Running == {"run", "create", "created", "until", "wait", "woken", "take", "count", "give"}

\* The running task, before the last critical section of its call, is one the
\* application has a handle of.
LEMMA CallerLives ==
  ASSUME IInv, NEW c \in Tasks, NEW l \in Running, At(c, l)
  PROVE  /\ c \in handles /\ c \in Threads /\ c # Idle /\ k.current = c /\ ~k.pend_sv
         /\ pc[c] = l /\ isr = "none"
<1>1. /\ k.current \in handles \cup {Idle} \cup ToSet(k.terminated_list)
      /\ c = k.current /\ pc[c] = l /\ ~k.pend_sv /\ c # Idle /\ c \in Threads /\ isr = "none"
  BY IdleAssumption DEF IInv, KernelInv, At, Threads
<1>2. c \notin ToSet(k.terminated_list)
  BY <1>1 DEF IInv, ThreadInv, DyingInv, Running
<1> QED BY <1>1, <1>2

\* A step of the running task that leaves the TCB pool, the lock and the handles
\* alone: it goes on at l with the local v, and returns to m from rtos_sched.
LEMMA CallThreadInv ==
  ASSUME IInv, NEW c \in Tasks, c \in handles, k.current = c,
         pc[c] # "create",
         SameBase(k, k'), k.sched_lock > 0 => k'.pend_sv = k.pend_sv,
         handles' = handles, isr' = isr,
         NEW l \in AllLabels \ {"create", "pend", "free"}, pc' = [pc EXCEPT ![c] = l],
         NEW m \in {"run", "dead", "wait"}, ret' = [ret EXCEPT ![c] = m],
         NEW v \in Locals, arg' = [arg EXCEPT ![c] = v],
         l \in {"created", "woken"} => v \in Tasks, l = "until" => v \in Nat
  PROVE  ThreadInv'
<1>1. /\ c \in Threads /\ c # Idle
      /\ pc \in [Threads -> AllLabels] /\ ret \in [Threads -> AllLabels]
      /\ arg \in [Threads -> Locals] /\ \A d \in Tasks : d \in Threads
  BY TypeFacts
<1>2. c \notin ToSet(k.terminated_list) /\ ToSet(k.terminated_list) \subseteq Threads
  BY TypeFacts
<1>3. Limbo' = Limbo
  BY DEF Limbo, SameBase
<1>4. /\ \A t \in Threads \ {c} : pc'[t] = pc[t] /\ ret'[t] = ret[t] /\ arg'[t] = arg[t]
      /\ pc'[c] = l /\ ret'[c] = m /\ arg'[c] = v
  BY <1>1
<1>5. ThreadTypes'
  <2>1. m \in AllLabels
    BY DEF AllLabels, Labels
  <2> QED BY <1>1, <2>1 DEF IInv, ThreadInv, ThreadTypes
<1>6. SlotsInv'
  <2>1. Idle \in Threads \ {c}
    BY <1>1, TypeFacts
  <2> QED BY <1>1, <1>3, <1>4, <2>1 DEF IInv, ThreadInv, SlotsInv
<1>7. LocalsInv'
  BY <1>1, <1>4 DEF IInv, ThreadInv, LocalsInv
<1>8. DyingInv'
  <2>1. ToSet(k'.terminated_list) \subseteq Threads \ {c}
    BY <1>2 DEF SameBase
  <2> QED BY <1>4, <2>1 DEF IInv, ThreadInv, DyingInv, SameBase
<1>9. LockInv'
  BY <1>4 DEF IInv, ThreadInv, LockInv, SameBase
<1> QED BY <1>5, <1>6, <1>7, <1>8, <1>9 DEF ThreadInv

\* The part that does not change of an array that a step leaves alone.
LEMMA SameArray ==
  ASSUME NEW S, NEW T, NEW f \in [S -> T], NEW x \in S
  PROVE  f = [f EXCEPT ![x] = f[x]]
OBVIOUS

\* A call that goes on in application code or in rtos_sched.
LEMMA CallSchedInv ==
  ASSUME IInv, NEW c \in Tasks, NEW l \in Running \ {"create"}, At(c, l),
         SameBase(k, k'), k'.pend_sv = k.pend_sv, handles' = handles,
         NEW m \in {"run", "wait"}, (Return /\ l = "run") \/ CallSched(c, m)
  PROVE  ThreadInv'
<1>1. /\ c \in handles /\ c \in Threads /\ k.current = c /\ pc[c] = l
      /\ pc \in [Threads -> AllLabels] /\ ret \in [Threads -> AllLabels]
      /\ arg \in [Threads -> Locals]
  BY CallerLives, TypeFacts
<1>2. arg[c] \in Locals /\ ret[c] \in {"run", "dead", "wait"}
  BY <1>1 DEF IInv, ThreadInv, LocalsInv
<1>3. l # "create"
  OBVIOUS
<1>4. CASE Return /\ l = "run"
  <2>1. /\ pc' = [pc EXCEPT ![c] = l] /\ ret' = [ret EXCEPT ![c] = ret[c]]
        /\ arg' = [arg EXCEPT ![c] = arg[c]] /\ isr' = isr
    BY <1>1, <1>4 DEF Return, threadVars
  <2>2. l \in AllLabels \ {"create", "pend", "free"} /\ l \notin {"created", "woken", "until"}
    BY <1>4 DEF AllLabels, Labels
  <2> QED BY <1>1, <1>2, <1>3, <2>1, <2>2, CallThreadInv
<1>5. CASE CallSched(c, m)
  <2>1. /\ pc' = [pc EXCEPT ![c] = "sched"] /\ ret' = [ret EXCEPT ![c] = m]
        /\ arg' = [arg EXCEPT ![c] = arg[c]] /\ isr' = isr
    BY <1>1, <1>5 DEF CallSched
  <2>2. "sched" \in AllLabels \ {"create", "pend", "free"} /\ m \in {"run", "dead", "wait"}
    BY DEF AllLabels, Labels
  <2> QED BY <1>1, <1>2, <1>3, <2>1, <2>2, CallThreadInv
<1> QED BY <1>4, <1>5

\* rtos_sched, in both of its parts, after any call.
LEMMA SchedThreadInv ==
  ASSUME IInv, NEW c \in Tasks, c = k.current,
         NEW l \in {"run", "dead", "wait", "pend"}, pc' = [pc EXCEPT ![c] = l],
         pc[c] \in {"sched", "pend"}, l = "pend" => k.sched_lock = 0, l # "pend" => l = ret[c],
         SameBase(k, k'), k.sched_lock > 0 => k'.pend_sv = k.pend_sv,
         UNCHANGED <<ret, arg, isr, handles>>
  PROVE  ThreadInv'
<1>1. /\ c \in Threads /\ c # Idle /\ pc \in [Threads -> AllLabels]
      /\ \A d \in Tasks : d \in Threads
  BY TypeFacts
<1>2. Limbo' = Limbo
  BY DEF Limbo, SameBase
<1>3. pc'[c] = l /\ \A t \in Threads \ {c} : pc'[t] = pc[t]
  BY <1>1
<1>4. ThreadTypes'
  <2>1. l \in AllLabels
    BY DEF AllLabels, Labels
  <2> QED BY <1>1, <2>1 DEF IInv, ThreadInv, ThreadTypes
<1>5. SlotsInv'
  <2>1. Idle \in Threads
    BY DEF Threads
  <2> QED BY <1>1, <1>2, <1>3, <2>1 DEF IInv, ThreadInv, SlotsInv
<1>6. LocalsInv'
  BY <1>1, <1>3 DEF IInv, ThreadInv, LocalsInv
<1>7. DyingInv'
  <2>1. \A t \in ToSet(k.terminated_list) : t \in Threads
    BY TypeFacts
  <2>2. ToSet(k'.terminated_list) = ToSet(k.terminated_list)
    BY DEF SameBase
  <2>3. ASSUME NEW t \in ToSet(k.terminated_list)
        PROVE  \/ pc'[t] = "dead"
               \/ pc'[t] \in {"sched", "pend"} /\ ret[t] = "dead"
    <3>1. CASE t = c
      <4>1. ret[c] = "dead"
        BY <3>1 DEF IInv, ThreadInv, DyingInv
      <4> QED BY <1>3, <3>1, <4>1
    <3>2. CASE t # c
      BY <1>3, <2>1, <3>2 DEF IInv, ThreadInv, DyingInv
    <3> QED BY <3>1, <3>2
  <2> QED BY <2>2, <2>3 DEF DyingInv
<1>8. LockInv'
  <2>1. k'.sched_lock = k.sched_lock /\ k'.current = c
    BY DEF SameBase
  <2>2. k.sched_lock > 0 => ~k.pend_sv
    BY DEF IInv, ThreadInv, LockInv
  <2>3. k.sched_lock > 0 => l # "pend"
    OBVIOUS
  <2> QED BY <1>3, <2>1, <2>2, <2>3 DEF LockInv
<1> QED BY <1>4, <1>5, <1>6, <1>7, <1>8 DEF ThreadInv

LEMMA SchedStep ==
  ASSUME IInv, NEW c \in Tasks, RtosSched(c)
  PROVE  IInv' /\ KeepsCpu
<1> DEFINE l == IF k.sched_lock > 0 THEN ret[c] ELSE "pend"
<1>1. /\ c = k.current /\ pc[c] = "sched" /\ k' = SchedCheck(k)
      /\ pc' = [pc EXCEPT ![c] = l] /\ UNCHANGED <<ret, arg, isr, handles>>
  BY DEF RtosSched, At, GoTo
<1>2. k \in Kernel /\ KernelInv(k, handles) /\ KernelCore(k, handles)
  BY TypeFacts
<1>3. k' \in Kernel /\ SameCore(k, k') /\ SameBase(k, k') /\ k'.pend_sv = k.pend_sv
  <2>1. (k.sched_lock > 0) \in BOOLEAN
    OBVIOUS
  <2> QED BY <1>1, <1>2, <2>1 DEF SchedCheck, Kernel, SameCore, SameBase, SameLists,
             SameQueued, SameDelays, SameEvents
<1>4. KernelInv(k', handles')
  BY <1>1, <1>2, <1>3, SameCoreInv
<1>5. ret[c] \in {"run", "dead", "wait"} /\ k.sched_lock \in Nat
  BY <1>2 DEF IInv, ThreadInv, LocalsInv, Kernel
<1>6. /\ l \in {"run", "dead", "wait", "pend"} /\ (l = "pend" => k.sched_lock = 0)
      /\ (l # "pend" => l = ret[c])
  BY <1>5
<1> HIDE DEF l
<1>7. ThreadInv'
  BY <1>1, <1>3, <1>6, SchedThreadInv
<1> QED BY <1>3, <1>4, <1>7 DEF IInv, KeepsCpu, SameBase

LEMMA RequestStep ==
  ASSUME IInv, NEW c \in Tasks, RtosRequestSwitch(c)
  PROVE  IInv' /\ KeepsCpu
<1>1. /\ c = k.current /\ pc[c] = "pend" /\ k' = RequestSwitch(k)
      /\ pc' = [pc EXCEPT ![c] = ret[c]] /\ UNCHANGED <<ret, arg, isr, handles>>
  BY DEF RtosRequestSwitch, At, GoTo
<1>2. k \in Kernel /\ KernelInv(k, handles) /\ KernelCore(k, handles) /\ k.sched_lock \in Nat
  BY TypeFacts
<1>3. k' \in Kernel /\ SameCore(k, k') /\ SameBase(k, k')
  BY <1>1, <1>2 DEF RequestSwitch, Kernel, SameCore, SameBase, SameLists, SameQueued,
     SameDelays, SameEvents
<1>4. KernelInv(k', handles')
  BY <1>1, <1>2, <1>3, SameCoreInv
<1>5. ret[c] \in {"run", "dead", "wait"} /\ ~(k.sched_lock > 0)
  BY <1>1 DEF IInv, ThreadInv, LocalsInv, LockInv
<1>6. ThreadInv'
  BY <1>1, <1>3, <1>5, SchedThreadInv
<1> QED BY <1>3, <1>4, <1>6 DEF IInv, KeepsCpu, SameBase

LEMMA YieldStep ==
  ASSUME IInv, YieldsReady, NEW c \in Tasks, TaskYield(c)
  PROVE  IInv' /\ KeepsCpu
<1>1. /\ At(c, "run") /\ k.state[c] \in OnReadyList /\ k' = Yield(k)
      /\ CallSched(c, "run") /\ handles' = handles /\ "run" \in Running
  BY DEF TaskYield, Calling, YieldsReady, Running
<1>2. c \in handles /\ k.current = c /\ KernelInv(k, handles) /\ KernelCore(k, handles)
  BY <1>1, CallerLives, TypeFacts
<1>3. c \in Queued(k)
  BY <1>1, <1>2 DEF KernelCore
<1>4. KernelInv(k', handles) /\ SameBase(k, k') /\ k'.pend_sv = k.pend_sv
  BY <1>1, <1>2, <1>3, RotateInv DEF Yield
<1>5. ThreadInv'
  BY <1>1, <1>4, CallSchedInv
<1> QED BY <1>1, <1>4, <1>5 DEF IInv, KeepsCpu, SameBase

LEMMA DelayStep ==
  ASSUME IInv, NEW c \in Tasks, TaskDelay(c) \/ TaskDelayUntilSleep(c)
  PROVE  IInv' /\ KeepsCpu
<1>1. PICK n \in Nat : k' = Delay(k, n)
  <2>1. CASE TaskDelay(c)
    BY <2>1, CallAssumption DEF TaskDelay
  <2>2. CASE TaskDelayUntilSleep(c)
    BY <2>2 DEF TaskDelayUntilSleep, At, IInv, ThreadInv, LocalsInv
  <2> QED BY <2>1, <2>2
<1>2. PICK l \in {"run", "until"} : At(c, l) /\ l \in Running
  BY DEF TaskDelay, Calling, TaskDelayUntilSleep, Running
<1>3. c \in handles /\ k.current = c /\ KernelInv(k, handles)
  BY <1>2, CallerLives, TypeFacts
<1>4. KernelInv(k', handles) /\ SameRest(k, k')
  BY <1>1, <1>3, DelayInv
<1>5. handles' = handles /\ SameBase(k, k') /\ k'.pend_sv = k.pend_sv
  BY <1>4 DEF TaskDelay, TaskDelayUntilSleep, SameRest, SameBase
<1>6. ThreadInv'
  <2>1. CASE TaskDelay(c)
    <3>1. At(c, "run") /\ CallSched(c, "run") /\ "run" \in Running
      BY <2>1 DEF TaskDelay, Calling, Running
    <3> QED BY <1>5, <3>1, CallSchedInv
  <2>2. CASE TaskDelayUntilSleep(c)
    <3>1. /\ At(c, "until") /\ pc' = [pc EXCEPT ![c] = "sched"] /\ ret' = ret
          /\ arg' = [arg EXCEPT ![c] = 0] /\ isr' = isr
      BY <2>2 DEF TaskDelayUntilSleep
    <3>2. pc[c] # "create" /\ ret' = [ret EXCEPT ![c] = ret[c]] /\ ret[c] \in {"run", "dead", "wait"}
      BY <3>1, TypeFacts DEF At, IInv, ThreadInv, LocalsInv
    <3>3. "sched" \in AllLabels \ {"create", "pend", "free"} /\ 0 \in Locals
      BY DEF AllLabels, Labels, Locals
    <3> QED BY <1>3, <1>5, <3>1, <3>2, <3>3, CallThreadInv
  <2> QED BY <2>1, <2>2
<1> QED BY <1>4, <1>5, <1>6 DEF IInv, KeepsCpu, SameBase

\* rtos_task_ready of a task that is on no list.
LEMMA UnlistedReady ==
  ASSUME NEW s, ListsOK(s), NEW t \in Threads, t \notin Queued(s), t \notin Delayed(s),
         t \notin Waiting(s)
  PROVE  MadeReady(s, TaskReady(s, t), t) /\ SameRest(s, TaskReady(s, t))
<1>1. Delayed(s) \ {t} = Delayed(s) /\ Waiting(s) \ {t} = Waiting(s)
  OBVIOUS
<1>2. Effect(s, TaskReady(s, t), Queued(s) \cup {t}, Delayed(s), Waiting(s),
             [s.state EXCEPT ![t] = "READY"])
  BY TaskReadyEffect
<1> QED BY <1>1, <1>2 DEF MadeReady, Effect

\* A suspended task of the application, and one it has no handle of yet, are on none.
LEMMA Unlisted ==
  ASSUME NEW s, NEW H, KernelCore(s, H), NEW t \in Tasks,
         t \notin H \/ s.state[t] = "SUSPENDED"
  PROVE  t \in Threads /\ t \notin Queued(s) /\ t \notin Delayed(s) /\ t \notin Waiting(s)
<1>1. t \in Threads /\ t # Idle
  BY IdleAssumption DEF Threads
<1> QED BY <1>1 DEF KernelCore, OnReadyList

\* The calls that act on a task of the application and return or go to rtos_sched.
LEMMA CallStep ==
  ASSUME IInv, NEW c \in Tasks,
         \/ TaskSuspend(c) \/ TaskResume(c) \/ TaskAbortDelay(c) \/ TaskSetPriority(c)
  PROVE  IInv' /\ KeepsCpu
<1>1. /\ At(c, "run") /\ handles' = handles /\ (Return \/ CallSched(c, "run"))
      /\ "run" \in Running
  BY DEF TaskSuspend, TaskResume, TaskAbortDelay, TaskSetPriority, Calling, SchedIf, Running
<1>2. KernelInv(k, handles) /\ KernelCore(k, handles)
  BY TypeFacts
<1>3. KernelInv(k', handles) /\ SameRest(k, k')
  <2>1. CASE TaskSuspend(c)
    BY <1>2, <2>1, SuspendInv DEF TaskSuspend
  <2>2. CASE TaskResume(c)
    <3>1. PICK t \in handles : k.state[t] = "SUSPENDED" /\ k' = TaskReady(k, t)
      BY <2>2 DEF TaskResume
    <3>2. MadeReady(k, k', t) /\ SameRest(k, k') /\ handles \cup {t} = handles
      <4>1. t \in Tasks /\ ListsOK(k)
        BY TypeFacts
      <4>2. t \in Threads /\ t \notin Queued(k) /\ t \notin Delayed(k) /\ t \notin Waiting(k)
        BY <1>2, <3>1, <4>1, Unlisted
      <4> QED BY <3>1, <4>1, <4>2, UnlistedReady
    <3>3. KernelCore(k', handles \cup {t})
      <4>1. t \in Tasks /\ t \in k.used /\ t \notin ToSet(k.terminated_list)
        BY TypeFacts
      <4> QED BY <1>2, <3>2, <4>1, BecomesReady
    <3> QED BY <1>2, <3>2, <3>3, RestInv
  <2>3. CASE TaskAbortDelay(c)
    BY <1>2, <2>3, AbortDelayInv DEF TaskAbortDelay
  <2>4. CASE TaskSetPriority(c)
    BY <1>2, <2>4, SetPriorityInv, CallAssumption DEF TaskSetPriority
  <2> QED BY <2>1, <2>2, <2>3, <2>4
<1>4. SameBase(k, k') /\ k'.pend_sv = k.pend_sv
  BY <1>3 DEF SameRest, SameBase
<1>5. ThreadInv'
  BY <1>1, <1>4, CallSchedInv
<1> QED BY <1>1, <1>3, <1>4, <1>5 DEF IInv, KeepsCpu, SameBase
LEMMA DelayUntilStep ==
  ASSUME IInv, NEW c \in Tasks, TaskDelayUntil(c)
  PROVE  IInv' /\ KeepsCpu
<1>1. PICK prev \in Ticks, n \in Intervals :
        /\ arg' = [arg EXCEPT ![c] = (((prev + n) % TickMod) - k.tick_count) % TickMod]
  BY DEF TaskDelayUntil
<1>2. /\ At(c, "run") /\ pc' = [pc EXCEPT ![c] = "until"]
      /\ UNCHANGED <<k, isr, ret, handles>>
  BY DEF TaskDelayUntil, Calling
<1> DEFINE w == (prev + n) % TickMod
           d == (w - k.tick_count) % TickMod
<1>3. w \in Ticks /\ d \in Nat
  <2>1. prev + n \in Int /\ k.tick_count \in Int /\ TickMod \in Nat /\ TickMod > 0
    BY TypeFacts, CallAssumption, TickAssumption DEF Ticks, Kernel
  <2>2. w \in Ticks /\ w \in Int
    BY <2>1 DEF Ticks
  <2> HIDE DEF w
  <2>3. w - k.tick_count \in Int
    BY <2>1, <2>2
  <2> QED BY <2>1, <2>2, <2>3
<1>4. arg' = [arg EXCEPT ![c] = d]
  BY <1>1
<1> HIDE DEF w, d
<1>5. /\ c \in handles /\ c \in Threads /\ k.current = c /\ pc[c] = "run"
      /\ ret[c] \in {"run", "dead", "wait"}
  <2>1. "run" \in Running
    BY DEF Running
  <2> QED BY <1>2, <2>1, CallerLives DEF IInv, ThreadInv, LocalsInv
<1>6. KernelInv(k', handles') /\ SameBase(k, k') /\ k'.pend_sv = k.pend_sv
  BY <1>2, TypeFacts DEF SameBase
<1>7. ThreadInv'
  <2>1. "until" \in AllLabels \ {"create", "pend", "free"} /\ d \in Locals
    BY <1>3 DEF AllLabels, Labels, Locals
  <2>2. ret' = [ret EXCEPT ![c] = ret[c]]
    BY <1>2, <1>5, TypeFacts
  <2> QED BY <1>2, <1>3, <1>4, <1>5, <1>6, <2>1, <2>2, CallThreadInv
<1> QED BY <1>2, <1>6, <1>7 DEF IInv, KeepsCpu

LEMMA DeleteOtherStep ==
  ASSUME IInv, NEW c \in Tasks, TaskDeleteOther(c)
  PROVE  IInv' /\ KeepsCpu
<1>1. PICK t \in handles \ {c} :
        /\ k' = DeleteOther(k, t) /\ handles' = handles \ {t}
        /\ pc' = [pc EXCEPT ![t] = "dead"] /\ ret' = [ret EXCEPT ![t] = "run"]
        /\ arg' = [arg EXCEPT ![t] = 0]
  BY DEF TaskDeleteOther
<1>2. At(c, "run") /\ isr' = isr
  BY DEF TaskDeleteOther, Calling
<1>3. k.current = c
  BY <1>2, CallerLives DEF Running
<1>4. t \in Tasks /\ t \in Threads /\ t # Idle /\ t \notin ToSet(k.terminated_list)
      /\ t \notin Limbo
  BY TypeFacts DEF Limbo
<1>5. /\ KernelInv(k', handles') /\ k'.used = k.used \ {t} /\ k'.current = k.current
      /\ k'.terminated_list = k.terminated_list /\ k'.sched_lock = k.sched_lock
      /\ k'.pend_sv = k.pend_sv
  <2>1. KernelInv(k, handles) /\ t # k.current /\ t \in handles
    BY <1>3, TypeFacts
  <2> QED BY SMTT(40), <1>1, <2>1, DeleteOtherInv
<1>6. Limbo' = Limbo
  BY <1>1, <1>4, <1>5 DEF Limbo
<1>7. /\ pc'[t] = "dead" /\ ret'[t] = "run"
      /\ \A u \in Threads \ {t} : pc'[u] = pc[u] /\ arg'[u] = arg[u] /\ ret'[u] = ret[u]
  BY <1>1, <1>4, TypeFacts
<1>8. ThreadTypes'
  <2>1. "dead" \in AllLabels /\ "run" \in AllLabels /\ 0 \in Locals /\ 0 \in Ticks
    BY TickAssumption DEF AllLabels, Labels, Locals, Ticks
  <2> QED BY <1>1, <1>2, <2>1 DEF IInv, ThreadInv, ThreadTypes
<1>9. SlotsInv'
  BY <1>4, <1>6, <1>7, TypeFacts DEF IInv, ThreadInv, SlotsInv
<1>10. LocalsInv'
  BY <1>7, TypeFacts DEF IInv, ThreadInv, LocalsInv
<1>11. DyingInv'
  BY <1>4, <1>5, <1>7, TypeFacts DEF IInv, ThreadInv, DyingInv
<1>12. LockInv'
  BY <1>1, <1>3, <1>5, <1>7, TypeFacts DEF IInv, ThreadInv, LockInv
<1> QED BY <1>5, <1>8, <1>9, <1>10, <1>11, <1>12 DEF IInv, ThreadInv, KeepsCpu

LEMMA DeleteSelfStep ==
  ASSUME IInv, NEW c \in Tasks, TaskDeleteSelf(c)
  PROVE  IInv' /\ KeepsCpu
<1>1. /\ At(c, "run") /\ k' = DeleteSelf(k) /\ handles' = handles \ {c}
      /\ pc' = [pc EXCEPT ![c] = "sched"] /\ ret' = [ret EXCEPT ![c] = "dead"]
      /\ UNCHANGED <<arg, isr>>
  BY DEF TaskDeleteSelf, Calling, CallSched
<1>2. c \in handles /\ c \in Threads /\ c # Idle /\ k.current = c
  BY <1>1, CallerLives DEF Running
<1>3. /\ KernelInv(k', handles') /\ k'.used = k.used /\ k'.sched_lock = 0
      /\ k'.current = k.current
      /\ ToSet(k'.terminated_list) = ToSet(k.terminated_list) \cup {c}
  BY <1>1, <1>2, TypeFacts, DeleteSelfInv
<1>4. Limbo' = Limbo
  BY <1>1, <1>2, <1>3 DEF Limbo
<1>5. /\ pc'[c] = "sched" /\ ret'[c] = "dead"
      /\ \A u \in Threads \ {c} : pc'[u] = pc[u] /\ ret'[u] = ret[u]
  BY <1>1, <1>2, TypeFacts
<1>6. ThreadTypes'
  <2>1. "dead" \in AllLabels /\ "sched" \in AllLabels
    BY DEF AllLabels, Labels
  <2> QED BY <1>1, <2>1 DEF IInv, ThreadInv, ThreadTypes
<1>7. SlotsInv'
  BY <1>1, <1>2, <1>4, <1>5, TypeFacts DEF IInv, ThreadInv, SlotsInv
<1>8. LocalsInv'
  BY <1>1, <1>5, TypeFacts DEF IInv, ThreadInv, LocalsInv
<1>9. DyingInv'
  <2>1. ToSet(k.terminated_list) \subseteq Threads \ {c}
    BY <1>2, TypeFacts
  <2> QED BY <1>3, <1>5, <2>1 DEF IInv, ThreadInv, DyingInv
<1>10. LockInv'
  BY <1>3 DEF LockInv
<1> QED BY <1>3, <1>6, <1>7, <1>8, <1>9, <1>10 DEF IInv, ThreadInv, KeepsCpu

LEMMA LockStep ==
  ASSUME IInv, NEW c \in Tasks, RtosSchedLock(c) \/ RtosSchedUnlock(c)
  PROVE  IInv' /\ KeepsCpu
<1>1. At(c, "run") /\ handles' = handles /\ (Return \/ CallSched(c, "run"))
  BY DEF RtosSchedLock, RtosSchedUnlock, Calling, SchedIf
<1>2. c \in handles /\ k.current = c /\ ~k.pend_sv /\ pc[c] = "run" /\ c \in Threads
  BY <1>1, CallerLives DEF Running
<1>3. k' \in Kernel /\ SameCore(k, k') /\ k'.pend_sv = k.pend_sv
  <2>1. CASE RtosSchedLock(c)
    <3>1. k' = [k EXCEPT !.sched_lock = k.sched_lock + 1] /\ k.sched_lock + 1 \in Nat
      BY <2>1, TypeFacts DEF RtosSchedLock
    <3> QED BY <3>1, TypeFacts DEF Kernel, SameCore, SameLists, SameQueued, SameDelays, SameEvents
  <2>2. CASE RtosSchedUnlock(c)
    <3>1. k.sched_lock - 1 \in Nat
      BY <2>2, TypeFacts DEF RtosSchedUnlock
    <3>2. \/ k' = [k EXCEPT !.sched_lock = 0, !.need_resched = FALSE]
          \/ k' = [k EXCEPT !.sched_lock = k.sched_lock - 1]
      BY <2>2 DEF RtosSchedUnlock, SchedUnlock
    <3>3. CASE k' = [k EXCEPT !.sched_lock = 0, !.need_resched = FALSE]
      BY <3>3, TypeFacts DEF Kernel, SameCore, SameLists, SameQueued, SameDelays, SameEvents
    <3>4. CASE k' = [k EXCEPT !.sched_lock = k.sched_lock - 1]
      BY <3>1, <3>4, TypeFacts DEF Kernel, SameCore, SameLists, SameQueued, SameDelays, SameEvents
    <3> QED BY <3>2, <3>3, <3>4
  <2> QED BY <2>1, <2>2
<1>4. KernelInv(k', handles')
  BY <1>1, <1>3, SameCoreInv, TypeFacts
<1>5. /\ \A t \in Threads \ {c} : pc'[t] = pc[t]
      /\ pc'[c] \in {"run", "sched"} /\ arg' = arg /\ isr' = isr
      /\ \A t \in Threads : ret'[t] \in {ret[t], "run"}
      /\ \A t \in Threads \ {c} : ret'[t] = ret[t]
      /\ pc' \in [Threads -> AllLabels] /\ ret' \in [Threads -> AllLabels]
  <2>1. CASE Return
    BY <1>2, <2>1, TypeFacts DEF Return, threadVars
  <2>2. CASE CallSched(c, "run")
    BY <1>2, <2>2, TypeFacts DEF CallSched, AllLabels, Labels
  <2> QED BY <1>1, <2>1, <2>2
<1>6. Limbo' = Limbo
  BY <1>1, <1>3 DEF Limbo, SameCore
<1>7. ThreadTypes'
  BY <1>1, <1>5 DEF IInv, ThreadInv, ThreadTypes
<1>8. SlotsInv'
  BY <1>2, <1>5, <1>6, TypeFacts DEF IInv, ThreadInv, SlotsInv
<1>9. LocalsInv'
  BY <1>5, TypeFacts DEF IInv, ThreadInv, LocalsInv
<1>10. DyingInv'
  <2>1. ToSet(k.terminated_list) \subseteq Threads \ {c}
    BY <1>2, TypeFacts
  <2> QED BY <1>3, <1>5, <2>1 DEF IInv, ThreadInv, DyingInv, SameCore
<1>11. LockInv'
  BY <1>2, <1>3, <1>5 DEF LockInv, SameCore
<1> QED BY <1>3, <1>4, <1>7, <1>8, <1>9, <1>10, <1>11 DEF IInv, ThreadInv, KeepsCpu, SameCore

LEMMA CreateStep ==
  ASSUME IInv, NEW c \in Tasks, TaskCreate(c)
  PROVE  IInv' /\ KeepsCpu
<1>1. PICK t \in Tasks \ k.used, p \in CreatePrios :
        /\ k' = TcbAlloc(k, t, p) /\ arg' = [arg EXCEPT ![c] = t]
        /\ pc' = [pc EXCEPT ![c] = "create", ![t] = "run"]
        /\ ret' = [ret EXCEPT ![t] = "run"]
  BY DEF TaskCreate
<1>2. At(c, "run") /\ isr' = isr /\ handles' = handles
  BY DEF TaskCreate, Calling
<1>3. c \in handles /\ c \in Threads /\ c # Idle /\ k.current = c
  BY <1>2, CallerLives DEF Running
<1>4. t \in Threads /\ t # Idle /\ t # c /\ t \notin handles /\ t \notin Limbo
      /\ t \notin ToSet(k.terminated_list)
  <2>1. ToSet(k.terminated_list) \subseteq k.used
    BY TypeFacts
  <2> QED BY <1>3, <2>1, TypeFacts DEF Limbo
<1>5. /\ KernelInv(k', handles') /\ k'.used = k.used \cup {t} /\ k'.current = k.current
      /\ k'.terminated_list = k.terminated_list /\ k'.sched_lock = k.sched_lock
      /\ k'.pend_sv = k.pend_sv
  <2>1. KernelInv(k, handles) /\ p \in Prio /\ t \in Tasks /\ t \notin k.used
    BY TypeFacts, CallAssumption
  <2> QED BY <1>1, <1>2, <2>1, TcbAllocInv
<1>6. Limbo' = Limbo \cup {t}
  BY <1>2, <1>4, <1>5 DEF Limbo
<1>7. /\ pc'[c] = "create" /\ arg'[c] = t /\ pc'[t] = "run" /\ ret'[t] = "run"
      /\ \A u \in Threads \ {c, t} : pc'[u] = pc[u]
      /\ \A u \in Threads \ {c} : arg'[u] = arg[u]
      /\ \A u \in Threads \ {t} : ret'[u] = ret[u]
  BY <1>1, <1>3, <1>4, TypeFacts
<1>8. ThreadTypes'
  <2>1. "create" \in AllLabels /\ "run" \in AllLabels /\ t \in Locals /\ 0 \in Ticks
    BY TickAssumption DEF AllLabels, Labels, Locals, Ticks, Threads
  <2> QED BY <1>1, <1>2, <2>1 DEF IInv, ThreadInv, ThreadTypes
<1>9. SlotsInv'
  <2>1. pc'[Idle] = pc[Idle] /\ arg'[Idle] = arg[Idle]
    BY <1>3, <1>4, <1>7, TypeFacts
  <2>2. pc[Idle] \in {"run", "free"} /\ (pc[Idle] = "free" => arg[Idle] \in Limbo)
    BY DEF IInv, ThreadInv, SlotsInv
  <2>3. \A d \in Tasks : pc'[d] = "create" =>
          \/ d = c
          \/ pc[d] = "create" /\ arg'[d] = arg[d] /\ arg[d] \in Limbo
    BY <1>4, <1>7, TypeFacts DEF IInv, ThreadInv, SlotsInv
  <2>4. ASSUME NEW d \in Tasks, pc'[d] = "create"
        PROVE  /\ arg'[d] \in Limbo' /\ (pc'[Idle] = "free" => arg'[Idle] # arg'[d])
               /\ \A e \in Tasks : pc'[e] = "create" /\ arg'[e] = arg'[d] => e = d
    <3>1. CASE d = c
      BY <1>4, <1>6, <1>7, <2>1, <2>2, <2>3, <3>1
    <3>2. CASE d # c
      BY <1>4, <1>6, <1>7, <2>1, <2>2, <2>3, <2>4, <3>2 DEF IInv, ThreadInv, SlotsInv
    <3> QED BY <3>1, <3>2
  <2> QED BY <1>6, <2>1, <2>2, <2>4 DEF SlotsInv
<1>10. LocalsInv'
  BY <1>4, <1>7, TypeFacts DEF IInv, ThreadInv, LocalsInv
<1>11. DyingInv'
  <2>1. ToSet(k.terminated_list) \subseteq Threads \ {c, t}
    BY <1>3, <1>4, TypeFacts
  <2> QED BY <1>5, <1>7, <2>1 DEF IInv, ThreadInv, DyingInv
<1>12. LockInv'
  <2>1. pc'[c] # "pend"
    BY <1>7
  <2> QED BY <1>3, <1>5, <2>1 DEF IInv, ThreadInv, LockInv
<1> QED BY <1>5, <1>8, <1>9, <1>10, <1>11, <1>12 DEF IInv, ThreadInv, KeepsCpu

LEMMA CreateReadyStep ==
  ASSUME IInv, NEW c \in Tasks, TaskCreateReady(c)
  PROVE  IInv' /\ KeepsCpu
<1> DEFINE t == arg[c]
<1>1. /\ At(c, "create") /\ k' = TaskReady(k, t) /\ handles' = handles \cup {t}
      /\ pc' = [pc EXCEPT ![c] = "created"] /\ UNCHANGED <<ret, arg, isr>>
  BY DEF TaskCreateReady, GoTo
<1>2. c \in handles /\ c \in Threads /\ c # Idle /\ k.current = c /\ pc[c] = "create"
  BY <1>1, CallerLives DEF Running
<1>3. t \in Limbo
  BY <1>2 DEF IInv, ThreadInv, SlotsInv
<1>4. /\ t \in Tasks /\ t \in Threads /\ t # Idle /\ t \in k.used /\ t \notin handles
      /\ t \notin ToSet(k.terminated_list)
  BY <1>3, TypeFacts DEF Limbo
<1>5. t \notin Queued(k) /\ t \notin Delayed(k) /\ t \notin Waiting(k)
  BY <1>4, Unlisted, TypeFacts
<1> HIDE DEF t
<1>6. MadeReady(k, k', t) /\ SameRest(k, k')
  BY <1>1, <1>4, <1>5, UnlistedReady, TypeFacts
<1>7. KernelCore(k', handles')
  BY <1>1, <1>4, <1>6, BecomesReady, TypeFacts
<1>8. KernelInv(k', handles')
  <2>1. k.current \in handles' \cup {Idle} \cup ToSet(k.terminated_list)
    BY <1>1, <1>2
  <2> QED BY <1>6, <1>7, <2>1 DEF KernelInv, SameRest
<1>9. Limbo' = Limbo \ {t}
  BY <1>1, <1>6 DEF Limbo, SameRest
<1>10. pc'[c] = "created" /\ \A u \in Threads \ {c} : pc'[u] = pc[u]
  BY <1>1, <1>2, TypeFacts
<1>11. ThreadTypes'
  <2>1. "created" \in AllLabels
    BY DEF AllLabels, Labels
  <2> QED BY <1>1, <1>4, <2>1 DEF IInv, ThreadInv, ThreadTypes
<1>12. SlotsInv'
  <2>1. pc[Idle] = "free" => arg[Idle] # t
    BY <1>2 DEF IInv, ThreadInv, SlotsInv, t
  <2>2. \A d \in Tasks : d # c /\ pc[d] = "create" => arg[d] # t
    BY <1>2 DEF IInv, ThreadInv, SlotsInv, t
  <2> QED BY <1>1, <1>2, <1>9, <1>10, <2>1, <2>2, TypeFacts DEF IInv, ThreadInv, SlotsInv
<1>13. LocalsInv'
  <2>1. arg'[c] \in Tasks
    BY <1>1, <1>4 DEF t
  <2> QED BY <1>1, <1>10, <2>1, TypeFacts DEF IInv, ThreadInv, LocalsInv
<1>14. DyingInv'
  <2>1. ToSet(k.terminated_list) \subseteq Threads \ {c}
    BY <1>2, TypeFacts
  <2> QED BY <1>1, <1>6, <1>10, <2>1 DEF IInv, ThreadInv, DyingInv, SameRest
<1>15. LockInv'
  BY <1>2, <1>6, <1>10 DEF IInv, ThreadInv, LockInv, SameRest
<1> QED BY <1>6, <1>8, <1>11, <1>12, <1>13, <1>14, <1>15 DEF IInv, ThreadInv, KeepsCpu, SameRest

\* A call that has compared the priorities returns, or goes on in rtos_sched.
LEMMA ReturnThreadInv ==
  ASSUME IInv, NEW c \in Tasks, NEW a \in {"created", "woken"}, At(c, a),
         NEW l \in {"sched", "run"}, pc' = [pc EXCEPT ![c] = l],
         arg' = [arg EXCEPT ![c] = 0], UNCHANGED <<k, isr, ret, handles>>
  PROVE  ThreadInv'
<1>1. c \in handles /\ c \in Threads /\ k.current = c /\ pc[c] = a
  <2>1. a \in Running
    BY DEF Running
  <2> QED BY <2>1, CallerLives
<1>2. ret' = [ret EXCEPT ![c] = ret[c]] /\ ret[c] \in {"run", "dead", "wait"}
  BY <1>1, TypeFacts DEF IInv, ThreadInv, LocalsInv
<1>3. l \in AllLabels \ {"create", "pend", "free"} /\ 0 \in Locals
  BY DEF AllLabels, Labels, Locals
<1>4. SameBase(k, k') /\ k'.pend_sv = k.pend_sv
  BY DEF SameBase
<1> QED BY <1>1, <1>2, <1>3, <1>4, CallThreadInv

LEMMA CreateReturnStep ==
  ASSUME IInv, NEW c \in Tasks, TaskCreateReturn(c)
  PROVE  IInv' /\ KeepsCpu
<1> DEFINE l == IF k.priority[arg[c]] > k.priority[c] THEN "sched" ELSE "run"
<1>1. /\ At(c, "created") /\ pc' = [pc EXCEPT ![c] = l] /\ arg' = [arg EXCEPT ![c] = 0]
      /\ UNCHANGED <<k, isr, ret, handles>>
  BY DEF TaskCreateReturn
<1>2. l \in {"sched", "run"}
  OBVIOUS
<1> HIDE DEF l
<1>3. ThreadInv'
  BY <1>1, <1>2, ReturnThreadInv
<1> QED BY <1>1, <1>3, TypeFacts DEF IInv, KeepsCpu

LEMMA ReclaimStep ==
  ASSUME IInv, IdleReclaim
  PROVE  IInv' /\ KeepsCpu
<1> DEFINE t == Head(k.terminated_list)
           l == Tail(k.terminated_list)
<1>1. /\ At(Idle, "run") /\ k.terminated_list # <<>>
      /\ k' = [k EXCEPT !.terminated_list = l]
      /\ arg' = [arg EXCEPT ![Idle] = t] /\ pc' = [pc EXCEPT ![Idle] = "free"]
      /\ UNCHANGED <<isr, ret, handles>>
  BY DEF IdleReclaim
<1>2. k.terminated_list \in Seq(Threads) /\ Distinct(k.terminated_list)
  BY TypeFacts DEF KernelCore, Kernel
<1>3. /\ t \in Threads /\ t \in ToSet(k.terminated_list) /\ l \in Seq(Threads)
      /\ Distinct(l) /\ ToSet(l) = ToSet(k.terminated_list) \ {t}
  BY <1>1, <1>2, HeadDistinct
<1> HIDE DEF t, l
<1>4. /\ k' \in Kernel /\ SameLists(k, k') /\ k'.state = k.state
      /\ k'.used = k.used /\ k'.current = k.current /\ k'.terminated_list = l
      /\ k'.sched_lock = k.sched_lock /\ k'.pend_sv = k.pend_sv
  BY <1>1, <1>3, TypeFacts DEF Kernel, SameLists, SameQueued, SameDelays, SameEvents
<1>5. k.current = Idle /\ t \in k.used \ handles
  BY <1>1, <1>3, TypeFacts DEF At
<1>6. KernelInv(k', handles')
  <2>1. /\ ListsOK(k') /\ Queued(k') = Queued(k) /\ Delayed(k') = Delayed(k)
        /\ Waiting(k') = Waiting(k)
    BY <1>4, SameListsOK, TypeFacts
  <2> QED BY <1>1, <1>3, <1>4, <1>5, <2>1, TypeFacts DEF KernelInv, KernelCore
<1>7. Limbo' = Limbo \cup {t} /\ t \notin Limbo
  BY <1>1, <1>3, <1>4, <1>5 DEF Limbo
<1>8. /\ pc'[Idle] = "free" /\ arg'[Idle] = t
      /\ \A c \in Tasks : pc'[c] = pc[c] /\ arg'[c] = arg[c]
  BY <1>1, TypeFacts
<1>9. ThreadTypes'
  <2>1. "free" \in AllLabels /\ t \in Locals
    BY <1>3 DEF AllLabels, Labels, Locals
  <2> QED BY <1>1, <2>1 DEF IInv, ThreadInv, ThreadTypes
<1>10. SlotsInv'
  BY <1>7, <1>8 DEF IInv, ThreadInv, SlotsInv
<1>11. LocalsInv'
  BY <1>1, <1>8 DEF IInv, ThreadInv, LocalsInv
<1>12. DyingInv'
  BY <1>1, <1>3, <1>4, <1>8, TypeFacts DEF IInv, ThreadInv, DyingInv
<1>13. LockInv'
  BY <1>4, <1>5, <1>8 DEF IInv, ThreadInv, LockInv
<1> QED BY <1>4, <1>6, <1>9, <1>10, <1>11, <1>12, <1>13 DEF IInv, ThreadInv, KeepsCpu

LEMMA FreeStep ==
  ASSUME IInv, IdleFree
  PROVE  IInv' /\ KeepsCpu
<1> DEFINE t == arg[Idle]
<1>1. /\ At(Idle, "free") /\ k' = [k EXCEPT !.used = @ \ {t}]
      /\ arg' = [arg EXCEPT ![Idle] = 0] /\ pc' = [pc EXCEPT ![Idle] = "run"]
      /\ UNCHANGED <<isr, ret, handles>>
  BY DEF IdleFree
<1>2. k.current = Idle /\ pc[Idle] = "free" /\ t \in Limbo
  BY <1>1 DEF At, IInv, ThreadInv, SlotsInv
<1>3. t \notin handles /\ t \notin ToSet(k.terminated_list)
  BY <1>2 DEF Limbo
<1>4. /\ k' \in Kernel /\ SameLists(k, k') /\ k'.state = k.state
      /\ k'.used = k.used \ {t} /\ k'.current = k.current
      /\ k'.terminated_list = k.terminated_list
      /\ k'.sched_lock = k.sched_lock /\ k'.pend_sv = k.pend_sv
  <2> HIDE DEF t
  <2> QED BY <1>1, TypeFacts DEF Kernel, SameLists, SameQueued, SameDelays, SameEvents
<1>5. KernelInv(k', handles')
  <2>1. /\ ListsOK(k') /\ Queued(k') = Queued(k) /\ Delayed(k') = Delayed(k)
        /\ Waiting(k') = Waiting(k)
    BY <1>4, SameListsOK, TypeFacts
  <2> QED BY SMTT(40), <1>1, <1>3, <1>4, <2>1, TypeFacts DEF KernelInv, KernelCore
<1>6. Limbo' = Limbo \ {t}
  BY <1>1, <1>4 DEF Limbo
<1>7. pc'[Idle] = "run" /\ \A c \in Tasks : pc'[c] = pc[c] /\ arg'[c] = arg[c]
  BY <1>1, TypeFacts
<1>8. ThreadTypes'
  <2>1. "run" \in AllLabels /\ 0 \in Locals
    BY DEF AllLabels, Labels, Locals
  <2> QED BY <1>1, <2>1 DEF IInv, ThreadInv, ThreadTypes
<1>9. SlotsInv'
  BY <1>2, <1>6, <1>7 DEF IInv, ThreadInv, SlotsInv
<1>10. LocalsInv'
  BY <1>1, <1>7 DEF IInv, ThreadInv, LocalsInv
<1>11. DyingInv'
  BY <1>1, <1>4, <1>7, TypeFacts DEF IInv, ThreadInv, DyingInv
<1>12. LockInv'
  BY <1>2, <1>4, <1>7 DEF IInv, ThreadInv, LockInv
<1> QED BY <1>4, <1>5, <1>8, <1>9, <1>10, <1>11, <1>12 DEF IInv, ThreadInv, KeepsCpu

\* Handlers interrupt the threads wherever they are, and leave them there.
LEMMA HandlerThreadInv ==
  ASSUME IInv, UNCHANGED <<threadVars, handles>>, isr' \in {"none", "tick"},
         k'.used = k.used, k'.terminated_list = k.terminated_list,
         k'.sched_lock = k.sched_lock,
         k.sched_lock > 0 => k'.pend_sv = k.pend_sv /\ k'.current = k.current
  PROVE  ThreadInv'
<1>1. Limbo' = Limbo
  BY DEF Limbo
<1>2. ThreadTypes' /\ SlotsInv' /\ LocalsInv'
  BY <1>1 DEF threadVars, IInv, ThreadInv, ThreadTypes, SlotsInv, LocalsInv
<1>3. DyingInv' /\ LockInv'
  BY DEF threadVars, IInv, ThreadInv, DyingInv, LockInv
<1> QED BY <1>2, <1>3 DEF ThreadInv

\* PendSV and SysTick interrupt the threads wherever they are.
LEMMA HandlerStep ==
  ASSUME IInv, Handler
  PROVE  IInv' /\ KeepsCpu
<1>1. /\ UNCHANGED <<pc, ret, arg, handles>> /\ isr' \in {"none", "tick"}
  BY DEF Handler, PendSV, SysTick, SysTickWake, SysTickEnd, threadVars, IInv,
     ThreadInv, ThreadTypes
<1>2. /\ KernelInv(k', handles) /\ k'.used = k.used
      /\ k'.terminated_list = k.terminated_list /\ k'.sched_lock = k.sched_lock
      /\ k.sched_lock > 0 => k'.pend_sv = k.pend_sv /\ k'.current = k.current
  <2>1. CASE PendSV
    <3>1. k.pend_sv /\ k' = SwitchContext(k)
      BY <2>1 DEF PendSV
    <3>2. ~(k.sched_lock > 0)
      BY <3>1 DEF IInv, ThreadInv, LockInv
    <3> QED BY <3>1, <3>2, SwitchContextInv, TypeFacts
  <2>2. CASE SysTick
    BY <2>2, TickBeginInv, TypeFacts DEF SysTick, SameBase
  <2>3. CASE SysTickWake
    BY <2>3, TickWakeInv, TypeFacts DEF SysTickWake, HeadExpired, SameBase
  <2>4. CASE SysTickEnd
    <3>1. k' = TickEnd(k) /\ KernelInv(k, handles)
      BY <2>4, TypeFacts DEF SysTickEnd
    <3>2. KernelInv(k', handles) /\ SliceOnly(k, k') /\ (k.sched_lock > 0 => k'.pend_sv = k.pend_sv)
      BY <3>1, TickEndInv
    <3> QED BY <3>2 DEF SliceOnly, SameBase
  <2> QED BY <2>1, <2>2, <2>3, <2>4 DEF Handler
<1>3. ThreadInv'
  BY <1>1, <1>2, HandlerThreadInv DEF threadVars
<1> QED BY <1>1, <1>2, <1>3 DEF IInv, KeepsCpu

LEMMA NextInv ==
  ASSUME YieldsReady, IInv, [Next]_vars
  PROVE  IInv' /\ KeepsCpu
<1>1. ASSUME NEW c \in Tasks, Thread(c)
      PROVE  IInv' /\ KeepsCpu
  BY <1>1, SchedStep, RequestStep, YieldStep, DelayStep, DelayUntilStep, CallStep,
     DeleteOtherStep, DeleteSelfStep, LockStep, CreateStep, CreateReadyStep,
     CreateReturnStep DEF Thread
<1>2. CASE IdleThread
  BY <1>2, ReclaimStep, FreeStep DEF IdleThread
<1>3. CASE Handler
  BY <1>3, HandlerStep
<1>4. CASE UNCHANGED vars
  BY <1>4 DEF vars, threadVars, IInv, ThreadInv, ThreadTypes, SlotsInv, LocalsInv,
     DyingInv, LockInv, Limbo, KeepsCpu
<1> QED BY <1>1, <1>2, <1>3, <1>4 DEF Next

-----------------------------------------------------------------------------
\* Theorems

\* The invariant holds of every state of the kernel, whatever the tasks call, as
\* long as a task that yields is ready.
THEOREM Invariance == YieldsReady /\ Spec => []IInv
<1> SUFFICES ASSUME YieldsReady PROVE Spec => []IInv
  OBVIOUS
<1>1. Init => IInv
  BY InitInv DEF Init
<1>2. IInv /\ [Next]_vars => IInv'
  BY NextInv
<1> QED BY <1>1, <1>2, PTL DEF Spec

\* The labels of task.h are enough for its calls.
OwnLabels == pc \in [Threads -> Labels] /\ ret \in [Threads -> Labels]

\* The calls of task.h keep within any labels that have theirs among them.
LEMMA LabelsStep ==
  ASSUME NEW L, Labels \subseteq L, pc \in [Threads -> L], ret \in [Threads -> L], [Next]_vars
  PROVE  pc' \in [Threads -> L] /\ ret' \in [Threads -> L]
<1> DEFINE Kept == pc' \in [Threads -> L] /\ ret' \in [Threads -> L]
<1>0. /\ "run" \in L /\ "sched" \in L /\ "pend" \in L /\ "dead" \in L
      /\ "create" \in L /\ "created" \in L /\ "until" \in L /\ "free" \in L
      /\ Idle \in Threads /\ \A t \in Tasks : t \in Threads
  BY DEF Labels, Threads
<1>1. ASSUME NEW c \in Tasks, Thread(c)
      PROVE  Kept
  <2>1. c \in Threads
    BY <1>0
  <2>2. CASE RtosSched(c) \/ RtosRequestSwitch(c)
    <3>1. PICK l \in {ret[c], "pend"} : pc' = [pc EXCEPT ![c] = l] /\ ret' = ret
      BY <1>0, <2>2 DEF RtosSched, RtosRequestSwitch, GoTo
    <3> QED BY <1>0, <2>1, <3>1
  <2>3. CASE Return \/ CallSched(c, "run") \/ CallSched(c, "dead")
    BY <1>0, <2>3 DEF Return, CallSched, threadVars
  <2>4. CASE \/ TaskYield(c) \/ TaskDelay(c) \/ TaskSuspend(c) \/ TaskResume(c)
             \/ TaskAbortDelay(c) \/ TaskSetPriority(c) \/ TaskDeleteSelf(c)
             \/ RtosSchedLock(c) \/ RtosSchedUnlock(c)
    BY <1>0, <2>3, <2>4 DEF TaskYield, TaskDelay, TaskSuspend, TaskResume, TaskAbortDelay,
       TaskSetPriority, TaskDeleteSelf, RtosSchedLock, RtosSchedUnlock, SchedIf
  <2>5. CASE TaskDelayUntil(c) \/ TaskDelayUntilSleep(c)
    BY <1>0, <2>5 DEF TaskDelayUntil, TaskDelayUntilSleep
  <2>6. CASE TaskDeleteOther(c)
    <3>1. PICK t \in handles : /\ pc' = [pc EXCEPT ![t] = "dead"]
                               /\ ret' = [ret EXCEPT ![t] = "run"]
      BY <2>6 DEF TaskDeleteOther
    <3> QED BY <1>0, <3>1
  <2>7. CASE TaskCreate(c) \/ TaskCreateReady(c) \/ TaskCreateReturn(c)
    BY <1>0, <2>7 DEF TaskCreate, TaskCreateReady, TaskCreateReturn, GoTo
  <2> QED BY <1>1, <2>2, <2>4, <2>5, <2>6, <2>7 DEF Thread
<1>2. CASE IdleThread
  BY <1>0, <1>2 DEF IdleThread, IdleReclaim, IdleFree
<1>3. CASE Handler
  BY <1>0, <1>3 DEF Handler, PendSV, SysTick, SysTickWake, SysTickEnd, threadVars
<1>4. CASE UNCHANGED vars
  BY <1>0, <1>4 DEF vars, threadVars
<1> QED BY <1>1, <1>2, <1>3, <1>4 DEF Next

LEMMA OwnLabelsStep ==
  ASSUME OwnLabels, [Next]_vars
  PROVE  OwnLabels'
BY LabelsStep DEF OwnLabels

\* The objects of the kernel keep their types: no list holds anything but tasks,
\* tick_count wraps, sched_lock is never negative.
THEOREM TypeCorrect == YieldsReady /\ Spec => []TypeOK
<1>1. Init => OwnLabels
  BY DEF Init, InitThreads, OwnLabels, Labels
<1>2. OwnLabels /\ [Next]_vars => OwnLabels'
  BY OwnLabelsStep
<1>3. IInv /\ OwnLabels => TypeOK
  BY TypeFacts DEF IInv, ThreadInv, ThreadTypes, OwnLabels, TypeOK
<1> QED BY <1>1, <1>2, <1>3, Invariance, PTL DEF Spec

\* The ready queues, their bitmap and the states of the tasks agree, for every
\* sequence of calls, ticks and switches.
THEOREM ReadyQueuesCorrect == YieldsReady /\ Spec => []ReadyConsistent
<1>1. ASSUME IInv PROVE ReadyConsistent
  <2>1. /\ ReadyListsOK(k) /\ k \in Kernel
        /\ Queued(k) = {t \in Live : k.state[t] \in OnReadyList}
    BY <1>1, TypeFacts DEF KernelCore, ListsOK, Live
  <2>2. \A p \in Prio : \A t \in ToSet(k.ready_list[p]) : t \in Threads
    BY <2>1 DEF Kernel, ToSet
  <2>3. ReadyOnce /\ MapExact
    BY <2>1 DEF ReadyListsOK, ReadyOnce, MapExact
  <2>4. ReadySound
    BY <2>1, <2>2 DEF ReadyListsOK, ReadySound, Queued
  <2>5. ReadyComplete
    BY <2>1 DEF ReadyComplete, Queued
  <2> QED BY <2>3, <2>4, <2>5 DEF ReadyConsistent
<1> QED BY <1>1, Invariance, PTL

\* A task on a delay list is BLOCKED and is there once, and a BLOCKED task is on a delay
\* list or an event list: rtos_task_suspend, rtos_task_delete and the rest take it off.
THEOREM DelayListsCorrect == YieldsReady /\ Spec => []DelayConsistent
<1>1. ASSUME IInv PROVE DelayConsistent
  <2>1. /\ DelayListsOK(k) /\ handles \subseteq Threads
        /\ \A t \in Threads : OnDelayList(k, t) <=> t \in Delayed(k)
    BY <1>1, TypeFacts DEF ListsOK, OnDelayList, Delayed
  <2>2. Delayed(k) \cup Waiting(k) = {t \in handles : k.state[t] = "BLOCKED"}
    BY <1>1, TypeFacts DEF KernelCore
  <2> QED BY <2>1, <2>2 DEF DelayConsistent, DelayListsOK, Waiting
<1> QED BY <1>1, Invariance, PTL

\* At most one task is RUNNING, and it is rtos_current_tcb.
THEOREM OneTaskRuns == YieldsReady /\ Spec => []RunningIsCurrent
<1>1. IInv => RunningIsCurrent
  BY DEF IInv, KernelInv, KernelCore, RunningIsCurrent
<1> QED BY <1>1, Invariance, PTL

\* A TCB slot is given out again only after its task is deleted and reclaimed, and
\* it is reclaimed once, in spite of the windows in rtos_task_create and the idle task.
THEOREM PoolCorrect == YieldsReady /\ Spec => []PoolConsistent
<1>1. ASSUME IInv PROVE PoolConsistent
  <2>1. KernelCore(k, handles) /\ SlotsInv /\ handles \subseteq Tasks
    BY <1>1, TypeFacts DEF IInv, ThreadInv
  <2>2. \A t \in ToSet(k.terminated_list) : t \in Threads /\ ~OnDelayList(k, t)
    <3>1. \A t : OnDelayList(k, t) <=> t \in Delayed(k)
      BY DEF OnDelayList, Delayed
    <3> QED BY <1>1, <2>1, <3>1, TypeFacts DEF KernelCore
  <2>3. pc[Idle] = "free" => arg[Idle] \in k.used \ (handles \cup ToSet(k.terminated_list))
    BY <2>1 DEF SlotsInv, Limbo
  <2>4. \A c \in Tasks : pc[c] = "create" =>
          /\ arg[c] \in k.used \ handles
          /\ \A d \in Tasks : pc[d] = "create" /\ arg[d] = arg[c] => d = c
    BY <2>1 DEF SlotsInv, Limbo
  <2>5. /\ handles \subseteq k.used /\ Distinct(k.terminated_list)
        /\ \A t \in ToSet(k.terminated_list) :
             t \in k.used \ handles /\ k.state[t] = "DELETED" /\ ~OnDelayList(k, t)
    BY <2>1, <2>2 DEF KernelCore
  <2>6. \A c, d \in handles :
          pc[c] = "create" /\ pc[d] = "create" /\ arg[c] = arg[d] => c = d
    BY <2>1, <2>4
  <2>7. \A c \in handles : pc[c] = "create" => arg[c] \in k.used \ handles
    BY <2>1, <2>4
  <2> QED BY <2>3, <2>5, <2>6, <2>7, Zenon DEF PoolConsistent
<1> QED BY <1>1, Invariance, PTL

\* The scheduler lock: from a step that leaves it held to the next the processor
\* stays with the same task.
THEOREM LockCorrect == YieldsReady /\ Spec => LockHoldsCpu
<1> SUFFICES ASSUME YieldsReady PROVE Spec => LockHoldsCpu
  OBVIOUS
<1>1. IInv /\ [Next]_vars =>
        [k.sched_lock > 0 /\ k'.sched_lock > 0 => k'.current = k.current]_vars
  BY NextInv DEF KeepsCpu
<1> QED BY <1>1, Invariance, PTL DEF Spec, LockHoldsCpu

-----------------------------------------------------------------------------
\* The first of the highest priority

\* The current task is the one that rtos_pick_highest_ready returns.
Leads(s) == s.current = PickHighestReady(s)

\* p is the highest priority with a task to run.
Top(s, p) ==
  /\ p \in Prio /\ s.ready_list[p] # <<>>
  /\ \A q \in Prio : q > p => s.ready_list[q] = <<>>

LEMMA PickTop ==
  ASSUME NEW s, ListsOK(s), NEW p, Top(s, p)
  PROVE  PickHighestReady(s) = Head(s.ready_list[p])
<1>1. s.ready_map \in SUBSET Prio /\ p \in s.ready_map /\ s.ready_map # {}
  BY DEF ListsOK, ReadyListsOK, Kernel, Top
<1>2. \A q \in s.ready_map : q <= p
  BY <1>1, PriorityAssumption DEF ListsOK, ReadyListsOK, Top, Prio
<1>3. Max(s.ready_map) \in s.ready_map /\ Max(s.ready_map) >= p
  BY <1>1, MaxElement
<1>4. Max(s.ready_map) = p
  BY <1>1, <1>2, <1>3, PriorityAssumption DEF Prio
<1> QED BY <1>1, <1>4 DEF PickHighestReady

\* The current task leads exactly when it is the first of its list, and that is the
\* highest one.
LEMMA LeadsTop ==
  ASSUME NEW s, NEW H, KernelCore(s, H)
  PROVE  LET p == s.priority[s.current]
         IN  Leads(s) <=> Top(s, p) /\ s.current = Head(s.ready_list[p])
<1> DEFINE p == s.priority[s.current]
           m == Max(s.ready_map)
<1>1. ListsOK(s) /\ s \in Kernel /\ Idle \in Queued(s) /\ ReadyListsOK(s)
  BY DEF KernelCore, ListsOK
<1>2. /\ s.ready_map \in SUBSET Prio /\ s.ready_list \in [Prio -> Seq(Threads)]
      /\ s.priority \in [Threads -> Prio] /\ s.current \in Threads
  BY <1>1 DEF Kernel
<1>3. ASSUME Leads(s) PROVE Top(s, p) /\ s.current = Head(s.ready_list[p])
  <2>1. s.ready_map # {}
    <3>1. Idle \in ToSet(s.ready_list[s.priority[Idle]]) /\ s.priority[Idle] \in Prio
      BY <1>1, <1>2 DEF Queued
    <3>2. s.ready_list[s.priority[Idle]] # <<>>
      BY <3>1 DEF ToSet
    <3> QED BY <1>1, <3>1, <3>2 DEF ReadyListsOK
  <2>2. m \in s.ready_map /\ \A q \in s.ready_map : m >= q
    BY <1>2, <2>1, MaxElement
  <2>3. s.current = Head(s.ready_list[m])
    BY <1>3, <2>1 DEF Leads, PickHighestReady
  <2> HIDE DEF m
  <2>4. m \in Prio /\ s.ready_list[m] \in Seq(Threads) /\ s.ready_list[m] # <<>>
    BY <1>1, <1>2, <2>2 DEF ReadyListsOK
  <2>5. s.current \in ToSet(s.ready_list[m])
    BY <2>3, <2>4, HeadDistinct
  <2>6. p = m
    BY <1>1, <2>4, <2>5 DEF ReadyListsOK
  <2>7. \A q \in Prio : q > m => s.ready_list[q] = <<>>
    BY <1>1, <2>2, <2>4, PriorityAssumption DEF ReadyListsOK, Prio
  <2> QED BY <2>3, <2>4, <2>6, <2>7 DEF Top
<1>4. ASSUME Top(s, p), s.current = Head(s.ready_list[p]) PROVE Leads(s)
  BY <1>1, <1>4, PickTop DEF Leads
<1> QED BY <1>3, <1>4

\* It is decided by the ready queues alone.
LEMMA LeadsSame ==
  ASSUME NEW s, NEW r, r.ready_list = s.ready_list, r.ready_map = s.ready_map,
         r.current = s.current
  PROVE  Leads(r) <=> Leads(s)
BY SMTT(40) DEF Leads, PickHighestReady

\* A task of no higher priority that becomes ready changes nothing ...
LEMMA LeadsAppend ==
  ASSUME NEW s, NEW H, KernelCore(s, H), NEW r, NEW G, KernelCore(r, G),
         NEW t \in Threads, NEW p, p = s.priority[t],
         r.ready_list = With(s.ready_list, p, Append(s.ready_list[p], t)),
         r.priority = s.priority, r.current = s.current,
         ~(p > s.priority[s.current]), Leads(s)
  PROVE  Leads(r)
<1> DEFINE c == s.priority[s.current]
<1>1. /\ s.ready_list \in [Prio -> Seq(Threads)] /\ s.priority \in [Threads -> Prio]
      /\ s.current \in Threads
  <2>1. s \in Kernel
    BY CoreFacts
  <2> QED BY <2>1 DEF Kernel
<1>2. p \in Prio /\ c \in Prio /\ Top(s, c) /\ s.current = Head(s.ready_list[c])
  BY <1>1, LeadsTop
<1>3. /\ r.ready_list[p] = Append(s.ready_list[p], t)
      /\ \A q \in Prio \ {p} : r.ready_list[q] = s.ready_list[q]
  BY <1>1, <1>2 DEF With
<1>4. r.ready_list[c] # <<>> /\ Head(r.ready_list[c]) = Head(s.ready_list[c])
  <2>1. s.ready_list[c] \in Seq(Threads) /\ s.ready_list[c] # <<>>
    BY <1>1, <1>2 DEF Top
  <2>2. /\ Append(s.ready_list[c], t) # <<>>
        /\ Head(Append(s.ready_list[c], t)) = Head(s.ready_list[c])
    BY SMTT(40), <2>1, AppendHead
  <2> HIDE DEF c
  <2>3. CASE c = p
    <3>1. r.ready_list[c] = Append(s.ready_list[c], t)
      BY Zenon, <1>3, <2>3
    <3> QED BY Zenon, <2>2, <3>1
  <2>4. CASE c # p
    BY Zenon, <1>2, <1>3, <2>1, <2>4
  <2> QED BY <2>3, <2>4
<1>5. \A q \in Prio : q > c => q # p
  BY SMTT(40), <1>2, PriorityAssumption DEF Prio
<1>6. Top(r, c)
  BY ZenonT(60), <1>2, <1>3, <1>4, <1>5 DEF Top
<1> QED BY <1>2, <1>4, <1>6, LeadsTop

\* ... and neither does another task that leaves.
Falls(s, r, t) ==
  /\ r.priority = s.priority /\ r.current = s.current
  /\ \A q \in Prio : r.ready_list[q] \in {s.ready_list[q], Unlink(s.ready_list[q], t)}

LEMMA LeadsFalls ==
  ASSUME NEW s, NEW H, KernelCore(s, H), NEW r, NEW G, KernelCore(r, G),
         NEW t, t # s.current, Falls(s, r, t), Leads(s)
  PROVE  Leads(r)
<1> DEFINE c == s.priority[s.current]
<1>1. /\ s.ready_list \in [Prio -> Seq(Threads)] /\ s.priority \in [Threads -> Prio]
      /\ s.current \in Threads /\ ReadyListsOK(s)
  <2>1. s \in Kernel /\ ListsOK(s)
    BY CoreFacts
  <2> QED BY <2>1 DEF Kernel, ListsOK
<1>2. c \in Prio /\ Top(s, c) /\ s.current = Head(s.ready_list[c])
  BY <1>1, LeadsTop
<1>3. r.ready_list[c] # <<>> /\ Head(r.ready_list[c]) = s.current
  <2>1. s.ready_list[c] \in Seq(Threads) /\ Distinct(s.ready_list[c]) /\ s.ready_list[c] # <<>>
    BY <1>1, <1>2 DEF ReadyListsOK, Top
  <2>2. /\ Unlink(s.ready_list[c], t) # <<>>
        /\ Head(Unlink(s.ready_list[c], t)) = Head(s.ready_list[c])
    BY <1>2, <2>1, UnlinkHead
  <2> QED BY <1>2, <2>1, <2>2 DEF Falls
<1>4. \A q \in Prio : q > c => r.ready_list[q] = <<>>
  <2>1. t \notin ToSet(<<>>) /\ <<>> \in Seq(Threads)
    BY DEF ToSet
  <2>2. Unlink(<<>>, t) = <<>>
    BY <2>1, UnlinkAbsent
  <2> QED BY <1>2, <2>2 DEF Top, Falls
<1>5. Top(r, c)
  BY <1>2, <1>3, <1>4 DEF Top
<1> QED BY <1>2, <1>3, <1>5, LeadsTop DEF Falls

\* A task that is deactivated leaves its ready list, if it was on one.
LEMMA DeactivateFalls ==
  ASSUME NEW s, NEW H, KernelCore(s, H), NEW t \in H
  PROVE  Falls(s, Deactivate(s, t), t)
<1>1. t \in Threads /\ ListsOK(s) /\ s \in Kernel /\ ReadyListsOK(s)
  BY CoreFacts DEF ListsOK
<1>2. CASE s.state[t] \in OnReadyList
  <2>1. Deactivate(s, t) = TaskUnready(s, t)
    BY <1>2 DEF Deactivate, OnReadyList
  <2>2. /\ TaskUnready(s, t).priority = s.priority /\ SameRest(s, TaskUnready(s, t))
        /\ TaskUnready(s, t).ready_list = [q \in Prio |-> Unlink(s.ready_list[q], t)]
    BY <1>1, TaskUnreadyFields
  <2> QED BY <2>1, <2>2 DEF Falls, SameRest
<1>3. CASE s.state[t] = "BLOCKED"
  <2>1. Deactivate(s, t) = Unblock(s, t)
    BY <1>3 DEF Deactivate, OnReadyList
  <2>2. SameQueued(s, Unblock(s, t)) /\ Unblock(s, t).current = s.current
    BY <1>1, UnblockEffect DEF Effect, SameRest
  <2> QED BY <2>1, <2>2 DEF Falls, SameQueued
<1>4. CASE s.state[t] \notin OnReadyList /\ s.state[t] # "BLOCKED"
  BY <1>4 DEF Deactivate, Falls
<1> QED BY <1>2, <1>3, <1>4

LEMMA SuspendFalls ==
  ASSUME NEW s, NEW H, KernelCore(s, H), NEW t \in H
  PROVE  Falls(s, Suspend(s, t), t) /\ SameObjects(s, Suspend(s, t))
<1>1. Falls(s, Deactivate(s, t), t)
  BY DeactivateFalls
<1>2. SameObjects(s, Deactivate(s, t))
  BY DeactivateEffect DEF Effect
<1> DEFINE d == Deactivate(s, t)
<1>3. \/ Suspend(s, t) = s
      \/ Suspend(s, t) = [d EXCEPT !.state[t] = "SUSPENDED"]
  BY DEF Suspend
<1>4. CASE Suspend(s, t) = s
  BY <1>4 DEF Falls, SameObjects
<1>5. CASE Suspend(s, t) = [d EXCEPT !.state[t] = "SUSPENDED"]
  <2>1. d \in Kernel
    BY DeactivateEffect DEF Effect, ListsOK
  <2> HIDE DEF d
  <2>2. /\ Suspend(s, t).priority = d.priority /\ Suspend(s, t).current = d.current
        /\ Suspend(s, t).ready_list = d.ready_list
        /\ SameObjects(d, Suspend(s, t))
    BY <1>5, <2>1 DEF Kernel, SameObjects
  <2> QED BY <1>1, <1>2, <2>2 DEF Falls, SameObjects, d
<1> QED BY <1>3, <1>4, <1>5

-----------------------------------------------------------------------------
\* No switch is missed

\* The task just created, or just woken, has a higher priority than the current one.
Outranked == k.priority[arg[k.current]] > k.priority[k.current]

SwitchInv ==
  isr = "none" /\ ~k.pend_sv /\ ~Leads(k) =>
    \/ pc[k.current] \in {"sched", "pend"}
    \/ pc[k.current] \in {"created", "woken"} /\ Outranked
    \/ k.sched_lock > 0 /\ k.need_resched

\* Without the calls of mutex.h no task holds a mutex.
NoneHeld(s) == \A t \in Threads : s.held_queue[t] = NoQueue

\* A call that ends in rtos_sched.
LEMMA SwitchAsked ==
  ASSUME IInv, NEW c \in Tasks, k.current = c, k'.current = c,
         NEW l \in {"sched", "pend"}, pc' = [pc EXCEPT ![c] = l]
  PROVE  SwitchInv'
<1>1. pc \in [Threads -> AllLabels] /\ c \in Threads
  BY TypeFacts
<1>2. pc'[c] = l
  BY <1>1
<1> QED BY <1>2 DEF SwitchInv

\* A call after which the current task still leads, if it did.
LEMMA SwitchKept ==
  ASSUME SwitchInv, NEW c \in Threads, NEW l \in Running \ {"created", "woken"}, At(c, l),
         k'.current = k.current, Leads(k) => Leads(k'),
         (k'.sched_lock > 0 /\ k'.need_resched) \/ ~(k.sched_lock > 0 /\ k.need_resched)
  PROVE  SwitchInv'
<1>1. pc[k.current] \notin {"sched", "pend", "created", "woken"} /\ isr = "none" /\ ~k.pend_sv
  BY DEF At, Running
<1> QED BY <1>1 DEF SwitchInv

LEMMA SwitchHandler ==
  ASSUME IInv, SwitchInv, Handler
  PROVE  SwitchInv'
<1>1. KernelInv(k, handles) /\ k \in Kernel /\ k.current \in Threads
  BY TypeFacts
<1>2. CASE PendSV
  <2>1. k' = SwitchContext(k)
    BY <1>2 DEF PendSV
  <2>2. SwitchContext(k).current = PickHighestReady(k) /\ SameLists(k, SwitchContext(k))
    BY <1>1, SwitchContextInv
  <2>3. k'.ready_list = k.ready_list /\ k'.ready_map = k.ready_map
    BY <2>1, <2>2 DEF SameLists, SameQueued
  <2>4. PickHighestReady(k') = PickHighestReady(k)
    BY <2>3 DEF PickHighestReady
  <2> QED BY <2>1, <2>2, <2>4 DEF Leads, SwitchInv
<1>3. CASE SysTick
  BY <1>3 DEF SysTick, SwitchInv
<1>4. CASE SysTickWake
  BY <1>4 DEF SysTickWake, SwitchInv
<1>5. CASE SysTickEnd
  <2>1. k' = TickEnd(k)
    BY <1>5 DEF SysTickEnd
  <2>2. LET r == TickEnd(k)
        IN  /\ SliceOnly(k, r)
            /\ IF k.sched_lock > 0 THEN r.pend_sv = k.pend_sv /\ r.need_resched ELSE r.pend_sv
    BY <1>1, TickEndInv
  <2>3. k'.sched_lock = k.sched_lock
    BY <2>1, <2>2 DEF SliceOnly, SameBase
  <2> QED BY <2>1, <2>2, <2>3 DEF SwitchInv
<1> QED BY <1>2, <1>3, <1>4, <1>5 DEF Handler

\* rtos_sched requests the switch, or leaves need_resched for the end of the lock.
LEMMA SwitchSched ==
  ASSUME IInv, SwitchInv, NEW c \in Tasks, RtosSched(c) \/ RtosRequestSwitch(c)
  PROVE  SwitchInv'
<1>1. k \in Kernel /\ pc \in [Threads -> AllLabels] /\ c \in Threads
  BY TypeFacts
<1>2. CASE RtosSched(c)
  <2>1. /\ c = k.current /\ k' = SchedCheck(k)
        /\ pc' = [pc EXCEPT ![c] = IF k.sched_lock > 0 THEN ret[c] ELSE "pend"]
    BY <1>2 DEF RtosSched, GoTo, At
  <2>2. /\ k'.current = c /\ k'.sched_lock = k.sched_lock
        /\ k'.need_resched = (k.sched_lock > 0)
    BY <1>1, <2>1 DEF SchedCheck, Kernel
  <2>3. CASE k.sched_lock > 0
    BY <2>2, <2>3 DEF SwitchInv
  <2>4. CASE ~(k.sched_lock > 0)
    <3>1. pc' = [pc EXCEPT ![c] = "pend"]
      BY <2>1, <2>4
    <3> QED BY <2>1, <2>2, <3>1, SwitchAsked
  <2> QED BY <2>3, <2>4
<1>3. CASE RtosRequestSwitch(c)
  <2>1. k' = [k EXCEPT !.pend_sv = TRUE]
    BY <1>3 DEF RtosRequestSwitch, RequestSwitch
  <2>2. k'.pend_sv
    BY <1>1, <2>1 DEF Kernel
  <2> QED BY <2>2 DEF SwitchInv
<1> QED BY <1>2, <1>3

\* The calls that always end in rtos_sched.
LEMMA CallsAsk ==
  ASSUME IInv, NEW c \in Tasks,
         \/ TaskYield(c) \/ TaskDelay(c) \/ TaskDelayUntilSleep(c) \/ TaskAbortDelay(c)
         \/ TaskSetPriority(c) \/ TaskDeleteSelf(c)
  PROVE  k.current = c /\ k'.current = c /\ pc' = [pc EXCEPT ![c] = "sched"]
<1>1. c = k.current /\ KernelInv(k, handles) /\ k \in Kernel
  BY TypeFacts DEF TaskYield, TaskDelay, TaskDelayUntilSleep, TaskAbortDelay, TaskSetPriority,
                   TaskDeleteSelf, Calling, At
<1>2. pc' = [pc EXCEPT ![c] = "sched"]
  BY DEF TaskYield, TaskDelay, TaskDelayUntilSleep, TaskAbortDelay, TaskSetPriority,
         TaskDeleteSelf, CallSched
<1>3. c \in handles /\ k.state \in [Threads -> TaskState]
  <2>1. At(c, "run") \/ At(c, "until")
    BY DEF TaskYield, TaskDelay, TaskDelayUntilSleep, TaskAbortDelay, TaskSetPriority,
           TaskDeleteSelf, Calling
  <2> QED BY <1>1, <2>1, CallerLives DEF Running, Kernel
<1>4. k'.current = k.current
  <2>1. CASE TaskYield(c)
    <3>1. k' = Yield(k)
      BY <2>1 DEF TaskYield
    <3> QED BY <1>1, <3>1 DEF Yield, RotateToTail, Kernel
  <2>2. CASE TaskDelay(c)
    <3>1. PICK n \in DelayTicks \ {0} : k' = Delay(k, n)
      BY <2>2 DEF TaskDelay
    <3>2. n \in Nat
      BY CallAssumption
    <3> QED BY <1>1, <1>3, <3>1, <3>2, DelayInv DEF SameRest
  <2>3. CASE TaskDelayUntilSleep(c)
    <3>1. k' = Delay(k, arg[c]) /\ arg[c] \in Nat
      BY <2>3 DEF TaskDelayUntilSleep, At, IInv, ThreadInv, LocalsInv
    <3> QED BY <1>1, <1>3, <3>1, DelayInv DEF SameRest
  <2>4. CASE TaskAbortDelay(c)
    <3>1. PICK t \in handles : k.state[t] = "BLOCKED" /\ k' = AbortDelay(k, t)
      BY <2>4 DEF TaskAbortDelay
    <3> QED BY <1>1, <3>1, AbortDelayInv DEF SameRest
  <2>5. CASE TaskSetPriority(c)
    <3>1. PICK t \in handles, p \in SetPrios : k' = SetPriority(k, t, p)
      BY <2>5 DEF TaskSetPriority
    <3>2. p \in Prio
      BY CallAssumption
    <3> QED BY <1>1, <3>1, <3>2, SetPriorityInv DEF SameRest
  <2>6. CASE TaskDeleteSelf(c)
    <3>1. k' = DeleteSelf(k)
      BY <2>6 DEF TaskDeleteSelf
    <3> QED BY <1>1, <1>3, <3>1, DeleteSelfInv
  <2> QED BY <2>1, <2>2, <2>3, <2>4, <2>5, <2>6
<1> QED BY <1>1, <1>2, <1>4

LEMMA SwitchCalls ==
  ASSUME IInv, NEW c \in Tasks,
         \/ TaskYield(c) \/ TaskDelay(c) \/ TaskDelayUntilSleep(c) \/ TaskAbortDelay(c)
         \/ TaskSetPriority(c) \/ TaskDeleteSelf(c)
  PROVE  SwitchInv'
BY CallsAsk, SwitchAsked

\* A task that is not on the ready queues stays away from them.
LEMMA SwitchSuspend ==
  ASSUME IInv, IInv', SwitchInv, NEW c \in Tasks, TaskSuspend(c)
  PROVE  SwitchInv'
<1>1. At(c, "run")
  BY DEF TaskSuspend, Calling
<1>2. KernelCore(k, handles) /\ KernelInv(k, handles) /\ c \in Threads /\ c = k.current
  BY <1>1, TypeFacts, CallerLives DEF Running
<1>3. PICK t \in handles : /\ k' = Suspend(k, t)
                           /\ SchedIf(c, t = c /\ k.state[t] \in OnReadyList)
  BY DEF TaskSuspend
<1>4. SameRest(k, k') /\ Falls(k, k', t) /\ KernelCore(k', handles')
  BY <1>2, <1>3, SuspendInv, SuspendFalls DEF IInv, KernelInv
<1>5. k'.current = k.current /\ k'.sched_lock = k.sched_lock /\ k'.need_resched = k.need_resched
  BY <1>4 DEF SameRest
<1>6. CASE t = c /\ k.state[t] \in OnReadyList
  <2>1. pc' = [pc EXCEPT ![c] = "sched"]
    BY <1>3, <1>6 DEF SchedIf, CallSched
  <2> QED BY <1>2, <1>5, <2>1, SwitchAsked
<1>7. CASE t = c /\ k.state[t] \notin OnReadyList
  <2>1. ~Leads(k)
    BY <1>2, <1>7, PickQueued DEF Leads, KernelCore
  <2> QED BY <1>1, <1>2, <1>5, <2>1, SwitchKept DEF Running
<1>8. CASE t # c
  <2>1. Leads(k) => Leads(k')
    BY <1>2, <1>4, <1>8, LeadsFalls
  <2> QED BY <1>1, <1>2, <1>5, <2>1, SwitchKept DEF Running
<1> QED BY <1>6, <1>7, <1>8

LEMMA SwitchResume ==
  ASSUME IInv, IInv', SwitchInv, NEW c \in Tasks, TaskResume(c)
  PROVE  SwitchInv'
<1>1. At(c, "run")
  BY DEF TaskResume, Calling
<1>2. KernelCore(k, handles) /\ k \in Kernel /\ c \in Threads /\ c = k.current
  BY <1>1, TypeFacts, CallerLives DEF Running
<1>3. PICK t \in handles : /\ k' = TaskReady(k, t)
                           /\ SchedIf(c, k.priority[t] > k.priority[c])
  BY DEF TaskResume
<1>4. t \in Threads /\ KernelCore(k', handles')
  BY <1>3, TypeFacts DEF IInv, KernelInv
<1>5. /\ k'.current = k.current /\ k'.sched_lock = k.sched_lock
      /\ k'.need_resched = k.need_resched /\ k'.priority = k.priority
      /\ k'.ready_list = With(k.ready_list, k.priority[t], Append(k.ready_list[k.priority[t]], t))
  <2>1. /\ SameRest(k, TaskReady(k, t)) /\ TaskReady(k, t).priority = k.priority
        /\ TaskReady(k, t).ready_list = [k.ready_list EXCEPT ![k.priority[t]] = Append(@, t)]
    BY <1>2, <1>4, TaskReadyFields
  <2> QED BY <1>3, <2>1 DEF SameRest, With
<1>6. CASE k.priority[t] > k.priority[c]
  <2>1. pc' = [pc EXCEPT ![c] = "sched"]
    BY <1>3, <1>6 DEF SchedIf, CallSched
  <2> QED BY <1>2, <1>5, <2>1, SwitchAsked
<1>7. CASE ~(k.priority[t] > k.priority[c])
  <2>1. Leads(k) => Leads(k')
    BY <1>2, <1>4, <1>5, <1>7, LeadsAppend
  <2> QED BY <1>1, <1>2, <1>5, <2>1, SwitchKept DEF Running
<1> QED BY <1>6, <1>7

\* A task that holds no mutex and is deleted only leaves its lists.
LEMMA TerminateUnheld ==
  ASSUME NEW s, NEW H, KernelCore(s, H), NEW t \in H, s.held_queue[t] = NoQueue
  PROVE  Terminate(s, t) = [Deactivate(s, t) EXCEPT !.state[t] = "DELETED"]
<1> DEFINE d == [Deactivate(s, t) EXCEPT !.state[t] = "DELETED"]
<1>1. d.held_queue = s.held_queue
  <2>1. "DELETED" \in TaskState
    BY DEF TaskState
  <2>2. Effect(s, d, Queued(s) \ {t}, Delayed(s) \ {t}, Waiting(s) \ {t},
               [s.state EXCEPT ![t] = "DELETED"])
    BY <2>1, DeactivateStateEffect
  <2> HIDE DEF d
  <2> QED BY <2>2 DEF Effect, SameObjects
<1> HIDE DEF d
<1>2. ReleaseHeld(d, t) = d
  BY <1>1 DEF ReleaseHeld
<1> QED BY <1>2 DEF Terminate, d

LEMMA SwitchDelete ==
  ASSUME IInv, IInv', NoneHeld(k), SwitchInv, NEW c \in Tasks, TaskDeleteOther(c)
  PROVE  SwitchInv'
<1>1. At(c, "run")
  BY DEF TaskDeleteOther, Calling
<1>2. KernelCore(k, handles) /\ KernelInv(k, handles) /\ c \in Threads /\ c = k.current
  BY <1>1, TypeFacts, CallerLives DEF Running
<1>3. PICK t \in handles \ {c} : k' = DeleteOther(k, t)
  BY DEF TaskDeleteOther
<1>4. t \in Threads /\ t \in handles /\ t # k.current
  BY <1>2, <1>3, TypeFacts
<1> DEFINE d == Deactivate(k, t)
<1>5. SameRest(k, d)
  BY <1>2, <1>4, DeactivateEffect DEF Effect
<1>6. Falls(k, d, t) /\ d \in Kernel
  BY <1>2, <1>4, DeactivateFalls, DeactivateEffect DEF Effect, ListsOK
<1>7. k' = [[d EXCEPT !.state[t] = "DELETED"] EXCEPT !.used = @ \ {t}]
  BY <1>2, <1>3, <1>4, TerminateUnheld DEF DeleteOther, NoneHeld
<1> HIDE DEF d
<1>8. /\ k'.priority = d.priority /\ k'.current = d.current /\ k'.ready_list = d.ready_list
      /\ k'.sched_lock = d.sched_lock /\ k'.need_resched = d.need_resched
  BY <1>6, <1>7 DEF Kernel
<1>9. Falls(k, k', t) /\ KernelCore(k', handles')
  BY <1>6, <1>8 DEF Falls, IInv, KernelInv
<1>10. Leads(k) => Leads(k')
  BY <1>2, <1>4, <1>9, LeadsFalls
<1> QED BY <1>1, <1>2, <1>5, <1>8, <1>10, SwitchKept DEF Running, SameRest

\* rtos_sched_unlock of the last level asks for the switch that need_resched remembers.
LEMMA SwitchLock ==
  ASSUME IInv, SwitchInv, NEW c \in Tasks, RtosSchedLock(c) \/ RtosSchedUnlock(c)
  PROVE  SwitchInv'
<1>1. At(c, "run")
  BY DEF RtosSchedLock, RtosSchedUnlock, Calling
<1>2. k \in Kernel /\ c \in Threads /\ c = k.current /\ k.sched_lock \in Nat
  BY <1>1, TypeFacts, CallerLives DEF Running
<1>3. CASE RtosSchedLock(c)
  <2>1. k' = [k EXCEPT !.sched_lock = @ + 1]
    BY <1>3 DEF RtosSchedLock
  <2>2. /\ k'.ready_list = k.ready_list /\ k'.ready_map = k.ready_map /\ k'.current = k.current
        /\ k'.sched_lock = k.sched_lock + 1 /\ k'.need_resched = k.need_resched
    BY <1>2, <2>1 DEF Kernel
  <2> QED BY <1>1, <1>2, <2>2, LeadsSame, SwitchKept DEF Running
<1>4. CASE RtosSchedUnlock(c) /\ k.sched_lock = 1 /\ k.need_resched
  <2>1. k' = [k EXCEPT !.sched_lock = 0, !.need_resched = FALSE]
    BY <1>4 DEF RtosSchedUnlock, SchedUnlock
  <2>2. pc' = [pc EXCEPT ![c] = "sched"] /\ k'.current = c
    BY <1>2, <1>4, <2>1 DEF RtosSchedUnlock, SchedIf, CallSched, Kernel
  <2> QED BY <1>2, <2>2, SwitchAsked
<1>5. CASE RtosSchedUnlock(c) /\ ~(k.sched_lock = 1 /\ k.need_resched)
  <2>1. k' = [k EXCEPT !.sched_lock = @ - 1] /\ k.sched_lock > 0
    BY <1>5 DEF RtosSchedUnlock, SchedUnlock
  <2>2. /\ k'.ready_list = k.ready_list /\ k'.ready_map = k.ready_map /\ k'.current = k.current
        /\ k'.sched_lock = k.sched_lock - 1 /\ k'.need_resched = k.need_resched
    BY <1>2, <2>1 DEF Kernel
  <2>3. (k'.sched_lock > 0 /\ k'.need_resched) \/ ~(k.sched_lock > 0 /\ k.need_resched)
    <3>1. k.sched_lock \in Nat /\ (k.sched_lock = 1 => ~k.need_resched) /\ k.sched_lock > 0
      BY <1>2, <1>5, <2>1
    <3>2. CASE k.sched_lock = 1
      BY <3>1, <3>2
    <3>3. CASE k.sched_lock # 1
      <4>1. k.sched_lock - 1 > 0
        BY <3>1, <3>3
      <4> QED BY <2>2, <4>1
    <3> QED BY <3>2, <3>3
  <2>4. Leads(k) => Leads(k')
    BY <2>2, LeadsSame
  <2> QED BY <1>1, <1>2, <2>2, <2>3, <2>4, SwitchKept DEF Running
<1> QED BY <1>3, <1>4, <1>5

LEMMA SwitchUntil ==
  ASSUME IInv, SwitchInv, NEW c \in Tasks, TaskDelayUntil(c)
  PROVE  SwitchInv'
<1>1. At(c, "run") /\ k' = k
  BY DEF TaskDelayUntil, Calling
<1>2. c \in Threads
  BY TypeFacts
<1> QED BY <1>1, <1>2, SwitchKept DEF Running

LEMMA SwitchCreate ==
  ASSUME IInv, SwitchInv, NEW c \in Tasks, TaskCreate(c)
  PROVE  SwitchInv'
<1>1. At(c, "run") /\ KernelInv(k, handles) /\ c \in Threads
  BY TypeFacts DEF TaskCreate, Calling
<1>2. PICK t \in Tasks \ k.used, p \in CreatePrios : k' = TcbAlloc(k, t, p)
  BY DEF TaskCreate
<1>3. t \in Tasks /\ t \notin k.used /\ p \in Prio
  BY <1>2, CallAssumption
<1>4. /\ k'.ready_list = k.ready_list /\ k'.ready_map = k.ready_map /\ k'.current = k.current
      /\ k'.sched_lock = k.sched_lock /\ k'.need_resched = k.need_resched
  BY <1>1, <1>2, <1>3, TcbAllocInv
<1>5. Leads(k) => Leads(k')
  BY <1>4, LeadsSame
<1> QED BY <1>1, <1>4, <1>5, SwitchKept DEF Running

\* rtos_task_create makes the task ready in one critical section and compares the
\* priorities in the next.
LEMMA SwitchCreateReady ==
  ASSUME IInv, IInv', SwitchInv, NEW c \in Tasks, TaskCreateReady(c)
  PROVE  SwitchInv'
<1>1. At(c, "create")
  BY DEF TaskCreateReady
<1>2. /\ KernelCore(k, handles) /\ k \in Kernel /\ c \in Threads /\ c = k.current
      /\ pc \in [Threads -> AllLabels]
  BY <1>1, TypeFacts, CallerLives DEF Running
<1> DEFINE t == arg[c]
<1>3. t \in Threads /\ KernelCore(k', handles')
  BY <1>1, TypeFacts DEF IInv, KernelInv, ThreadInv, SlotsInv, At
<1>4. /\ k'.current = k.current /\ k'.sched_lock = k.sched_lock
      /\ k'.need_resched = k.need_resched /\ k'.priority = k.priority
      /\ k'.ready_list = With(k.ready_list, k.priority[t], Append(k.ready_list[k.priority[t]], t))
  <2>1. /\ SameRest(k, TaskReady(k, t)) /\ TaskReady(k, t).priority = k.priority
        /\ TaskReady(k, t).ready_list = [k.ready_list EXCEPT ![k.priority[t]] = Append(@, t)]
    BY <1>2, <1>3, TaskReadyFields
  <2>2. k' = TaskReady(k, t)
    BY DEF TaskCreateReady
  <2> QED BY <2>1, <2>2 DEF SameRest, With
<1>5. pc'[c] = "created" /\ arg' = arg
  BY <1>2 DEF TaskCreateReady, GoTo
<1>6. CASE k.priority[t] > k.priority[c]
  BY <1>2, <1>4, <1>5, <1>6 DEF SwitchInv, Outranked
<1>7. CASE ~(k.priority[t] > k.priority[c])
  <2>1. Leads(k) => Leads(k')
    BY <1>2, <1>3, <1>4, <1>7, LeadsAppend
  <2> QED BY <1>1, <1>2, <1>4, <2>1, SwitchKept DEF Running
<1> QED BY <1>6, <1>7

LEMMA SwitchReturn ==
  ASSUME IInv, SwitchInv, NEW c \in Tasks, NEW a \in {"created", "woken"}, At(c, a), k' = k,
         pc' = [pc EXCEPT ![c] = IF k.priority[arg[c]] > k.priority[c] THEN "sched" ELSE "run"]
  PROVE  SwitchInv'
<1>1. pc \in [Threads -> AllLabels] /\ c \in Threads /\ c = k.current
  BY TypeFacts DEF At
<1>2. CASE Outranked
  <2>1. pc' = [pc EXCEPT ![c] = "sched"]
    BY <1>1, <1>2 DEF Outranked
  <2> QED BY <1>1, <2>1, SwitchAsked
<1>3. CASE ~Outranked
  BY <1>1, <1>3 DEF SwitchInv, At
<1> QED BY <1>2, <1>3

LEMMA SwitchIdle ==
  ASSUME IInv, SwitchInv, IdleThread
  PROVE  SwitchInv'
<1>1. k \in Kernel /\ Idle \in Threads
  BY TypeFacts
<1>2. At(Idle, "run") \/ At(Idle, "free")
  BY DEF IdleThread, IdleReclaim, IdleFree
<1>3. /\ k'.ready_list = k.ready_list /\ k'.ready_map = k.ready_map /\ k'.current = k.current
      /\ k'.sched_lock = k.sched_lock /\ k'.need_resched = k.need_resched
  BY <1>1 DEF IdleThread, IdleReclaim, IdleFree, Kernel
<1>4. Leads(k) => Leads(k')
  BY <1>3, LeadsSame
<1>5. k.current = Idle /\ isr = "none" /\ ~k.pend_sv /\ pc[Idle] \in {"run", "free"}
  BY <1>2 DEF At
<1> QED BY <1>3, <1>4, <1>5 DEF SwitchInv

LEMMA SwitchStep ==
  ASSUME IInv, IInv', YieldsReady, NoneHeld(k), SwitchInv, [Next]_vars
  PROVE  SwitchInv'
<1>1. CASE Handler
  BY <1>1, SwitchHandler
<1>2. CASE IdleThread
  BY <1>2, SwitchIdle
<1>3. ASSUME NEW c \in Tasks, Thread(c) PROVE SwitchInv'
  <2>1. CASE RtosSched(c) \/ RtosRequestSwitch(c)
    BY <2>1, SwitchSched
  <2>2. CASE \/ TaskYield(c) \/ TaskDelay(c) \/ TaskDelayUntilSleep(c) \/ TaskAbortDelay(c)
             \/ TaskSetPriority(c) \/ TaskDeleteSelf(c)
    BY <2>2, SwitchCalls
  <2>3. CASE TaskDelayUntil(c)
    BY <2>3, SwitchUntil
  <2>4. CASE TaskSuspend(c)
    BY <2>4, SwitchSuspend
  <2>5. CASE TaskResume(c)
    BY <2>5, SwitchResume
  <2>6. CASE TaskDeleteOther(c)
    BY <2>6, SwitchDelete
  <2>7. CASE RtosSchedLock(c) \/ RtosSchedUnlock(c)
    BY <2>7, SwitchLock
  <2>8. CASE TaskCreate(c)
    BY <2>8, SwitchCreate
  <2>9. CASE TaskCreateReady(c)
    BY <2>9, SwitchCreateReady
  <2>10. CASE TaskCreateReturn(c)
    BY <2>10, SwitchReturn DEF TaskCreateReturn
  <2> QED BY <1>3, <2>1, <2>2, <2>3, <2>4, <2>5, <2>6, <2>7, <2>8, <2>9, <2>10 DEF Thread
<1>4. CASE UNCHANGED vars
  BY <1>4 DEF vars, SwitchInv, Leads, PickHighestReady, Outranked
<1> QED BY <1>1, <1>2, <1>3, <1>4 DEF Next

\* The calls of task.h give no mutex to anybody.
LEMMA HeldAside ==
  ASSUME IInv, NoneHeld(k),
         k'.held_queue = k.held_queue
         \/ \E t \in Threads : k'.held_queue = With(k.held_queue, t, NoQueue)
  PROVE  NoneHeld(k')
<1>1. k.held_queue \in [Threads -> Queues \cup {NoQueue}]
  BY TypeFacts DEF Kernel
<1> QED BY <1>1 DEF NoneHeld, With

LEMMA HeldHandler ==
  ASSUME IInv, Handler
  PROVE  SameObjects(k, k')
<1>1. KernelInv(k, handles)
  BY TypeFacts
<1>2. CASE PendSV
  BY <1>1, <1>2, SwitchContextInv DEF PendSV, SameObjects
<1>3. CASE SysTick
  BY <1>1, <1>3, TickBeginInv DEF SysTick, SameObjects
<1>4. CASE SysTickWake
  <2>1. k' = TickWake(k) /\ k.delay_list # <<>>
    BY <1>4 DEF SysTickWake, HeadExpired
  <2>2. SameObjects(k, TickWake(k))
    BY <1>1, <2>1, TickWakeInv
  <2> QED BY <2>1, <2>2 DEF SameObjects
<1>5. CASE SysTickEnd
  <2>1. k' = TickEnd(k)
    BY <1>5 DEF SysTickEnd
  <2>2. SliceOnly(k, TickEnd(k))
    BY <1>1, TickEndInv
  <2> QED BY <2>1, <2>2 DEF SliceOnly, SameObjects
<1> QED BY <1>2, <1>3, <1>4, <1>5 DEF Handler

\* The calls that leave the queue objects and the pool alone.
LEMMA HeldCalls ==
  ASSUME IInv, NEW c \in Tasks,
         \/ RtosSched(c) \/ RtosRequestSwitch(c) \/ TaskYield(c) \/ TaskDelay(c)
         \/ TaskDelayUntil(c) \/ TaskDelayUntilSleep(c) \/ TaskSuspend(c) \/ TaskResume(c)
         \/ TaskAbortDelay(c) \/ RtosSchedLock(c) \/ RtosSchedUnlock(c)
         \/ TaskCreateReady(c) \/ TaskCreateReturn(c)
  PROVE  SameObjects(k, k')
<1>1. KernelInv(k, handles) /\ KernelCore(k, handles) /\ k \in Kernel /\ k.current \in Threads
  BY TypeFacts
<1>2. CASE RtosSched(c) \/ RtosRequestSwitch(c) \/ RtosSchedLock(c) \/ RtosSchedUnlock(c)
  <2>1. CASE RtosSched(c)
    BY <1>1, <2>1 DEF RtosSched, SchedCheck, Kernel, SameObjects
  <2>2. CASE RtosRequestSwitch(c)
    BY <1>1, <2>2 DEF RtosRequestSwitch, RequestSwitch, Kernel, SameObjects
  <2>3. CASE RtosSchedLock(c)
    BY <1>1, <2>3 DEF RtosSchedLock, Kernel, SameObjects
  <2>4. CASE RtosSchedUnlock(c)
    <3>1. \/ k' = [k EXCEPT !.sched_lock = 0, !.need_resched = FALSE]
          \/ k' = [k EXCEPT !.sched_lock = @ - 1]
      BY <2>4 DEF RtosSchedUnlock, SchedUnlock
    <3> QED BY <1>1, <3>1 DEF Kernel, SameObjects
  <2> QED BY <1>2, <2>1, <2>2, <2>3, <2>4
<1>3. CASE TaskYield(c)
  <2>1. k' = Yield(k)
    BY <1>3 DEF TaskYield
  <2> QED BY <1>1, <2>1 DEF Yield, RotateToTail, Kernel, SameObjects
<1>4. CASE TaskDelay(c) \/ TaskDelayUntilSleep(c)
  <2>1. PICK n \in Nat : k' = Delay(k, n)
    BY <1>4, CallAssumption DEF TaskDelay, TaskDelayUntilSleep, At, IInv, ThreadInv, LocalsInv
  <2>2. At(c, "run") \/ At(c, "until")
    BY <1>4 DEF TaskDelay, TaskDelayUntilSleep, Calling
  <2>3. k.current \in handles
    BY <2>2, CallerLives DEF Running
  <2> QED BY <1>1, <2>1, <2>3, DelayInv DEF SameObjects
<1>5. CASE TaskDelayUntil(c) \/ TaskCreateReturn(c)
  BY <1>5 DEF TaskDelayUntil, TaskCreateReturn, SameObjects
<1>6. CASE TaskSuspend(c)
  BY <1>1, <1>6, SuspendFalls DEF TaskSuspend, SameObjects
<1>7. CASE TaskResume(c) \/ TaskCreateReady(c)
  <2>1. PICK t \in Threads : k' = TaskReady(k, t)
    <3>1. CASE TaskResume(c)
      BY <3>1, TypeFacts DEF TaskResume
    <3>2. CASE TaskCreateReady(c)
      <4>1. arg[c] \in Threads
        BY <3>2, TypeFacts DEF TaskCreateReady, At, IInv, ThreadInv, SlotsInv
      <4> QED BY <3>2, <4>1 DEF TaskCreateReady
    <3> QED BY <1>7, <3>1, <3>2
  <2> QED BY <1>1, <2>1, TaskReadyFields DEF SameObjects
<1>8. CASE TaskAbortDelay(c)
  <2>1. PICK t \in handles : k.state[t] = "BLOCKED" /\ k' = AbortDelay(k, t)
    BY <1>8 DEF TaskAbortDelay
  <2>2. MadeReady(k, AbortDelay(k, t), t)
    BY <1>1, <2>1, AbortDelayInv
  <2> QED BY <2>1, <2>2 DEF MadeReady, Effect, SameObjects
<1> QED BY <1>2, <1>3, <1>4, <1>5, <1>6, <1>7, <1>8

LEMMA SetPriorityHolders ==
  ASSUME NEW s, NEW H, KernelInv(s, H), NEW t \in H, NEW p \in Prio
  PROVE  SameHolders(s, SetPriority(s, t, p)) /\ SameWaits(s, SetPriority(s, t, p))
<1> DEFINE moved == IF s.state[t] \in OnReadyList
                    THEN TaskReady([TaskUnready(s, t) EXCEPT !.priority[t] = p], t)
                    ELSE [s EXCEPT !.priority[t] = p]
<1>1. KernelInv(moved, H) /\ SameObjects(s, moved) /\ SameWaits(s, moved)
  BY MovePriority
<1> DEFINE q == moved.held_queue[t]
           o == [moved.original_priority EXCEPT ![q] = p]
<1>2. \/ SetPriority(s, t, p) = moved
      \/ SetPriority(s, t, p) = [moved EXCEPT !.original_priority = o]
  BY DEF SetPriority
<1> HIDE DEF moved, o, q
<1>3. moved \in Kernel
  BY <1>1, CoreFacts DEF KernelInv
<1>4. CASE SetPriority(s, t, p) = moved
  BY <1>1, <1>4 DEF SameObjects, SameHolders
<1>5. CASE SetPriority(s, t, p) = [moved EXCEPT !.original_priority = o]
  BY <1>1, <1>3, <1>5 DEF SameObjects, SameHolders, SameWaits, SameEvents, Delayed, Kernel
<1> QED BY <1>2, <1>4, <1>5

LEMMA HeldSetPriority ==
  ASSUME IInv, NEW c \in Tasks, TaskSetPriority(c)
  PROVE  SameHolders(k, k') /\ SameWaits(k, k')
<1>1. PICK t \in handles, p \in SetPrios : k' = SetPriority(k, t, p)
  BY DEF TaskSetPriority
<1>2. p \in Prio /\ KernelInv(k, handles)
  BY CallAssumption, TypeFacts
<1> QED BY <1>1, <1>2, SetPriorityHolders

LEMMA HeldTerminate ==
  ASSUME IInv, NoneHeld(k), NEW t \in handles
  PROVE  /\ Terminate(k, t) \in Kernel /\ Terminate(k, t).held_queue = k.held_queue
         /\ Terminate(k, t).messages_waiting = k.messages_waiting
<1>1. KernelCore(k, handles) /\ t \in Threads
  BY TypeFacts
<1> DEFINE d == [Deactivate(k, t) EXCEPT !.state[t] = "DELETED"]
<1>2. Effect(k, d, Queued(k) \ {t}, Delayed(k) \ {t}, Waiting(k) \ {t},
             [k.state EXCEPT ![t] = "DELETED"])
  <2>1. "DELETED" \in TaskState
    BY DEF TaskState
  <2> QED BY <1>1, <2>1, DeactivateStateEffect
<1>3. Terminate(k, t) = d
  BY <1>1, TerminateUnheld DEF NoneHeld
<1> HIDE DEF d
<1> QED BY <1>2, <1>3 DEF Effect, SameObjects, ListsOK

LEMMA NoneHeldStep ==
  ASSUME IInv, YieldsReady, NoneHeld(k), [Next]_vars
  PROVE  NoneHeld(k') /\ k'.messages_waiting = k.messages_waiting
<1>1. k \in Kernel /\ KernelInv(k, handles)
  BY TypeFacts
<1>2. CASE Handler
  BY <1>2, HeldHandler, HeldAside DEF SameObjects
<1>3. CASE IdleThread
  BY <1>1, <1>3 DEF NoneHeld, IdleThread, IdleReclaim, IdleFree, Kernel
<1>4. ASSUME NEW c \in Tasks, Thread(c)
      PROVE  NoneHeld(k') /\ k'.messages_waiting = k.messages_waiting
  <2>1. CASE \/ RtosSched(c) \/ RtosRequestSwitch(c) \/ TaskYield(c) \/ TaskDelay(c)
             \/ TaskDelayUntil(c) \/ TaskDelayUntilSleep(c) \/ TaskSuspend(c) \/ TaskResume(c)
             \/ TaskAbortDelay(c) \/ RtosSchedLock(c) \/ RtosSchedUnlock(c)
             \/ TaskCreateReady(c) \/ TaskCreateReturn(c)
    BY <2>1, HeldCalls, HeldAside DEF SameObjects
  <2>2. CASE TaskSetPriority(c)
    BY <2>2, HeldSetPriority, HeldAside DEF SameHolders
  <2>3. CASE TaskDeleteOther(c)
    <3>1. PICK t \in handles : k' = DeleteOther(k, t)
      BY <2>3 DEF TaskDeleteOther
    <3> DEFINE d == Terminate(k, t)
    <3>2. /\ d \in Kernel /\ d.held_queue = k.held_queue
          /\ d.messages_waiting = k.messages_waiting
      BY HeldTerminate
    <3>3. k' = [d EXCEPT !.used = @ \ {t}]
      BY <3>1 DEF DeleteOther
    <3> HIDE DEF d
    <3>4. k'.held_queue = k.held_queue /\ k'.messages_waiting = k.messages_waiting
      BY <3>2, <3>3 DEF Kernel
    <3> QED BY <3>4, HeldAside
  <2>4. CASE TaskDeleteSelf(c)
    <3>1. k' = DeleteSelf(k) /\ c = k.current /\ At(c, "run")
      BY <2>4 DEF TaskDeleteSelf, Calling, At
    <3>2. c \in handles
      BY <3>1, CallerLives DEF Running
    <3> DEFINE d == Terminate(k, c)
               e == [d EXCEPT !.terminated_list = Append(@, c), !.sched_lock = 0]
    <3>3. /\ d \in Kernel /\ d.held_queue = k.held_queue
          /\ d.messages_waiting = k.messages_waiting
      BY <3>2, HeldTerminate
    <3>4. k' = IF k.sched_lock > 0 THEN RequestSwitch([e EXCEPT !.need_resched = FALSE])
                                   ELSE [e EXCEPT !.need_resched = TRUE]
      BY <3>1 DEF DeleteSelf
    <3> HIDE DEF d
    <3>5. /\ e.held_queue = d.held_queue /\ e.messages_waiting = d.messages_waiting
          /\ DOMAIN e = DOMAIN d
      BY <3>3 DEF Kernel
    <3>6. "held_queue" \in DOMAIN d /\ "messages_waiting" \in DOMAIN d
      BY <3>3 DEF Kernel
    <3> HIDE DEF e
    <3>7. k'.held_queue = k.held_queue /\ k'.messages_waiting = k.messages_waiting
      BY <3>3, <3>4, <3>5, <3>6 DEF RequestSwitch
    <3> QED BY <3>7, HeldAside
  <2>5. CASE TaskCreate(c)
    <3>1. PICK t \in Tasks \ k.used, p \in CreatePrios : k' = TcbAlloc(k, t, p)
      BY <2>5 DEF TaskCreate
    <3>2. t \in Tasks /\ t \notin k.used /\ p \in Prio /\ t \in Threads
      BY <3>1, CallAssumption, TypeFacts
    <3>3. /\ k'.held_queue = With(k.held_queue, t, NoQueue)
          /\ k'.messages_waiting = k.messages_waiting
      BY <1>1, <3>1, <3>2, TcbAllocInv
    <3> QED BY <3>2, <3>3, HeldAside
  <2> QED BY <1>4, <2>1, <2>2, <2>3, <2>4, <2>5 DEF Thread
<1>5. CASE UNCHANGED vars
  BY <1>5 DEF vars, NoneHeld
<1> QED BY <1>2, <1>3, <1>4, <1>5 DEF Next

\* The scheduler never goes on with a task that is not the first of the highest
\* priority unless a switch is pending, about to be requested or remembered: every
\* call, the tick and the end of the scheduler lock see to it.
THEOREM NoSwitchMissed == YieldsReady /\ Spec => []NoMissedSwitch
<1> SUFFICES ASSUME YieldsReady PROVE Spec => []NoMissedSwitch
  OBVIOUS
<1> DEFINE J == IInv /\ NoneHeld(k) /\ SwitchInv /\ OwnLabels
<1>1. Init => J
  <2> SUFFICES ASSUME Init PROVE J
    OBVIOUS
  <2>1. IInv
    BY InitInv DEF Init
  <2>2. NoneHeld(k)
    BY DEF Init, InitKernel, NoneHeld
  <2>3. SwitchInv
    BY InitKernelInv DEF Init, SwitchInv, Leads
  <2>4. OwnLabels
    BY DEF Init, InitThreads, OwnLabels, Labels
  <2> QED BY <2>1, <2>2, <2>3, <2>4
<1>2. J /\ [Next]_vars => J'
  <2> SUFFICES ASSUME J, [Next]_vars PROVE J'
    OBVIOUS
  <2>1. IInv'
    BY NextInv
  <2>2. NoneHeld(k)'
    BY NoneHeldStep DEF NoneHeld
  <2>3. SwitchInv'
    BY <2>1, SwitchStep
  <2>4. OwnLabels'
    BY OwnLabelsStep
  <2> QED BY <2>1, <2>2, <2>3, <2>4
<1>3. J => NoMissedSwitch
  <2> SUFFICES ASSUME J PROVE NoMissedSwitch
    OBVIOUS
  <2>1. k.current \in Threads
    BY TypeFacts
  <2>2. pc[k.current] # "woken"
    BY <2>1 DEF OwnLabels, Labels
  <2> QED BY <2>2 DEF SwitchInv, Leads, NoMissedSwitch
<1> QED BY <1>1, <1>2, <1>3, PTL DEF Spec

-----------------------------------------------------------------------------
\* The delay lists as timers

Half == TickMod \div 2

\* The tasks of Threads in the order they wake up in, within one turn of the counter.
Sooner(s) == {p \in Threads \X Threads : s.wake_tick[p[1]] <= s.wake_tick[p[2]]}

\* The wake-ups lie within half a turn, those of delay_list at least n ticks ahead, and
\* those of overflow_list behind the end of the turn.
Timed(s, n) ==
  /\ Ordered(s.delay_list, Sooner(s)) /\ Ordered(s.overflow_list, Sooner(s))
  /\ \A t \in ToSet(s.delay_list) : s.wake_tick[t] - s.tick_count \in n .. Half - 1
  /\ \A t \in ToSet(s.overflow_list) :
       s.wake_tick[t] + TickMod - s.tick_count \in 1 .. Half - 1

\* How many ticks each task still sleeps.
Left(s) == [t \in Threads |-> IF OnDelayList(s, t)
                              THEN (s.wake_tick[t] - s.tick_count) % TickMod
                              ELSE -1]

LEMMA HalfFacts ==
  /\ TickMod \in Nat /\ TickMod > 0 /\ Half \in Nat /\ Half >= 2 /\ TickMod = Half + Half
  /\ TickMod \in Nat \ {0}
BY TickAssumption DEF Half

LEMMA TickFacts ==
  ASSUME NEW s \in Kernel
  PROVE  /\ s.tick_count \in 0 .. TickMod - 1
         /\ \A t \in Threads : s.wake_tick[t] \in 0 .. TickMod - 1
         /\ s.delay_list \in Seq(Threads) /\ s.overflow_list \in Seq(Threads)
         /\ \A t \in ToSet(s.delay_list) \cup ToSet(s.overflow_list) : t \in Threads
<1>1. s.delay_list \in Seq(Threads) /\ s.overflow_list \in Seq(Threads)
  BY DEF Kernel
<1>2. ToSet(s.delay_list) \subseteq Threads /\ ToSet(s.overflow_list) \subseteq Threads
  BY <1>1, LenProperties DEF ToSet
<1> QED BY <1>1, <1>2 DEF Kernel, Ticks

LEMMA LeftTimed ==
  ASSUME NEW s \in Kernel, NEW n \in {0, 1}, Timed(s, n), NEW t \in Threads
  PROVE  Left(s)[t] = IF t \in ToSet(s.delay_list) THEN s.wake_tick[t] - s.tick_count
                      ELSE IF t \in ToSet(s.overflow_list)
                      THEN s.wake_tick[t] + TickMod - s.tick_count
                      ELSE -1
<1> DEFINE d == s.wake_tick[t] - s.tick_count
<1>1. d \in Int /\ TickMod \in Nat \ {0} /\ Half \in Nat /\ TickMod = Half + Half
  BY TickFacts, HalfFacts
<1>2. CASE t \in ToSet(s.delay_list)
  <2>1. d \in n .. Half - 1
    BY <1>2 DEF Timed
  <2> HIDE DEF d
  <2>2. d \in 0 .. TickMod - 1
    BY <1>1, <2>1
  <2>3. d % TickMod = d
    BY <1>1, <2>2, Small
  <2> QED BY <1>2, <2>3 DEF Left, OnDelayList, d
<1>3. CASE t \notin ToSet(s.delay_list) /\ t \in ToSet(s.overflow_list)
  <2>1. s.wake_tick[t] + TickMod - s.tick_count \in 1 .. Half - 1
    BY <1>3 DEF Timed
  <2>2. s.wake_tick[t] + TickMod - s.tick_count = d + TickMod
    BY TickFacts, HalfFacts
  <2> HIDE DEF d
  <2>3. d \in -TickMod .. -1
    BY <1>1, <2>1, <2>2
  <2>4. d % TickMod = d + TickMod
    BY <1>1, <2>3, Small
  <2> QED BY <1>3, <2>2, <2>4 DEF Left, OnDelayList, d
<1>4. CASE t \notin ToSet(s.delay_list) /\ t \notin ToSet(s.overflow_list)
  BY <1>4 DEF Left, OnDelayList
<1> QED BY <1>2, <1>3, <1>4

\* The signed difference of the code is right as long as the ticks are less than half a
\* turn apart.
LEMMA AfterClose ==
  ASSUME NEW a \in 0 .. TickMod - 1, NEW b \in 0 .. TickMod - 1,
         a - b < Half, b - a < Half
  PROVE  /\ After(a, b) <=> a > b
         /\ NotBefore(a, b) <=> a >= b
<1>1. /\ TickMod \in Nat \ {0} /\ Half \in Nat /\ TickMod = Half + Half /\ a \in Int /\ b \in Int
      /\ TickMod \div 2 = Half
  BY HalfFacts DEF Half
<1> DEFINE d == a - b
<1>2. CASE a >= b
  <2>1. d \in 0 .. TickMod - 1 /\ d \in Int
    BY <1>1, <1>2
  <2> HIDE DEF d
  <2>2. d % TickMod = d
    BY <1>1, <2>1, Small
  <2>3. (a - b) % TickMod < TickMod \div 2
    BY <1>1, <2>2 DEF d
  <2> QED BY <1>1, <1>2, <2>3 DEF After, NotBefore
<1>3. CASE ~(a >= b)
  <2>1. d \in -TickMod .. -1 /\ d \in Int
    BY <1>1, <1>3
  <2> HIDE DEF d
  <2>2. d % TickMod = d + TickMod
    BY <1>1, <2>1, Small
  <2>3. ~((a - b) % TickMod < TickMod \div 2)
    BY <1>1, <2>2 DEF d
  <2> QED BY <1>1, <1>3, <2>3 DEF After, NotBefore
<1> QED BY <1>2, <1>3

-----------------------------------------------------------------------------
\* What keeps the timers

\* r has the timers of s ...
SameTimers(s, r) ==
  /\ SameDelays(s, r) /\ r.tick_count = s.tick_count
  /\ \A x \in Delayed(s) : r.wake_tick[x] = s.wake_tick[x]

\* ... or those of s without that of t.
Untimed(s, r, t) ==
  /\ r.delay_list = Unlink(s.delay_list, t) /\ r.overflow_list = Unlink(s.overflow_list, t)
  /\ r.tick_count = s.tick_count
  /\ \A x \in Threads \ {t} : r.wake_tick[x] = s.wake_tick[x]

LEMMA OrderedSame ==
  ASSUME NEW s, NEW r, NEW l \in Seq(Threads), Ordered(l, Sooner(s)),
         \A x \in ToSet(l) : r.wake_tick[x] = s.wake_tick[x]
  PROVE  Ordered(l, Sooner(r))
<1>1. \A i \in DOMAIN l : l[i] \in ToSet(l) /\ l[i] \in Threads
  BY LenProperties, ElementOfSeq DEF ToSet
<1> QED BY <1>1 DEF Ordered, Sooner

LEMMA SameTimersKeep ==
  ASSUME NEW s \in Kernel, NEW n \in {0, 1}, Timed(s, n), NEW r, SameTimers(s, r)
  PROVE  Timed(r, n) /\ Left(r) = Left(s)
<1>1. /\ s.delay_list \in Seq(Threads) /\ s.overflow_list \in Seq(Threads)
  BY TickFacts
<1>2. /\ r.delay_list = s.delay_list /\ r.overflow_list = s.overflow_list
      /\ r.tick_count = s.tick_count
      /\ \A x \in ToSet(s.delay_list) : r.wake_tick[x] = s.wake_tick[x]
      /\ \A x \in ToSet(s.overflow_list) : r.wake_tick[x] = s.wake_tick[x]
  BY DEF SameTimers, SameDelays, Delayed
<1>3. Ordered(r.delay_list, Sooner(r)) /\ Ordered(r.overflow_list, Sooner(r))
  BY <1>1, <1>2, OrderedSame DEF Timed
<1>4. Timed(r, n)
  BY <1>2, <1>3 DEF Timed
<1>5. \A t \in Threads : OnDelayList(s, t) => r.wake_tick[t] = s.wake_tick[t]
  BY <1>2 DEF OnDelayList
<1>6. Left(r) = Left(s)
  BY <1>2, <1>5 DEF Left, OnDelayList
<1> QED BY <1>4, <1>6

LEMMA UntimedKeep ==
  ASSUME NEW s, ListsOK(s), NEW n \in {0, 1}, Timed(s, n), NEW t \in Threads, NEW r,
         Untimed(s, r, t)
  PROVE  Timed(r, n) /\ Left(r) = With(Left(s), t, -1)
<1>1. /\ s \in Kernel /\ s.delay_list \in Seq(Threads) /\ s.overflow_list \in Seq(Threads)
      /\ Distinct(s.delay_list) /\ Distinct(s.overflow_list)
  BY TickFacts DEF ListsOK, DelayListsOK
<1>2. /\ r.delay_list \in Seq(Threads) /\ r.overflow_list \in Seq(Threads)
      /\ ToSet(r.delay_list) = ToSet(s.delay_list) \ {t}
      /\ ToSet(r.overflow_list) = ToSet(s.overflow_list) \ {t}
  BY <1>1, UnlinkDistinct DEF Untimed
<1>3. /\ \A x \in ToSet(r.delay_list) : r.wake_tick[x] = s.wake_tick[x]
      /\ \A x \in ToSet(r.overflow_list) : r.wake_tick[x] = s.wake_tick[x]
  BY <1>1, <1>2, TickFacts DEF Untimed
<1>4. Ordered(r.delay_list, Sooner(s)) /\ Ordered(r.overflow_list, Sooner(s))
  BY <1>1, UnlinkOrdered DEF Timed, Untimed
<1>5. Ordered(r.delay_list, Sooner(r)) /\ Ordered(r.overflow_list, Sooner(r))
  BY <1>2, <1>3, <1>4, OrderedSame
<1>6. Timed(r, n)
  BY <1>2, <1>3, <1>5 DEF Timed, Untimed
<1>7. \A x \in Threads : OnDelayList(r, x) <=> (OnDelayList(s, x) /\ x # t)
  BY <1>2 DEF OnDelayList
<1>8. Left(r) = With(Left(s), t, -1)
  BY <1>7 DEF Left, Untimed, With
<1> QED BY <1>6, <1>8

-----------------------------------------------------------------------------
\* Arming a timer

WakePlace(s, l, t) == SelectInSeq(l, LAMBDA p : After(s.wake_tick[p], s.wake_tick[t]))

LEMMA WakePlaceFirst ==
  ASSUME NEW s \in Kernel, NEW l \in Seq(Threads), NEW t \in Threads,
         \A x \in ToSet(l) : /\ s.wake_tick[x] - s.wake_tick[t] < Half
                             /\ s.wake_tick[t] - s.wake_tick[x] < Half
  PROVE  LET n == WakePlace(s, l, t)
         IN  /\ n \in 0 .. Len(l)
             /\ \A i \in 1 .. Len(l) : n = 0 \/ i < n => s.wake_tick[l[i]] <= s.wake_tick[t]
             /\ n # 0 => s.wake_tick[t] <= s.wake_tick[l[n]]
<1> DEFINE n == WakePlace(s, l, t)
           I == {i \in 1 .. Len(l) : After(s.wake_tick[l[i]], s.wake_tick[t])}
<1>1. n = IF I = {} THEN 0 ELSE Min(I)
  BY Zenon DEF WakePlace, SelectInSeq
<1>2. Len(l) \in Nat /\ \A i \in 1 .. Len(l) : l[i] \in Threads /\ l[i] \in ToSet(l)
  BY LenProperties, ElementOfSeq DEF ToSet
<1>3. \A i \in 1 .. Len(l) : /\ s.wake_tick[l[i]] \in 0 .. TickMod - 1
                             /\ s.wake_tick[t] \in 0 .. TickMod - 1
  BY <1>2, TickFacts
<1>4. \A i \in 1 .. Len(l) : After(s.wake_tick[l[i]], s.wake_tick[t])
                               <=> s.wake_tick[l[i]] > s.wake_tick[t]
  BY <1>2, <1>3, AfterClose
<1>5. I \in SUBSET Nat /\ I \subseteq 1 .. Len(l)
  BY <1>2
<1>6. \A i \in 1 .. Len(l) : i \notin I => s.wake_tick[l[i]] <= s.wake_tick[t]
  BY <1>3, <1>4
<1>7. \A i \in I : s.wake_tick[t] <= s.wake_tick[l[i]]
  BY <1>3, <1>4
<1> HIDE DEF I, n
<1>8. I # {} => Min(I) \in I /\ \A y \in I : Min(I) <= y
  BY <1>5, MinElement
<1>9. n \in 0 .. Len(l) /\ (n # 0 => s.wake_tick[t] <= s.wake_tick[l[n]])
  BY <1>1, <1>2, <1>5, <1>7, <1>8
<1>10. ASSUME NEW i \in 1 .. Len(l), n = 0 \/ i < n PROVE i \notin I
  <2>1. CASE I = {}
    BY <2>1
  <2>2. CASE I # {}
    <3>1. n = Min(I) /\ Min(I) \in 1 .. Len(l)
      BY <1>1, <1>5, <1>8, <2>2
    <3>2. n # 0 /\ i < n /\ n \in Int /\ i \in Int
      BY <1>2, <1>10, <3>1
    <3>3. i \in I => n <= i
      BY <1>8, <2>2, <3>1
    <3> QED BY <3>2, <3>3
  <2> QED BY <2>1, <2>2
<1> QED BY <1>6, <1>9, <1>10 DEF n

\* A list stays sorted when a task joins it at its place.
LEMMA WakePlaceOrdered ==
  ASSUME NEW s \in Kernel, NEW l \in Seq(Threads), NEW t \in Threads, Ordered(l, Sooner(s)),
         \A x \in ToSet(l) : /\ s.wake_tick[x] - s.wake_tick[t] < Half
                             /\ s.wake_tick[t] - s.wake_tick[x] < Half
  PROVE  Ordered(InsertByWakeTick(s, l, t), Sooner(s))
<1> DEFINE n == WakePlace(s, l, t)
<1>1. /\ n \in 0 .. Len(l)
      /\ \A i \in 1 .. Len(l) : n = 0 \/ i < n => s.wake_tick[l[i]] <= s.wake_tick[t]
      /\ n # 0 => s.wake_tick[t] <= s.wake_tick[l[n]]
  BY WakePlaceFirst
<1>2. InsertByWakeTick(s, l, t) = InsertBefore(l, t, n)
  BY DEF InsertByWakeTick, WakePlace
<1> HIDE DEF n
<1>3. /\ Len(l) \in Nat /\ DOMAIN l = 1 .. Len(l)
      /\ \A i \in 1 .. Len(l) : l[i] \in Threads /\ s.wake_tick[l[i]] \in 0 .. TickMod - 1
      /\ s.wake_tick[t] \in 0 .. TickMod - 1 /\ TickMod \in Nat
  BY LenProperties, TickFacts, HalfFacts
<1>4. \A i \in 1 .. Len(l) : n = 0 \/ i < n => <<l[i], t>> \in Sooner(s)
  BY <1>1, <1>3 DEF Sooner
<1>5. ASSUME NEW i \in 1 .. Len(l), n # 0, n <= i PROVE <<t, l[i]>> \in Sooner(s)
  <2>1. s.wake_tick[l[n]] <= s.wake_tick[l[i]] /\ n \in 1 .. Len(l)
    <3>1. CASE n = i
      BY <1>1, <1>3, <1>5, <3>1
    <3>2. CASE n # i
      <4>1. n \in 1 .. Len(l) /\ n < i
        BY <1>1, <1>3, <1>5, <3>2
      <4>2. <<l[n], l[i]>> \in Sooner(s)
        BY <1>3, <4>1 DEF Ordered
      <4> QED BY <4>1, <4>2 DEF Sooner
    <3> QED BY <3>1, <3>2
  <2>2. s.wake_tick[t] <= s.wake_tick[l[i]]
    BY <1>1, <1>3, <1>5, <2>1
  <2> QED BY <1>3, <2>2 DEF Sooner
<1>6. \A i \in 1 .. Len(l) : n # 0 /\ n <= i => <<t, l[i]>> \in Sooner(s)
  BY <1>5
<1>7. Ordered(InsertBefore(l, t, n), Sooner(s))
  BY <1>1, <1>4, <1>6, InsertOrdered
<1> QED BY <1>2, <1>7

\* rtos_task_delay with the timer n: the sum wraps exactly when it is less than the tick.
LEMMA DelayInsertTimed ==
  ASSUME NEW s, ListsOK(s), Timed(s, 1), NEW t \in Threads, t \notin Delayed(s),
         NEW n \in 1 .. Half - 1
  PROVE  Timed(DelayInsert(s, t, n), 1) /\ Left(DelayInsert(s, t, n)) = With(Left(s), t, n)
<1> DEFINE w == (s.tick_count + n) % TickMod
           a == [s EXCEPT !.wake_tick[t] = w]
           d == InsertByWakeTick(a, s.delay_list, t)
           o == InsertByWakeTick(a, s.overflow_list, t)
           r == DelayInsert(s, t, n)
<1>1. /\ s \in Kernel /\ s.tick_count \in 0 .. TickMod - 1
      /\ s.delay_list \in Seq(Threads) /\ s.overflow_list \in Seq(Threads)
      /\ \A x \in ToSet(s.delay_list) \cup ToSet(s.overflow_list) : x \in Threads /\ x # t
      /\ \A x \in Threads : s.wake_tick[x] \in 0 .. TickMod - 1
  BY TickFacts DEF ListsOK, Delayed
<1>2. /\ TickMod \in Nat \ {0} /\ Half \in Nat /\ TickMod = Half + Half /\ n \in Nat
  BY HalfFacts
<1>3. w = IF s.tick_count + n < TickMod THEN s.tick_count + n ELSE s.tick_count + n - TickMod
  <2>1. CASE s.tick_count + n < TickMod
    <3>1. s.tick_count + n \in 0 .. TickMod - 1
      BY <1>1, <1>2, <2>1
    <3> QED BY <1>2, <2>1, <3>1, Small
  <2>2. CASE ~(s.tick_count + n < TickMod)
    <3> DEFINE v == s.tick_count + n - TickMod
    <3>1. v \in 0 .. TickMod - 1 /\ s.tick_count + n = 1 * TickMod + v
      BY <1>1, <1>2, <2>2
    <3>2. s.tick_count + n \in Int /\ 1 \in Int
      BY <1>1, <1>2
    <3> HIDE DEF v
    <3>3. (s.tick_count + n) % TickMod = v
      BY <1>2, <3>1, <3>2, Remainder
    <3> QED BY <2>2, <3>3 DEF v
  <2> QED BY <2>1, <2>2
<1> HIDE DEF w
<1>4. w \in 0 .. TickMod - 1
  BY <1>1, <1>2, <1>3
<1>5. /\ a \in Kernel /\ a.wake_tick = [s.wake_tick EXCEPT ![t] = w]
      /\ a.delay_list = s.delay_list /\ a.overflow_list = s.overflow_list
      /\ a.tick_count = s.tick_count
  <2>1. [s.wake_tick EXCEPT ![t] = w] \in [Threads -> Ticks]
    BY <1>1, <1>4 DEF Kernel, Ticks
  <2> QED BY <1>1, <2>1 DEF Kernel
<1>6. r = IF w < s.tick_count THEN [a EXCEPT !.overflow_list = o] ELSE [a EXCEPT !.delay_list = d]
  BY <1>5 DEF DelayInsert, w
<1> HIDE DEF a, r
<1>7. a.wake_tick[t] = w /\ \A x \in Threads \ {t} : a.wake_tick[x] = s.wake_tick[x]
  BY <1>1, <1>5 DEF Kernel
<1>8. /\ Ordered(s.delay_list, Sooner(a)) /\ Ordered(s.overflow_list, Sooner(a))
  BY <1>1, <1>7, OrderedSame DEF Timed
<1>9. CASE w < s.tick_count
  <2>1. w = s.tick_count + n - TickMod
    BY <1>1, <1>2, <1>3, <1>9
  <2>2. ASSUME NEW x \in ToSet(s.overflow_list)
        PROVE  /\ a.wake_tick[x] - a.wake_tick[t] < Half
               /\ a.wake_tick[t] - a.wake_tick[x] < Half
    <3>1. s.wake_tick[x] + TickMod - s.tick_count \in 1 .. Half - 1
      BY DEF Timed
    <3>2. /\ a.wake_tick[x] = s.wake_tick[x] /\ s.wake_tick[x] \in 0 .. TickMod - 1
          /\ a.wake_tick[t] = w /\ s.tick_count \in 0 .. TickMod - 1
      BY <1>1, <1>7
    <3> QED BY <1>2, <2>1, <3>1, <3>2
  <2>3. Ordered(o, Sooner(a)) /\ o \in Seq(Threads) /\ ToSet(o) = ToSet(s.overflow_list) \cup {t}
    <3>1. s.overflow_list \in Seq(Threads) /\ a \in Kernel /\ Ordered(s.overflow_list, Sooner(a))
      BY <1>1, <1>5, <1>8
    <3>2. \A x \in ToSet(s.overflow_list) : /\ a.wake_tick[x] - a.wake_tick[t] < Half
                                  /\ a.wake_tick[t] - a.wake_tick[x] < Half
      BY <2>2
    <3>3. Ordered(o, Sooner(a))
      BY <3>1, <3>2, WakePlaceOrdered
    <3>4. o \in Seq(Threads) /\ ToSet(o) = ToSet(s.overflow_list) \cup {t}
      BY <3>1, InsertByWakeTickDistinct
    <3> QED BY <3>3, <3>4
  <2> HIDE DEF o
  <2>4. /\ r.delay_list = s.delay_list /\ r.overflow_list = o /\ r.wake_tick = a.wake_tick
        /\ r.tick_count = s.tick_count
    BY <1>5, <1>6, <1>9 DEF Kernel
  <2>5. Ordered(r.delay_list, Sooner(r)) /\ Ordered(r.overflow_list, Sooner(r))
    BY <1>8, <2>3, <2>4 DEF Sooner
  <2>6. w + TickMod - s.tick_count = n
    BY <1>1, <1>2, <2>1
  <2>7. Timed(r, 1)
    BY <1>1, <1>7, <2>3, <2>4, <2>5, <2>6 DEF Timed
  <2>8. (w - s.tick_count) % TickMod = n
    <3> DEFINE v == w - s.tick_count
    <3>1. v \in -TickMod .. -1 /\ v \in Int /\ v + TickMod = n
      BY <1>1, <1>2, <1>4, <1>9, <2>6
    <3> HIDE DEF v
    <3>2. v % TickMod = n
      BY <1>2, <3>1, Small
    <3> QED BY <3>2 DEF v
  <2>9. \A x \in Threads : OnDelayList(r, x) <=> (OnDelayList(s, x) \/ x = t)
    BY <2>3, <2>4 DEF OnDelayList
  <2>10. Left(r) = With(Left(s), t, n)
    BY <1>7, <2>4, <2>8, <2>9 DEF Left, With
  <2> QED BY <2>7, <2>10 DEF r
<1>10. CASE ~(w < s.tick_count)
  <2>1. w = s.tick_count + n
    BY <1>1, <1>2, <1>3, <1>10
  <2>2. ASSUME NEW x \in ToSet(s.delay_list)
        PROVE  /\ a.wake_tick[x] - a.wake_tick[t] < Half
               /\ a.wake_tick[t] - a.wake_tick[x] < Half
    <3>1. s.wake_tick[x] - s.tick_count \in 1 .. Half - 1
      BY DEF Timed
    <3>2. /\ a.wake_tick[x] = s.wake_tick[x] /\ s.wake_tick[x] \in 0 .. TickMod - 1
          /\ a.wake_tick[t] = w /\ s.tick_count \in 0 .. TickMod - 1
      BY <1>1, <1>7
    <3> QED BY <1>2, <2>1, <3>1, <3>2
  <2>3. Ordered(d, Sooner(a)) /\ d \in Seq(Threads) /\ ToSet(d) = ToSet(s.delay_list) \cup {t}
    <3>1. s.delay_list \in Seq(Threads) /\ a \in Kernel /\ Ordered(s.delay_list, Sooner(a))
      BY <1>1, <1>5, <1>8
    <3>2. \A x \in ToSet(s.delay_list) : /\ a.wake_tick[x] - a.wake_tick[t] < Half
                                  /\ a.wake_tick[t] - a.wake_tick[x] < Half
      BY <2>2
    <3>3. Ordered(d, Sooner(a))
      BY <3>1, <3>2, WakePlaceOrdered
    <3>4. d \in Seq(Threads) /\ ToSet(d) = ToSet(s.delay_list) \cup {t}
      BY <3>1, InsertByWakeTickDistinct
    <3> QED BY <3>3, <3>4
  <2> HIDE DEF d
  <2>4. /\ r.delay_list = d /\ r.overflow_list = s.overflow_list /\ r.wake_tick = a.wake_tick
        /\ r.tick_count = s.tick_count
    BY <1>5, <1>6, <1>10 DEF Kernel
  <2>5. Ordered(r.delay_list, Sooner(r)) /\ Ordered(r.overflow_list, Sooner(r))
    BY <1>8, <2>3, <2>4 DEF Sooner
  <2>6. w - s.tick_count = n
    BY <1>1, <1>2, <2>1
  <2>7. Timed(r, 1)
    BY <1>1, <1>7, <2>3, <2>4, <2>5, <2>6 DEF Timed
  <2>8. (w - s.tick_count) % TickMod = n
    <3>1. n \in 0 .. TickMod - 1 /\ n \in Int
      BY <1>2
    <3> QED BY <1>2, <2>6, <3>1, Small
  <2>9. \A x \in Threads : OnDelayList(r, x) <=> (OnDelayList(s, x) \/ x = t)
    BY <2>3, <2>4 DEF OnDelayList
  <2>10. Left(r) = With(Left(s), t, n)
    BY <1>7, <2>4, <2>8, <2>9 DEF Left, With
  <2> QED BY <2>7, <2>10 DEF r
<1> QED BY <1>9, <1>10

-----------------------------------------------------------------------------
\* The tick handler

\* All the timers go on by one tick; at the end of the turn delay_list is empty.
LEMMA TickBeginTimed ==
  ASSUME NEW s, ListsOK(s), Timed(s, 1)
  PROVE  /\ Timed(TickBegin(s), 0)
         /\ \A t \in Threads : Left(s)[t] # 0
         /\ Left(TickBegin(s)) = [t \in Threads |-> IF Left(s)[t] = -1 THEN -1 ELSE Left(s)[t] - 1]
<1> DEFINE now == (s.tick_count + 1) % TickMod
           r == TickBegin(s)
<1>0. /\ s \in Kernel /\ s.delay_list \in Seq(Threads) /\ s.overflow_list \in Seq(Threads)
      /\ \A x \in ToSet(s.delay_list) \cup ToSet(s.overflow_list) : s.wake_tick[x] \in 0 .. TickMod - 1
  BY TickFacts DEF ListsOK
<1>1. /\ s.tick_count \in 0 .. TickMod - 1
      /\ TickMod \in Nat \ {0} /\ Half \in Nat /\ TickMod = Half + Half /\ Half >= 2
  BY TickFacts, HalfFacts DEF ListsOK
<1>2. now = IF s.tick_count + 1 < TickMod THEN s.tick_count + 1 ELSE 0
  <2>1. CASE s.tick_count + 1 < TickMod
    <3>1. s.tick_count + 1 \in 0 .. TickMod - 1
      BY <1>1, <2>1
    <3> QED BY <1>1, <2>1, <3>1, Small
  <2>2. CASE ~(s.tick_count + 1 < TickMod)
    <3>1. s.tick_count + 1 = 1 * TickMod + 0 /\ 0 \in 0 .. TickMod - 1 /\ 1 \in Int
      BY <1>1, <2>2
    <3>2. s.tick_count + 1 \in Int /\ 0 \in Int
      BY <1>1
    <3>3. (s.tick_count + 1) % TickMod = 0
      BY <1>1, <3>1, <3>2, Remainder
    <3> QED BY <2>2, <3>3
  <2> QED BY <2>1, <2>2
<1> HIDE DEF now
<1>3. /\ r.tick_count = now /\ r.wake_tick = s.wake_tick
      /\ IF now = 0 THEN r.delay_list = s.overflow_list /\ r.overflow_list = s.delay_list
                    ELSE r.delay_list = s.delay_list /\ r.overflow_list = s.overflow_list
  <2>1. r = IF now = 0 THEN [s EXCEPT !.tick_count = now, !.delay_list = s.overflow_list,
                                      !.overflow_list = s.delay_list]
            ELSE [s EXCEPT !.tick_count = now]
    BY DEF TickBegin, now
  <2> HIDE DEF r
  <2> QED BY <1>0, <2>1 DEF Kernel
<1>4. Ordered(r.delay_list, Sooner(r)) /\ Ordered(r.overflow_list, Sooner(r))
  BY <1>3 DEF Timed, Sooner
<1>5. /\ \A t \in ToSet(s.delay_list) : s.wake_tick[t] - s.tick_count \in 1 .. Half - 1
      /\ \A t \in ToSet(s.overflow_list) : s.wake_tick[t] + TickMod - s.tick_count \in 1 .. Half - 1
  BY DEF Timed
<1>6. Timed(r, 0)
  <2>1. CASE now = 0
    <3>1. s.tick_count = TickMod - 1
      BY <1>1, <1>2, <2>1
    <3>2. \A t \in ToSet(s.delay_list) : FALSE
      BY <1>0, <1>1, <1>5, <3>1
    <3>3. \A t \in ToSet(s.overflow_list) : s.wake_tick[t] - now \in 0 .. Half - 1
      BY <1>0, <1>1, <1>5, <2>1, <3>1
    <3> QED BY <1>3, <1>4, <2>1, <3>2, <3>3 DEF Timed
  <2>2. CASE now # 0
    <3>1. now = s.tick_count + 1 /\ now < TickMod
      BY <1>1, <1>2, <2>2
    <3>2. \A t \in ToSet(s.delay_list) : s.wake_tick[t] - now \in 0 .. Half - 1
      BY SMTT(40), <1>0, <1>1, <1>5, <3>1
    <3>3. ASSUME NEW t \in ToSet(s.overflow_list)
          PROVE  s.wake_tick[t] + TickMod - now \in 1 .. Half - 1
      <4>1. /\ s.wake_tick[t] \in 0 .. TickMod - 1
            /\ s.wake_tick[t] + TickMod - s.tick_count \in 1 .. Half - 1
        BY <1>0, <1>5
      <4> QED BY <1>1, <3>1, <4>1
    <3> QED BY <1>3, <1>4, <2>2, <3>2, <3>3 DEF Timed
  <2> QED BY <2>1, <2>2
<1>7. r \in Kernel
  <2>1. now \in Ticks
    BY <1>1, <1>2 DEF Ticks
  <2>2. r = IF now = 0 THEN [s EXCEPT !.tick_count = now, !.delay_list = s.overflow_list,
                                      !.overflow_list = s.delay_list]
            ELSE [s EXCEPT !.tick_count = now]
    BY DEF TickBegin, now
  <2> HIDE DEF r
  <2> QED BY <1>0, <2>1, <2>2 DEF Kernel
<1>8. ASSUME NEW t \in Threads
      PROVE  Left(s)[t] # 0 /\ Left(r)[t] = IF Left(s)[t] = -1 THEN -1 ELSE Left(s)[t] - 1
  <2>1. Left(s)[t] = IF t \in ToSet(s.delay_list) THEN s.wake_tick[t] - s.tick_count
                     ELSE IF t \in ToSet(s.overflow_list)
                     THEN s.wake_tick[t] + TickMod - s.tick_count
                     ELSE -1
    BY <1>0, LeftTimed
  <2>2. Left(r)[t] = IF t \in ToSet(r.delay_list) THEN s.wake_tick[t] - now
                     ELSE IF t \in ToSet(r.overflow_list)
                     THEN s.wake_tick[t] + TickMod - now
                     ELSE -1
    BY <1>3, <1>6, <1>7, LeftTimed
  <2>3. ToSet(s.delay_list) \cap ToSet(s.overflow_list) = {}
    BY DEF ListsOK, DelayListsOK
  <2>4. CASE now = 0
    <3>1. s.tick_count = TickMod - 1
      BY <1>1, <1>2, <2>4
    <3>2. t \notin ToSet(s.delay_list)
      BY <1>0, <1>1, <1>5, <3>1
    <3> QED BY <1>0, <1>1, <1>3, <1>5, <2>1, <2>2, <2>4, <3>1, <3>2
  <2>5. CASE now # 0
    <3>1. now = s.tick_count + 1
      BY <1>1, <1>2, <2>5
    <3>2. CASE t \in ToSet(s.delay_list)
      <4>1. /\ s.wake_tick[t] \in 0 .. TickMod - 1
            /\ s.wake_tick[t] - s.tick_count \in 1 .. Half - 1
        BY <1>0, <1>5, <3>2
      <4> QED BY <1>1, <1>3, <2>1, <2>2, <2>5, <3>1, <3>2, <4>1
    <3>3. CASE t \in ToSet(s.overflow_list)
      <4>1. /\ s.wake_tick[t] \in 0 .. TickMod - 1
            /\ s.wake_tick[t] + TickMod - s.tick_count \in 1 .. Half - 1
        BY <1>0, <1>5, <3>3
      <4>2. t \notin ToSet(s.delay_list)
        BY <2>3, <3>3
      <4> QED BY <1>1, <1>3, <2>1, <2>2, <2>5, <3>1, <3>3, <4>1, <4>2
    <3>4. CASE t \notin ToSet(s.delay_list) /\ t \notin ToSet(s.overflow_list)
      BY <1>3, <2>1, <2>2, <2>5, <3>4
    <3> QED BY <3>2, <3>3, <3>4
  <2> QED BY <2>4, <2>5
<1>9. \A t \in Threads : Left(r)[t] = IF Left(s)[t] = -1 THEN -1 ELSE Left(s)[t] - 1
  BY <1>8
<1>10. Left(r) = [t \in Threads |-> IF Left(s)[t] = -1 THEN -1 ELSE Left(s)[t] - 1]
  BY <1>9 DEF Left
<1> QED BY <1>6, <1>8, <1>10

\* The loop of the handler wakes exactly those whose time has come ...
LEMMA TickWakeTimed ==
  ASSUME NEW s, NEW H, KernelInv(s, H), Timed(s, 0), HeadExpired(s)
  PROVE  LET t == Head(s.delay_list)
             r == TickWake(s)
         IN  /\ t \in Threads /\ Left(s)[t] = 0
             /\ Timed(r, 0) /\ Left(r) = With(Left(s), t, -1)
<1> DEFINE t == Head(s.delay_list)
           r == TickWake(s)
<1>1. /\ ListsOK(s) /\ s \in Kernel /\ s.delay_list # <<>> /\ H \subseteq Threads
      /\ s.delay_list \in Seq(Threads) /\ s.overflow_list \in Seq(Threads)
      /\ Distinct(s.delay_list)
      /\ ToSet(s.delay_list) \cap ToSet(s.overflow_list) = {}
      /\ NotBefore(s.tick_count, s.wake_tick[t])
  BY CoreFacts, TickFacts DEF KernelInv, ListsOK, DelayListsOK, HeadExpired
<1>2. /\ t \in H /\ t \in ToSet(s.delay_list) /\ r.tick_count = s.tick_count
      /\ r.wake_tick = With(s.wake_tick, t, 0)
      /\ r.delay_list = Tail(s.delay_list) /\ r.overflow_list = s.overflow_list
  BY <1>1, TickWakeInv
<1> HIDE DEF r
<1>3. Tail(s.delay_list) = Unlink(s.delay_list, t)
  BY <1>1, UnlinkFirst
<1> HIDE DEF t
<1>4. t \in Threads /\ t \notin ToSet(s.overflow_list)
  BY <1>1, <1>2
<1>5. Unlink(s.overflow_list, t) = s.overflow_list
  BY <1>1, <1>4, UnlinkAbsent
<1>6. \A x \in Threads \ {t} : r.wake_tick[x] = s.wake_tick[x]
  BY <1>1, <1>2 DEF With, Kernel
<1>7. Untimed(s, r, t)
  BY <1>2, <1>3, <1>5, <1>6 DEF Untimed
<1>8. Left(s)[t] = s.wake_tick[t] - s.tick_count
  BY <1>1, <1>2, <1>4, LeftTimed
<1>9. s.wake_tick[t] - s.tick_count \in 0 .. Half - 1
  BY <1>2 DEF Timed
<1>10. /\ s.wake_tick[t] \in 0 .. TickMod - 1 /\ s.tick_count \in 0 .. TickMod - 1
       /\ Half \in Nat /\ Half >= 2
  BY <1>1, <1>4, TickFacts, HalfFacts
<1>11. s.tick_count - s.wake_tick[t] < Half /\ s.wake_tick[t] - s.tick_count < Half
  BY <1>9, <1>10
<1>12. s.tick_count >= s.wake_tick[t]
  BY <1>1, <1>10, <1>11, AfterClose
<1>13. Left(s)[t] = 0
  BY <1>8, <1>9, <1>10, <1>12
<1> QED BY <1>1, <1>4, <1>7, <1>13, UntimedKeep DEF t, r

\* ... and ends when the rest of the list lies ahead.
LEMMA TickEndTimed ==
  ASSUME NEW s \in Kernel, Timed(s, 0), ~HeadExpired(s)
  PROVE  Timed(s, 1)
<1>1. /\ s.delay_list \in Seq(Threads)
      /\ \A x \in ToSet(s.delay_list) : x \in Threads
      /\ s.tick_count \in 0 .. TickMod - 1 /\ Half \in Nat /\ Half >= 2
      /\ \A x \in Threads : s.wake_tick[x] \in 0 .. TickMod - 1
  BY TickFacts, HalfFacts
<1>2. CASE s.delay_list = <<>>
  <2>1. ToSet(s.delay_list) = {}
    BY <1>2 DEF ToSet
  <2> QED BY <2>1 DEF Timed
<1>3. CASE s.delay_list # <<>>
  <2> DEFINE l == s.delay_list
             h == Head(l)
  <2>1. h = l[1] /\ 1 \in DOMAIN l /\ h \in ToSet(l) /\ Len(l) \in Nat /\ DOMAIN l = 1 .. Len(l)
    BY <1>1, <1>3, HeadTailProperties, EmptySeq, LenProperties DEF ToSet
  <2>2. s.wake_tick[h] - s.tick_count \in 0 .. Half - 1
    BY <2>1 DEF Timed
  <2>3. h \in Threads /\ s.wake_tick[h] \in 0 .. TickMod - 1
    BY <1>1, <2>1
  <2>4. ~NotBefore(s.tick_count, s.wake_tick[h])
    BY <1>3 DEF HeadExpired
  <2> HIDE DEF h
  <2>5. s.tick_count - s.wake_tick[h] < Half /\ s.wake_tick[h] - s.tick_count < Half
    BY <1>1, <2>2, <2>3
  <2>6. ~(s.tick_count >= s.wake_tick[h])
    BY <1>1, <2>3, <2>4, <2>5, AfterClose
  <2>7. ASSUME NEW t \in ToSet(l) PROVE s.wake_tick[t] - s.tick_count \in 1 .. Half - 1
    <3>1. s.wake_tick[t] - s.tick_count \in 0 .. Half - 1 /\ s.wake_tick[t] \in 0 .. TickMod - 1
      BY <1>1 DEF Timed
    <3>2. PICK i \in DOMAIN l : t = l[i]
      BY <2>1 DEF ToSet
    <3>3. s.wake_tick[h] <= s.wake_tick[t]
      <4>1. CASE i = 1
        BY <2>1, <2>3, <3>2, <4>1
      <4>2. CASE i # 1
        <5>1. 1 < i
          BY <2>1, <3>2, <4>2
        <5>2. <<l[1], l[i]>> \in Sooner(s)
          BY <2>1, <3>2, <5>1 DEF Timed, Ordered
        <5> QED BY <2>1, <3>2, <5>2 DEF Sooner
      <4> QED BY <4>1, <4>2
    <3> QED BY <1>1, <2>3, <2>6, <3>1, <3>3
  <2> QED BY <2>7 DEF Timed
<1> QED BY <1>2, <1>3

-----------------------------------------------------------------------------
\* The calls leave the timers alone, but for the one they cancel or arm

\* At most one timer is gone.
Quiet(s, r) == SameTimers(s, r) \/ \E t \in Threads : Untimed(s, r, t)

LEMMA SameTicksQuiet ==
  ASSUME NEW s, NEW r, SameTicks(s, r)
  PROVE  SameTimers(s, r) /\ Quiet(s, r)
BY DEF SameTicks, SameTimers, Quiet

LEMMA QuietThen ==
  ASSUME NEW s, NEW m, NEW r, Quiet(s, m), SameTicks(m, r)
  PROVE  Quiet(s, r)
BY DEF Quiet, SameTicks, SameTimers, SameDelays, Untimed

LEMMA UnblockUntimed ==
  ASSUME NEW s \in Kernel, NEW t \in Threads
  PROVE  Untimed(s, Unblock(s, t), t)
<1> DEFINE m == DelayRemove(s, t)
           r == EventRemove(m, t)
<1>1. /\ m.delay_list = Unlink(s.delay_list, t) /\ m.overflow_list = Unlink(s.overflow_list, t)
      /\ m.tick_count = s.tick_count /\ m.wake_tick = s.wake_tick /\ DOMAIN m = DOMAIN s
  BY DEF DelayRemove, Kernel
<1>2. {"delay_list", "overflow_list", "tick_count", "wake_tick"} \subseteq DOMAIN m
  BY <1>1 DEF Kernel
<1> HIDE DEF m
<1>3. r = m \/ r = [m EXCEPT !.waiting = [m.waiting EXCEPT ![m.event_list[t]] = Unlink(@, t)],
                             !.event_list = [m.event_list EXCEPT ![t] = NoList]]
  BY DEF EventRemove
<1> HIDE DEF r
<1>4. SameTicks(m, r)
  BY <1>2, <1>3 DEF SameTicks, SameDelays
<1> QED BY <1>1, <1>4 DEF Untimed, SameTicks, SameDelays, Unblock, r, m

LEMMA TaskReadyTicks ==
  ASSUME NEW s \in Kernel, NEW t \in Threads
  PROVE  SameTicks(s, TaskReady(s, t))
BY TaskReadyFields DEF SameTicks, SameRest

LEMMA StateTicks ==
  ASSUME NEW s \in Kernel, NEW t, NEW v
  PROVE  SameTicks(s, [s EXCEPT !.state[t] = v])
BY DEF SameTicks, SameDelays, Kernel

LEMMA DeactivateQuiet ==
  ASSUME NEW s, NEW H, KernelCore(s, H), NEW t \in H, NEW v
  PROVE  Quiet(s, [Deactivate(s, t) EXCEPT !.state[t] = v])
<1>1. ListsOK(s) /\ s \in Kernel /\ t \in Threads /\ ReadyListsOK(s)
  BY CoreFacts DEF ListsOK
<1> DEFINE r == Deactivate(s, t)
<1>2. Quiet(s, r)
  <2>1. CASE s.state[t] \in OnReadyList
    <3>1. r = TaskUnready(s, t)
      BY <2>1, Zenon DEF Deactivate, OnReadyList
    <3>2. SameTicks(s, TaskUnready(s, t))
      BY <1>1, TaskUnreadyFields DEF SameTicks, SameRest
    <3> QED BY <3>1, <3>2, SameTicksQuiet
  <2>2. CASE s.state[t] = "BLOCKED"
    <3>1. s.state[t] \notin OnReadyList
      BY <2>2 DEF OnReadyList
    <3>2. r = Unblock(s, t)
      BY <2>2, <3>1, Zenon DEF Deactivate
    <3> QED BY <1>1, <3>2, UnblockUntimed DEF Quiet
  <2>3. CASE s.state[t] \notin OnReadyList /\ s.state[t] # "BLOCKED"
    <3>1. r = s
      BY <2>3, Zenon DEF Deactivate
    <3>2. SameTicks(s, s)
      BY DEF SameTicks, SameDelays
    <3> QED BY <3>1, <3>2, SameTicksQuiet
  <2> QED BY <2>1, <2>2, <2>3
<1>3. r \in Kernel
  BY DeactivateEffect DEF Effect, ListsOK
<1> HIDE DEF r
<1>4. SameTicks(r, [r EXCEPT !.state[t] = v])
  BY <1>3, StateTicks
<1>5. Quiet(s, [r EXCEPT !.state[t] = v])
  BY <1>2, <1>4, QuietThen
<1> QED BY <1>5 DEF r

LEMMA SuspendQuiet ==
  ASSUME NEW s, NEW H, KernelCore(s, H), NEW t \in H
  PROVE  Quiet(s, Suspend(s, t))
<1>1. SameTicks(s, s)
  BY DEF SameTicks, SameDelays
<1>2. Quiet(s, s)
  BY <1>1, SameTicksQuiet
<1>3. Quiet(s, [Deactivate(s, t) EXCEPT !.state[t] = "SUSPENDED"])
  BY DeactivateQuiet
<1> QED BY <1>2, <1>3 DEF Suspend

LEMMA AbortQuiet ==
  ASSUME NEW s, ListsOK(s), NEW t \in Threads
  PROVE  Quiet(s, AbortDelay(s, t))
<1> DEFINE free == Unblock(s, t)
           w    == [free.wake_tick EXCEPT ![t] = 0]
           mid  == [free EXCEPT !.wake_tick = w]
           r    == TaskReady(mid, t)
<1>1. s \in Kernel /\ free \in Kernel
  <2>1. s \in Kernel
    BY DEF ListsOK
  <2>2. Effect(s, free, Queued(s), Delayed(s) \ {t}, Waiting(s) \ {t}, s.state)
    BY UnblockEffect
  <2> HIDE DEF free
  <2> QED BY <2>1, <2>2 DEF Effect, ListsOK
<1>2. Untimed(s, free, t)
  BY <1>1, UnblockUntimed
<1>3. AbortDelay(s, t) = r
  BY DEF AbortDelay
<1> HIDE DEF free
<1>4. w \in [Threads -> Ticks] /\ \A x \in Threads \ {t} : w[x] = free.wake_tick[x]
  <2>1. 0 \in Ticks
    BY TickAssumption DEF Ticks
  <2> QED BY <1>1, <2>1 DEF Kernel
<1> HIDE DEF w
<1>5. /\ mid \in Kernel /\ SameDelays(free, mid) /\ mid.tick_count = free.tick_count
      /\ mid.wake_tick = w
  BY <1>1, <1>4 DEF Kernel, SameDelays
<1> HIDE DEF mid
<1>6. SameTicks(mid, r)
  BY <1>5, TaskReadyTicks
<1> HIDE DEF r
<1>7. Untimed(s, r, t)
  BY <1>2, <1>4, <1>5, <1>6 DEF Untimed, SameTicks, SameDelays
<1> QED BY <1>3, <1>7 DEF Quiet

LEMMA SetPriorityTicks ==
  ASSUME NEW s, NEW H, KernelInv(s, H), NEW t \in H, NEW p \in Prio
  PROVE  SameTicks(s, SetPriority(s, t, p))
<1> DEFINE moved == IF s.state[t] \in OnReadyList
                    THEN TaskReady([TaskUnready(s, t) EXCEPT !.priority[t] = p], t)
                    ELSE [s EXCEPT !.priority[t] = p]
           q     == moved.held_queue[t]
           o     == [moved.original_priority EXCEPT ![q] = p]
           r     == SetPriority(s, t, p)
<1>1. KernelInv(moved, H) /\ SameTicks(s, moved)
  BY MovePriority
<1>2. r = moved \/ r = [moved EXCEPT !.original_priority = o]
  BY DEF SetPriority
<1> HIDE DEF moved, r, o, q
<1>3. moved \in Kernel
  BY <1>1, CoreFacts DEF KernelInv
<1>4. SameTicks(moved, r)
  BY <1>2, <1>3 DEF SameTicks, SameDelays, Kernel
<1>5. SameTicks(s, r)
  BY <1>1, <1>4 DEF SameTicks, SameDelays
<1> QED BY <1>5 DEF r

LEMMA TerminateQuiet ==
  ASSUME IInv, NoneHeld(k), NEW t \in handles
  PROVE  Quiet(k, Terminate(k, t)) /\ Terminate(k, t) \in Kernel
<1>1. KernelCore(k, handles) /\ t \in Threads
  BY TypeFacts
<1>2. Terminate(k, t) = [Deactivate(k, t) EXCEPT !.state[t] = "DELETED"]
  BY <1>1, TerminateUnheld DEF NoneHeld
<1>3. Quiet(k, [Deactivate(k, t) EXCEPT !.state[t] = "DELETED"])
  BY <1>1, DeactivateQuiet
<1> QED BY <1>2, <1>3, HeldTerminate

LEMMA CreateQuiet ==
  ASSUME NEW s, NEW H, KernelInv(s, H), NEW t \in Tasks, t \notin s.used, NEW p \in Prio
  PROVE  Quiet(s, TcbAlloc(s, t, p))
<1> DEFINE r == TcbAlloc(s, t, p)
<1>1. SameDelays(s, r) /\ r.tick_count = s.tick_count /\ r.wake_tick = With(s.wake_tick, t, 0)
  BY TcbAllocInv
<1> HIDE DEF r
<1>2. \A x \in Delayed(s) : x # t
  BY DEF KernelInv, KernelCore
<1>3. s.wake_tick \in [Threads -> Ticks] /\ Delayed(s) \subseteq Threads
  <2>1. s \in Kernel /\ H \subseteq Threads
    BY CoreFacts DEF KernelInv
  <2>2. Delayed(s) \subseteq H
    BY DEF KernelInv, KernelCore
  <2> QED BY <2>1, <2>2 DEF Kernel
<1>4. SameTimers(s, r)
  BY <1>1, <1>2, <1>3 DEF SameTimers, With
<1> QED BY <1>4 DEF Quiet, r

\* rtos_task_delay arms the timer of the running task.
LEMMA DelayTimed ==
  ASSUME NEW s, NEW H, KernelInv(s, H), s.current \in H, Timed(s, 1), NEW n \in 1 .. Half - 1
  PROVE  Timed(Delay(s, n), 1) /\ Left(Delay(s, n)) = With(Left(s), s.current, n)
<1> DEFINE t    == s.current
           free == IF s.state[t] = "BLOCKED" THEN Unblock(s, t) ELSE s
           held == [free EXCEPT !.state[t] = "BLOCKED"]
           mid  == [free EXCEPT !.state[t] = "BLOCKED", !.event_list[t] = NoList]
           off  == TaskUnready(mid, t)
           r    == DelayInsert(off, t, n)
           f    == [s.state EXCEPT ![t] = "BLOCKED"]
           D    == Delayed(s) \ {t}
           W    == Waiting(s) \ {t}
<1>1. /\ t \in Threads /\ t # Idle /\ t \in H /\ ListsOK(s) /\ "BLOCKED" \in TaskState
      /\ s.state \in [Threads -> TaskState] /\ KernelCore(s, H) /\ s \in Kernel
  BY CoreFacts DEF KernelInv, TaskState
<1>2. Effect(s, free, Queued(s), D, W, s.state)
  <2>1. CASE s.state[t] = "BLOCKED"
    BY <1>1, <2>1, UnblockEffect
  <2>2. CASE s.state[t] # "BLOCKED"
    <3>1. Delayed(s) = D /\ Waiting(s) = W
      BY <1>1, <2>2 DEF KernelCore
    <3>2. Effect(s, s, Queued(s), Delayed(s), Waiting(s), s.state)
      BY <1>1 DEF Effect, SameRest, SameObjects
    <3> QED BY <2>2, <3>1, <3>2
  <2> QED BY <2>1, <2>2
<1>3. SameTimers(s, free) \/ Untimed(s, free, t)
  <2>1. CASE s.state[t] = "BLOCKED"
    BY <1>1, <2>1, UnblockUntimed
  <2>2. CASE s.state[t] # "BLOCKED"
    <3>1. SameTicks(s, s)
      BY DEF SameTicks, SameDelays
    <3> QED BY <2>2, <3>1, SameTicksQuiet
  <2> QED BY <2>1, <2>2
<1> HIDE DEF free, D, W
<1>4. ListsOK(free) /\ free \in Kernel /\ free.state = s.state /\ Delayed(free) = D
  BY <1>2 DEF Effect, ListsOK
<1>5. mid \in Kernel /\ ListsOK(mid) /\ Delayed(mid) = D /\ SameTicks(free, mid)
  <2>1. free.event_list[t] = NoList
    BY <1>1, <1>2 DEF Effect, Waiting, W
  <2>2. [free.event_list EXCEPT ![t] = NoList] = free.event_list
    BY <1>1, <1>4, <2>1 DEF Kernel
  <2>3. mid = held
    BY <1>4, <2>2 DEF Kernel
  <2>4. Effect(free, held, Queued(free), Delayed(free), Waiting(free),
               [free.state EXCEPT ![t] = "BLOCKED"])
    BY <1>1, <1>4, StateEffect
  <2>5. SameTicks(free, held)
    BY <1>4, StateTicks
  <2> HIDE DEF mid, held
  <2> QED BY <1>4, <2>3, <2>4, <2>5 DEF Effect, ListsOK
<1> HIDE DEF mid, held
<1>6. ListsOK(off) /\ Delayed(off) = D /\ SameTicks(mid, off) /\ off \in Kernel
  <2>1. Effect(mid, off, Queued(mid) \ {t}, Delayed(mid), Waiting(mid), mid.state)
    BY <1>1, <1>5, TaskUnreadyEffect
  <2>2. SameTicks(mid, off) /\ off \in Kernel
    BY <1>1, <1>5, TaskUnreadyFields DEF SameTicks, SameRest, ListsOK
  <2> HIDE DEF off
  <2> QED BY <1>5, <2>1, <2>2 DEF Effect
<1> HIDE DEF off
<1>7. SameTimers(s, off) \/ Untimed(s, off, t)
  BY <1>3, <1>5, <1>6 DEF SameTicks, SameTimers, SameDelays, Untimed
<1>8. Timed(off, 1) /\ (Left(off) = Left(s) \/ Left(off) = With(Left(s), t, -1))
  <2>1. CASE SameTimers(s, off)
    BY <1>1, <2>1, SameTimersKeep
  <2>2. CASE Untimed(s, off, t)
    BY <1>1, <2>2, UntimedKeep
  <2> QED BY <1>7, <2>1, <2>2
<1>9. t \notin Delayed(off)
  BY <1>6 DEF D
<1>10. Timed(r, 1) /\ Left(r) = With(Left(off), t, n)
  BY <1>1, <1>6, <1>8, <1>9, DelayInsertTimed
<1>11. Delay(s, n) = r
  BY DEF Delay, off, mid, free
<1> HIDE DEF r
<1>12. With(Left(off), t, n) = With(Left(s), t, n)
  BY <1>8 DEF With, Left
<1> QED BY <1>10, <1>11, <1>12

-----------------------------------------------------------------------------
\* Every step keeps the timers

\* rtos_task_delay_until found a difference that the signed comparison took for ahead.
UntilInv == \A c \in Tasks : pc[c] = "until" => arg[c] \in 1 .. Half - 1

TimersInv == Timed(k, IF isr = "tick" THEN 0 ELSE 1) /\ UntilInv

\* A step of the abstract timers, or none.
TimerStep == [Sleeping!Next]_(Left(k))

LEMMA QuietTimed ==
  ASSUME IInv, Timed(k, 1), Quiet(k, k')
  PROVE  Timed(k', 1) /\ TimerStep
<1>1. ListsOK(k) /\ k \in Kernel
  BY TypeFacts
<1>2. CASE SameTimers(k, k')
  <2>1. Timed(k', 1) /\ Left(k') = Left(k)
    BY <1>1, <1>2, SameTimersKeep
  <2> QED BY <2>1 DEF TimerStep, Left
<1>3. ASSUME NEW t \in Threads, Untimed(k, k', t)
      PROVE  Timed(k', 1) /\ TimerStep
  <2>1. Timed(k', 1) /\ Left(k') = With(Left(k), t, -1)
    BY <1>1, <1>3, UntimedKeep
  <2> DEFINE v == Left(k)[t]
  <2>2. v = IF t \in ToSet(k.delay_list) THEN k.wake_tick[t] - k.tick_count
            ELSE IF t \in ToSet(k.overflow_list)
            THEN k.wake_tick[t] + TickMod - k.tick_count
            ELSE -1
    BY <1>1, LeftTimed
  <2> HIDE DEF v
  <2>3. v = -1 \/ v > 0
    <3>1. CASE t \in ToSet(k.delay_list)
      <4>1. v \in 1 .. Half - 1
        BY <2>2, <3>1 DEF Timed
      <4> QED BY <4>1, HalfFacts
    <3>2. CASE t \notin ToSet(k.delay_list) /\ t \in ToSet(k.overflow_list)
      <4>1. v \in 1 .. Half - 1
        BY <2>2, <3>2 DEF Timed
      <4> QED BY <4>1, HalfFacts
    <3>3. CASE t \notin ToSet(k.delay_list) /\ t \notin ToSet(k.overflow_list)
      BY <2>2, <3>3
    <3> QED BY <3>1, <3>2, <3>3
  <2>4. CASE v = -1
    <3>1. Left(k') = Left(k)
      BY <2>1, <2>4 DEF v, With, Left
    <3> QED BY <2>1, <3>1 DEF TimerStep, Left
  <2>5. CASE v > 0
    <3>1. Sleeping!Cancel(t)
      BY <2>1, <2>5 DEF Sleeping!Cancel, Sleeping!Off, Left, With, v
    <3> QED BY <2>1, <3>1 DEF TimerStep, Sleeping!Next
  <2> QED BY <2>1, <2>3, <2>4, <2>5
<1> QED BY <1>2, <1>3 DEF Quiet

LEMMA UntilStep ==
  ASSUME IInv, UntilInv, [Next]_vars
  PROVE  UntilInv'
<1>1. /\ pc \in [Threads -> AllLabels] /\ arg \in [Threads -> Locals]
      /\ \A c \in Tasks : c \in Threads /\ ret[c] \in {"run", "dead", "wait"}
      /\ Idle \in Threads /\ handles \subseteq Tasks
  BY TypeFacts DEF IInv, ThreadInv, LocalsInv
<1>2. ASSUME NEW c \in Tasks, Thread(c)
      PROVE  UntilInv'
  <2>1. CASE RtosSched(c) \/ RtosRequestSwitch(c)
    <3>1. PICK l \in {ret[c], "pend"} : pc' = [pc EXCEPT ![c] = l] /\ arg' = arg
      BY <2>1 DEF RtosSched, RtosRequestSwitch, GoTo
    <3> QED BY <1>1, <3>1 DEF UntilInv
  <2>2. CASE Return \/ CallSched(c, "run") \/ CallSched(c, "dead")
    BY <1>1, <2>2 DEF Return, CallSched, threadVars, UntilInv
  <2>3. CASE \/ TaskYield(c) \/ TaskDelay(c) \/ TaskSuspend(c) \/ TaskResume(c)
             \/ TaskAbortDelay(c) \/ TaskSetPriority(c) \/ TaskDeleteSelf(c)
             \/ RtosSchedLock(c) \/ RtosSchedUnlock(c)
    BY <2>2, <2>3 DEF TaskYield, TaskDelay, TaskSuspend, TaskResume, TaskAbortDelay,
       TaskSetPriority, TaskDeleteSelf, RtosSchedLock, RtosSchedUnlock, SchedIf
  <2>4. CASE TaskDelayUntil(c)
    <3>1. PICK prev \in Ticks, n \in Intervals :
            LET next == (prev + n) % TickMod IN
            /\ After(next, k.tick_count)
            /\ arg' = [arg EXCEPT ![c] = (next - k.tick_count) % TickMod]
      BY <2>4 DEF TaskDelayUntil
    <3> DEFINE next == (prev + n) % TickMod
               v    == (next - k.tick_count) % TickMod
    <3>2. /\ TickMod \in Nat \ {0} /\ Half \in Nat /\ prev \in Int /\ n \in Int
          /\ k.tick_count \in 0 .. TickMod - 1 /\ TickMod \div 2 = Half
      BY HalfFacts, CallAssumption, TypeFacts DEF Half, Ticks, Kernel
    <3>3. next \in 0 .. TickMod - 1
      BY <3>2
    <3>4. next # k.tick_count /\ v < Half /\ arg' = [arg EXCEPT ![c] = v]
      BY <3>1, <3>2 DEF After, NotBefore
    <3> HIDE DEF next
    <3>5. v \in 1 .. Half - 1
      <4>1. CASE next > k.tick_count
        <5> DEFINE d == next - k.tick_count
        <5>1. d \in 0 .. TickMod - 1 /\ d \in Int /\ d >= 1
          BY <3>2, <3>3, <4>1
        <5> HIDE DEF d
        <5>2. d % TickMod = d
          BY <3>2, <5>1, Small
        <5>3. v = d
          BY <5>2 DEF d
        <5> HIDE DEF v
        <5> QED BY <3>2, <3>4, <5>1, <5>3
      <4>2. CASE ~(next > k.tick_count)
        <5> DEFINE d == next - k.tick_count
        <5>1. d \in -TickMod .. -1 /\ d \in Int /\ d + TickMod >= 1
          BY <3>2, <3>3, <3>4, <4>2
        <5> HIDE DEF d
        <5>2. d % TickMod = d + TickMod
          BY <3>2, <5>1, Small
        <5>3. v = d + TickMod
          BY <5>2 DEF d
        <5> HIDE DEF v
        <5> QED BY <3>2, <3>4, <5>1, <5>3
      <4> QED BY <4>1, <4>2
    <3> HIDE DEF v
    <3>6. pc' = [pc EXCEPT ![c] = "until"]
      BY <2>4 DEF TaskDelayUntil
    <3> QED BY <1>1, <3>4, <3>5, <3>6 DEF UntilInv
  <2>5. CASE TaskDelayUntilSleep(c)
    BY <1>1, <2>5 DEF TaskDelayUntilSleep, UntilInv
  <2>6. CASE TaskDeleteOther(c)
    BY <1>1, <2>6 DEF TaskDeleteOther, UntilInv
  <2>7. CASE TaskCreate(c) \/ TaskCreateReady(c) \/ TaskCreateReturn(c)
    BY <1>1, <2>7 DEF TaskCreate, TaskCreateReady, TaskCreateReturn, GoTo, UntilInv
  <2> QED BY <1>2, <2>1, <2>3, <2>4, <2>5, <2>6, <2>7 DEF Thread
<1>3. CASE IdleThread
  BY <1>1, <1>3, IdleAssumption DEF IdleThread, IdleReclaim, IdleFree, UntilInv
<1>4. CASE Handler
  BY <1>4 DEF Handler, PendSV, SysTick, SysTickWake, SysTickEnd, threadVars, UntilInv
<1>5. CASE UNCHANGED vars
  BY <1>5 DEF vars, threadVars, UntilInv
<1> QED BY <1>2, <1>3, <1>4, <1>5 DEF Next

\* The tick handler counts the timers down and expires those that have run out.
LEMMA TimedHandler ==
  ASSUME IInv, TimersInv, Handler
  PROVE  Timed(k', IF isr' = "tick" THEN 0 ELSE 1) /\ TimerStep
<1>1. KernelInv(k, handles) /\ ListsOK(k) /\ k \in Kernel
  BY TypeFacts
<1>2. CASE PendSV
  <2>1. isr = "none" /\ isr' = isr /\ k' = SwitchContext(k)
    BY <1>2 DEF PendSV
  <2>2. SameTicks(k, k')
    BY <1>1, <2>1, SwitchContextInv DEF SameTicks, SameLists
  <2>3. Timed(k, 1) /\ Quiet(k, k')
    BY <2>1, <2>2, SameTicksQuiet DEF TimersInv
  <2> QED BY <2>1, <2>3, QuietTimed
<1>3. CASE SysTick
  <2>1. isr = "none" /\ isr' = "tick" /\ k' = TickBegin(k) /\ Timed(k, 1)
    BY <1>3 DEF SysTick, TimersInv
  <2>2. /\ Timed(TickBegin(k), 0)
        /\ \A t \in Threads : Left(k)[t] # 0
        /\ Left(TickBegin(k)) = [t \in Threads |-> IF Left(k)[t] = -1 THEN -1 ELSE Left(k)[t] - 1]
    BY <1>1, <2>1, TickBeginTimed
  <2>3. Sleeping!Tick
    BY <2>1, <2>2 DEF Sleeping!Tick, Sleeping!Off, Left
  <2> QED BY <2>1, <2>2, <2>3 DEF TimerStep, Sleeping!Next
<1>4. CASE SysTickWake
  <2>1. isr = "tick" /\ isr' = isr /\ k' = TickWake(k) /\ Timed(k, 0) /\ HeadExpired(k)
    BY <1>4 DEF SysTickWake, TimersInv
  <2>2. PICK t \in Threads : /\ Left(k)[t] = 0 /\ Timed(TickWake(k), 0)
                             /\ Left(TickWake(k)) = With(Left(k), t, -1)
    BY <1>1, <2>1, TickWakeTimed
  <2>3. Sleeping!Expire(t)
    BY <2>1, <2>2 DEF Sleeping!Expire, Sleeping!Off, Left, With
  <2>4. Sleeping!Next
    BY <2>2, <2>3 DEF Sleeping!Next
  <2> QED BY <2>1, <2>2, <2>4 DEF TimerStep
<1>5. CASE SysTickEnd
  <2>1. isr = "tick" /\ isr' = "none" /\ k' = TickEnd(k) /\ Timed(k, 0) /\ ~HeadExpired(k)
    BY <1>5 DEF SysTickEnd, TimersInv
  <2>2. SliceOnly(k, TickEnd(k))
    BY <1>1, TickEndInv
  <2>3. SameTicks(k, k')
    BY <2>1, <2>2 DEF SameTicks, SliceOnly
  <2>4. Timed(k, 1) /\ Quiet(k, k')
    BY <1>1, <2>1, <2>3, TickEndTimed, SameTicksQuiet
  <2> QED BY <2>1, <2>4, QuietTimed
<1> QED BY <1>2, <1>3, <1>4, <1>5 DEF Handler

\* rtos_task_delay and rtos_task_delay_until arm the timer of the caller.
LEMMA TimedDelay ==
  ASSUME IInv, Timed(k, 1), UntilInv, NEW c \in Tasks, TaskDelay(c) \/ TaskDelayUntilSleep(c)
  PROVE  Timed(k', 1) /\ TimerStep
<1>1. PICK n \in 1 .. Half - 1 : k' = Delay(k, n)
  <2>1. CASE TaskDelay(c)
    <3>1. PICK n \in DelayTicks \ {0} : k' = Delay(k, n)
      BY <2>1 DEF TaskDelay
    <3>2. n \in Nat /\ n # 0 /\ n < Half /\ Half \in Nat
      BY CallAssumption, DelayAssumption, HalfFacts DEF Half
    <3>3. n \in 1 .. Half - 1
      BY <3>2
    <3> QED BY <3>1, <3>3
  <2>2. CASE TaskDelayUntilSleep(c)
    BY <2>2 DEF TaskDelayUntilSleep, At, UntilInv
  <2> QED BY <2>1, <2>2
<1>2. At(c, "run") \/ At(c, "until")
  BY DEF TaskDelay, TaskDelayUntilSleep, Calling
<1>3. k.current \in handles /\ k.current = c /\ c \in Threads
  BY <1>2, CallerLives DEF Running
<1>4. KernelInv(k, handles)
  BY TypeFacts
<1>5. Timed(k', 1) /\ Left(k') = With(Left(k), c, n)
  BY <1>1, <1>3, <1>4, DelayTimed
<1>6. Left(k)[c] # 0
  BY <1>3, <1>4, TickBeginTimed, TypeFacts
<1>7. Sleeping!Arm(c)
  BY <1>5, <1>6 DEF Sleeping!Arm, Left, With, Half
<1> QED BY <1>3, <1>5, <1>7 DEF TimerStep, Sleeping!Next

\* The other calls leave the timers alone or cancel one.
LEMMA QuietCalls ==
  ASSUME IInv, YieldsReady, NoneHeld(k), NEW c \in Tasks, Thread(c),
         ~TaskDelay(c), ~TaskDelayUntilSleep(c)
  PROVE  Quiet(k, k')
<1>1. KernelInv(k, handles) /\ KernelCore(k, handles) /\ ListsOK(k) /\ k \in Kernel
  BY TypeFacts
<1>2. CASE RtosSched(c) \/ RtosRequestSwitch(c) \/ RtosSchedLock(c) \/ RtosSchedUnlock(c)
  <2>1. ASSUME RtosSched(c) PROVE SameTicks(k, k')
    BY <1>1, <2>1 DEF RtosSched, SchedCheck, Kernel, SameTicks, SameDelays
  <2>2. ASSUME RtosRequestSwitch(c) PROVE SameTicks(k, k')
    BY <1>1, <2>2 DEF RtosRequestSwitch, RequestSwitch, Kernel, SameTicks, SameDelays
  <2>3. ASSUME RtosSchedLock(c) PROVE SameTicks(k, k')
    BY <1>1, <2>3 DEF RtosSchedLock, Kernel, SameTicks, SameDelays
  <2>4. ASSUME RtosSchedUnlock(c) PROVE SameTicks(k, k')
    <3>1. \/ k' = [k EXCEPT !.sched_lock = 0, !.need_resched = FALSE]
          \/ k' = [k EXCEPT !.sched_lock = @ - 1]
      BY <2>4 DEF RtosSchedUnlock, SchedUnlock
    <3> QED BY <1>1, <3>1 DEF Kernel, SameTicks, SameDelays
  <2>5. SameTicks(k, k')
    BY <1>2, <2>1, <2>2, <2>3, <2>4
  <2> QED BY <2>5, SameTicksQuiet
<1>3. CASE TaskYield(c)
  <2>1. k' = Yield(k)
    BY <1>3 DEF TaskYield
  <2>2. SameTicks(k, k')
    BY <1>1, <2>1 DEF Yield, RotateToTail, Kernel, SameTicks, SameDelays
  <2> QED BY <2>2, SameTicksQuiet
<1>4. CASE TaskDelayUntil(c) \/ TaskCreateReturn(c)
  BY <1>4, SameTicksQuiet DEF TaskDelayUntil, TaskCreateReturn, SameTicks, SameDelays
<1>5. CASE TaskSuspend(c)
  BY <1>1, <1>5, SuspendQuiet DEF TaskSuspend
<1>6. CASE TaskResume(c) \/ TaskCreateReady(c)
  <2>1. PICK t \in Threads : k' = TaskReady(k, t)
    <3>1. CASE TaskResume(c)
      BY <3>1, TypeFacts DEF TaskResume
    <3>2. CASE TaskCreateReady(c)
      <4>1. arg[c] \in Threads
        BY <3>2, TypeFacts DEF TaskCreateReady, At, IInv, ThreadInv, SlotsInv
      <4> QED BY <3>2, <4>1 DEF TaskCreateReady
    <3> QED BY <1>6, <3>1, <3>2
  <2> QED BY <1>1, <2>1, TaskReadyTicks, SameTicksQuiet
<1>7. CASE TaskAbortDelay(c)
  <2>1. PICK t \in handles : k' = AbortDelay(k, t)
    BY <1>7 DEF TaskAbortDelay
  <2>2. t \in Threads
    BY TypeFacts
  <2> QED BY <1>1, <2>1, <2>2, AbortQuiet
<1>8. CASE TaskSetPriority(c)
  <2>1. PICK t \in handles, p \in SetPrios : k' = SetPriority(k, t, p)
    BY <1>8 DEF TaskSetPriority
  <2>2. p \in Prio
    BY CallAssumption
  <2> QED BY <1>1, <2>1, <2>2, SetPriorityTicks, SameTicksQuiet
<1>9. CASE TaskDeleteOther(c)
  <2>1. PICK t \in handles : k' = DeleteOther(k, t)
    BY <1>9 DEF TaskDeleteOther
  <2> DEFINE d == Terminate(k, t)
             r == [d EXCEPT !.used = @ \ {t}]
  <2>2. d \in Kernel /\ Quiet(k, d)
    BY TerminateQuiet
  <2>3. k' = r
    BY <2>1 DEF DeleteOther
  <2> HIDE DEF d
  <2>4. SameTicks(d, r)
    BY <2>2 DEF Kernel, SameTicks, SameDelays
  <2> QED BY <2>2, <2>3, <2>4, QuietThen
<1>10. CASE TaskDeleteSelf(c)
  <2>1. k' = DeleteSelf(k) /\ c = k.current /\ At(c, "run")
    BY <1>10 DEF TaskDeleteSelf, Calling, At
  <2>2. c \in handles
    BY <2>1, CallerLives DEF Running
  <2> DEFINE d == Terminate(k, c)
             e == [d EXCEPT !.terminated_list = Append(@, c), !.sched_lock = 0]
  <2>3. d \in Kernel /\ Quiet(k, d)
    BY <2>2, TerminateQuiet
  <2>4. k' = IF k.sched_lock > 0 THEN RequestSwitch([e EXCEPT !.need_resched = FALSE])
                                 ELSE [e EXCEPT !.need_resched = TRUE]
    BY <2>1 DEF DeleteSelf
  <2> HIDE DEF d
  <2>5. SameTicks(d, e) /\ DOMAIN e = DOMAIN d
    BY <2>3 DEF Kernel, SameTicks, SameDelays
  <2>6. {"delay_list", "overflow_list", "tick_count", "wake_tick"} \subseteq DOMAIN d
    BY <2>3 DEF Kernel
  <2> HIDE DEF e
  <2>7. SameTicks(e, k')
    BY <2>4, <2>5, <2>6 DEF RequestSwitch, SameTicks, SameDelays
  <2>8. SameTicks(d, k')
    BY <2>5, <2>7 DEF SameTicks, SameDelays
  <2> QED BY <2>3, <2>8, QuietThen
<1>11. CASE TaskCreate(c)
  <2>1. PICK t \in Tasks \ k.used, p \in CreatePrios : k' = TcbAlloc(k, t, p)
    BY <1>11 DEF TaskCreate
  <2>2. t \in Tasks /\ t \notin k.used /\ p \in Prio
    BY <2>1, CallAssumption
  <2> QED BY <1>1, <2>1, <2>2, CreateQuiet
<1> QED BY <1>2, <1>3, <1>4, <1>5, <1>6, <1>7, <1>8, <1>9, <1>10, <1>11 DEF Thread

LEMMA TimersStep ==
  ASSUME IInv, YieldsReady, NoneHeld(k), TimersInv, [Next]_vars
  PROVE  TimersInv' /\ TimerStep
<1>1. UntilInv'
  BY UntilStep DEF TimersInv
<1>2. k \in Kernel
  BY TypeFacts
<1>3. CASE Handler
  BY <1>1, <1>3, TimedHandler DEF TimersInv
<1>4. CASE IdleThread
  <2>1. isr = "none" /\ isr' = isr
    BY <1>4 DEF IdleThread, IdleReclaim, IdleFree, At
  <2>2. SameTicks(k, k')
    BY <1>2, <1>4 DEF IdleThread, IdleReclaim, IdleFree, Kernel, SameTicks, SameDelays
  <2>3. Timed(k', 1) /\ TimerStep
    BY <2>1, <2>2, SameTicksQuiet, QuietTimed DEF TimersInv
  <2> QED BY <1>1, <2>1, <2>3 DEF TimersInv
<1>5. ASSUME NEW c \in Tasks, Thread(c) PROVE TimersInv' /\ TimerStep
  <2>1. isr = "none" /\ isr' = isr
    BY <1>5 DEF Thread, RtosSched, RtosRequestSwitch, TaskYield, TaskDelay, TaskDelayUntil,
       TaskDelayUntilSleep, TaskSuspend, TaskResume, TaskAbortDelay, TaskSetPriority,
       TaskDeleteOther, TaskDeleteSelf, RtosSchedLock, RtosSchedUnlock, TaskCreate,
       TaskCreateReady, TaskCreateReturn, Calling, At, Return, CallSched, SchedIf, GoTo
  <2>2. Timed(k, 1) /\ UntilInv
    BY <2>1 DEF TimersInv
  <2>3. Timed(k', 1) /\ TimerStep
    <3>1. CASE TaskDelay(c) \/ TaskDelayUntilSleep(c)
      BY <2>2, <3>1, TimedDelay
    <3>2. CASE ~TaskDelay(c) /\ ~TaskDelayUntilSleep(c)
      BY <1>5, <2>2, <3>2, QuietCalls, QuietTimed
    <3> QED BY <3>1, <3>2
  <2> QED BY <1>1, <2>1, <2>3 DEF TimersInv
<1>6. CASE UNCHANGED vars
  <2>1. k' = k /\ isr' = isr
    BY <1>6 DEF vars
  <2> QED BY <1>1, <2>1 DEF TimersInv, TimerStep, Left
<1> QED BY <1>3, <1>4, <1>5, <1>6 DEF Next

LEMMA TimersInit ==
  ASSUME Init
  PROVE  TimersInv /\ Left(k) = [t \in Threads |-> -1]
<1>1. k.delay_list = <<>> /\ k.overflow_list = <<>> /\ isr = "none"
  BY DEF Init, InitKernel, InitThreads
<1>2. Timed(k, 1) /\ Left(k) = [t \in Threads |-> -1]
  BY <1>1, EmptyDistinct DEF Timed, Left, OnDelayList, Ordered
<1>3. UntilInv
  BY DEF Init, InitThreads, UntilInv, Threads
<1> QED BY <1>1, <1>2, <1>3 DEF TimersInv

TimersAll == IInv /\ NoneHeld(k) /\ TimersInv

LEMMA TimersAllInit == Init => TimersAll
<1> SUFFICES ASSUME Init PROVE TimersAll
  OBVIOUS
<1>1. NoneHeld(k)
  BY DEF Init, InitKernel, NoneHeld
<1>2. IInv
  BY InitInv DEF Init
<1>3. TimersInv
  BY TimersInit
<1> QED BY <1>1, <1>2, <1>3 DEF TimersAll

LEMMA TimersAllStep == YieldsReady /\ TimersAll /\ [Next]_vars => TimersAll' /\ TimerStep
<1> SUFFICES ASSUME YieldsReady, TimersAll, [Next]_vars PROVE TimersAll' /\ TimerStep
  OBVIOUS
<1>1. IInv'
  BY NextInv DEF TimersAll
<1>2. NoneHeld(k)'
  BY NoneHeldStep DEF TimersAll, NoneHeld
<1>3. TimersInv' /\ TimerStep
  BY TimersStep DEF TimersAll
<1> QED BY <1>1, <1>2, <1>3 DEF TimersAll

\* The wrap of tick_count does no harm: both delay lists are sorted as plain integers,
\* the active one lies ahead of tick_count and the other one behind it.
THEOREM WindowsCorrect == YieldsReady /\ Spec => []DelayWindows
<1> SUFFICES ASSUME YieldsReady PROVE Spec => []DelayWindows
  OBVIOUS
<1>1. TimersAll /\ [Next]_vars => TimersAll'
  BY TimersAllStep
<1>2. TimersAll => DelayWindows
  <2> SUFFICES ASSUME TimersAll PROVE DelayWindows
    OBVIOUS
  <2>1. k \in Kernel /\ isr \in {"none", "tick"}
    BY TypeFacts DEF TimersAll, IInv, ThreadInv, ThreadTypes
  <2> DEFINE n == IF isr = "tick" THEN 0 ELSE 1
  <2>2. Timed(k, n) /\ n \in {0, 1} /\ (n = 0 => isr = "tick")
    BY DEF TimersAll, TimersInv
  <2> HIDE DEF n
  <2>3. ASSUME NEW l \in {k.delay_list, k.overflow_list} PROVE Ascending(l)
    <3>1. Ordered(l, Sooner(k))
      BY <2>2 DEF Timed
    <3> QED BY <3>1 DEF Ordered, Sooner, Ascending
  <2>4. ASSUME NEW t \in ToSet(k.delay_list)
        PROVE  \/ k.wake_tick[t] > k.tick_count
               \/ k.wake_tick[t] = k.tick_count /\ isr = "tick"
    <3>1. k.wake_tick[t] - k.tick_count \in n .. Half - 1
      BY <2>2 DEF Timed
    <3>2. /\ k.wake_tick[t] \in 0 .. TickMod - 1 /\ k.tick_count \in 0 .. TickMod - 1
          /\ TickMod \in Nat /\ Half \in Nat
      BY <2>1, TickFacts, HalfFacts
    <3> QED BY <2>2, <3>1, <3>2
  <2>5. ASSUME NEW t \in ToSet(k.overflow_list) PROVE k.wake_tick[t] < k.tick_count
    <3>1. k.wake_tick[t] + TickMod - k.tick_count \in 1 .. Half - 1
      BY <2>2 DEF Timed
    <3>2. /\ k.wake_tick[t] \in 0 .. TickMod - 1 /\ k.tick_count \in 0 .. TickMod - 1
          /\ TickMod \in Nat /\ Half \in Nat /\ TickMod = Half + Half
      BY <2>1, TickFacts, HalfFacts
    <3> QED BY <3>1, <3>2
  <2> QED BY <2>3, <2>4, <2>5 DEF DelayWindows
<1> QED BY <1>1, <1>2, TimersAllInit, PTL DEF Spec

\* The two delay lists implement the timers of module Timers: a task that asks for n
\* ticks is woken by the n-th tick that follows, whatever the counter does, unless it
\* is taken off the list before.
THEOREM DelaysCorrect == YieldsReady /\ Spec => DelaysAreExact
<1> SUFFICES ASSUME YieldsReady PROVE Spec => DelaysAreExact
  OBVIOUS
<1>1. Init => Sleeping!Init
  BY TimersInit DEF Sleeping!Init, Sleeping!Off, Left
<1>2. TimersAll /\ [Next]_vars => TimersAll'
  BY TimersAllStep
<1>3. TimersAll /\ [Next]_vars => [Sleeping!Next]_([t \in Threads |-> IF OnDelayList(k, t)
                                THEN (k.wake_tick[t] - k.tick_count) % TickMod
                                ELSE -1])
  BY TimersAllStep DEF TimerStep, Left
<1> QED BY <1>1, <1>2, <1>3, TimersAllInit, PTL DEF Spec, DelaysAreExact, Sleeping!Spec

-----------------------------------------------------------------------------
\* Who waits after a critical section

\* t is on no event list any more.
Leaves(s, r, t) ==
  /\ r.event_list = With(s.event_list, t, NoList)
  /\ \A e \in EventLists : r.waiting[e] = Unlink(s.waiting[e], t)

\* Nobody joins an event list, and a task that stays on one keeps its timeout; nobody
\* but those of X starts a delay.  The order of each list is kept.
Eases(s, r, X) ==
  /\ \A u \in Threads : r.event_list[u] # NoList =>
       r.event_list[u] = s.event_list[u] /\ (u \in Delayed(s) => u \in Delayed(r))
  /\ \A u \in Threads \ X : u \in Delayed(r) =>
       u \in Delayed(s) /\ (r.event_list[u] = NoList => s.event_list[u] = NoList)
  /\ \A e \in EventLists : \A R : Ordered(s.waiting[e], R) => Ordered(r.waiting[e], R)

\* A task that does not wait keeps the reason of its last wake-up.
SameReasons(s, r) ==
  \A u \in s.used : u \notin Waiting(s) \cup Delayed(s) =>
                      r.wakeup_reason[u] = s.wakeup_reason[u]

LEMMA SameWaitsEases ==
  ASSUME NEW s, NEW r, SameWaits(s, r)
  PROVE  Eases(s, r, {}) /\ SameReasons(s, r)
BY DEF SameWaits, SameEvents, Eases, SameReasons

LEMMA EasesThen ==
  ASSUME NEW s, NEW m, NEW X, Eases(s, m, X), SameReasons(s, m), NEW r, SameWaits(m, r)
  PROVE  Eases(s, r, X) /\ SameReasons(s, r)
<1>1. /\ r.waiting = m.waiting /\ r.event_list = m.event_list
      /\ Delayed(r) = Delayed(m) /\ r.wakeup_reason = m.wakeup_reason
  BY DEF SameWaits, SameEvents
<1>2. Eases(s, r, X)
  BY <1>1 DEF Eases
<1> QED BY <1>1, <1>2 DEF SameReasons

LEMMA EasesTrans ==
  ASSUME NEW s, NEW m, Eases(s, m, {}), SameReasons(s, m), s.used \subseteq m.used,
         s.used \subseteq Threads,
         NEW r, Eases(m, r, {}), SameReasons(m, r)
  PROVE  Eases(s, r, {}) /\ SameReasons(s, r)
<1>1. Eases(s, r, {})
  <2>1. ASSUME NEW u \in Threads, r.event_list[u] # NoList
        PROVE  r.event_list[u] = s.event_list[u] /\ (u \in Delayed(s) => u \in Delayed(r))
    BY <2>1 DEF Eases
  <2>2. ASSUME NEW u \in Threads, u \in Delayed(r)
        PROVE  u \in Delayed(s) /\ (r.event_list[u] = NoList => s.event_list[u] = NoList)
    BY <2>2 DEF Eases
  <2>3. ASSUME NEW e \in EventLists, NEW R, Ordered(s.waiting[e], R)
        PROVE  Ordered(r.waiting[e], R)
    BY <2>3 DEF Eases
  <2> QED BY <2>1, <2>2, <2>3 DEF Eases
<1>2. SameReasons(s, r)
  <2>1. ASSUME NEW u \in s.used, u \notin Waiting(s) \cup Delayed(s)
        PROVE  r.wakeup_reason[u] = s.wakeup_reason[u]
    <3>1. u \in Threads /\ u \in m.used /\ m.wakeup_reason[u] = s.wakeup_reason[u]
      BY <2>1 DEF SameReasons
    <3>2. u \notin Waiting(m) /\ u \notin Delayed(m)
      BY <2>1, <3>1 DEF Eases, Waiting
    <3> QED BY <3>1, <3>2 DEF SameReasons
  <2> QED BY <2>1 DEF SameReasons
<1> QED BY <1>1, <1>2

\* A task that is on no list has left them all.
LEMMA AwayLeaves ==
  ASSUME NEW s, ListsOK(s), NEW t \in Threads, t \notin Waiting(s)
  PROVE  Leaves(s, s, t)
<1>1. /\ s.event_list \in [Threads -> EventLists \cup {NoList}] /\ EventsOK(s)
      /\ s.waiting \in [EventLists -> Seq(Threads)] /\ s.event_list[t] = NoList
  BY DEF ListsOK, Kernel, Waiting
<1>2. s.event_list = With(s.event_list, t, NoList)
  BY <1>1 DEF With
<1>3. ASSUME NEW e \in EventLists PROVE s.waiting[e] = Unlink(s.waiting[e], t)
  <2>1. t \notin ToSet(s.waiting[e])
    BY <1>1, NoListIsNone DEF EventsOK
  <2> QED BY <1>1, <2>1, UnlinkAbsent
<1> QED BY <1>2, <1>3 DEF Leaves

LEMMA LeavesThen ==
  ASSUME NEW s, NEW m, NEW t, Leaves(s, m, t), NEW r, SameEvents(m, r)
  PROVE  Leaves(s, r, t)
BY DEF Leaves, SameEvents

\* A task that leaves its event list disturbs no other.
LEMMA LeavesEases ==
  ASSUME NEW s, ListsOK(s), NEW t \in Threads, NEW r, Leaves(s, r, t),
         Delayed(r) \ {t} = Delayed(s) \ {t}
  PROVE  Eases(s, r, {t}) /\ (t \notin Delayed(r) => Eases(s, r, {}))
<1>1. /\ s.event_list \in [Threads -> EventLists \cup {NoList}] /\ EventsOK(s)
      /\ s.waiting \in [EventLists -> Seq(Threads)]
  BY DEF ListsOK, Kernel
<1>2. r.event_list[t] = NoList /\ \A u \in Threads \ {t} : r.event_list[u] = s.event_list[u]
  BY <1>1 DEF Leaves, With
<1>3. ASSUME NEW u \in Threads, r.event_list[u] # NoList
      PROVE  r.event_list[u] = s.event_list[u] /\ (u \in Delayed(s) => u \in Delayed(r))
  BY <1>2, <1>3
<1>4. ASSUME NEW u \in Threads \ {t}, u \in Delayed(r)
      PROVE  u \in Delayed(s) /\ (r.event_list[u] = NoList => s.event_list[u] = NoList)
  BY <1>2, <1>4
<1>5. ASSUME NEW e \in EventLists, NEW R, Ordered(s.waiting[e], R)
      PROVE  Ordered(r.waiting[e], R)
  <2>1. s.waiting[e] \in Seq(Threads) /\ Distinct(s.waiting[e])
    BY <1>1 DEF EventsOK
  <2>2. Ordered(Unlink(s.waiting[e], t), R)
    BY <1>5, <2>1, UnlinkOrdered
  <2> QED BY <2>2 DEF Leaves
<1>6. Eases(s, r, {t})
  BY <1>3, <1>4, <1>5 DEF Eases
<1>7. ASSUME t \notin Delayed(r) PROVE Eases(s, r, {})
  <2>1. ASSUME NEW u \in Threads, u \in Delayed(r)
        PROVE  u \in Delayed(s) /\ (r.event_list[u] = NoList => s.event_list[u] = NoList)
    BY <1>4, <1>7, <2>1
  <2> QED BY <1>3, <1>5, <2>1 DEF Eases
<1> QED BY <1>6, <1>7

\* The task that was waiting or sleeping gets a new reason, the others keep theirs.
LEMMA OneReason ==
  ASSUME NEW s \in Kernel, NEW t \in Threads, t \in Waiting(s) \cup Delayed(s), NEW v, NEW r,
         r.wakeup_reason = With(s.wakeup_reason, t, v)
  PROVE  SameReasons(s, r)
BY DEF SameReasons, With, Kernel, Threads

-----------------------------------------------------------------------------
\* Where a call that blocked goes on

\* A thread that comes back from rtos_sched into a call of queue.h, or mutex.h, is one
\* that the application has a handle of.
WaitShape ==
  \A t \in Threads :
    /\ ret[t] = "wait" => t \in handles /\ pc[t] \in {"sched", "pend", "wait"}
    /\ pc[t] = "wait" => ret[t] = "wait"

\* It did not block with the scheduler locked.
LockWaits == k.sched_lock > 0 => ret[k.current] # "wait"

\* The calls of task.h block on no queue, and end the wait of a task they delete.
StillWaits ==
  \A t \in Threads : /\ ret'[t] = "wait" <=> ret[t] = "wait" /\ pc'[t] # "dead"
                     /\ ret[t] = "wait" /\ pc'[t] = "dead" => t \notin handles'

LEMMA WaitsStay ==
  ASSUME WaitShape, NEW c \in Threads, pc[c] \notin {"sched", "pend", "wait"},
         pc'[c] # "wait", ret'[c] # "wait",
         \A t \in Threads \ {c} : pc'[t] = pc[t] /\ ret'[t] = ret[t],
         handles \subseteq handles' \cup {c}
  PROVE  WaitShape' /\ StillWaits
<1>1. ret[c] # "wait"
  BY DEF WaitShape
<1>2. WaitShape'
  BY <1>1 DEF WaitShape
<1>3. StillWaits
  <2>1. ASSUME NEW t \in Threads
        PROVE  /\ ret'[t] = "wait" <=> ret[t] = "wait" /\ pc'[t] # "dead"
               /\ ret[t] = "wait" /\ pc'[t] = "dead" => t \notin handles'
    <3>1. CASE t = c
      BY <1>1, <3>1
    <3>2. CASE t # c
      BY <3>2 DEF WaitShape
    <3> QED BY <3>1, <3>2
  <2> QED BY <2>1 DEF StillWaits
<1> QED BY <1>2, <1>3

\* The calls that change the place of the caller only.
LEMMA WaitsCalls ==
  ASSUME IInv, WaitShape, NEW c \in Tasks,
         \/ TaskYield(c) \/ TaskDelay(c) \/ TaskDelayUntil(c) \/ TaskDelayUntilSleep(c)
         \/ TaskSuspend(c) \/ TaskResume(c) \/ TaskAbortDelay(c) \/ TaskSetPriority(c)
         \/ TaskDeleteSelf(c) \/ RtosSchedLock(c) \/ RtosSchedUnlock(c)
         \/ TaskCreateReady(c) \/ TaskCreateReturn(c)
  PROVE  WaitShape' /\ StillWaits
<1>1. /\ pc \in [Threads -> AllLabels] /\ ret \in [Threads -> AllLabels] /\ c \in Threads
  BY TypeFacts
<1>2. pc[c] \in {"run", "until", "create", "created"}
  BY DEF TaskYield, TaskDelay, TaskDelayUntil, TaskDelayUntilSleep, TaskSuspend, TaskResume,
         TaskAbortDelay, TaskSetPriority, TaskDeleteSelf, RtosSchedLock, RtosSchedUnlock,
         TaskCreateReady, TaskCreateReturn, Calling, At
<1>3. ret[c] # "wait"
  BY <1>1, <1>2 DEF WaitShape
<1>4. handles \subseteq handles' \cup {c}
  BY DEF TaskYield, TaskDelay, TaskDelayUntil, TaskDelayUntilSleep, TaskSuspend, TaskResume,
         TaskAbortDelay, TaskSetPriority, TaskDeleteSelf, RtosSchedLock, RtosSchedUnlock,
         TaskCreateReady, TaskCreateReturn
<1>5. \/ pc' = pc /\ ret' = ret
      \/ \E l \in {"until", "sched", "created", "run"}, m \in {ret[c], "run", "dead"} :
           pc' = [pc EXCEPT ![c] = l] /\ ret' = [ret EXCEPT ![c] = m]
  <2>1. ret = [ret EXCEPT ![c] = ret[c]]
    BY <1>1
  <2>2. CASE TaskYield(c) \/ TaskDelay(c) \/ TaskAbortDelay(c) \/ TaskSetPriority(c)
             \/ TaskDeleteSelf(c)
    BY <2>2 DEF TaskYield, TaskDelay, TaskAbortDelay, TaskSetPriority, TaskDeleteSelf, CallSched
  <2>3. CASE TaskSuspend(c) \/ TaskResume(c) \/ RtosSchedLock(c) \/ RtosSchedUnlock(c)
    BY <2>3 DEF TaskSuspend, TaskResume, RtosSchedLock, RtosSchedUnlock, SchedIf, CallSched,
                Return, threadVars
  <2>4. CASE TaskDelayUntil(c) \/ TaskDelayUntilSleep(c) \/ TaskCreateReady(c)
    BY <2>1, <2>4 DEF TaskDelayUntil, TaskDelayUntilSleep, TaskCreateReady, GoTo
  <2>5. CASE TaskCreateReturn(c)
    <3>1. /\ ret' = ret
          /\ \/ pc' = [pc EXCEPT ![c] = "sched"]
             \/ pc' = [pc EXCEPT ![c] = "run"]
      BY <2>5 DEF TaskCreateReturn
    <3> QED BY <2>1, <3>1
  <2> QED BY <2>2, <2>3, <2>4, <2>5
<1>6. /\ pc'[c] # "wait" /\ ret'[c] # "wait"
      /\ \A t \in Threads \ {c} : pc'[t] = pc[t] /\ ret'[t] = ret[t]
  BY <1>1, <1>2, <1>3, <1>5
<1> QED BY <1>1, <1>2, <1>4, <1>6, WaitsStay

LEMMA WaitsStep ==
  ASSUME IInv, WaitShape, [Next]_vars
  PROVE  WaitShape' /\ StillWaits
<1>1. /\ pc \in [Threads -> AllLabels] /\ ret \in [Threads -> AllLabels]
      /\ Idle \in Threads /\ \A t \in Tasks : t \in Threads
  BY TypeFacts
<1>2. CASE pc' = pc /\ ret' = ret /\ handles' = handles
  BY <1>2 DEF WaitShape, StillWaits
<1>3. CASE Handler \/ UNCHANGED vars
  <2>1. pc' = pc /\ ret' = ret /\ handles' = handles
    BY <1>3 DEF Handler, PendSV, SysTick, SysTickWake, SysTickEnd, threadVars, vars
  <2> QED BY <1>2, <2>1
<1>4. CASE IdleThread
  <2>1. /\ pc[Idle] \in {"run", "free"} /\ ret' = ret /\ handles' = handles
        /\ \E l \in {"run", "free"} : pc' = [pc EXCEPT ![Idle] = l]
    BY <1>4 DEF IdleThread, IdleReclaim, IdleFree, At
  <2>2. ret[Idle] # "wait"
    BY <1>1, <2>1 DEF WaitShape
  <2>3. /\ pc'[Idle] # "wait" /\ \A t \in Threads \ {Idle} : pc'[t] = pc[t]
    BY <1>1, <2>1
  <2> QED BY <1>1, <2>1, <2>2, <2>3, WaitsStay
<1>5. ASSUME NEW c \in Tasks, Thread(c) PROVE WaitShape' /\ StillWaits
  <2>1. CASE RtosSched(c) \/ RtosRequestSwitch(c)
    <3>1. /\ pc[c] \in {"sched", "pend"} /\ ret' = ret /\ handles' = handles
          /\ \E l \in {ret[c], "pend"} : pc' = [pc EXCEPT ![c] = l]
      BY <2>1 DEF RtosSched, RtosRequestSwitch, At, GoTo
    <3>2. /\ pc'[c] \in {ret[c], "pend"} /\ \A t \in Threads \ {c} : pc'[t] = pc[t]
      BY <1>1, <3>1
    <3>3. ret[c] \in {"run", "dead", "wait"} /\ c \in Threads
      BY <1>1 DEF IInv, ThreadInv, LocalsInv
    <3>4. WaitShape'
      BY <3>1, <3>2, <3>3 DEF WaitShape
    <3>5. ASSUME NEW t \in Threads PROVE ret[t] = "wait" => pc'[t] # "dead"
      <4>1. CASE t = c
        BY <3>2, <4>1
      <4>2. CASE t # c
        BY <3>2, <4>2 DEF WaitShape
      <4> QED BY <4>1, <4>2
    <3> QED BY <3>1, <3>4, <3>5 DEF StillWaits
  <2>2. CASE TaskDeleteOther(c)
    <3>1. PICK t \in handles : /\ handles' = handles \ {t}
                               /\ pc' = [pc EXCEPT ![t] = "dead"]
                               /\ ret' = [ret EXCEPT ![t] = "run"]
      BY <2>2 DEF TaskDeleteOther
    <3>2. t \in Threads
      BY TypeFacts
    <3>3. /\ pc'[t] = "dead" /\ ret'[t] = "run"
          /\ \A u \in Threads \ {t} : pc'[u] = pc[u] /\ ret'[u] = ret[u]
      BY <1>1, <3>1, <3>2
    <3>4. WaitShape'
      BY <3>1, <3>3 DEF WaitShape
    <3>5. StillWaits
      BY <3>1, <3>3 DEF WaitShape, StillWaits
    <3> QED BY <3>4, <3>5
  <2>3. CASE TaskCreate(c)
    <3>1. PICK t \in Tasks \ k.used : /\ pc' = [pc EXCEPT ![c] = "create", ![t] = "run"]
                                      /\ ret' = [ret EXCEPT ![t] = "run"]
      BY <2>3 DEF TaskCreate
    <3>2. /\ handles' = handles /\ At(c, "run") /\ pc[c] = "run"
      BY <2>3 DEF TaskCreate, Calling, At
    <3>3. t \in Threads /\ c \in Threads /\ t \notin handles /\ c \in handles
      BY <1>1, <3>2, TypeFacts, CallerLives DEF Running
    <3>4. /\ pc'[c] = "create" /\ pc'[t] = "run" /\ ret'[t] = "run" /\ ret'[c] = ret[c]
          /\ \A u \in Threads \ {t, c} : pc'[u] = pc[u] /\ ret'[u] = ret[u]
      BY <1>1, <3>1, <3>3
    <3>5. ret[c] # "wait" /\ ret[t] # "wait"
      BY <3>2, <3>3 DEF WaitShape
    <3>6. WaitShape'
      BY <3>2, <3>4, <3>5 DEF WaitShape
    <3>7. StillWaits
      BY <3>4, <3>5 DEF WaitShape, StillWaits
    <3> QED BY <3>6, <3>7
  <2>4. CASE \/ TaskYield(c) \/ TaskDelay(c) \/ TaskDelayUntil(c) \/ TaskDelayUntilSleep(c)
             \/ TaskSuspend(c) \/ TaskResume(c) \/ TaskAbortDelay(c) \/ TaskSetPriority(c)
             \/ TaskDeleteSelf(c) \/ RtosSchedLock(c) \/ RtosSchedUnlock(c)
             \/ TaskCreateReady(c) \/ TaskCreateReturn(c)
    BY <2>4, WaitsCalls
  <2> QED BY <1>5, <2>1, <2>2, <2>3, <2>4 DEF Thread
<1> QED BY <1>3, <1>4, <1>5 DEF Next

\* Only rtos_sched_lock takes the lock.
LEMMA LockFree ==
  ASSUME IInv, YieldsReady, k.sched_lock = 0, [Next]_vars, \A c \in Tasks : ~RtosSchedLock(c)
  PROVE  k'.sched_lock = 0
<1>1. KernelInv(k, handles) /\ KernelCore(k, handles) /\ k \in Kernel /\ k.current \in Threads
  BY TypeFacts
<1>2. CASE Handler
  <2>1. CASE PendSV
    BY <1>1, <2>1, SwitchContextInv DEF PendSV
  <2>2. CASE SysTick
    BY <1>1, <2>2, TickBeginInv DEF SysTick, SameBase
  <2>3. CASE SysTickWake
    BY <1>1, <2>3, TickWakeInv DEF SysTickWake, HeadExpired, SameBase
  <2>4. CASE SysTickEnd
    <3>1. k' = TickEnd(k)
      BY <2>4 DEF SysTickEnd
    <3>2. SliceOnly(k, TickEnd(k))
      BY <1>1, TickEndInv
    <3> QED BY <3>1, <3>2 DEF SliceOnly, SameBase
  <2> QED BY <1>2, <2>1, <2>2, <2>3, <2>4 DEF Handler
<1>3. CASE IdleThread
  BY <1>1, <1>3 DEF IdleThread, IdleReclaim, IdleFree, Kernel
<1>4. ASSUME NEW c \in Tasks, Thread(c) PROVE k'.sched_lock = 0
  <2>1. CASE RtosSched(c) \/ RtosRequestSwitch(c)
    BY <1>1, <2>1 DEF RtosSched, RtosRequestSwitch, SchedCheck, RequestSwitch, Kernel
  <2>2. CASE TaskYield(c)
    BY <1>1, <2>2 DEF TaskYield, Yield, RotateToTail, Kernel
  <2>3. CASE TaskDelay(c) \/ TaskDelayUntilSleep(c)
    <3>1. PICK n \in Nat : k' = Delay(k, n)
      BY <2>3, CallAssumption DEF TaskDelay, TaskDelayUntilSleep, At, IInv, ThreadInv, LocalsInv
    <3>2. At(c, "run") \/ At(c, "until")
      BY <2>3 DEF TaskDelay, TaskDelayUntilSleep, Calling
    <3>3. k.current \in handles
      BY <3>2, CallerLives DEF Running
    <3> QED BY <1>1, <3>1, <3>3, DelayInv DEF SameRest
  <2>4. CASE TaskDelayUntil(c) \/ TaskCreateReturn(c)
    BY <2>4 DEF TaskDelayUntil, TaskCreateReturn
  <2>5. CASE TaskSuspend(c)
    BY <1>1, <2>5, SuspendInv DEF TaskSuspend, SameRest
  <2>6. CASE TaskResume(c)
    <3>1. PICK t \in Threads : k' = TaskReady(k, t)
      BY <2>6, TypeFacts DEF TaskResume
    <3> QED BY <1>1, <3>1, TaskReadyFields DEF SameRest
  <2>7. CASE TaskCreateReady(c)
    <3>1. arg[c] \in Threads
      BY <2>7, TypeFacts DEF TaskCreateReady, At, IInv, ThreadInv, SlotsInv
    <3> QED BY <1>1, <2>7, <3>1, TaskReadyFields DEF TaskCreateReady, SameRest
  <2>8. CASE TaskAbortDelay(c)
    BY <1>1, <2>8, AbortDelayInv DEF TaskAbortDelay, SameRest
  <2>9. CASE TaskSetPriority(c)
    BY <1>1, <2>9, SetPriorityInv, CallAssumption DEF TaskSetPriority, SameRest
  <2>10. CASE TaskDeleteOther(c)
    <3>1. PICK t \in handles \ {c} : k' = DeleteOther(k, t)
      BY <2>10 DEF TaskDeleteOther
    <3>2. c = k.current
      BY <2>10 DEF TaskDeleteOther, Calling, At
    <3> QED BY ZenonT(60), <1>1, <3>1, <3>2, DeleteOtherInv
  <2>11. CASE TaskDeleteSelf(c)
    <3>1. k' = DeleteSelf(k) /\ c = k.current /\ At(c, "run")
      BY <2>11 DEF TaskDeleteSelf, Calling, At
    <3>2. c \in handles
      BY <3>1, CallerLives DEF Running
    <3> QED BY <1>1, <3>1, <3>2, DeleteSelfInv
  <2>12. CASE RtosSchedUnlock(c)
    BY <2>12 DEF RtosSchedUnlock
  <2>13. CASE TaskCreate(c)
    <3>1. PICK t \in Tasks \ k.used, p \in CreatePrios : k' = TcbAlloc(k, t, p)
      BY <2>13 DEF TaskCreate
    <3>2. t \in Tasks /\ t \notin k.used /\ p \in Prio
      BY <3>1, CallAssumption
    <3> QED BY <1>1, <3>1, <3>2, TcbAllocInv
  <2> QED BY <1>4, <2>1, <2>2, <2>3, <2>4, <2>5, <2>6, <2>7, <2>8, <2>9, <2>10, <2>11, <2>12,
             <2>13 DEF Thread
<1>5. CASE UNCHANGED vars
  BY <1>5 DEF vars
<1> QED BY <1>2, <1>3, <1>4, <1>5 DEF Next

\* A task takes the scheduler lock in application code, and keeps the processor.
LEMMA LockWaitsStep ==
  ASSUME IInv, YieldsReady, WaitShape, LockWaits, [Next]_vars
  PROVE  LockWaits'
<1>1. KeepsCpu /\ StillWaits
  BY NextInv, WaitsStep
<1>2. k.current \in Threads /\ k.sched_lock \in Nat /\ k \in Kernel
  BY TypeFacts
<1>3. CASE k.sched_lock > 0
  BY <1>1, <1>2, <1>3 DEF KeepsCpu, StillWaits, LockWaits
<1>4. CASE ~(k.sched_lock > 0)
  <2>1. ASSUME NEW c \in Tasks, RtosSchedLock(c) PROVE LockWaits'
    <3>1. /\ k' = [k EXCEPT !.sched_lock = @ + 1] /\ ret' = ret
          /\ pc[c] = "run" /\ k.current = c
      BY <2>1 DEF RtosSchedLock, Calling, At, Return, threadVars
    <3>2. k'.current = c
      BY <1>2, <3>1 DEF Kernel
    <3> QED BY <1>2, <3>1, <3>2 DEF LockWaits, WaitShape
  <2>2. ASSUME \A c \in Tasks : ~RtosSchedLock(c) PROVE ~(k'.sched_lock > 0)
    <3>1. k.sched_lock = 0
      BY <1>2, <1>4
    <3> QED BY <2>2, <3>1, LockFree
  <2> QED BY <2>1, <2>2 DEF LockWaits
<1> QED BY <1>3, <1>4

-----------------------------------------------------------------------------
\* The calls of task.h ease the event lists

\* The two nodes of t are unlinked, and nothing else happens to those that wait.
Drops(s, r, t) ==
  Leaves(s, r, t) /\ Delayed(r) = Delayed(s) \ {t} /\ r.wakeup_reason = s.wakeup_reason

\* At most one task stops waiting or sleeping.
Loosens(s, r) == SameWaits(s, r) \/ \E t \in Threads : Drops(s, r, t)

LEMMA LoosensThen ==
  ASSUME NEW s, NEW m, Loosens(s, m), NEW r, SameWaits(m, r)
  PROVE  Loosens(s, r)
BY DEF Loosens, SameWaits, SameEvents, Drops, Leaves

LEMMA LoosensEases ==
  ASSUME NEW s, ListsOK(s), NEW r, Loosens(s, r)
  PROVE  Eases(s, r, {}) /\ SameReasons(s, r)
<1>1. CASE SameWaits(s, r)
  BY <1>1, SameWaitsEases
<1>2. ASSUME NEW t \in Threads, Drops(s, r, t) PROVE Eases(s, r, {}) /\ SameReasons(s, r)
  <2>1. /\ Leaves(s, r, t) /\ Delayed(r) \ {t} = Delayed(s) \ {t} /\ t \notin Delayed(r)
        /\ r.wakeup_reason = s.wakeup_reason
    BY <1>2 DEF Drops
  <2> QED BY <2>1, LeavesEases DEF SameReasons
<1> QED BY <1>1, <1>2 DEF Loosens

LEMMA StateWaits ==
  ASSUME NEW s \in Kernel, NEW t, NEW v
  PROVE  SameWaits(s, [s EXCEPT !.state[t] = v])
BY DEF SameWaits, SameEvents, Delayed, Kernel

LEMMA TaskReadyWaits ==
  ASSUME NEW s \in Kernel, NEW t \in Threads
  PROVE  SameWaits(s, TaskReady(s, t))
BY TaskReadyFields DEF SameWaits, SameDelays, Delayed

LEMMA UnblockDrops ==
  ASSUME NEW s, ListsOK(s), NEW t \in Threads
  PROVE  Drops(s, Unblock(s, t), t)
BY UnblockEffect DEF Drops, Leaves, With, Effect

LEMMA DeactivateLoosens ==
  ASSUME NEW s, NEW H, KernelCore(s, H), NEW t \in H, NEW v
  PROVE  LET r == [Deactivate(s, t) EXCEPT !.state[t] = v]
         IN  Loosens(s, r) /\ r.priority = s.priority
<1>1. ListsOK(s) /\ s \in Kernel /\ t \in Threads /\ ReadyListsOK(s)
  BY CoreFacts DEF ListsOK
<1> DEFINE d == Deactivate(s, t)
<1>2. Loosens(s, d)
  <2>1. CASE s.state[t] \in OnReadyList
    <3>1. d = TaskUnready(s, t)
      BY <2>1, Zenon DEF Deactivate, OnReadyList
    <3>2. SameWaits(s, TaskUnready(s, t))
      BY <1>1, TaskUnreadyFields DEF SameWaits, SameDelays, Delayed
    <3> QED BY <3>1, <3>2 DEF Loosens
  <2>2. CASE s.state[t] = "BLOCKED"
    <3>1. s.state[t] \notin OnReadyList
      BY <2>2 DEF OnReadyList
    <3>2. d = Unblock(s, t)
      BY <2>2, <3>1, Zenon DEF Deactivate
    <3> QED BY <1>1, <3>2, UnblockDrops DEF Loosens
  <2>3. CASE s.state[t] \notin OnReadyList /\ s.state[t] # "BLOCKED"
    <3>1. d = s
      BY <2>3, Zenon DEF Deactivate
    <3>2. SameWaits(s, s)
      BY DEF SameWaits, SameEvents
    <3> QED BY <3>1, <3>2 DEF Loosens
  <2> QED BY <2>1, <2>2, <2>3
<1>3. d \in Kernel /\ d.priority = s.priority
  BY DeactivateEffect, DeactivateFalls DEF Effect, ListsOK, Falls
<1> HIDE DEF d
<1>4. SameWaits(d, [d EXCEPT !.state[t] = v]) /\ [d EXCEPT !.state[t] = v].priority = d.priority
  BY <1>3, StateWaits DEF Kernel
<1>5. Loosens(s, [d EXCEPT !.state[t] = v])
  BY <1>2, <1>4, LoosensThen
<1> QED BY <1>3, <1>4, <1>5 DEF d

LEMMA SuspendLoosens ==
  ASSUME NEW s, NEW H, KernelCore(s, H), NEW t \in H
  PROVE  Loosens(s, Suspend(s, t)) /\ Suspend(s, t).priority = s.priority
<1>1. Loosens(s, s)
  BY DEF Loosens, SameWaits, SameEvents
<1> DEFINE d == [Deactivate(s, t) EXCEPT !.state[t] = "SUSPENDED"]
<1>2. Loosens(s, d) /\ d.priority = s.priority
  BY DeactivateLoosens
<1>3. Suspend(s, t) = s \/ Suspend(s, t) = d
  BY DEF Suspend
<1> QED BY <1>1, <1>2, <1>3

LEMMA TerminateLoosens ==
  ASSUME IInv, NoneHeld(k), NEW t \in handles
  PROVE  /\ Loosens(k, Terminate(k, t)) /\ Terminate(k, t) \in Kernel
         /\ Terminate(k, t).priority = k.priority
<1>1. KernelCore(k, handles) /\ t \in Threads
  BY TypeFacts
<1> DEFINE d == [Deactivate(k, t) EXCEPT !.state[t] = "DELETED"]
<1>2. Terminate(k, t) = d
  BY <1>1, TerminateUnheld DEF NoneHeld
<1>3. Loosens(k, d) /\ d.priority = k.priority
  BY <1>1, DeactivateLoosens
<1> QED BY <1>2, <1>3, HeldTerminate

LEMMA AbortLoosens ==
  ASSUME NEW s, NEW H, KernelInv(s, H), NEW t \in H, s.state[t] = "BLOCKED"
  PROVE  Loosens(s, AbortDelay(s, t))
<1> DEFINE r == AbortDelay(s, t)
<1>1. /\ MadeReady(s, r, t) /\ r.wakeup_reason = s.wakeup_reason
      /\ r.event_list = With(s.event_list, t, NoList)
      /\ \A e \in EventLists : r.waiting[e] = Unlink(s.waiting[e], t)
  BY AbortDelayInv
<1>2. t \in Threads
  BY CoreFacts DEF KernelInv
<1> HIDE DEF r
<1>3. Drops(s, r, t)
  BY <1>1 DEF Drops, Leaves, MadeReady, Effect
<1> QED BY <1>2, <1>3 DEF Loosens, r

\* rtos_task_delay takes the caller off the lists and puts it on a delay list.
LEMMA DelayLeaves ==
  ASSUME NEW s, NEW H, KernelInv(s, H), s.current \in H, NEW n \in Nat
  PROVE  LET r == Delay(s, n)
             t == s.current
         IN  /\ Leaves(s, r, t) /\ Delayed(r) \ {t} = Delayed(s) \ {t}
             /\ r.wakeup_reason = s.wakeup_reason /\ r.priority = s.priority
<1> DEFINE t    == s.current
           free == IF s.state[t] = "BLOCKED" THEN Unblock(s, t) ELSE s
           held == [free EXCEPT !.state[t] = "BLOCKED"]
           mid  == [free EXCEPT !.state[t] = "BLOCKED", !.event_list[t] = NoList]
           off  == TaskUnready(mid, t)
           r    == DelayInsert(off, t, n)
           D    == Delayed(s) \ {t}
<1>1. /\ t \in Threads /\ t \in H /\ ListsOK(s) /\ KernelCore(s, H) /\ s \in Kernel
      /\ "BLOCKED" \in TaskState
  BY CoreFacts DEF KernelInv, TaskState
<1>2. /\ Leaves(s, free, t) /\ Delayed(free) = D /\ free.wakeup_reason = s.wakeup_reason
      /\ free.priority = s.priority /\ ListsOK(free)
  <2>1. CASE s.state[t] = "BLOCKED"
    <3>1. Drops(s, Unblock(s, t), t)
      BY <1>1, UnblockDrops
    <3>2. SameQueued(s, Unblock(s, t)) /\ ListsOK(Unblock(s, t))
      BY <1>1, UnblockEffect DEF Effect
    <3> QED BY <2>1, <3>1, <3>2 DEF Drops, SameQueued
  <2>2. CASE s.state[t] # "BLOCKED"
    <3>1. t \notin Waiting(s) /\ t \notin Delayed(s)
      BY <1>1, <2>2 DEF KernelCore
    <3> QED BY <1>1, <2>2, <3>1, AwayLeaves
  <2> QED BY <2>1, <2>2
<1> HIDE DEF free, D
<1>3. free \in Kernel /\ free.event_list[t] = NoList
  <2>1. free \in Kernel /\ s.event_list \in [Threads -> EventLists \cup {NoList}]
    BY <1>1, <1>2 DEF ListsOK, Kernel
  <2> QED BY <1>1, <1>2, <2>1 DEF Leaves, With
<1>4. /\ mid \in Kernel /\ ListsOK(mid) /\ SameEvents(free, mid) /\ Delayed(mid) = D
      /\ mid.wakeup_reason = free.wakeup_reason /\ mid.priority = free.priority
  <2>1. [free.event_list EXCEPT ![t] = NoList] = free.event_list
    BY <1>1, <1>3 DEF Kernel
  <2>2. mid = held
    BY <1>3, <2>1 DEF Kernel
  <2>3. Effect(free, held, Queued(free), Delayed(free), Waiting(free),
               [free.state EXCEPT ![t] = "BLOCKED"])
    BY <1>1, <1>2, StateEffect
  <2>4. SameWaits(free, held) /\ held.priority = free.priority
    BY <1>3, StateWaits DEF Kernel
  <2> HIDE DEF mid, held
  <2> QED BY <1>2, <2>2, <2>3, <2>4 DEF Effect, ListsOK, SameWaits
<1> HIDE DEF mid, held
<1>5. /\ ListsOK(off) /\ SameEvents(mid, off) /\ Delayed(off) = D
      /\ off.wakeup_reason = mid.wakeup_reason /\ off.priority = mid.priority
  <2>1. Effect(mid, off, Queued(mid) \ {t}, Delayed(mid), Waiting(mid), mid.state)
    BY <1>1, <1>4, TaskUnreadyEffect
  <2>2. SameEvents(mid, off) /\ off.wakeup_reason = mid.wakeup_reason /\ off.priority = mid.priority
    BY <1>1, <1>4, TaskUnreadyFields DEF ListsOK
  <2> HIDE DEF off
  <2> QED BY <1>4, <2>1, <2>2 DEF Effect
<1> HIDE DEF off
<1>6. t \notin Delayed(off)
  BY <1>5 DEF D
<1>7. /\ Delayed(r) = D \cup {t} /\ SameEvents(off, r) /\ r.wakeup_reason = off.wakeup_reason
      /\ r.priority = off.priority
  BY <1>1, <1>5, <1>6, DelayInsertEffect DEF Effect, SameQueued
<1>8. Delay(s, n) = r
  BY DEF Delay, off, mid, free
<1> HIDE DEF r
<1>9. Leaves(s, r, t)
  BY <1>2, <1>4, <1>5, <1>7 DEF Leaves, SameEvents
<1> QED BY <1>2, <1>4, <1>5, <1>7, <1>8, <1>9 DEF D

\* The tasks in use keep their priority.
SameRanks(s, r) == \A u \in s.used : r.priority[u] = s.priority[u]

\* A wait ends when its time is up.
LEMMA TickWakeEases ==
  ASSUME NEW s, NEW H, KernelInv(s, H), s.delay_list # <<>>
  PROVE  Eases(s, TickWake(s), {}) /\ SameReasons(s, TickWake(s)) /\ SameRanks(s, TickWake(s))
<1> DEFINE r == TickWake(s)
           t == Head(s.delay_list)
<1>1. /\ t \in H /\ t \in ToSet(s.delay_list) /\ r.wakeup_reason = With(s.wakeup_reason, t, 2)
      /\ r.event_list = With(s.event_list, t, NoList)
      /\ \A e \in EventLists : r.waiting[e] = Unlink(s.waiting[e], t)
      /\ Delayed(r) = Delayed(s) \ {t} /\ r.priority = s.priority
  BY TickWakeInv
<1>2. ListsOK(s) /\ s \in Kernel /\ t \in Threads
  BY <1>1, CoreFacts DEF KernelInv
<1> HIDE DEF r, t
<1>3. Leaves(s, r, t) /\ Delayed(r) \ {t} = Delayed(s) \ {t} /\ t \notin Delayed(r)
  BY <1>1 DEF Leaves
<1>4. Eases(s, r, {})
  BY <1>2, <1>3, LeavesEases
<1>5. t \in Waiting(s) \cup Delayed(s)
  BY <1>1 DEF Delayed
<1>6. SameReasons(s, r)
  BY <1>1, <1>2, <1>5, OneReason
<1> QED BY <1>1, <1>4, <1>6 DEF r, SameRanks

\* A new task is on no list.
LEMMA CreateEases ==
  ASSUME NEW s, NEW H, KernelInv(s, H), NEW t \in Tasks, t \notin s.used, NEW p \in Prio
  PROVE  LET r == TcbAlloc(s, t, p)
         IN  Eases(s, r, {}) /\ SameReasons(s, r) /\ SameRanks(s, r)
<1> DEFINE r == TcbAlloc(s, t, p)
<1>1. /\ SameDelays(s, r) /\ SameEvents(s, r) /\ r.priority = With(s.priority, t, p)
      /\ r.wakeup_reason = With(s.wakeup_reason, t, 0)
  BY TcbAllocInv
<1> HIDE DEF r
<1>2. s \in Kernel /\ s.used \subseteq Threads /\ t \in Threads
  BY CoreFacts DEF KernelInv, Kernel, Threads
<1>3. Delayed(r) = Delayed(s)
  BY <1>1 DEF SameDelays, Delayed
<1>4. Eases(s, r, {})
  BY <1>1, <1>3 DEF SameEvents, Eases
<1>5. SameReasons(s, r) /\ SameRanks(s, r)
  BY <1>1, <1>2 DEF SameReasons, SameRanks, With, Kernel
<1> QED BY <1>4, <1>5 DEF r

\* What a step of the task API does to the tasks that wait.
Eased(s, r) == Eases(s, r, {}) /\ SameReasons(s, r) /\ SameRanks(s, r)

LEMMA LoosensEased ==
  ASSUME NEW s, ListsOK(s), NEW r, Loosens(s, r), r.priority = s.priority
  PROVE  Eased(s, r)
BY LoosensEases DEF Eased, SameRanks

LEMMA SameEased ==
  ASSUME NEW s, ListsOK(s), NEW r, SameWaits(s, r), r.priority = s.priority
  PROVE  Eased(s, r)
BY LoosensEased DEF Loosens

LEMMA EasedHandler ==
  ASSUME IInv, Handler
  PROVE  Eased(k, k')
<1>1. KernelInv(k, handles) /\ ListsOK(k)
  BY TypeFacts
<1>2. CASE PendSV
  <2>1. SameLists(k, k') /\ k'.wakeup_reason = k.wakeup_reason
    BY <1>1, <1>2, SwitchContextInv DEF PendSV
  <2>2. SameWaits(k, k') /\ k'.priority = k.priority
    BY <2>1 DEF SameLists, SameDelays, SameQueued, SameWaits, Delayed
  <2> QED BY <1>1, <2>2, SameEased
<1>3. CASE SysTick
  <2>1. /\ SameEvents(k, k') /\ Delayed(k') = Delayed(k) /\ SameQueued(k, k')
        /\ k'.wakeup_reason = k.wakeup_reason
    BY <1>1, <1>3, TickBeginInv DEF SysTick
  <2>2. SameWaits(k, k') /\ k'.priority = k.priority
    BY <2>1 DEF SameQueued, SameWaits
  <2> QED BY <1>1, <2>2, SameEased
<1>4. CASE SysTickWake
  <2>1. k' = TickWake(k) /\ k.delay_list # <<>>
    BY <1>4 DEF SysTickWake, HeadExpired
  <2> QED BY <1>1, <2>1, TickWakeEases DEF Eased
<1>5. CASE SysTickEnd
  <2>1. k' = TickEnd(k)
    BY <1>5 DEF SysTickEnd
  <2>2. SliceOnly(k, TickEnd(k))
    BY <1>1, TickEndInv
  <2>3. SameWaits(k, k') /\ k'.priority = k.priority
    BY <2>1, <2>2 DEF SliceOnly, SameWaits, SameDelays, Delayed
  <2> QED BY <1>1, <2>3, SameEased
<1> QED BY <1>2, <1>3, <1>4, <1>5 DEF Handler

\* The calls that change neither a wait nor a priority.
LEMMA CallWaits ==
  ASSUME IInv, NEW c \in Tasks,
         \/ RtosSched(c) \/ RtosRequestSwitch(c) \/ RtosSchedLock(c) \/ RtosSchedUnlock(c)
         \/ TaskYield(c) \/ TaskDelayUntil(c) \/ TaskCreateReturn(c)
         \/ TaskResume(c) \/ TaskCreateReady(c)
  PROVE  SameWaits(k, k') /\ k'.priority = k.priority
<1>1. k \in Kernel
  BY TypeFacts
<1>2. CASE RtosSched(c) \/ RtosRequestSwitch(c) \/ RtosSchedLock(c) \/ RtosSchedUnlock(c)
  <2>1. ASSUME RtosSched(c) PROVE SameWaits(k, k') /\ k'.priority = k.priority
    BY <1>1, <2>1 DEF RtosSched, SchedCheck, Kernel, SameWaits, SameEvents, Delayed
  <2>2. ASSUME RtosRequestSwitch(c) PROVE SameWaits(k, k') /\ k'.priority = k.priority
    BY <1>1, <2>2 DEF RtosRequestSwitch, RequestSwitch, Kernel, SameWaits, SameEvents, Delayed
  <2>3. ASSUME RtosSchedLock(c) PROVE SameWaits(k, k') /\ k'.priority = k.priority
    BY <1>1, <2>3 DEF RtosSchedLock, Kernel, SameWaits, SameEvents, Delayed
  <2>4. ASSUME RtosSchedUnlock(c) PROVE SameWaits(k, k') /\ k'.priority = k.priority
    <3>1. \/ k' = [k EXCEPT !.sched_lock = 0, !.need_resched = FALSE]
          \/ k' = [k EXCEPT !.sched_lock = @ - 1]
      BY <2>4 DEF RtosSchedUnlock, SchedUnlock
    <3> QED BY <1>1, <3>1 DEF Kernel, SameWaits, SameEvents, Delayed
  <2>5. SameWaits(k, k') /\ k'.priority = k.priority
    BY <1>2, <2>1, <2>2, <2>3, <2>4
  <2> QED BY <2>5
<1>3. CASE TaskYield(c)
  <2>1. k' = Yield(k)
    BY <1>3 DEF TaskYield
  <2> QED BY <1>1, <2>1 DEF Yield, RotateToTail, Kernel, SameWaits, SameEvents, Delayed
<1>4. CASE TaskDelayUntil(c) \/ TaskCreateReturn(c)
  <2>1. k' = k
    BY <1>4 DEF TaskDelayUntil, TaskCreateReturn
  <2> QED BY <2>1 DEF SameWaits, SameEvents
<1>5. CASE TaskResume(c) \/ TaskCreateReady(c)
  <2>1. PICK t \in Threads : k' = TaskReady(k, t)
    <3>1. CASE TaskResume(c)
      BY <3>1, TypeFacts DEF TaskResume
    <3>2. CASE TaskCreateReady(c)
      <4>1. arg[c] \in Threads
        BY <3>2, TypeFacts DEF TaskCreateReady, At, IInv, ThreadInv, SlotsInv
      <4> QED BY <3>2, <4>1 DEF TaskCreateReady
    <3> QED BY <1>5, <3>1, <3>2
  <2> QED BY <1>1, <2>1, TaskReadyWaits, TaskReadyFields
<1> QED BY <1>2, <1>3, <1>4, <1>5

\* What the others do to the tasks that wait.
LEMMA EasedCalls ==
  ASSUME IInv, YieldsReady, NEW c \in Tasks, Thread(c),
         TaskDeleteOther(c) \/ TaskDeleteSelf(c) => NoneHeld(k),
         ~TaskDelay(c), ~TaskDelayUntilSleep(c), ~TaskSetPriority(c)
  PROVE  Eased(k, k')
<1>1. KernelInv(k, handles) /\ KernelCore(k, handles) /\ ListsOK(k) /\ k \in Kernel
  BY TypeFacts
<1>2. CASE \/ RtosSched(c) \/ RtosRequestSwitch(c) \/ RtosSchedLock(c) \/ RtosSchedUnlock(c)
           \/ TaskYield(c) \/ TaskDelayUntil(c) \/ TaskCreateReturn(c)
           \/ TaskResume(c) \/ TaskCreateReady(c)
  BY <1>1, <1>2, CallWaits, SameEased
<1>3. CASE TaskSuspend(c)
  <2>1. PICK t \in handles : k' = Suspend(k, t)
    BY <1>3 DEF TaskSuspend
  <2> QED BY <1>1, <2>1, SuspendLoosens, LoosensEased
<1>4. CASE TaskAbortDelay(c)
  <2>1. PICK t \in handles : k.state[t] = "BLOCKED" /\ k' = AbortDelay(k, t)
    BY <1>4 DEF TaskAbortDelay
  <2>2. Loosens(k, AbortDelay(k, t)) /\ AbortDelay(k, t).priority = k.priority
    BY <1>1, <2>1, AbortLoosens, AbortDelayInv
  <2> QED BY <1>1, <2>1, <2>2, LoosensEased
<1>5. CASE TaskDeleteOther(c)
  <2>1. PICK t \in handles : k' = DeleteOther(k, t)
    BY <1>5 DEF TaskDeleteOther
  <2> DEFINE d == Terminate(k, t)
             r == [d EXCEPT !.used = @ \ {t}]
  <2>2. d \in Kernel /\ Loosens(k, d) /\ d.priority = k.priority
    BY <1>5, TerminateLoosens
  <2>3. k' = r
    BY <2>1 DEF DeleteOther
  <2> HIDE DEF d
  <2>4. SameWaits(d, r) /\ r.priority = d.priority
    BY <2>2 DEF Kernel, SameWaits, SameEvents, Delayed
  <2>5. Loosens(k, r)
    BY <2>2, <2>4, LoosensThen
  <2> QED BY <1>1, <2>2, <2>3, <2>4, <2>5, LoosensEased
<1>6. CASE TaskDeleteSelf(c)
  <2>1. k' = DeleteSelf(k) /\ c = k.current /\ At(c, "run")
    BY <1>6 DEF TaskDeleteSelf, Calling, At
  <2>2. c \in handles
    BY <2>1, CallerLives DEF Running
  <2> DEFINE d == Terminate(k, c)
             e == [d EXCEPT !.terminated_list = Append(@, c), !.sched_lock = 0]
  <2>3. d \in Kernel /\ Loosens(k, d) /\ d.priority = k.priority
    BY <1>6, <2>2, TerminateLoosens
  <2>4. k' = IF k.sched_lock > 0 THEN RequestSwitch([e EXCEPT !.need_resched = FALSE])
                                 ELSE [e EXCEPT !.need_resched = TRUE]
    BY <2>1 DEF DeleteSelf
  <2> HIDE DEF d
  <2>5. SameWaits(d, e) /\ e.priority = d.priority /\ DOMAIN e = DOMAIN d
    BY <2>3 DEF Kernel, SameWaits, SameEvents, Delayed
  <2>6. {"delay_list", "overflow_list", "waiting", "event_list", "wakeup_reason", "priority"}
          \subseteq DOMAIN d
    BY <2>3 DEF Kernel
  <2> HIDE DEF e
  <2>7. SameWaits(e, k') /\ k'.priority = e.priority
    BY <2>4, <2>5, <2>6 DEF RequestSwitch, SameWaits, SameEvents, Delayed
  <2>8. Loosens(k, k')
    BY <2>3, <2>5, <2>7, LoosensThen
  <2> QED BY <1>1, <2>3, <2>5, <2>7, <2>8, LoosensEased
<1>7. CASE TaskCreate(c)
  <2>1. PICK t \in Tasks \ k.used, p \in CreatePrios : k' = TcbAlloc(k, t, p)
    BY <1>7 DEF TaskCreate
  <2>2. t \in Tasks /\ t \notin k.used /\ p \in Prio
    BY <2>1, CallAssumption
  <2> QED BY <1>1, <2>1, <2>2, CreateEases DEF Eased
<1> QED BY <1>2, <1>3, <1>4, <1>5, <1>6, <1>7 DEF Thread

\* Every step of the task API eases the event lists, but that a delay may move the
\* caller to the delay lists and that a change of priority leaves the lists unsorted.
LEMMA EaseStep ==
  ASSUME IInv, YieldsReady, [Next]_vars,
         NoneHeld(k) \/ \A c \in Tasks : ~TaskDeleteOther(c) /\ ~TaskDeleteSelf(c)
  PROVE  /\ SameReasons(k, k')
         /\ \/ Eases(k, k', {})
            \/ \E c \in handles : pc[c] \in {"run", "until"} /\ Eases(k, k', {c})
         /\ "set_priority" \notin Calls => SameRanks(k, k')
<1>1. KernelInv(k, handles) /\ ListsOK(k) /\ k \in Kernel
  BY TypeFacts
<1>2. CASE Handler
  BY <1>2, EasedHandler DEF Eased
<1>3. CASE IdleThread \/ UNCHANGED vars
  <2>1. SameWaits(k, k') /\ k'.priority = k.priority
    BY <1>1, <1>3 DEF IdleThread, IdleReclaim, IdleFree, vars, Kernel, SameWaits, SameEvents, Delayed
  <2> QED BY <1>1, <2>1, SameEased DEF Eased
<1>4. ASSUME NEW c \in Tasks, TaskDelay(c) \/ TaskDelayUntilSleep(c)
      PROVE  /\ SameReasons(k, k') /\ SameRanks(k, k')
             /\ \E u \in handles : pc[u] \in {"run", "until"} /\ Eases(k, k', {u})
  <2>1. PICK n \in Nat : k' = Delay(k, n)
    BY <1>4, CallAssumption DEF TaskDelay, TaskDelayUntilSleep, At, IInv, ThreadInv, LocalsInv
  <2>2. At(c, "run") \/ At(c, "until")
    BY <1>4 DEF TaskDelay, TaskDelayUntilSleep, Calling
  <2>3. c \in handles /\ k.current = c /\ c \in Threads /\ pc[c] \in {"run", "until"}
    BY <2>2, CallerLives DEF Running
  <2>4. /\ Leaves(k, k', c) /\ Delayed(k') \ {c} = Delayed(k) \ {c}
        /\ k'.wakeup_reason = k.wakeup_reason /\ k'.priority = k.priority
    BY <1>1, <2>1, <2>3, DelayLeaves
  <2>5. Eases(k, k', {c})
    BY <1>1, <2>3, <2>4, LeavesEases
  <2> QED BY <2>3, <2>4, <2>5 DEF SameReasons, SameRanks
<1>5. ASSUME NEW c \in Tasks, TaskSetPriority(c)
      PROVE  SameReasons(k, k') /\ Eases(k, k', {}) /\ "set_priority" \in Calls
  <2>1. SameWaits(k, k')
    BY <1>5, HeldSetPriority
  <2>2. "set_priority" \in Calls
    BY <1>5 DEF TaskSetPriority, Calling
  <2> QED BY <2>1, <2>2, SameWaitsEases
<1>6. ASSUME NEW c \in Tasks, Thread(c)
      PROVE  /\ SameReasons(k, k')
             /\ \/ Eases(k, k', {})
                \/ \E u \in handles : pc[u] \in {"run", "until"} /\ Eases(k, k', {u})
             /\ "set_priority" \notin Calls => SameRanks(k, k')
  <2>1. CASE TaskDelay(c) \/ TaskDelayUntilSleep(c)
    BY <1>4, <2>1
  <2>2. CASE TaskSetPriority(c)
    BY <1>5, <2>2
  <2>3. CASE ~TaskDelay(c) /\ ~TaskDelayUntilSleep(c) /\ ~TaskSetPriority(c)
    BY <1>6, <2>3, EasedCalls DEF Eased
  <2> QED BY <2>1, <2>2, <2>3
<1> QED BY <1>2, <1>3, <1>6 DEF Next

\* Without rtos_task_delete no handle is lost.
LEMMA HandlesStay ==
  ASSUME [Next]_vars, "delete" \notin Calls
  PROVE  handles \subseteq handles'
<1>1. CASE Handler \/ IdleThread \/ UNCHANGED vars
  BY <1>1 DEF Handler, PendSV, SysTick, SysTickWake, SysTickEnd, IdleThread, IdleReclaim, IdleFree,
     vars
<1>2. ASSUME NEW c \in Tasks, Thread(c) PROVE handles \subseteq handles'
  BY <1>2 DEF Thread, RtosSched, RtosRequestSwitch, TaskYield, TaskDelay, TaskDelayUntil,
     TaskDelayUntilSleep, TaskSuspend, TaskResume, TaskAbortDelay, TaskSetPriority,
     TaskDeleteOther, TaskDeleteSelf, RtosSchedLock, RtosSchedUnlock, TaskCreate,
     TaskCreateReady, TaskCreateReturn, Calling
<1> QED BY <1>1, <1>2 DEF Next

-----------------------------------------------------------------------------
\* The order of the event lists

LEMMA NaturalPriorities ==
  ASSUME NEW s \in Kernel
  PROVE  \A u \in Threads : s.priority[u] \in Nat
<1>1. s.priority \in [Threads -> Prio]
  BY DEF Kernel
<1>2. Prio \subseteq Nat
  BY PriorityAssumption DEF Prio
<1> QED BY <1>1, <1>2

\* The first task of such a pair does not come after the second.
Ranks(s) == {p \in Threads \X Threads : s.priority[p[1]] >= s.priority[p[2]]}

SortedLists(s) == \A e \in EventLists : Ordered(s.waiting[e], Ranks(s))

\* The place found for a task keeps the order.
LEMMA PlaceOrdered ==
  ASSUME NEW s \in Kernel, NEW e \in EventLists, NEW t \in Threads,
         Ordered(s.waiting[e], Ranks(s))
  PROVE  Ordered(InsertBefore(s.waiting[e], t, EventPlace(s, e, t)), Ranks(s))
<1> DEFINE l == s.waiting[e]
           n == EventPlace(s, e, t)
<1>1. l \in Seq(Threads) /\ s.priority \in [Threads -> Prio]
  BY DEF Kernel
<1>2. DOMAIN l = 1 .. Len(l) /\ Len(l) \in Nat /\ \A i \in 1 .. Len(l) : l[i] \in Threads
  BY <1>1
<1>3. \A u \in Threads : s.priority[u] \in Nat
  BY NaturalPriorities
<1>4. /\ n \in 0 .. Len(l)
      /\ \A i \in 1 .. Len(l) : n = 0 \/ i < n => s.priority[t] <= s.priority[l[i]]
      /\ n # 0 => s.priority[t] > s.priority[l[n]]
  BY EventPlaceFirst
<1>5. Ordered(l, Ranks(s))
  OBVIOUS
<1> HIDE DEF l, n
<1>6. ASSUME NEW i \in 1 .. Len(l), n = 0 \/ i < n PROVE <<l[i], t>> \in Ranks(s)
  <2>1. l[i] \in Threads /\ s.priority[t] \in Nat /\ s.priority[l[i]] \in Nat
    BY <1>2, <1>3
  <2>2. s.priority[l[i]] >= s.priority[t]
    BY <1>4, <1>6, <2>1
  <2> QED BY <2>1, <2>2 DEF Ranks
<1>7. ASSUME NEW i \in 1 .. Len(l), n # 0, n <= i PROVE <<t, l[i]>> \in Ranks(s)
  <2>1. n \in 1 .. Len(l)
    BY <1>4, <1>7
  <2>2. /\ l[i] \in Threads /\ l[n] \in Threads /\ s.priority[t] \in Nat
        /\ s.priority[l[i]] \in Nat /\ s.priority[l[n]] \in Nat
    BY <1>2, <1>3, <2>1
  <2>3. s.priority[t] > s.priority[l[n]]
    BY <1>4, <1>7
  <2>4. s.priority[l[n]] >= s.priority[l[i]]
    <3>1. CASE n = i
      BY <2>2, <3>1
    <3>2. CASE n < i
      <4>1. <<l[n], l[i]>> \in Ranks(s)
        BY <1>2, <1>5, <2>1, <3>2 DEF Ordered
      <4> QED BY <4>1 DEF Ranks
    <3> QED BY <1>7, <2>1, <3>1, <3>2
  <2>5. s.priority[t] >= s.priority[l[i]]
    BY <2>2, <2>3, <2>4
  <2> QED BY <2>2, <2>5 DEF Ranks
<1>8. Ordered(InsertBefore(l, t, n), Ranks(s))
  <2>1. \A i \in 1 .. Len(l) : n = 0 \/ i < n => <<l[i], t>> \in Ranks(s)
    BY <1>6
  <2>2. \A i \in 1 .. Len(l) : n # 0 /\ n <= i => <<t, l[i]>> \in Ranks(s)
    BY <1>7
  <2>3. l \in Seq(Threads)
    BY <1>1 DEF l
  <2> QED BY <1>4, <1>5, <2>1, <2>2, <2>3, InsertOrdered
<1> QED BY <1>8 DEF l, n

\* A list keeps its order if its tasks keep their priorities.
LEMMA OrderedRanks ==
  ASSUME NEW s, NEW r, NEW l \in Seq(Threads), Ordered(l, Ranks(s)),
         \A u \in ToSet(l) : r.priority[u] = s.priority[u]
  PROVE  Ordered(l, Ranks(r))
<1>1. \A i \in DOMAIN l : l[i] \in ToSet(l) /\ l[i] \in Threads
  BY DEF ToSet
<1>2. ASSUME NEW i \in DOMAIN l, NEW j \in DOMAIN l, i < j PROVE <<l[i], l[j]>> \in Ranks(r)
  <2>1. <<l[i], l[j]>> \in Ranks(s)
    BY <1>2 DEF Ordered
  <2> QED BY <1>1, <2>1 DEF Ranks
<1> QED BY <1>2 DEF Ordered
=============================================================================
