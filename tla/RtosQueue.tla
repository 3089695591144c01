------------------------------- MODULE RtosQueue -------------------------------
(***************************************************************************)
(* Message queues and semaphores (queue.c, semaphore.c) between the tasks  *)
(* of RtosTask and an interrupt handler.  A semaphore is a queue without   *)
(* data: give sends to its back without waiting, take receives.            *)
(***************************************************************************)
EXTENDS RtosTask, RtosRing, FiniteSets

CONSTANTS
  Length,      \* length of each queue, in items
  DataQueues,  \* the queues with item_size > 0
  Available,   \* the initial messages_waiting of each queue
  Items,       \* what the application sends
  Urgent,      \* those of them it sends to the front
  NoItem,      \* the item of a queue without data, and of a buffer never filled
  QueueCalls,  \* the functions of rtos_queue.h the application calls
  Timeouts     \* the timeouts it passes to them

ASSUME LengthAssumption  ==
  /\ Length \in [Queues -> Nat \ {0}]
  /\ Available \in [Queues -> Nat]
  /\ \A q \in Queues : Available[q] <= Length[q] /\ ~IsMutex(q)
  /\ \A q \in DataQueues : Available[q] = 0
ASSUME ItemAssumption    == NoItem \notin Items /\ Urgent \subseteq Items
ASSUME TimeoutAssumption ==
  /\ DataQueues \subseteq Queues
  /\ Timeouts \subseteq Nat \cup {Forever}
  /\ \A n \in Timeouts : n < TickMod \div 2

ASSUME PoolAssumption == IsFiniteSet(Tasks)  \* the TCB pool is an array

VARIABLES
  ring,   \* the ring buffer of each data queue
  call,   \* the arguments of the call that a thread is blocked in
  got     \* the item that the last step received, and for whom

queueVars == <<ring, call, got>>
allVars   == <<vars, queueVars>>

NoCall  == [op |-> "none"]
Nothing == <<>>

-----------------------------------------------------------------------------
\* The critical sections of rtos_queue_generic_send and rtos_queue_generic_recv,
\* and of their versions for interrupt handlers, when they succeed.

\* Mutant: a send to a full queue goes through.
HasRoomForOneMore(s, m) ==
  s.messages_waiting[m.q] <= Length[m.q] \/ m.pos = "overwrite"

HasRoom(s, m) == s.messages_waiting[m.q] < Length[m.q] \/ m.pos = "overwrite"

HasItem(s, m) == s.messages_waiting[m.q] > 0

Receivers(q) == <<q, "receive">>
Senders(q)   == <<q, "send">>

Send(s, m) ==
  WakeHighest(
    [s EXCEPT !.messages_waiting[m.q] =
       IF m.pos = "overwrite" THEN (IF @ = 0 THEN 1 ELSE @) ELSE @ + 1],
    Receivers(m.q))

\* Mutant: a receive does not wake the senders.
RecvWakesNobody(s, m) ==
  IF m.op = "peek" THEN s ELSE [s EXCEPT !.messages_waiting[m.q] = @ - 1]

Recv(s, m) ==
  IF m.op = "peek"
  THEN s
  ELSE WakeHighest([s EXCEPT !.messages_waiting[m.q] = @ - 1], Senders(m.q))

Store(m) ==
  IF m.q \in DataQueues
  THEN [ring EXCEPT ![m.q] = CopyDataToQueue(@, Length[m.q], m.item, m.pos)]
  ELSE ring

Fetch(m) ==
  IF m.q \in DataQueues
  THEN [ring EXCEPT ![m.q] = CopyDataFromQueue(@, Length[m.q], m.op = "peek")]
  ELSE ring

ItemFound(m) == IF m.q \in DataQueues THEN FirstItem(ring[m.q], Length[m.q]) ELSE NoItem

-----------------------------------------------------------------------------
\* Tasks

\* The arguments of a send that the assertions of the code admit, from an
\* application that sends urgent items, and only those, to the front.
SendCalls ==
  {m \in [op: {"send"}, q: Queues, pos: {"back", "front", "overwrite"},
          item: Items \cup {NoItem}, timeout: Timeouts \cup {0}] :
     IF m.q \in DataQueues
     THEN /\ m.item \in Items
          /\ m.pos = "front" <=> m.item \in Urgent
          /\ m.pos = "overwrite" => Length[m.q] = 1 /\ m.timeout = 0
     ELSE m.item = NoItem /\ m.pos = "back" /\ m.timeout = 0}

RecvCalls(op) == [op: {op}, q: Queues, timeout: Timeouts \cup {0}]

\* A call is over; if it woke a task, the priorities are compared outside of the
\* critical section.
Finish(c, woken) ==
  /\ call' = [call EXCEPT ![c] = NoCall]
  /\ pc'   = [pc EXCEPT ![c] = IF woken = NoTask THEN "run" ELSE "woken"]
  /\ ret'  = [ret EXCEPT ![c] = "run"]
  /\ arg'  = [arg EXCEPT ![c] = IF woken = NoTask THEN 0 ELSE woken]
  /\ UNCHANGED <<isr, handles>>

\* A call blocks, or gives up at once if it may not wait.
WaitOrFail(c, s, m, e) ==
  /\ got' = Nothing /\ UNCHANGED ring
  /\ \/ /\ m.timeout = 0
        /\ k' = s
        /\ Finish(c, NoTask)
     \/ /\ m.timeout # 0
        /\ k' = BlockCurrent(s, e, m.timeout)
        /\ call' = [call EXCEPT ![c] = m]
        /\ CallSched(c, "wait")
        /\ UNCHANGED handles

\* One round of the loop of rtos_queue_generic_send ...
TrySend(c, s, m) ==
  IF HasRoom(s, m)
  THEN /\ k' = Send(s, m)
       /\ ring' = Store(m)
       /\ got'  = Nothing
       /\ Finish(c, FirstWaiting(s, Receivers(m.q)))
  ELSE WaitOrFail(c, s, m, Senders(m.q))

\* ... and of rtos_queue_generic_recv.
TryRecv(c, s, m) ==
  IF HasItem(s, m)
  THEN /\ k' = Recv(s, m)
       /\ ring' = Fetch(m)
       /\ got'  = <<c, ItemFound(m)>>
       /\ Finish(c, IF m.op = "peek" THEN NoTask ELSE FirstWaiting(s, Senders(m.q)))
  ELSE WaitOrFail(c, s, m, Receivers(m.q))

\* A task calls f.
CallingQueue(c, f) == c # Idle /\ At(c, "run") /\ f \in QueueCalls

\* A restriction on the application, not a guard of the code: it passes a timeout
\* only while the scheduler is not locked, for a task that waits must be switched
\* away from.
MayWait(m) == m.timeout # 0 => k.sched_lock = 0

QueueSend(c) ==
  /\ CallingQueue(c, "send")
  /\ \E m \in SendCalls : MayWait(m) /\ TrySend(c, k, m)

QueueRecv(c) ==
  \E op \in {"recv", "peek"} :
    /\ CallingQueue(c, op)
    /\ \E m \in RecvCalls(op) : MayWait(m) /\ TryRecv(c, k, m)

\* After the wait: a timeout ends the call, any other wake-up starts a new round.
\* Only the thread itself reads or writes wakeup_reason while it is not BLOCKED.
Awake(c) == [k EXCEPT !.wakeup_reason[c] = 0]

QueueTimeout(c) ==
  /\ At(c, "wait") /\ k.wakeup_reason[c] = 2
  /\ k' = Awake(c)
  /\ Finish(c, NoTask)
  /\ got' = Nothing /\ UNCHANGED ring

QueueRetry(c) ==
  /\ At(c, "wait") /\ k.wakeup_reason[c] # 2
  /\ IF call[c].op = "send"
     THEN TrySend(c, Awake(c), call[c])
     ELSE TryRecv(c, Awake(c), call[c])

QueueWoken(c) ==
  /\ At(c, "woken")
  /\ pc'  = [pc EXCEPT ![c] = IF k.priority[arg[c]] > k.priority[c] THEN "sched" ELSE "run"]
  /\ arg' = [arg EXCEPT ![c] = 0]
  /\ got' = Nothing
  /\ UNCHANGED <<k, isr, ret, handles, ring, call>>

-----------------------------------------------------------------------------
\* An interrupt handler of a higher priority than SysTick and PendSV, which may
\* run between any two steps but those of one critical section.  When the call
\* says that a task of a higher priority is awake, it calls rtos_sched.

\* Mutant: the handler wakes the task and does not ask for the switch.
FromIsrForgets(s, woken) == s

FromIsr(s, woken) ==
  IF woken # NoTask /\ s.priority[woken] > s.priority[s.current] THEN Sched(s) ELSE s

IsrSend ==
  /\ isr = "none" /\ "isr_send" \in QueueCalls
  /\ \E m \in SendCalls :
       /\ m.timeout = 0 /\ HasRoom(k, m)
       /\ k' = FromIsr(Send(k, m), FirstWaiting(k, Receivers(m.q)))
       /\ ring' = Store(m)
  /\ got' = Nothing
  /\ UNCHANGED <<threadVars, isr, handles, call>>

IsrRecv ==
  /\ isr = "none" /\ "isr_recv" \in QueueCalls
  /\ \E m \in RecvCalls("recv") :
       /\ m.timeout = 0 /\ HasItem(k, m)
       /\ k' = FromIsr(Recv(k, m), FirstWaiting(k, Senders(m.q)))
       /\ ring' = Fetch(m)
       /\ got'  = <<"isr", ItemFound(m)>>
  /\ UNCHANGED <<threadVars, isr, handles, call>>

-----------------------------------------------------------------------------
QueueInit ==
  /\ k = [InitKernel EXCEPT !.messages_waiting = Available]
  /\ InitThreads
  /\ ring = [q \in DataQueues |-> RingInit(Length[q], NoItem)]
  /\ call = [t \in Threads |-> NoCall]
  /\ got  = Nothing

\* A step of RtosTask; a task that is deleted leaves its call.
TaskStep ==
  /\ Next
  /\ call' = [t \in Threads |-> IF pc'[t] = "dead" THEN NoCall ELSE call[t]]
  /\ got'  = Nothing
  /\ UNCHANGED ring

QueueStep(c) ==
  QueueSend(c) \/ QueueRecv(c) \/ QueueTimeout(c) \/ QueueRetry(c) \/ QueueWoken(c)

QueueNext == TaskStep \/ (\E c \in Tasks : QueueStep(c)) \/ IsrSend \/ IsrRecv

QueueSpec == QueueInit /\ [][QueueNext]_allVars

-----------------------------------------------------------------------------
\* Properties

QueueLabels == Labels \cup {"wait", "woken"}

\* The variables keep the types of the C objects; messages_waiting never exceeds
\* the length of the queue, and agrees with the distance of the two pointers.
QueueTypeOK ==
  /\ k \in Kernel
  /\ \A q \in Queues : k.messages_waiting[q] <= Length[q]
  /\ \A q \in DataQueues :
       RingOK(ring[q], Length[q], k.messages_waiting[q], Items \cup {NoItem})
  /\ call \in [Threads -> SendCalls \cup RecvCalls("recv") \cup RecvCalls("peek") \cup {NoCall}]
  /\ pc \in [Threads -> QueueLabels] /\ ret \in [Threads -> QueueLabels]

WaitsIn(t) == IF call[t].op = "send" THEN Senders(call[t].q) ELSE Receivers(call[t].q)

\* A task is on an event list exactly when event_list names it, once, and only
\* while it is BLOCKED in a call on that queue; unless it waits for ever the tick
\* will end the wait.  A BLOCKED task is always on a list that can free it.
WaitersConsistent ==
  /\ \A e \in EventLists :
       /\ Distinct(k.waiting[e])
       /\ \A t \in Threads : k.event_list[t] = e <=> t \in ToSet(k.waiting[e])
  /\ \A t \in Threads : k.event_list[t] # NoList =>
       /\ t \in handles /\ k.state[t] = "BLOCKED"
       /\ call[t] # NoCall /\ WaitsIn(t) = k.event_list[t]
       /\ call[t].timeout # Forever => OnDelayList(k, t)
  /\ \A t \in handles : k.state[t] = "BLOCKED" =>
                          OnDelayList(k, t) \/ k.event_list[t] # NoList

\* The tasks that were woken from e and have not come round to try again.
Retrying(e) ==
  {t \in Threads : /\ call[t] # NoCall /\ WaitsIn(t) = e
                   /\ k.event_list[t] = NoList /\ k.wakeup_reason[t] = 1}

\* Receivers wait while the queue is empty (docs/rtos_queue.md of
\* tasks_waiting_to_receive), senders while it is full: no wake-up is lost, so an
\* item that is there beside a waiting receiver is there for a task that was woken
\* and has yet to try again, and so is a free place beside a waiting sender.
NoLostWakeup ==
  \A q \in Queues :
    /\ k.waiting[Receivers(q)] # <<>> =>
         k.messages_waiting[q] <= Cardinality(Retrying(Receivers(q)))
    /\ k.waiting[Senders(q)] # <<>> =>
         Length[q] - k.messages_waiting[q] <= Cardinality(Retrying(Senders(q)))

\* The tasks waiting for a queue are woken by priority: rtos_queue.h describes
\* both event lists as sorted by priority in descending order.
EventListsSorted ==
  \A e \in EventLists : \A i, j \in DOMAIN k.waiting[e] :
    i < j => k.priority[k.waiting[e][i]] >= k.priority[k.waiting[e][j]]

Ahead(s, t, u) == \E i, j \in DOMAIN s : i < j /\ s[i] = t /\ s[j] = u

\* Among tasks of one priority the first to wait is the first to be woken, however
\* the others of the list time out or are aborted: nobody gets ahead of a task that
\* waits but one of a higher priority, and a send or a receive takes out the head.
WokenInTurn ==
  [][\A e \in EventLists : LET old == k.waiting[e]  new == k'.waiting[e] IN
       /\ \A t \in ToSet(new), u \in ToSet(old) :
            Ahead(new, t, u) => Ahead(old, t, u) \/ k.priority[t] > k.priority[u]
       /\ \A t \in ToSet(old) \ ToSet(new) :
            k'.messages_waiting # k.messages_waiting => t = Head(old)]_allVars

\* The items that a queue holds, in the order in which they will be received.
Box ==
  [q \in Queues |-> IF q \in DataQueues
                   THEN Contents(ring[q], Length[q], k.messages_waiting[q])
                   ELSE [i \in 1 .. k.messages_waiting[q] |-> NoItem]]

\* The ring buffers and the counts as the mailboxes of module Mailbox.
Boxes == INSTANCE Mailbox WITH
  Users <- Threads \cup {"isr"},
  Items <- Items \cup {NoItem},
  box   <- Box

\* Whatever tasks and interrupts do to the ring buffers, and however often a call
\* is woken and tries again, each queue is a mailbox: an item is received once, in
\* order, urgent ones first, and none is overwritten.
QueuesAreMailboxes == Boxes!Spec

\* NoMissedSwitch with the calls of tasks and interrupts that wake tasks: after its
\* critical section a call still has to compare the priorities.
QueueNoMissedSwitch ==
  isr = "none" /\ ~k.pend_sv /\ k.current # PickHighestReady(k) =>
    \/ pc[k.current] \in {"sched", "pend", "created", "woken"}
    \/ k.sched_lock > 0 /\ k.need_resched
=============================================================================
