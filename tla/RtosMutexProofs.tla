---------------------------- MODULE RtosMutexProofs ----------------------------
(***************************************************************************)
(* Theorems about RtosMutex, for any tasks, priorities, mutexes, timeouts  *)
(* and depths of nesting, when a task has one mutex at a time: whoever was *)
(* told that it has a mutex is its holder, a mutex is free or has a living *)
(* holder, and no waiter goes on without the mutex it waited for. While    *)
(* nobody sets priorities, the holder of a mutex is at least as urgent as  *)
(* every task that waits for it, and has its own priority back once it     *)
(* holds none.                                                             *)
(*                                                                         *)
(* TaskOK says of each task, at each place of its calls, what it holds and *)
(* what it waits for. Ranked adds the order of the event lists, from which *)
(* the heir of a mutex outranks those it leaves behind.                    *)
(***************************************************************************)
EXTENDS RtosMutex, RtosTaskProofs

OneAtATime == MayHaveTwo = FALSE

-----------------------------------------------------------------------------
\* A mutex that is released

\* t releases q, and nobody takes it over.
Frees(s, r, t, q) ==
  /\ s.waiting[Waiters(q)] = <<>>
  /\ r.mutex_holder = With(s.mutex_holder, q, NoTask)
  /\ r.held_queue = With(s.held_queue, t, NoQueue)
  /\ r.messages_waiting = With(s.messages_waiting, q, 1)
  /\ \A p \in Queues \ {q} : r.recursive_count[p] = s.recursive_count[p]
  /\ r.event_list = s.event_list /\ r.wakeup_reason = s.wakeup_reason
  /\ Delayed(r) \subseteq Delayed(s)

\* t releases q, and h, the first that waits for it, is its holder.
Passes(s, r, t, q, h) ==
  /\ h \in Threads \ {t} /\ s.event_list[h] = Waiters(q) /\ h = FirstWaiting(s, Waiters(q))
  /\ r.mutex_holder = With(s.mutex_holder, q, h)
  /\ r.held_queue = With(With(s.held_queue, t, NoQueue), h, q)
  /\ r.messages_waiting = s.messages_waiting
  /\ \A p \in Queues \ {q} : r.recursive_count[p] = s.recursive_count[p]
  /\ r.event_list = With(s.event_list, h, NoList)
  /\ r.wakeup_reason = With(s.wakeup_reason, h, 1)
  /\ Delayed(r) \subseteq Delayed(s) \ {h}

Releases(s, r, t, q) ==
  Frees(s, r, t, q) \/ \E h \in Threads : Passes(s, r, t, q, h)

\* No task but t stops being ready.
Rouses(s, r, t) == \A u \in Threads \ {t} : r.state[u] = s.state[u] \/ r.state[u] = "READY"

LEMMA RousesThen ==
  ASSUME NEW s, NEW m, NEW r, NEW t, Rouses(s, m, t), r.state = m.state \/ Rouses(m, r, t)
  PROVE  Rouses(s, r, t)
BY DEF Rouses

LEMMA SameReleases ==
  ASSUME NEW s, NEW m, NEW r, NEW t, NEW q, Releases(m, r, t, q),
         SameHolders(s, m), m.event_list = s.event_list, m.wakeup_reason = s.wakeup_reason,
         Delayed(m) \subseteq Delayed(s), m.waiting[Waiters(q)] = s.waiting[Waiters(q)]
  PROVE  Releases(s, r, t, q)
<1>1. CASE Frees(m, r, t, q)
  BY <1>1 DEF Frees, SameHolders, Releases
<1>2. CASE \E h \in Threads : Passes(m, r, t, q, h)
  <2>1. PICK h \in Threads : Passes(m, r, t, q, h)
    BY <1>2
  <2>2. Passes(s, r, t, q, h)
    BY <2>1 DEF Passes, SameHolders, FirstWaiting
  <2> QED BY <2>2 DEF Releases
<1> QED BY <1>1, <1>2 DEF Releases

LEMMA ReleasesThen ==
  ASSUME NEW s, NEW m, NEW r, NEW t, NEW q, Releases(s, m, t, q),
         SameHolders(m, r), SameWaits(m, r)
  PROVE  Releases(s, r, t, q)
<1>1. CASE Frees(s, m, t, q)
  BY <1>1 DEF Frees, SameHolders, SameWaits, SameEvents, Releases
<1>2. CASE \E h \in Threads : Passes(s, m, t, q, h)
  <2>1. PICK h \in Threads : Passes(s, m, t, q, h)
    BY <1>2
  <2>2. Passes(s, r, t, q, h)
    BY <2>1 DEF Passes, SameHolders, SameWaits, SameEvents
  <2> QED BY <2>2 DEF Releases
<1> QED BY <1>1, <1>2 DEF Releases

\* The mutex that is released goes to h, whom WakeHighest has woken: the assignments
\* that follow.
LEMMA WokenPasses ==
  ASSUME NEW s, NEW H, KernelCore(s, H), NEW q \in Queues, s.waiting[Waiters(q)] # <<>>,
         NEW t \in Threads, t \notin Waiting(s), NEW r,
         r.mutex_holder = With(s.mutex_holder, q, FirstWaiting(s, Waiters(q))),
         r.held_queue = With(With(s.held_queue, t, NoQueue), FirstWaiting(s, Waiters(q)), q),
         r.messages_waiting = s.messages_waiting,
         \A p \in Queues \ {q} : r.recursive_count[p] = s.recursive_count[p],
         SameWaits(WakeHighest(s, Waiters(q)), r)
  PROVE  Releases(s, r, t, q)
<1> DEFINE e == Waiters(q)
           h == Head(s.waiting[e])
           w == WakeHighest(s, e)
<1>1. e \in EventLists
  BY DEF EventLists, Waiters
<1>2. /\ h \in H /\ s.event_list[h] = e /\ FirstWaiting(s, e) = h /\ MadeReady(s, w, h)
      /\ w.wakeup_reason = With(s.wakeup_reason, h, 1)
      /\ w.event_list = With(s.event_list, h, NoList)
  BY <1>1, WakeHighestEffect
<1>3. h \in Threads
  BY <1>2, CoreFacts
<1> HIDE DEF w, h
<1>4. h # t
  BY <1>1, <1>2, NoListIsNone DEF Waiting, e
<1>5. Delayed(w) = Delayed(s) \ {h}
  BY <1>2 DEF MadeReady, Effect
<1>6. /\ r.event_list = With(s.event_list, h, NoList)
      /\ r.wakeup_reason = With(s.wakeup_reason, h, 1)
      /\ Delayed(r) = Delayed(s) \ {h}
  BY <1>2, <1>5 DEF SameWaits, SameEvents, w
<1>7. Passes(s, r, t, q, h)
  BY <1>2, <1>3, <1>4, <1>6 DEF Passes, e
<1> QED BY <1>3, <1>7 DEF Releases

LEMMA WakeRouses ==
  ASSUME NEW s, NEW H, KernelCore(s, H), NEW e \in EventLists, NEW t
  PROVE  Rouses(s, WakeHighest(s, e), t)
<1> DEFINE w == WakeHighest(s, e)
<1>1. CASE s.waiting[e] = <<>>
  BY <1>1, WakeNobody DEF Rouses
<1>2. CASE s.waiting[e] # <<>>
  <2>1. MadeReady(s, w, Head(s.waiting[e]))
    BY <1>2, WakeHighestEffect
  <2>2. w.state = [s.state EXCEPT ![Head(s.waiting[e])] = "READY"]
    BY <2>1 DEF MadeReady, Effect
  <2>3. s.state \in [Threads -> TaskState]
    BY CoreFacts
  <2> HIDE DEF w
  <2> QED BY <2>2, <2>3 DEF Rouses, w
<1> QED BY <1>1, <1>2

\* rtos_queue_release_held of the holder of q.
LEMMA ReleaseHeldReleases ==
  ASSUME NEW s, NEW H, KernelCore(s, H), NEW t \in Threads, t \notin Waiting(s),
         NEW q \in Queues, s.held_queue[t] = q, IsMutex(q)
  PROVE  Releases(s, ReleaseHeld(s, t), t, q) /\ Rouses(s, ReleaseHeld(s, t), t)
<1> DEFINE e     == Waiters(q)
           heir  == FirstWaiting(s, e)
           hq    == [s.held_queue EXCEPT ![t] = NoQueue]
           rc    == [s.recursive_count EXCEPT ![q] = IF QueueType[q] = "RECURSIVE" THEN 0 ELSE @]
           op    == [s.original_priority EXCEPT ![q] = NotBoosted]
           clear == [s EXCEPT !.held_queue = hq, !.recursive_count = rc, !.original_priority = op]
           woken == WakeHighest(clear, e)
           given == [woken EXCEPT !.mutex_holder[q] = heir, !.held_queue[heir] = q]
           freed == [clear EXCEPT !.messages_waiting[q] = 1, !.mutex_holder[q] = NoTask]
           r     == ReleaseHeld(s, t)
<1>1. s \in Kernel /\ q # NoQueue /\ e \in EventLists
  BY CoreFacts, QueueAssumption DEF EventLists, Waiters
<1>2. /\ hq \in [Threads -> Queues \cup {NoQueue}] /\ rc \in [Queues -> Int]
      /\ op \in [Queues -> Prio \cup {NotBoosted}]
      /\ \A p \in Queues \ {q} : rc[p] = s.recursive_count[p]
  BY SMTT(40), <1>1 DEF Kernel
<1>3. hq = With(s.held_queue, t, NoQueue)
  BY DEF With
<1>4. r = IF heir = NoTask THEN freed ELSE given
  BY <1>1 DEF ReleaseHeld, Waiters
<1> HIDE DEF hq, rc, op
<1>5. /\ clear \in Kernel /\ SameCore(s, clear) /\ SameRest(s, clear)
      /\ clear.held_queue = hq /\ clear.recursive_count = rc
      /\ clear.mutex_holder = s.mutex_holder /\ clear.messages_waiting = s.messages_waiting
      /\ clear.wakeup_reason = s.wakeup_reason
  <2>1. /\ clear.held_queue = hq /\ clear.recursive_count = rc
        /\ clear.mutex_holder = s.mutex_holder /\ clear.messages_waiting = s.messages_waiting
        /\ clear.wakeup_reason = s.wakeup_reason
    BY <1>1 DEF Kernel
  <2>2. clear \in Kernel
    BY <1>1, <1>2 DEF Kernel
  <2>3. SameLists(s, clear) /\ SameRest(s, clear)
    BY <1>1 DEF Kernel, SameLists, SameQueued, SameDelays, SameEvents, SameRest
  <2>4. /\ clear.state = s.state /\ clear.used = s.used
        /\ clear.terminated_list = s.terminated_list /\ clear.current = s.current
    BY <1>1 DEF Kernel
  <2> HIDE DEF clear
  <2> QED BY <2>1, <2>2, <2>3, <2>4 DEF SameCore
<1>6. KernelCore(clear, H) /\ FirstWaiting(clear, e) = heir /\ SameWaits(s, clear)
  <2> HIDE DEF clear
  <2>1. KernelCore(clear, H)
    BY <1>5, SameCoreInv
  <2>2. SameWaits(s, clear)
    BY <1>5 DEF SameCore, SameLists, SameDelays, SameEvents, SameWaits, Delayed
  <2> QED BY <2>1, <2>2 DEF FirstWaiting, SameWaits, SameEvents
<1> HIDE DEF clear, r, e
<1>7. CASE s.waiting[e] = <<>>
  <2>1. heir = NoTask
    BY <1>7 DEF FirstWaiting
  <2> DEFINE mw == [clear.messages_waiting EXCEPT ![q] = 1]
             mh == [clear.mutex_holder EXCEPT ![q] = NoTask]
  <2>2. r = [clear EXCEPT !.messages_waiting = mw, !.mutex_holder = mh]
    BY <1>4, <2>1
  <2>3. mw = With(s.messages_waiting, q, 1) /\ mh = With(s.mutex_holder, q, NoTask)
    BY <1>5 DEF With
  <2> HIDE DEF mw, mh
  <2>4. /\ r.messages_waiting = mw /\ r.mutex_holder = mh /\ r.held_queue = hq
        /\ r.recursive_count = rc /\ r.state = clear.state /\ SameWaits(clear, r)
    BY <1>5, <2>2 DEF Kernel, SameWaits, SameEvents, Delayed
  <2>5. Frees(s, r, t, q)
    BY <1>2, <1>3, <1>6, <1>7, <2>3, <2>4 DEF Frees, SameWaits, SameEvents, e
  <2>6. Rouses(s, r, t)
    BY <1>5, <2>4 DEF Rouses, SameCore
  <2> QED BY <2>5, <2>6 DEF Releases, r
<1>8. CASE s.waiting[e] # <<>>
  <2>1. clear.waiting[e] # <<>>
    BY <1>6, <1>8 DEF SameWaits, SameEvents
  <2>2. /\ KernelCore(woken, H) /\ SameObjects(clear, woken) /\ heir \in H \cup {NoTask}
        /\ Rouses(clear, woken, t)
    BY <1>1, <1>6, WakeHighestInv, WakeRouses
  <2>3. heir # NoTask
    BY <1>1, <1>6, <2>1, WakeHighestEffect
  <2>4. woken \in Kernel /\ heir \in Threads
    BY <2>2, <2>3, CoreFacts
  <2> DEFINE mh == [woken.mutex_holder EXCEPT ![q] = heir]
             hh == [woken.held_queue EXCEPT ![heir] = q]
  <2>5. r = [woken EXCEPT !.mutex_holder = mh, !.held_queue = hh]
    BY <1>4, <2>3
  <2>6. /\ mh = With(clear.mutex_holder, q, heir)
        /\ hh = With(clear.held_queue, heir, q)
    BY <2>2 DEF With, SameObjects
  <2> HIDE DEF mh, hh, heir
  <2>7. /\ r.mutex_holder = mh /\ r.held_queue = hh /\ r.messages_waiting = woken.messages_waiting
        /\ r.recursive_count = woken.recursive_count /\ r.state = woken.state
        /\ SameWaits(woken, r)
    <3> HIDE DEF woken
    <3> QED BY <2>4, <2>5 DEF Kernel, SameWaits, SameEvents, Delayed
  <2>8. clear.waiting[Waiters(q)] # <<>> /\ t \notin Waiting(clear)
    BY <1>6, <2>1 DEF e, Waiting, SameWaits, SameEvents
  <2>9. /\ r.mutex_holder = With(clear.mutex_holder, q, FirstWaiting(clear, Waiters(q)))
        /\ r.messages_waiting = clear.messages_waiting
        /\ r.recursive_count = clear.recursive_count
        /\ r.held_queue = With(clear.held_queue, heir, q)
    BY <1>6, <2>2, <2>6, <2>7 DEF e, SameObjects
  <2>10. /\ FirstWaiting(s, Waiters(q)) = heir /\ s.waiting[Waiters(q)] # <<>>
         /\ \E w : w = WakeHighest(clear, Waiters(q)) /\ SameWaits(w, r)
    BY <1>8, <2>7 DEF heir, e
  <2>11. Passes(s, r, t, q, heir)
    <3>1. /\ heir \in H /\ s.event_list[heir] = e /\ MadeReady(clear, woken, heir)
          /\ woken.wakeup_reason = With(clear.wakeup_reason, heir, 1)
          /\ woken.event_list = With(clear.event_list, heir, NoList)
      <4>1. FirstWaiting(clear, e) = Head(clear.waiting[e]) /\ clear.event_list = s.event_list
        BY <1>6, <2>1 DEF FirstWaiting, SameWaits, SameEvents
      <4> QED BY <1>1, <1>6, <2>1, <4>1, WakeHighestEffect
    <3> HIDE DEF woken
    <3>2. heir # t
      BY <1>1, <3>1, NoListIsNone DEF Waiting
    <3>3. Delayed(woken) = Delayed(clear) \ {heir}
      BY <3>1 DEF MadeReady, Effect
    <3>4. /\ r.event_list = With(s.event_list, heir, NoList)
          /\ r.wakeup_reason = With(s.wakeup_reason, heir, 1)
          /\ Delayed(r) = Delayed(s) \ {heir}
      BY <1>6, <2>7, <3>1, <3>3 DEF SameWaits, SameEvents
    <3>5. /\ r.mutex_holder = With(s.mutex_holder, q, heir)
          /\ r.held_queue = With(With(s.held_queue, t, NoQueue), heir, q)
          /\ r.messages_waiting = s.messages_waiting /\ r.recursive_count = rc
      BY <1>3, <1>5, <2>9, <2>6, <2>7
    <3> QED BY <1>2, <2>4, <2>10, <3>1, <3>2, <3>4, <3>5 DEF Passes, e
  <2>12. Rouses(s, r, t)
    <3>1. Rouses(s, woken, t)
      BY <1>5, <2>2 DEF Rouses, SameCore
    <3> QED BY <2>7, <3>1, RousesThen
  <2> QED BY <2>4, <2>11, <2>12 DEF Releases, r
<1> QED BY <1>7, <1>8

-----------------------------------------------------------------------------
\* A task that is deleted

\* A task that is on no event list is taken off the other lists.
LEMMA DeactivateWaits ==
  ASSUME NEW s, NEW H, KernelCore(s, H), NEW t \in H, t \notin Waiting(s)
  PROVE  LET r == [Deactivate(s, t) EXCEPT !.state[t] = "DELETED"]
         IN  /\ SameHolders(s, r) /\ r.event_list = s.event_list
             /\ r.wakeup_reason = s.wakeup_reason /\ Delayed(r) \subseteq Delayed(s)
             /\ \A e \in EventLists : r.waiting[e] = s.waiting[e]
<1> DEFINE d == Deactivate(s, t)
           r == [d EXCEPT !.state[t] = "DELETED"]
<1>1. ListsOK(s) /\ s \in Kernel /\ t \in Threads /\ ReadyListsOK(s) /\ Leaves(s, s, t)
  BY CoreFacts, AwayLeaves DEF ListsOK
<1>2. /\ d.event_list = s.event_list /\ d.wakeup_reason = s.wakeup_reason
      /\ \A e \in EventLists : d.waiting[e] = s.waiting[e]
  <2>1. CASE s.state[t] \in OnReadyList
    <3>1. d = TaskUnready(s, t)
      BY <2>1, Zenon DEF Deactivate, OnReadyList
    <3> HIDE DEF d
    <3> QED BY <1>1, <3>1, TaskUnreadyFields DEF SameEvents
  <2>2. CASE s.state[t] = "BLOCKED"
    <3>1. s.state[t] \notin OnReadyList
      BY <2>2 DEF OnReadyList
    <3>2. d = Unblock(s, t)
      BY <2>2, <3>1, Zenon DEF Deactivate
    <3> HIDE DEF d
    <3>3. Drops(s, d, t)
      BY <1>1, <3>2, UnblockDrops
    <3> QED BY <1>1, <3>3 DEF Drops, Leaves
  <2>3. CASE s.state[t] \notin OnReadyList /\ s.state[t] # "BLOCKED"
    <3>1. d = s
      BY <2>3, Zenon DEF Deactivate
    <3> QED BY <3>1
  <2> QED BY <2>1, <2>2, <2>3
<1>3. Effect(s, d, Queued(s) \ {t}, Delayed(s) \ {t}, Waiting(s) \ {t}, s.state)
  BY DeactivateEffect
<1> HIDE DEF d
<1>4. d \in Kernel /\ SameObjects(s, d) /\ Delayed(d) = Delayed(s) \ {t}
  BY <1>3 DEF Effect, ListsOK
<1>5. SameWaits(d, r) /\ SameHolders(d, r)
  BY <1>4 DEF Kernel, SameWaits, SameEvents, Delayed, SameHolders
<1> HIDE DEF r
<1>6. /\ SameHolders(s, r) /\ r.event_list = s.event_list
      /\ r.wakeup_reason = s.wakeup_reason /\ Delayed(r) \subseteq Delayed(s)
      /\ \A e \in EventLists : r.waiting[e] = s.waiting[e]
  BY <1>2, <1>4, <1>5 DEF SameWaits, SameEvents, SameHolders, SameObjects
<1> QED BY <1>6 DEF r, d

LEMMA TerminateRouses ==
  ASSUME NEW s, NEW H, KernelInv(s, H), NEW t \in H, \A q \in Queues : IsMutex(q)
  PROVE  Rouses(s, Terminate(s, t), t)
<1> DEFINE m == [Deactivate(s, t) EXCEPT !.state[t] = "DELETED"]
<1>1. /\ t \in Threads /\ "DELETED" \in TaskState /\ KernelCore(s, H)
      /\ s.state \in [Threads -> TaskState]
  BY CoreFacts DEF KernelInv, TaskState
<1>2. Effect(s, m, Queued(s) \ {t}, Delayed(s) \ {t}, Waiting(s) \ {t},
             [s.state EXCEPT ![t] = "DELETED"])
  BY <1>1, DeactivateStateEffect
<1>3. Terminate(s, t) = ReleaseHeld(m, t)
  BY DEF Terminate
<1> HIDE DEF m
<1>4. KernelCore(m, H \ {t}) /\ t \notin Waiting(m) /\ m.state = [s.state EXCEPT ![t] = "DELETED"]
  BY <1>1, <1>2, LeavesLists DEF Effect
<1>5. Rouses(s, m, t)
  BY <1>1, <1>4 DEF Rouses
<1>6. m.held_queue[t] \in Queues \cup {NoQueue}
  BY <1>1, <1>4, CoreFacts DEF Kernel
<1>7. CASE m.held_queue[t] = NoQueue
  BY <1>3, <1>5, <1>7 DEF ReleaseHeld
<1>8. CASE m.held_queue[t] \in Queues
  <2>1. Rouses(m, ReleaseHeld(m, t), t)
    BY <1>1, <1>4, <1>8, ReleaseHeldReleases
  <2> QED BY <1>3, <1>5, <2>1, RousesThen
<1> QED BY <1>6, <1>7, <1>8

\* What a deletion does to the mutexes and to those that wait.
Ends(s, r, t) ==
  \/ /\ s.held_queue[t] = NoQueue /\ SameHolders(s, r) /\ Loosens(s, r)
     /\ Waiting(r) = Waiting(s) \ {t}
  \/ s.held_queue[t] \in Queues /\ Releases(s, r, t, s.held_queue[t])

LEMMA EndsThen ==
  ASSUME NEW s, NEW m, NEW t, Ends(s, m, t), NEW r, SameHolders(m, r), SameWaits(m, r)
  PROVE  Ends(s, r, t)
<1>1. CASE /\ s.held_queue[t] = NoQueue /\ SameHolders(s, m) /\ Loosens(s, m)
           /\ Waiting(m) = Waiting(s) \ {t}
  <2>1. Loosens(s, r)
    BY <1>1, LoosensThen
  <2>2. SameHolders(s, r)
    BY <1>1 DEF SameHolders
  <2>3. Waiting(r) = Waiting(s) \ {t}
    BY <1>1 DEF SameWaits, SameEvents, Waiting
  <2> QED BY <1>1, <2>1, <2>2, <2>3 DEF Ends
<1>2. CASE s.held_queue[t] \in Queues /\ Releases(s, m, t, s.held_queue[t])
  <2>1. Releases(s, r, t, s.held_queue[t])
    BY <1>2, ReleasesThen
  <2> QED BY <1>2, <2>1 DEF Ends
<1> QED BY <1>1, <1>2 DEF Ends

LEMMA TerminateEnds ==
  ASSUME NEW s, NEW H, KernelInv(s, H), NEW t \in H, \A q \in Queues : IsMutex(q),
         s.held_queue[t] \in Queues => t \notin Waiting(s)
  PROVE  Ends(s, Terminate(s, t), t)
<1> DEFINE d == [Deactivate(s, t) EXCEPT !.state[t] = "DELETED"]
           q == s.held_queue[t]
           r == Terminate(s, t)
<1>1. /\ t \in Threads /\ KernelCore(s, H) /\ "DELETED" \in TaskState
      /\ q \in Queues \cup {NoQueue}
  BY CoreFacts DEF KernelInv, TaskState, Kernel
<1>2. Effect(s, d, Queued(s) \ {t}, Delayed(s) \ {t}, Waiting(s) \ {t},
             [s.state EXCEPT ![t] = "DELETED"])
  BY <1>1, DeactivateStateEffect
<1>3. CASE q = NoQueue
  <2>1. r = d
    BY <1>1, <1>3, TerminateUnheld
  <2>2. Loosens(s, d)
    BY <1>1, DeactivateLoosens
  <2> HIDE DEF d, r
  <2>3. SameHolders(s, d) /\ Waiting(d) = Waiting(s) \ {t}
    BY <1>2 DEF Effect, SameObjects, SameHolders
  <2> QED BY <1>3, <2>1, <2>2, <2>3 DEF Ends, r
<1>4. CASE q \in Queues
  <2>1. r = ReleaseHeld(d, t)
    BY DEF Terminate
  <2>2. /\ SameHolders(s, d) /\ d.event_list = s.event_list
        /\ d.wakeup_reason = s.wakeup_reason /\ Delayed(d) \subseteq Delayed(s)
        /\ \A e \in EventLists : d.waiting[e] = s.waiting[e]
    BY <1>1, <1>4, DeactivateWaits
  <2> HIDE DEF d, r
  <2>3. KernelCore(d, H \ {t}) /\ t \notin Waiting(d)
    BY <1>1, <1>2, LeavesLists DEF Effect
  <2>4. d.held_queue[t] = q /\ Waiters(q) \in EventLists
    BY <1>4, <2>2 DEF SameHolders, EventLists, Waiters
  <2> HIDE DEF q
  <2>5. Releases(d, r, t, q)
    BY <1>1, <1>4, <2>1, <2>3, <2>4, ReleaseHeldReleases
  <2>6. Releases(s, r, t, q)
    BY <2>2, <2>4, <2>5, SameReleases
  <2> QED BY <1>4, <2>6 DEF Ends, q, r
<1> QED BY <1>1, <1>3, <1>4

LEMMA DeleteOtherEnds ==
  ASSUME NEW s, NEW H, KernelInv(s, H), NEW t \in H, \A q \in Queues : IsMutex(q),
         s.held_queue[t] \in Queues => t \notin Waiting(s)
  PROVE  Ends(s, DeleteOther(s, t), t) /\ Rouses(s, DeleteOther(s, t), t)
<1> DEFINE d == Terminate(s, t)
           r == [d EXCEPT !.used = @ \ {t}]
<1>1. Ends(s, d, t) /\ Rouses(s, d, t) /\ KernelCore(d, H \ {t})
  BY TerminateEnds, TerminateRouses, TerminateInv
<1>2. DeleteOther(s, t) = r
  BY DEF DeleteOther
<1>3. d \in Kernel
  BY <1>1, CoreFacts
<1> HIDE DEF d
<1>4. SameHolders(d, r) /\ SameWaits(d, r) /\ r.state = d.state
  BY <1>3 DEF Kernel, SameHolders, SameWaits, SameEvents, Delayed
<1> HIDE DEF r
<1> QED BY <1>1, <1>2, <1>4, EndsThen, RousesThen

LEMMA DeleteSelfEnds ==
  ASSUME NEW s, NEW H, KernelInv(s, H), NEW t \in H, \A q \in Queues : IsMutex(q),
         s.held_queue[t] \in Queues => t \notin Waiting(s), t = s.current
  PROVE  Ends(s, DeleteSelf(s), t)
<1> DEFINE d == Terminate(s, t)
           e == [d EXCEPT !.terminated_list = Append(@, t), !.sched_lock = 0]
           r == DeleteSelf(s)
<1>1. Ends(s, d, t) /\ KernelCore(d, H \ {t})
  BY TerminateEnds, TerminateInv
<1>2. d \in Kernel
  BY <1>1, CoreFacts
<1>3. r = IF s.sched_lock > 0 THEN RequestSwitch([e EXCEPT !.need_resched = FALSE])
                              ELSE [e EXCEPT !.need_resched = TRUE]
  BY DEF DeleteSelf
<1> HIDE DEF d, r
<1>4. SameHolders(d, e) /\ SameWaits(d, e) /\ DOMAIN e = DOMAIN d
  BY <1>2 DEF Kernel, SameHolders, SameWaits, SameEvents, Delayed
<1>5. {"delay_list", "overflow_list", "waiting", "event_list", "wakeup_reason", "held_queue",
       "messages_waiting", "mutex_holder", "recursive_count"} \subseteq DOMAIN d
  BY <1>2 DEF Kernel
<1> HIDE DEF e
<1>6. SameHolders(e, r) /\ SameWaits(e, r)
  BY <1>3, <1>4, <1>5 DEF RequestSwitch, SameHolders, SameWaits, SameEvents, Delayed
<1>7. SameHolders(d, r) /\ SameWaits(d, r)
  BY <1>4, <1>6 DEF SameHolders, SameWaits, SameEvents
<1>8. Ends(s, r, t)
  BY <1>1, <1>7, EndsThen
<1> QED BY <1>8 DEF r
-----------------------------------------------------------------------------
\* Who runs

\* A task that executes is ready, or waits for the scheduler lock to end.
Dozes ==
  k.state[k.current] \notin OnReadyList =>
    \/ k.pend_sv
    \/ pc[k.current] \in {"sched", "pend"}
    \/ k.sched_lock > 0 /\ k.need_resched

LEMMA DozesAsked ==
  ASSUME IInv, NEW c \in Tasks, k'.current = c,
         NEW l \in {"sched", "pend"}, pc' = [pc EXCEPT ![c] = l]
  PROVE  Dozes'
<1>1. pc \in [Threads -> AllLabels] /\ c \in Threads
  BY TypeFacts
<1>2. pc'[c] = l
  BY <1>1
<1> QED BY <1>2 DEF Dozes

LEMMA DozesKept ==
  ASSUME Dozes, NEW c \in Threads, NEW l \in Running, At(c, l), k'.current = k.current,
         k.state[c] \in OnReadyList => k'.state[c] \in OnReadyList,
         (k'.sched_lock > 0 /\ k'.need_resched) \/ ~(k.sched_lock > 0 /\ k.need_resched)
  PROVE  Dozes'
<1>1. pc[k.current] \notin {"sched", "pend"} /\ ~k.pend_sv /\ c = k.current
  BY DEF At, Running
<1> QED BY <1>1 DEF Dozes

LEMMA DozesHandler ==
  ASSUME IInv, Dozes, Handler
  PROVE  Dozes'
<1>1. KernelInv(k, handles) /\ KernelCore(k, handles) /\ k \in Kernel /\ k.current \in Threads
  BY TypeFacts
<1>2. CASE PendSV
  <2>1. k' = SwitchContext(k)
    BY <1>2 DEF PendSV
  <2>2. LET r == SwitchContext(k)
        IN  /\ r.current \in Queued(k)
            /\ \A u \in Threads : r.state[u] \in OnReadyList <=> k.state[u] \in OnReadyList
    BY <1>1, SwitchContextInv
  <2>3. \A u \in Queued(k) : u \in Threads /\ k.state[u] \in OnReadyList
    BY <1>1 DEF KernelCore, Queued
  <2> QED BY <2>1, <2>2, <2>3 DEF Dozes
<1>3. CASE SysTick
  <2>1. k' = TickBegin(k) /\ pc' = pc
    BY <1>3 DEF SysTick, threadVars
  <2>2. LET r == TickBegin(k)
        IN  /\ SameBase(k, r) /\ r.pend_sv = k.pend_sv /\ r.state = k.state
            /\ r.need_resched = k.need_resched
    BY <1>1, TickBeginInv
  <2> QED BY <2>1, <2>2 DEF Dozes, SameBase
<1>4. CASE SysTickWake
  <2>1. k' = TickWake(k) /\ pc' = pc /\ k.delay_list # <<>>
    BY <1>4 DEF SysTickWake, threadVars, HeadExpired
  <2>2. LET r == TickWake(k)
        IN  /\ SameBase(k, r) /\ r.pend_sv = k.pend_sv
            /\ r.state = With(k.state, Head(k.delay_list), "READY")
            /\ Head(k.delay_list) \in handles
            /\ k.need_resched => r.need_resched
    BY <1>1, <2>1, TickWakeInv
  <2>3. k.state \in [Threads -> TaskState]
    BY <1>1 DEF Kernel
  <2>4. k'.state[k.current] = k.state[k.current] \/ k'.state[k.current] = "READY"
    BY <1>1, <2>1, <2>2, <2>3 DEF With
  <2> QED BY <2>1, <2>2, <2>4 DEF Dozes, SameBase, OnReadyList
<1>5. CASE SysTickEnd
  <2>1. k' = TickEnd(k) /\ pc' = pc
    BY <1>5 DEF SysTickEnd, threadVars
  <2>2. LET r == TickEnd(k)
        IN  /\ SliceOnly(k, r)
            /\ IF k.sched_lock > 0 THEN r.pend_sv = k.pend_sv /\ r.need_resched ELSE r.pend_sv
    BY <1>1, TickEndInv
  <2> QED BY <2>1, <2>2 DEF Dozes, SliceOnly, SameBase
<1> QED BY <1>2, <1>3, <1>4, <1>5 DEF Handler

\* rtos_sched asks for the switch, or leaves need_resched for the end of the lock.
LEMMA DozesSched ==
  ASSUME IInv, NEW c \in Tasks, RtosSched(c) \/ RtosRequestSwitch(c)
  PROVE  Dozes'
<1>1. k \in Kernel /\ pc \in [Threads -> AllLabels] /\ c \in Threads
  BY TypeFacts
<1>2. CASE RtosSched(c)
  <2>1. /\ c = k.current /\ k' = SchedCheck(k)
        /\ pc' = [pc EXCEPT ![c] = IF k.sched_lock > 0 THEN ret[c] ELSE "pend"]
    BY <1>2 DEF RtosSched, GoTo, At
  <2>2. /\ k'.current = c /\ k'.sched_lock = k.sched_lock
        /\ k'.need_resched = (k.sched_lock > 0)
    BY <1>1, <2>1 DEF SchedCheck, Kernel
  <2>3. CASE k.sched_lock > 0
    BY <2>2, <2>3 DEF Dozes
  <2>4. CASE ~(k.sched_lock > 0)
    <3>1. pc' = [pc EXCEPT ![c] = "pend"]
      BY <2>1, <2>4
    <3> QED BY <2>2, <3>1, DozesAsked
  <2> QED BY <2>3, <2>4
<1>3. CASE RtosRequestSwitch(c)
  <2>1. k' = [k EXCEPT !.pend_sv = TRUE]
    BY <1>3 DEF RtosRequestSwitch, RequestSwitch
  <2>2. k'.pend_sv
    BY <1>1, <2>1 DEF Kernel
  <2> QED BY <2>2 DEF Dozes
<1> QED BY <1>2, <1>3

LEMMA DozesSuspend ==
  ASSUME IInv, Dozes, NEW c \in Tasks, TaskSuspend(c)
  PROVE  Dozes'
<1>1. At(c, "run")
  BY DEF TaskSuspend, Calling
<1>2. /\ KernelCore(k, handles) /\ KernelInv(k, handles) /\ c \in Threads /\ c = k.current
      /\ k.state \in [Threads -> TaskState]
  BY <1>1, TypeFacts, CallerLives DEF Running, Kernel
<1>3. PICK t \in handles : /\ k' = Suspend(k, t)
                           /\ SchedIf(c, t = c /\ k.state[t] \in OnReadyList)
  BY DEF TaskSuspend
<1>4. SameRest(k, k') /\ t \in Threads
  BY <1>2, <1>3, SuspendInv, CoreFacts
<1>5. k'.current = k.current /\ k'.sched_lock = k.sched_lock /\ k'.need_resched = k.need_resched
  BY <1>4 DEF SameRest
<1>6. CASE t = c /\ k.state[t] \in OnReadyList
  <2>1. pc' = [pc EXCEPT ![c] = "sched"]
    BY <1>3, <1>6 DEF SchedIf, CallSched
  <2> QED BY <1>2, <1>5, <2>1, DozesAsked
<1>7. CASE t = c /\ k.state[t] \notin OnReadyList
  BY <1>1, <1>2, <1>5, <1>7, DozesKept DEF Running
<1>8. CASE t # c
  <2>1. k'.state[c] = k.state[c]
    <3>1. CASE k.state[t] \in OnReadyList \cup {"BLOCKED"}
      <4>1. k' = [Deactivate(k, t) EXCEPT !.state[t] = "SUSPENDED"]
        BY <1>3, <3>1 DEF Suspend
      <4>2. "SUSPENDED" \in TaskState
        BY DEF TaskState
      <4>3. k'.state = [k.state EXCEPT ![t] = "SUSPENDED"]
        BY ZenonT(40), <1>2, <4>1, <4>2, DeactivateStateEffect DEF Effect
      <4> QED BY <1>2, <1>8, <4>3
    <3>2. CASE k.state[t] \notin OnReadyList \cup {"BLOCKED"}
      <4>1. k' = k
        BY <1>3, <3>2 DEF Suspend
      <4> QED BY <4>1
    <3> QED BY <3>1, <3>2
  <2> QED BY <1>1, <1>2, <1>5, <2>1, DozesKept DEF Running
<1> QED BY <1>6, <1>7, <1>8

LEMMA DozesResume ==
  ASSUME IInv, Dozes, NEW c \in Tasks, TaskResume(c) \/ TaskCreateReady(c)
  PROVE  Dozes'
<1>1. At(c, "run") \/ At(c, "create")
  BY DEF TaskResume, TaskCreateReady, Calling
<1>2. k \in Kernel /\ c \in Threads /\ c = k.current /\ k.state \in [Threads -> TaskState]
  BY <1>1, TypeFacts, CallerLives DEF Running, Kernel
<1>3. PICK t \in Threads : k' = TaskReady(k, t)
  <2>1. CASE TaskResume(c)
    BY <2>1, TypeFacts DEF TaskResume
  <2>2. CASE TaskCreateReady(c)
    BY <2>2, TypeFacts DEF TaskCreateReady, IInv, ThreadInv, SlotsInv, At
  <2> QED BY <2>1, <2>2
<1>4. SameRest(k, k') /\ k'.state = [k.state EXCEPT ![t] = "READY"]
  BY <1>2, <1>3, TaskReadyFields
<1>5. k'.state[c] = k.state[c] \/ k'.state[c] = "READY"
  BY <1>2, <1>4
<1>6. /\ k'.current = k.current /\ k'.sched_lock = k.sched_lock
      /\ k'.need_resched = k.need_resched
  BY <1>4 DEF SameRest
<1> QED BY <1>1, <1>2, <1>5, <1>6, DozesKept DEF Running, OnReadyList

LEMMA DozesDelete ==
  ASSUME IInv, Dozes, NEW c \in Tasks, TaskDeleteOther(c),
         \A q \in Queues : IsMutex(q),
         \A t \in handles : k.held_queue[t] \in Queues => t \notin Waiting(k)
  PROVE  Dozes'
<1>1. At(c, "run")
  BY DEF TaskDeleteOther, Calling
<1>2. KernelCore(k, handles) /\ KernelInv(k, handles) /\ c \in Threads /\ c = k.current
  BY <1>1, TypeFacts, CallerLives DEF Running
<1>3. PICK t \in handles \ {c} : k' = DeleteOther(k, t)
  BY DEF TaskDeleteOther
<1>4. Rouses(k, k', t) /\ t # k.current
  BY <1>2, <1>3, DeleteOtherEnds
<1>5. /\ k'.current = k.current /\ k'.sched_lock = k.sched_lock
      /\ k'.need_resched = k.need_resched
  BY ZenonT(60), <1>2, <1>3, DeleteOtherInv
<1>6. k'.state[c] = k.state[c] \/ k'.state[c] = "READY"
  BY <1>2, <1>3, <1>4 DEF Rouses
<1> QED BY <1>1, <1>2, <1>5, <1>6, DozesKept DEF Running, OnReadyList

LEMMA DozesLock ==
  ASSUME IInv, Dozes, NEW c \in Tasks, RtosSchedLock(c) \/ RtosSchedUnlock(c)
  PROVE  Dozes'
<1>1. At(c, "run")
  BY DEF RtosSchedLock, RtosSchedUnlock, Calling
<1>2. k \in Kernel /\ c \in Threads /\ c = k.current /\ k.sched_lock \in Nat
  BY <1>1, TypeFacts, CallerLives DEF Running
<1>3. CASE RtosSchedLock(c)
  <2>1. k' = [k EXCEPT !.sched_lock = @ + 1]
    BY <1>3 DEF RtosSchedLock
  <2>2. /\ k'.state = k.state /\ k'.current = k.current
        /\ k'.sched_lock = k.sched_lock + 1 /\ k'.need_resched = k.need_resched
    BY <1>2, <2>1 DEF Kernel
  <2> QED BY <1>1, <1>2, <2>2, DozesKept DEF Running
<1>4. CASE RtosSchedUnlock(c) /\ k.sched_lock = 1 /\ k.need_resched
  <2>1. k' = [k EXCEPT !.sched_lock = 0, !.need_resched = FALSE]
    BY <1>4 DEF RtosSchedUnlock, SchedUnlock
  <2>2. pc' = [pc EXCEPT ![c] = "sched"] /\ k'.current = c
    BY <1>2, <1>4, <2>1 DEF RtosSchedUnlock, SchedIf, CallSched, Kernel
  <2> QED BY <2>2, DozesAsked
<1>5. CASE RtosSchedUnlock(c) /\ ~(k.sched_lock = 1 /\ k.need_resched)
  <2>1. k' = [k EXCEPT !.sched_lock = @ - 1] /\ k.sched_lock > 0
    BY <1>5 DEF RtosSchedUnlock, SchedUnlock
  <2>2. /\ k'.state = k.state /\ k'.current = k.current
        /\ k'.sched_lock = k.sched_lock - 1 /\ k'.need_resched = k.need_resched
    BY <1>2, <2>1 DEF Kernel
  <2>3. (k'.sched_lock > 0 /\ k'.need_resched) \/ ~(k.sched_lock > 0 /\ k.need_resched)
    <3>1. k.sched_lock \in Nat /\ (k.sched_lock = 1 => ~k.need_resched) /\ k.sched_lock > 0
      BY <1>2, <1>5, <2>1
    <3>2. CASE k.sched_lock = 1
      BY <3>1, <3>2
    <3>3. CASE k.sched_lock # 1
      <4>1. k.sched_lock - 1 > 0
        BY <3>1, <3>3
      <4> QED BY <2>2, <4>1
    <3> QED BY <3>2, <3>3
  <2> QED BY <1>1, <1>2, <2>2, <2>3, DozesKept DEF Running
<1> QED BY <1>3, <1>4, <1>5

LEMMA DozesCreate ==
  ASSUME IInv, Dozes, NEW c \in Tasks, TaskCreate(c)
  PROVE  Dozes'
<1>1. At(c, "run") /\ KernelInv(k, handles) /\ c \in Threads
  BY TypeFacts DEF TaskCreate, Calling
<1>2. PICK t \in Tasks \ k.used, p \in CreatePrios : k' = TcbAlloc(k, t, p)
  BY DEF TaskCreate
<1>3. t \in Tasks /\ t \notin k.used /\ p \in Prio
  BY <1>2, CallAssumption
<1>4. /\ k'.current = k.current /\ k'.state = With(k.state, t, "READY")
      /\ k'.sched_lock = k.sched_lock /\ k'.need_resched = k.need_resched
  BY <1>1, <1>2, <1>3, TcbAllocInv
<1>5. k.state \in [Threads -> TaskState] /\ t \in Threads
  BY <1>3, TypeFacts DEF Kernel
<1>6. k'.state[c] = k.state[c] \/ k'.state[c] = "READY"
  BY <1>1, <1>4, <1>5 DEF With
<1> QED BY <1>1, <1>4, <1>6, DozesKept DEF Running, OnReadyList

LEMMA DozesIdle ==
  ASSUME IInv, IdleThread
  PROVE  Dozes'
<1>1. k \in Kernel /\ KernelCore(k, handles)
  BY TypeFacts
<1>2. k.current = Idle
  BY DEF IdleThread, IdleReclaim, IdleFree, At
<1>3. k'.current = k.current /\ k'.state = k.state
  BY <1>1 DEF IdleThread, IdleReclaim, IdleFree, Kernel
<1>4. k.state[Idle] \in OnReadyList
  BY <1>1 DEF KernelCore
<1> QED BY <1>2, <1>3, <1>4 DEF Dozes

LEMMA DozesStep ==
  ASSUME IInv, Dozes, [Next]_vars, \A q \in Queues : IsMutex(q),
         \A t \in handles : k.held_queue[t] \in Queues => t \notin Waiting(k)
  PROVE  Dozes'
<1>1. CASE Handler
  BY <1>1, DozesHandler
<1>2. CASE IdleThread
  BY <1>2, DozesIdle
<1>3. ASSUME NEW c \in Tasks, Thread(c) PROVE Dozes'
  <2>1. CASE RtosSched(c) \/ RtosRequestSwitch(c)
    BY <2>1, DozesSched
  <2>2. CASE \/ TaskYield(c) \/ TaskDelay(c) \/ TaskDelayUntilSleep(c) \/ TaskAbortDelay(c)
             \/ TaskSetPriority(c) \/ TaskDeleteSelf(c)
    BY <2>2, CallsAsk, DozesAsked
  <2>3. CASE TaskDelayUntil(c) \/ TaskCreateReturn(c)
    <3>1. /\ k' = k /\ (At(c, "run") \/ At(c, "created")) /\ c \in Threads
      BY <2>3, TypeFacts DEF TaskDelayUntil, TaskCreateReturn, Calling
    <3> QED BY <3>1, DozesKept DEF Running
  <2>4. CASE TaskSuspend(c)
    BY <2>4, DozesSuspend
  <2>5. CASE TaskResume(c) \/ TaskCreateReady(c)
    BY <2>5, DozesResume
  <2>6. CASE TaskDeleteOther(c)
    BY <2>6, DozesDelete
  <2>7. CASE RtosSchedLock(c) \/ RtosSchedUnlock(c)
    BY <2>7, DozesLock
  <2>8. CASE TaskCreate(c)
    BY <2>8, DozesCreate
  <2> QED BY <1>3, <2>1, <2>2, <2>3, <2>4, <2>5, <2>6, <2>7, <2>8 DEF Thread
<1>4. CASE UNCHANGED vars
  BY <1>4 DEF vars, Dozes
<1> QED BY <1>1, <1>2, <1>3, <1>4 DEF Next

-----------------------------------------------------------------------------
\* What a task holds and what it waits for

Inner  == {"take", "count", "give"}
Takes  == [q: Queues, timeout: MutexTimeouts \cup {0}]

\* t waits for a mutex, or is between two critical sections of a call.
InCall(t) == ret[t] = "wait" \/ pc[t] \in Inner

\* Nobody ends the wait of a task but a give, a deletion or its timeout.
Undisturbed == "suspend" \notin Calls /\ "abort_delay" \notin Calls

\* Why t is the holder of q: the application was told so, or a call of t that is not
\* over will tell it.
Has(t, q) ==
  \/ owns[t][q] > 0
  \/ call[t].q = q /\ pc[t] \in {"count", "give"}
  \/ call[t].q = q /\ ret[t] = "wait" /\ t \notin Waiting(k) /\ k.wakeup_reason[t] = 1

CallOK(t) ==
  /\ InCall(t) => t \in handles /\ call[t] \in Takes /\ \A q \in Queues : owns[t][q] = 0
  /\ pc[t] \in Inner => IsRecursive(call[t].q)
  /\ pc[t] \in {"count", "give"} => k.mutex_holder[call[t].q] = t

HoldOK(t) ==
  \A q \in Queues :
    /\ k.held_queue[t] = q <=> k.mutex_holder[q] = t
    /\ k.mutex_holder[q] = t => t \in handles /\ Has(t, q)
    /\ owns[t][q] > 0 =>
         k.mutex_holder[q] = t /\ (IsRecursive(q) => k.recursive_count[q] = owns[t][q])

WaitOK(t) ==
  /\ t \in Waiting(k) => /\ ret[t] = "wait" /\ k.event_list[t] = Waiters(call[t].q)
                         /\ k.mutex_holder[call[t].q] # NoTask
  /\ ret[t] = "wait" /\ t \notin Waiting(k) =>
       /\ t \notin Delayed(k)
       /\ Undisturbed => k.wakeup_reason[t] = 2 \/ k.mutex_holder[call[t].q] = t

TaskOK(t) == CallOK(t) /\ HoldOK(t) /\ WaitOK(t)

ObjectOK(q) == k.messages_waiting[q] = IF k.mutex_holder[q] = NoTask THEN 1 ELSE 0

\* With the scheduler locked nobody waits, nor is about to.
LockTakes == k.sched_lock > 0 /\ pc[k.current] = "take" => call[k.current].timeout = 0

\* How often a task can have the mutexes: only a recursive one more than once.
Counts == {o \in [Queues -> 0 .. MaxDepth] : \A q \in Queues : IsRecursive(q) \/ o[q] <= 1}

CallTypes ==
  /\ call \in [Threads -> Takes \cup {NoCall}]
  /\ owns \in [Threads -> Counts]

MutexInv ==
  /\ IInv /\ WaitShape /\ LockWaits /\ LockTakes /\ Dozes /\ CallTypes
  /\ \A t \in Threads : TaskOK(t)
  /\ \A q \in Queues : ObjectOK(q)

\* A step that leaves the calls of u alone.
Stays(u) ==
  /\ ret'[u] = "wait" <=> ret[u] = "wait"
  /\ pc'[u] # pc[u] => pc[u] \notin Inner /\ pc'[u] \notin Inner
  /\ call'[u] = call[u] /\ owns'[u] = owns[u]
  /\ u \in handles => u \in handles'

\* A step that can end the wait of u, but without a mutex.
KeepsWait(u) ==
  /\ k'.event_list[u] \in {k.event_list[u], NoList}
  /\ ret[u] = "wait" /\ u \notin Waiting(k') => u \notin Delayed(k')
  /\ ret[u] = "wait" /\ u \notin Waiting(k) => k'.wakeup_reason[u] = k.wakeup_reason[u]
  /\ Undisturbed /\ u \in Waiting(k) /\ u \notin Waiting(k') => k'.wakeup_reason[u] = 2

\* A step that neither gives u a mutex nor takes one from it.
KeepsMutexes(u) ==
  /\ k'.held_queue[u] = k.held_queue[u]
  /\ \A q \in Queues : k'.mutex_holder[q] = u <=> k.mutex_holder[q] = u
  /\ \A q \in Queues : k.mutex_holder[q] = u => k'.recursive_count[q] = k.recursive_count[q]
  /\ u \in Waiting(k') => k'.mutex_holder[call[u].q] # NoTask

LEMMA StaysOK ==
  ASSUME NEW u \in Threads, TaskOK(u), Stays(u), KeepsWait(u), KeepsMutexes(u)
  PROVE  TaskOK(u)'
<1>1. /\ InCall(u)' <=> InCall(u)
      /\ \A l \in Inner : pc'[u] = l <=> pc[u] = l
  BY DEF InCall, Stays, Inner
<1>2. InCall(u) => call[u].q \in Queues
  BY DEF TaskOK, CallOK, Takes
<1>3. u \in Waiting(k') => u \in Waiting(k) /\ k'.event_list[u] = k.event_list[u]
  BY DEF KeepsWait, Waiting
<1>4. CallOK(u)'
  BY <1>1, <1>2 DEF TaskOK, CallOK, Stays, KeepsMutexes, InCall, Inner
<1>5. ASSUME NEW q \in Queues, Has(u, q) PROVE Has(u, q)'
  <2>1. CASE owns[u][q] > 0
    BY <2>1 DEF Has, Stays
  <2>2. CASE call[u].q = q /\ pc[u] \in {"count", "give"}
    BY <1>1, <2>2 DEF Has, Stays, Inner
  <2>3. CASE call[u].q = q /\ ret[u] = "wait" /\ u \notin Waiting(k) /\ k.wakeup_reason[u] = 1
    BY <1>3, <2>3 DEF Has, Stays, KeepsWait
  <2> QED BY <1>5, <2>1, <2>2, <2>3 DEF Has
<1>6. HoldOK(u)'
  BY <1>5 DEF TaskOK, HoldOK, Stays, KeepsMutexes
<1>7. WaitOK(u)'
  <2>1. u \in Waiting(k') =>
          /\ ret'[u] = "wait" /\ k'.event_list[u] = Waiters(call'[u].q)
          /\ k'.mutex_holder[call'[u].q] # NoTask
    BY <1>3 DEF TaskOK, WaitOK, Stays, KeepsMutexes
  <2>2. ASSUME ret'[u] = "wait", u \notin Waiting(k')
        PROVE  /\ u \notin Delayed(k')
               /\ Undisturbed => k'.wakeup_reason[u] = 2 \/ k'.mutex_holder[call'[u].q] = u
    <3>1. ret[u] = "wait" /\ call'[u] = call[u] /\ call[u].q \in Queues
      BY <1>2, <2>2 DEF Stays, InCall
    <3>2. CASE u \in Waiting(k)
      BY <2>2, <3>1, <3>2 DEF KeepsWait
    <3>3. CASE u \notin Waiting(k)
      BY <2>2, <3>1, <3>3 DEF KeepsWait, KeepsMutexes, TaskOK, WaitOK
    <3> QED BY <3>2, <3>3
  <2> QED BY <2>1, <2>2 DEF WaitOK
<1> QED BY <1>4, <1>6, <1>7 DEF TaskOK

\* A task that is left without a mutex, in no call.
LEMMA IdleOK ==
  ASSUME NEW u \in Threads, ~InCall(u)', u \notin Waiting(k'), k'.held_queue[u] = NoQueue,
         \A q \in Queues : k'.mutex_holder[q] # u /\ owns'[u][q] = 0
  PROVE  TaskOK(u)'
<1>1. \A q \in Queues : q # NoQueue
  BY QueueAssumption
<1> QED BY <1>1 DEF TaskOK, CallOK, HoldOK, WaitOK, InCall, Inner

\* A holder does not wait.
LEMMA HolderAwake ==
  ASSUME NEW t \in Threads, TaskOK(t), WaitShape, NEW q \in Queues, k.mutex_holder[q] = t
  PROVE  t \notin Waiting(k)
<1>1. Has(t, q)
  BY DEF TaskOK, HoldOK
<1>2. SUFFICES ASSUME t \in Waiting(k) PROVE FALSE
  OBVIOUS
<1>3. ret[t] = "wait" /\ pc[t] \in {"sched", "pend", "wait"}
  BY <1>2 DEF TaskOK, WaitOK, WaitShape
<1>4. owns[t][q] = 0
  BY <1>3 DEF TaskOK, CallOK, InCall
<1> QED BY <1>1, <1>2, <1>3, <1>4 DEF Has

\* Whoever waits holds nothing.
LEMMA WaiterHoldsNothing ==
  ASSUME NEW t \in Threads, TaskOK(t), WaitShape, t \in Waiting(k), k \in Kernel
  PROVE  k.held_queue[t] = NoQueue /\ \A q \in Queues : k.mutex_holder[q] # t
<1>1. \A q \in Queues : k.mutex_holder[q] # t
  BY HolderAwake
<1>2. k.held_queue[t] \in Queues \cup {NoQueue}
  BY DEF Kernel
<1> QED BY <1>1, <1>2 DEF TaskOK, HoldOK

-----------------------------------------------------------------------------
\* The calls of task.h that delete no task

NoDelete == \A c \in Tasks : ~TaskDeleteOther(c) /\ ~TaskDeleteSelf(c)

LEMMA MutexFacts ==
  ASSUME MutexInv
  PROVE  /\ IInv /\ WaitShape /\ LockWaits /\ LockTakes /\ Dozes /\ CallTypes
         /\ k \in Kernel /\ KernelInv(k, handles) /\ KernelCore(k, handles) /\ ListsOK(k)
         /\ handles \subseteq k.used /\ handles \subseteq Threads
         /\ \A t \in Threads : TaskOK(t)
         /\ \A q \in Queues : ObjectOK(q) /\ IsMutex(q)
BY TypeFacts, CoreFacts, MutexAssumption DEF MutexInv

\* A task that is not of the application holds nothing.
LEMMA StrangerHoldsNothing ==
  ASSUME MutexInv, NEW t \in Threads, t \notin handles
  PROVE  k.held_queue[t] = NoQueue /\ \A q \in Queues : k.mutex_holder[q] # t
<1>1. TaskOK(t) /\ k.held_queue[t] \in Queues \cup {NoQueue}
  BY MutexFacts DEF Kernel
<1> QED BY <1>1 DEF TaskOK, HoldOK

LEMMA SteadyHolders ==
  ASSUME MutexInv, [Next]_vars, NoDelete
  PROVE  SameHolders(k, k') /\ ("set_priority" \notin Calls => SameObjects(k, k'))
<1>1. IInv /\ k \in Kernel /\ KernelInv(k, handles) /\ handles \subseteq k.used
  BY MutexFacts
<1>2. CASE Handler
  BY <1>1, <1>2, HeldHandler DEF SameObjects, SameHolders
<1>3. CASE IdleThread \/ UNCHANGED vars
  BY <1>1, <1>3 DEF IdleThread, IdleReclaim, IdleFree, vars, Kernel, SameObjects,
     SameHolders
<1>4. ASSUME NEW c \in Tasks, TaskCreate(c) PROVE SameHolders(k, k') /\ SameObjects(k, k')
  <2>1. PICK t \in Tasks \ k.used, p \in CreatePrios : k' = TcbAlloc(k, t, p)
    BY <1>4 DEF TaskCreate
  <2>2. t \in Tasks /\ t \notin k.used /\ p \in Prio /\ t \in Threads /\ t \notin handles
    BY <1>1, <2>1, CallAssumption DEF Threads
  <2>3. /\ k'.held_queue = With(k.held_queue, t, NoQueue)
        /\ k'.messages_waiting = k.messages_waiting /\ k'.mutex_holder = k.mutex_holder
        /\ k'.recursive_count = k.recursive_count
        /\ k'.original_priority = k.original_priority
    BY <1>1, <2>1, <2>2, TcbAllocInv
  <2>4. k.held_queue[t] = NoQueue /\ k.held_queue \in [Threads -> Queues \cup {NoQueue}]
    BY <1>1, <2>2, StrangerHoldsNothing DEF Kernel
  <2>5. With(k.held_queue, t, NoQueue) = k.held_queue
    BY <2>2, <2>4 DEF With
  <2> QED BY <2>3, <2>5 DEF SameObjects, SameHolders
<1>5. ASSUME NEW c \in Tasks, Thread(c)
      PROVE  SameHolders(k, k') /\ ("set_priority" \notin Calls => SameObjects(k, k'))
  <2>1. CASE TaskCreate(c)
    BY <1>4, <2>1
  <2>2. CASE TaskSetPriority(c)
    BY <1>1, <2>2, HeldSetPriority DEF TaskSetPriority, Calling
  <2>3. CASE ~TaskCreate(c) /\ ~TaskSetPriority(c)
    BY <1>1, <1>5, <2>3, HeldCalls DEF Thread, NoDelete, SameObjects, SameHolders
  <2> QED BY <2>1, <2>2, <2>3
<1> QED BY <1>2, <1>3, <1>5 DEF Next

\* A wait that ends has timed out, unless somebody is suspended or woken early.
LEMMA WaitsTimeOut ==
  ASSUME MutexInv, [Next]_vars, NoDelete, Undisturbed,
         NEW u \in Threads, u \in Waiting(k), u \notin Waiting(k')
  PROVE  k'.wakeup_reason[u] = 2
<1>1. /\ IInv /\ k \in Kernel /\ KernelInv(k, handles) /\ handles \subseteq k.used
      /\ TaskOK(u) /\ WaitShape
  BY MutexFacts
<1>2. ~SameEvents(k, k')
  BY DEF SameEvents, Waiting
<1>3. CASE Handler
  <2>1. CASE PendSV
    BY <1>1, <1>2, <2>1, SwitchContextInv DEF PendSV, SameLists
  <2>2. CASE SysTick
    BY <1>1, <1>2, <2>2, TickBeginInv DEF SysTick
  <2>3. CASE SysTickWake
    <3>1. k' = TickWake(k) /\ k.delay_list # <<>>
      BY <2>3 DEF SysTickWake, HeadExpired
    <3>2. /\ k'.event_list = With(k.event_list, Head(k.delay_list), NoList)
          /\ k'.wakeup_reason = With(k.wakeup_reason, Head(k.delay_list), 2)
      BY <1>1, <3>1, TickWakeInv
    <3>3. k.event_list \in [Threads -> EventLists \cup {NoList}] /\ DOMAIN k.wakeup_reason = Threads
      BY <1>1 DEF Kernel
    <3>4. u = Head(k.delay_list)
      BY <3>2, <3>3 DEF With, Waiting
    <3> QED BY <3>2, <3>3, <3>4 DEF With
  <2>4. CASE SysTickEnd
    <3>1. k' = TickEnd(k)
      BY <2>4 DEF SysTickEnd
    <3> QED BY <1>1, <1>2, <3>1, TickEndInv DEF SliceOnly
  <2> QED BY <1>3, <2>1, <2>2, <2>3, <2>4 DEF Handler
<1>4. CASE IdleThread \/ UNCHANGED vars
  BY <1>1, <1>2, <1>4 DEF IdleThread, IdleReclaim, IdleFree, vars, Kernel, SameEvents
<1>5. ASSUME NEW c \in Tasks, Thread(c) PROVE FALSE
  <2>1. ~TaskSuspend(c) /\ ~TaskAbortDelay(c)
    BY DEF Undisturbed, TaskSuspend, TaskAbortDelay, Calling
  <2>2. CASE TaskDelay(c) \/ TaskDelayUntilSleep(c)
    <3>1. PICK n \in Nat : k' = Delay(k, n)
      BY <1>1, <2>2, CallAssumption DEF TaskDelay, TaskDelayUntilSleep, At, IInv, ThreadInv, LocalsInv
    <3>2. At(c, "run") \/ At(c, "until")
      BY <2>2 DEF TaskDelay, TaskDelayUntilSleep, Calling
    <3>3. c \in handles /\ k.current = c /\ c \in Threads /\ pc[c] \in {"run", "until"}
      BY <1>1, <3>2, CallerLives DEF Running
    <3>4. k'.event_list = With(k.event_list, c, NoList)
      BY <1>1, <3>1, <3>3, DelayLeaves DEF Leaves
    <3>5. k.event_list \in [Threads -> EventLists \cup {NoList}]
      BY <1>1 DEF Kernel
    <3>6. u = c
      BY <3>4, <3>5 DEF With, Waiting
    <3> QED BY <1>1, <3>3, <3>6 DEF TaskOK, WaitOK, WaitShape
  <2>3. CASE TaskSetPriority(c)
    BY <1>1, <1>2, <2>3, HeldSetPriority DEF SameWaits
  <2>4. CASE TaskCreate(c)
    <3>1. PICK t \in Tasks \ k.used, p \in CreatePrios : k' = TcbAlloc(k, t, p)
      BY <2>4 DEF TaskCreate
    <3>2. t \in Tasks /\ t \notin k.used /\ p \in Prio
      BY <3>1, CallAssumption
    <3> QED BY <1>1, <1>2, <3>1, <3>2, TcbAllocInv
  <2>5. CASE ~TaskDelay(c) /\ ~TaskDelayUntilSleep(c) /\ ~TaskSetPriority(c) /\ ~TaskCreate(c)
    BY <1>1, <1>2, <1>5, <2>1, <2>5, CallWaits DEF Thread, NoDelete, SameWaits
  <2> QED BY <2>2, <2>3, <2>4, <2>5
<1> QED BY <1>3, <1>4, <1>5 DEF Next

LEMMA EasesKeeps ==
  ASSUME MutexInv, NEW X, Eases(k, k', X), SameReasons(k, k'), NEW u \in Threads,
         u \in X => ret[u] # "wait",
         Undisturbed /\ u \in Waiting(k) /\ u \notin Waiting(k') => k'.wakeup_reason[u] = 2
  PROVE  KeepsWait(u)
<1>1. TaskOK(u) /\ handles \subseteq k.used
  BY MutexFacts
<1>2. k'.event_list[u] \in {k.event_list[u], NoList}
  BY DEF Eases
<1>3. ASSUME ret[u] = "wait", u \notin Waiting(k') PROVE u \notin Delayed(k')
  <2>1. SUFFICES ASSUME u \in Delayed(k') PROVE FALSE
    OBVIOUS
  <2>2. u \in Delayed(k) /\ u \notin Waiting(k)
    BY <1>3, <2>1 DEF Eases, Waiting
  <2> QED BY <1>1, <1>3, <2>2 DEF TaskOK, WaitOK
<1>4. ASSUME ret[u] = "wait", u \notin Waiting(k)
      PROVE  k'.wakeup_reason[u] = k.wakeup_reason[u]
  <2>1. u \notin Delayed(k) /\ u \in k.used
    BY <1>1, <1>4 DEF TaskOK, WaitOK, CallOK, InCall
  <2> QED BY <1>4, <2>1 DEF SameReasons
<1> QED BY <1>2, <1>3, <1>4 DEF KeepsWait

\* Where the threads are after such a step.
LEMMA PlacesStep ==
  ASSUME IInv, [Next]_vars, NEW u \in Threads, pc[u] \in Inner => u \in handles,
         pc'[u] # pc[u]
  PROVE  pc'[u] \notin Inner /\ (pc[u] \in Inner => u \notin handles')
<1>1. /\ pc \in [Threads -> AllLabels] /\ ret \in [Threads -> AllLabels]
      /\ Idle \in Threads /\ \A t \in Tasks : t \in Threads
      /\ handles \subseteq k.used
  BY TypeFacts
<1>2. CASE Handler \/ UNCHANGED vars
  BY <1>2 DEF Handler, PendSV, SysTick, SysTickWake, SysTickEnd, threadVars, vars
<1>3. CASE IdleThread
  BY <1>1, <1>3 DEF IdleThread, IdleReclaim, IdleFree, At, Inner
<1>4. ASSUME NEW c \in Tasks, Thread(c)
      PROVE  pc'[u] \notin Inner /\ (pc[u] \in Inner => u \notin handles')
  <2>1. c \in Threads
    BY <1>1
  <2>2. CASE TaskDeleteOther(c)
    <3>1. PICK t \in handles : handles' = handles \ {t} /\ pc' = [pc EXCEPT ![t] = "dead"]
      BY <2>2 DEF TaskDeleteOther
    <3> QED BY <1>1, <3>1 DEF Inner
  <2>3. CASE TaskCreate(c)
    <3>1. PICK t \in Tasks \ k.used : pc' = [pc EXCEPT ![c] = "create", ![t] = "run"]
      BY <2>3 DEF TaskCreate
    <3>2. pc[c] = "run" /\ t \notin handles /\ t \in Threads
      BY <1>1, <2>3, <3>1 DEF TaskCreate, Calling, At
    <3> QED BY <1>1, <2>1, <3>1, <3>2 DEF Inner
  <2>4. CASE RtosSched(c) \/ RtosRequestSwitch(c)
    <3>1. /\ pc[c] \in {"sched", "pend"}
          /\ \E l \in {ret[c], "pend"} : pc' = [pc EXCEPT ![c] = l]
      BY <2>4 DEF RtosSched, RtosRequestSwitch, At, GoTo
    <3>2. ret[c] \in {"run", "dead", "wait"}
      BY DEF IInv, ThreadInv, LocalsInv
    <3> QED BY <1>1, <2>1, <3>1, <3>2 DEF Inner
  <2>5. CASE TaskYield(c) \/ TaskDelay(c) \/ TaskAbortDelay(c) \/ TaskSetPriority(c)
             \/ TaskDeleteSelf(c) \/ TaskDelayUntilSleep(c)
    <3>1. pc[c] \in {"run", "until"} /\ pc' = [pc EXCEPT ![c] = "sched"]
      BY <2>5 DEF TaskYield, TaskDelay, TaskAbortDelay, TaskSetPriority, TaskDeleteSelf,
                  TaskDelayUntilSleep, CallSched, Calling, At
    <3> QED BY <1>1, <2>1, <3>1 DEF Inner
  <2>6. CASE TaskSuspend(c) \/ TaskResume(c) \/ RtosSchedLock(c) \/ RtosSchedUnlock(c)
    <3>1. pc[c] = "run" /\ (pc' = pc \/ pc' = [pc EXCEPT ![c] = "sched"])
      BY <2>6 DEF TaskSuspend, TaskResume, RtosSchedLock, RtosSchedUnlock, SchedIf, CallSched,
                  Return, threadVars, Calling, At
    <3> QED BY <1>1, <2>1, <3>1 DEF Inner
  <2>7. CASE TaskDelayUntil(c) \/ TaskCreateReady(c) \/ TaskCreateReturn(c)
    <3>1. /\ pc[c] \in {"run", "create", "created"}
          /\ \E l \in {"until", "created", "sched", "run"} : pc' = [pc EXCEPT ![c] = l]
      <4>1. CASE TaskDelayUntil(c) \/ TaskCreateReady(c)
        BY <4>1 DEF TaskDelayUntil, TaskCreateReady, GoTo, Calling, At
      <4>2. CASE TaskCreateReturn(c)
        <5>1. pc' = [pc EXCEPT ![c] = "sched"] \/ pc' = [pc EXCEPT ![c] = "run"]
          BY <4>2 DEF TaskCreateReturn
        <5> QED BY <4>2, <5>1 DEF TaskCreateReturn, At
      <4> QED BY <2>7, <4>1, <4>2
    <3> QED BY <1>1, <2>1, <3>1 DEF Inner
  <2> QED BY <1>4, <2>2, <2>3, <2>4, <2>5, <2>6, <2>7 DEF Thread
<1> QED BY <1>2, <1>3, <1>4 DEF Next

LEMMA SteadyKeeps ==
  ASSUME MutexInv, SameHolders(k, k'), NEW u \in Threads, Stays(u), KeepsWait(u)
  PROVE  TaskOK(u)'
<1>1. TaskOK(u)
  BY MutexFacts
<1>2. u \in Waiting(k') => k'.mutex_holder[call[u].q] # NoTask
  <2>1. u \in Waiting(k') => u \in Waiting(k)
    BY DEF KeepsWait, Waiting
  <2> QED BY <1>1, <2>1 DEF TaskOK, WaitOK, SameHolders
<1>3. KeepsMutexes(u)
  BY <1>2 DEF KeepsMutexes, SameHolders
<1> QED BY <1>1, <1>3, StaysOK

\* The calls of the tasks, after a step of RtosTask.
LEMMA StaysStep ==
  ASSUME MutexInv, TaskStep, NEW u \in Threads, u \in handles => u \in handles'
  PROVE  Stays(u)
<1>1. /\ IInv /\ WaitShape /\ TaskOK(u)
  BY MutexFacts
<1>2. [Next]_vars
  BY DEF TaskStep
<1>3. StillWaits
  BY <1>1, <1>2, WaitsStep
<1>4. ret'[u] = "wait" <=> ret[u] = "wait"
  BY <1>1, <1>3 DEF StillWaits, WaitShape
<1>5. ASSUME pc'[u] # pc[u] PROVE pc[u] \notin Inner /\ pc'[u] \notin Inner
  <2>1. pc[u] \in Inner => u \in handles
    BY <1>1 DEF TaskOK, CallOK, InCall
  <2> QED BY <1>1, <1>2, <1>5, <2>1, PlacesStep
<1>6. call'[u] = call[u] /\ owns'[u] = owns[u]
  BY DEF TaskStep
<1> QED BY <1>4, <1>5, <1>6 DEF Stays

LEMMA SteadyStep ==
  ASSUME MutexInv, YieldsReady, TaskStep, NoDelete
  PROVE  /\ \A u \in Threads : Stays(u) /\ TaskOK(u)'
         /\ \A q \in Queues : ObjectOK(q)'
<1>1. [Next]_vars /\ IInv /\ WaitShape /\ \A q \in Queues : ObjectOK(q)
  BY MutexFacts DEF TaskStep
<1>2. SameHolders(k, k')
  BY <1>1, SteadyHolders
<1>3. handles \subseteq handles'
  <2>1. CASE Handler \/ IdleThread \/ UNCHANGED vars
    BY <2>1 DEF Handler, PendSV, SysTick, SysTickWake, SysTickEnd, IdleThread, IdleReclaim,
       IdleFree, vars
  <2>2. ASSUME NEW c \in Tasks, Thread(c) PROVE handles \subseteq handles'
    BY <2>2 DEF NoDelete, Thread, RtosSched, RtosRequestSwitch, TaskYield, TaskDelay,
       TaskDelayUntil, TaskDelayUntilSleep, TaskSuspend, TaskResume, TaskAbortDelay,
       TaskSetPriority, RtosSchedLock, RtosSchedUnlock, TaskCreate, TaskCreateReady,
       TaskCreateReturn
  <2> QED BY <1>1, <2>1, <2>2 DEF Next
<1>4. ASSUME NEW u \in Threads PROVE Stays(u) /\ TaskOK(u)'
  <2>1. Stays(u)
    BY <1>3, StaysStep
  <2>2. Undisturbed /\ u \in Waiting(k) /\ u \notin Waiting(k') => k'.wakeup_reason[u] = 2
    BY <1>1, WaitsTimeOut
  <2>3. SameReasons(k, k')
    BY <1>1, EaseStep DEF NoDelete
  <2>4. PICK X : Eases(k, k', X) /\ (u \in X => ret[u] # "wait")
    <3>1. CASE Eases(k, k', {})
      BY <3>1
    <3>2. ASSUME NEW c \in handles, pc[c] \in {"run", "until"}, Eases(k, k', {c})
          PROVE  \E X : Eases(k, k', X) /\ (u \in X => ret[u] # "wait")
      <4>1. ret[c] # "wait"
        BY <1>1, <3>2, MutexFacts DEF WaitShape
      <4> QED BY <3>2, <4>1
    <3> QED BY <1>1, <3>1, <3>2, EaseStep DEF NoDelete
  <2>5. KeepsWait(u)
    BY <2>2, <2>3, <2>4, EasesKeeps
  <2> QED BY <1>2, <2>1, <2>5, SteadyKeeps
<1>5. \A q \in Queues : ObjectOK(q)'
  BY <1>1, <1>2 DEF ObjectOK, SameHolders
<1> QED BY <1>4, <1>5

-----------------------------------------------------------------------------
\* A mutex changes hands

\* t lets go of q, in a deletion or a give.
LEMMA FreesKeeps ==
  ASSUME MutexInv, NEW t \in Threads, NEW q \in Queues, k.mutex_holder[q] = t,
         Frees(k, k', t, q), NEW u \in Threads \ {t}, Stays(u)
  PROVE  TaskOK(u)'
<1>1. TaskOK(u) /\ k \in Kernel /\ EventsOK(k)
  BY MutexFacts DEF ListsOK
<1>2. /\ DOMAIN k.held_queue = Threads /\ DOMAIN k.mutex_holder = Queues /\ NoTask \notin Threads
  BY <1>1, QueueAssumption DEF Kernel, NoTask, Threads
<1>3. /\ k'.event_list = k.event_list /\ k'.wakeup_reason = k.wakeup_reason
      /\ Delayed(k') \subseteq Delayed(k) /\ Waiting(k') = Waiting(k)
  BY DEF Frees, Waiting
<1>4. KeepsWait(u)
  BY <1>1, <1>3 DEF KeepsWait, TaskOK, WaitOK
<1>5. ASSUME u \in Waiting(k') PROVE k'.mutex_holder[call[u].q] # NoTask
  <2>1. /\ k.event_list[u] = Waiters(call[u].q) /\ k.mutex_holder[call[u].q] # NoTask
        /\ call[u].q \in Queues
    BY <1>1, <1>3, <1>5 DEF TaskOK, WaitOK, CallOK, InCall, Takes
  <2>2. call[u].q # q
    <3>1. SUFFICES ASSUME call[u].q = q PROVE FALSE
      OBVIOUS
    <3>2. u \in ToSet(k.waiting[Waiters(q)]) /\ k.waiting[Waiters(q)] = <<>>
      BY <1>1, <2>1, <3>1 DEF EventsOK, EventLists, Waiters, Frees
    <3> QED BY <3>2, EmptyDistinct
  <2> QED BY <1>2, <2>1, <2>2 DEF Frees, With
<1>6. KeepsMutexes(u)
  BY <1>2, <1>5 DEF KeepsMutexes, Frees, With
<1> QED BY <1>1, <1>4, <1>6, StaysOK

LEMMA PassesKeeps ==
  ASSUME MutexInv, NEW t \in Threads, NEW q \in Queues, k.mutex_holder[q] = t,
         NEW h \in Threads, Passes(k, k', t, q, h), NEW u \in Threads \ {t, h}, Stays(u)
  PROVE  TaskOK(u)'
<1>1. TaskOK(u) /\ k \in Kernel
  BY MutexFacts
<1>2. /\ DOMAIN k.held_queue = Threads /\ DOMAIN k.mutex_holder = Queues /\ NoTask \notin Threads
      /\ DOMAIN k.event_list = Threads /\ DOMAIN k.wakeup_reason = Threads
  BY <1>1, QueueAssumption DEF Kernel, NoTask, Threads
<1>3. /\ k'.event_list[u] = k.event_list[u] /\ k'.wakeup_reason[u] = k.wakeup_reason[u]
      /\ Delayed(k') \subseteq Delayed(k) /\ (u \in Waiting(k') <=> u \in Waiting(k))
  BY <1>2 DEF Passes, Waiting, With
<1>4. KeepsWait(u)
  BY <1>1, <1>3 DEF KeepsWait, TaskOK, WaitOK
<1>5. ASSUME u \in Waiting(k') PROVE k'.mutex_holder[call[u].q] # NoTask
  <2>1. k.mutex_holder[call[u].q] # NoTask /\ call[u].q \in Queues
    BY <1>1, <1>3, <1>5 DEF TaskOK, WaitOK, CallOK, InCall, Takes
  <2> QED BY <1>2, <2>1 DEF Passes, With
<1>6. KeepsMutexes(u)
  BY <1>2, <1>5 DEF KeepsMutexes, Passes, With
<1> QED BY <1>1, <1>4, <1>6, StaysOK

\* The first that waits for it is its holder.
LEMMA HeirOK ==
  ASSUME MutexInv, NEW t \in Threads, NEW q \in Queues,
         NEW h \in Threads, Passes(k, k', t, q, h), Stays(h)
  PROVE  TaskOK(h)'
<1>1. TaskOK(h) /\ k \in Kernel /\ WaitShape
  BY MutexFacts
<1>2. h \in Waiting(k)
  BY NoListIsNone DEF Passes, Waiting, EventLists, Waiters
<1>3. /\ ret[h] = "wait" /\ h \in handles /\ call[h] \in Takes /\ k.event_list[h] = Waiters(call[h].q)
      /\ pc[h] \notin Inner /\ \A p \in Queues : owns[h][p] = 0
  BY <1>1, <1>2 DEF TaskOK, WaitOK, CallOK, InCall, WaitShape, Inner
<1>4. call[h].q = q
  BY <1>3 DEF Passes, Waiters
<1>5. k.held_queue[h] = NoQueue /\ \A p \in Queues : k.mutex_holder[p] # h
  BY <1>1, <1>2, WaiterHoldsNothing
<1>6. /\ ret'[h] = "wait" /\ pc'[h] \notin Inner /\ call'[h] = call[h] /\ owns'[h] = owns[h]
      /\ h \in handles'
  BY <1>3 DEF Stays
<1>7. /\ DOMAIN k.held_queue = Threads /\ DOMAIN k.mutex_holder = Queues
      /\ DOMAIN k.event_list = Threads /\ DOMAIN k.wakeup_reason = Threads
  BY <1>1 DEF Kernel
<1>8. /\ k'.held_queue[h] = q /\ k'.mutex_holder[q] = h /\ k'.event_list[h] = NoList
      /\ k'.wakeup_reason[h] = 1 /\ h \notin Delayed(k')
      /\ \A p \in Queues \ {q} : k'.mutex_holder[p] # h
  BY <1>5, <1>7 DEF Passes, With
<1>9. CallOK(h)'
  BY <1>3, <1>6 DEF CallOK, Inner
<1>10. h \notin Waiting(k')
  BY <1>8 DEF Waiting
<1>11. HoldOK(h)'
  <2>1. Has(h, q)'
    BY <1>4, <1>6, <1>8, <1>10 DEF Has
  <2> QED BY <1>3, <1>6, <1>8, <2>1 DEF HoldOK
<1>12. WaitOK(h)'
  BY <1>4, <1>6, <1>8, <1>10 DEF WaitOK
<1> QED BY <1>9, <1>11, <1>12 DEF TaskOK

LEMMA ReleaseKeeps ==
  ASSUME MutexInv, NEW t \in Threads, NEW q \in Queues, k.mutex_holder[q] = t,
         Releases(k, k', t, q), \A u \in Threads \ {t} : Stays(u),
         ~InCall(t)', \A p \in Queues : owns'[t][p] = 0
  PROVE  /\ \A u \in Threads : TaskOK(u)'
         /\ \A p \in Queues : ObjectOK(p)'
<1>1. /\ TaskOK(t) /\ k \in Kernel /\ WaitShape /\ \A p \in Queues : ObjectOK(p)
  BY MutexFacts
<1>2. /\ DOMAIN k.held_queue = Threads /\ DOMAIN k.mutex_holder = Queues /\ NoTask \notin Threads
      /\ DOMAIN k.event_list = Threads /\ DOMAIN k.messages_waiting = Queues
  BY <1>1, QueueAssumption DEF Kernel, NoTask, Threads
<1>3. k.event_list[t] = NoList
  BY <1>1, HolderAwake DEF Waiting
<1>4. \A p \in Queues \ {q} : k.mutex_holder[p] # t
  BY <1>1 DEF TaskOK, HoldOK
<1>5. CASE Frees(k, k', t, q)
  <2>1. /\ k'.held_queue[t] = NoQueue /\ t \notin Waiting(k')
        /\ \A p \in Queues : k'.mutex_holder[p] # t
    BY <1>2, <1>3, <1>4, <1>5 DEF Frees, With, Waiting
  <2>2. TaskOK(t)'
    BY <2>1, IdleOK
  <2>3. \A u \in Threads \ {t} : TaskOK(u)'
    BY <1>5, FreesKeeps
  <2>4. \A p \in Queues : ObjectOK(p)'
    BY <1>1, <1>2, <1>5 DEF Frees, With, ObjectOK
  <2> QED BY <2>2, <2>3, <2>4
<1>6. ASSUME NEW h \in Threads, Passes(k, k', t, q, h)
      PROVE  (\A u \in Threads : TaskOK(u)') /\ (\A p \in Queues : ObjectOK(p)')
  <2>1. /\ k'.held_queue[t] = NoQueue /\ t \notin Waiting(k') /\ h # t
        /\ \A p \in Queues : k'.mutex_holder[p] # t
    BY <1>2, <1>3, <1>4, <1>6 DEF Passes, With, Waiting
  <2>2. TaskOK(t)'
    BY <2>1, IdleOK
  <2>3. TaskOK(h)'
    BY <1>6, <2>1, HeirOK
  <2>4. \A u \in Threads \ {t, h} : TaskOK(u)'
    BY <1>6, PassesKeeps
  <2>5. \A p \in Queues : ObjectOK(p)'
    BY <1>1, <1>2, <1>6 DEF Passes, With, ObjectOK
  <2> QED BY <2>2, <2>3, <2>4, <2>5
<1> QED BY <1>5, <1>6 DEF Releases

-----------------------------------------------------------------------------
\* A task is deleted

LEMMA EndsKeeps ==
  ASSUME MutexInv, NEW t \in Threads, Ends(k, k', t), TaskStep,
         t \in handles, t \notin handles', \A u \in handles \ {t} : u \in handles',
         ret'[t] # "wait", pc'[t] \notin Inner, t \notin Waiting(k')
  PROVE  /\ \A u \in Threads \ {t} : Stays(u)
         /\ \A u \in Threads : TaskOK(u)'
         /\ \A q \in Queues : ObjectOK(q)'
<1>1. /\ TaskOK(t) /\ k \in Kernel /\ ListsOK(k) /\ \A q \in Queues : ObjectOK(q)
  BY MutexFacts
<1>2. \A u \in Threads \ {t} : Stays(u)
  BY StaysStep
<1>3. ~InCall(t)' /\ \A q \in Queues : owns'[t][q] = 0
  BY DEF TaskStep, InCall
<1>4. CASE /\ k.held_queue[t] = NoQueue /\ SameHolders(k, k') /\ Loosens(k, k')
           /\ Waiting(k') = Waiting(k) \ {t}
  <2>1. Eases(k, k', {}) /\ SameReasons(k, k')
    BY <1>1, <1>4, LoosensEases
  <2>2. ASSUME NEW u \in Threads \ {t} PROVE TaskOK(u)'
    <3>1. KeepsWait(u)
      BY <1>4, <2>1, EasesKeeps
    <3> QED BY <1>2, <1>4, <3>1, SteadyKeeps
  <2>3. TaskOK(t)'
    <3>1. \A q \in Queues : k.mutex_holder[q] # t
      BY <1>1, <1>4, QueueAssumption DEF TaskOK, HoldOK
    <3> QED BY <1>3, <1>4, <3>1, IdleOK DEF SameHolders
  <2>4. \A q \in Queues : ObjectOK(q)'
    BY <1>1, <1>4 DEF ObjectOK, SameHolders
  <2> QED BY <1>2, <2>2, <2>3, <2>4
<1>5. CASE k.held_queue[t] \in Queues /\ Releases(k, k', t, k.held_queue[t])
  <2>1. k.mutex_holder[k.held_queue[t]] = t
    BY <1>1, <1>5 DEF TaskOK, HoldOK
  <2> QED BY <1>2, <1>3, <1>5, <2>1, ReleaseKeeps
<1> QED BY <1>4, <1>5 DEF Ends

LEMMA HoldersAwake ==
  ASSUME MutexInv, NEW t \in Threads, k.held_queue[t] \in Queues
  PROVE  t \notin Waiting(k)
<1>1. TaskOK(t) /\ WaitShape
  BY MutexFacts
<1>2. k.mutex_holder[k.held_queue[t]] = t
  BY <1>1 DEF TaskOK, HoldOK
<1> QED BY <1>1, <1>2, HolderAwake

LEMMA DeleteStep ==
  ASSUME MutexInv, TaskStep, IInv', NEW c \in Tasks, TaskDeleteOther(c) \/ TaskDeleteSelf(c)
  PROVE  /\ \A u \in Threads : Stays(u) \/ pc'[u] \notin Inner
         /\ \A u \in Threads : TaskOK(u)'
         /\ \A q \in Queues : ObjectOK(q)'
<1>1. /\ IInv /\ KernelInv(k, handles) /\ handles \subseteq Threads
      /\ pc \in [Threads -> AllLabels] /\ ret \in [Threads -> AllLabels]
      /\ \A q \in Queues : IsMutex(q)
  BY MutexFacts, TypeFacts
<1>2. \A t \in handles : k.held_queue[t] \in Queues => t \notin Waiting(k)
  BY <1>1, HoldersAwake
<1>3. Waiting(k') \subseteq handles'
  <2>1. KernelCore(k', handles')
    BY DEF IInv, KernelInv
  <2> QED BY <2>1 DEF KernelCore
<1>4. PICK t \in handles :
        /\ handles' = handles \ {t} /\ ret'[t] # "wait" /\ pc'[t] \notin Inner
        /\ Ends(k, k', t)
  <2>1. CASE TaskDeleteOther(c)
    <3>1. PICK t \in handles : /\ k' = DeleteOther(k, t) /\ handles' = handles \ {t}
                               /\ pc' = [pc EXCEPT ![t] = "dead"]
                               /\ ret' = [ret EXCEPT ![t] = "run"]
      BY <2>1 DEF TaskDeleteOther
    <3>2. Ends(k, k', t)
      BY <1>1, <1>2, <3>1, DeleteOtherEnds
    <3> QED BY <1>1, <3>1, <3>2 DEF Inner
  <2>2. CASE TaskDeleteSelf(c)
    <3>1. /\ k' = DeleteSelf(k) /\ handles' = handles \ {c} /\ At(c, "run")
          /\ pc' = [pc EXCEPT ![c] = "sched"] /\ ret' = [ret EXCEPT ![c] = "dead"]
      BY <2>2 DEF TaskDeleteSelf, Calling, CallSched
    <3>2. c \in handles /\ k.current = c
      BY <1>1, <3>1, CallerLives DEF Running
    <3>3. Ends(k, k', c)
      BY <1>1, <1>2, <3>1, <3>2, DeleteSelfEnds
    <3> QED BY <1>1, <3>1, <3>2, <3>3 DEF Inner
  <2> QED BY <2>1, <2>2
<1> QED BY <1>1, <1>3, <1>4, EndsKeeps

LEMMA TaskStepTasks ==
  ASSUME MutexInv, YieldsReady, TaskStep, IInv'
  PROVE  /\ \A u \in Threads : Stays(u) \/ pc'[u] \notin Inner
         /\ \A u \in Threads : TaskOK(u)'
         /\ \A q \in Queues : ObjectOK(q)'
<1>1. CASE NoDelete
  BY <1>1, SteadyStep
<1>2. CASE ~NoDelete
  BY <1>2, DeleteStep DEF NoDelete
<1> QED BY <1>1, <1>2

LEMMA TaskStepInv ==
  ASSUME MutexInv, YieldsReady, TaskStep
  PROVE  MutexInv'
<1>1. /\ IInv /\ WaitShape /\ LockWaits /\ LockTakes /\ Dozes /\ CallTypes /\ k \in Kernel
      /\ handles \subseteq Threads /\ k.current \in Threads /\ k.sched_lock \in Nat
      /\ \A q \in Queues : IsMutex(q)
  BY MutexFacts, TypeFacts
<1>2. [Next]_vars
  BY DEF TaskStep
<1>3. IInv' /\ KeepsCpu
  BY <1>1, <1>2, NextInv
<1>4. WaitShape' /\ LockWaits'
  BY <1>1, <1>2, WaitsStep, LockWaitsStep
<1>5. Dozes'
  BY <1>1, <1>2, DozesStep, HoldersAwake
<1>6. /\ \A u \in Threads : Stays(u) \/ pc'[u] \notin Inner
      /\ \A u \in Threads : TaskOK(u)'
      /\ \A q \in Queues : ObjectOK(q)'
  BY <1>3, TaskStepTasks
<1>7. CallTypes'
  <2>1. [q \in Queues |-> 0] \in Counts
    BY MutexAssumption DEF Counts
  <2>2. owns' \in [Threads -> Counts]
    BY <1>1, <2>1 DEF TaskStep, CallTypes
  <2>3. call' \in [Threads -> Takes \cup {NoCall}]
    BY <1>1 DEF TaskStep, CallTypes
  <2> QED BY <2>2, <2>3 DEF CallTypes
<1>8. LockTakes'
  <2>1. CASE k.sched_lock > 0
    <3>1. k'.current = k.current
      BY <1>3, <2>1 DEF KeepsCpu
    <3>2. CASE pc'[k.current] = "take"
      <4>1. Stays(k.current)
        BY <1>1, <1>6, <3>2 DEF Inner
      <4>2. pc[k.current] = "take" /\ call'[k.current] = call[k.current]
        BY <3>2, <4>1 DEF Stays, Inner
      <4> QED BY <1>1, <2>1, <3>1, <4>2 DEF LockTakes
    <3> QED BY <3>1, <3>2 DEF LockTakes
  <2>2. CASE ~(k.sched_lock > 0)
    <3>1. ASSUME NEW c \in Tasks, RtosSchedLock(c) PROVE LockTakes'
      <4>1. k' = [k EXCEPT !.sched_lock = @ + 1] /\ pc' = pc /\ pc[c] = "run" /\ k.current = c
        BY <3>1 DEF RtosSchedLock, Calling, At, Return, threadVars
      <4>2. k'.current = c
        BY <1>1, <4>1 DEF Kernel
      <4> QED BY <4>1, <4>2 DEF LockTakes
    <3>2. ASSUME \A c \in Tasks : ~RtosSchedLock(c) PROVE ~(k'.sched_lock > 0)
      <4>1. k.sched_lock = 0
        BY <1>1, <2>2
      <4> QED BY <1>1, <1>2, <3>2, <4>1, LockFree
    <3> QED BY <3>1, <3>2 DEF LockTakes
  <2> QED BY <2>1, <2>2
<1> QED BY <1>3, <1>4, <1>5, <1>6, <1>7, <1>8 DEF MutexInv

-----------------------------------------------------------------------------
\* The priorities of the holder, in a take and in a give

\* r is s after a change of priorities: nobody waits or holds anything else, and a
\* switch was asked for.
Reprices(s, r, H) ==
  /\ KernelInv(r, H) /\ SameBase(s, r) /\ SameHolders(s, r) /\ SameWaits(s, r)
  /\ s.sched_lock > 0 => r.pend_sv = s.pend_sv
  /\ r = s \/ r.pend_sv \/ (r.sched_lock > 0 /\ r.need_resched)

LEMMA SetOriginal ==
  ASSUME NEW s \in Kernel, NEW q \in Queues, NEW v \in Prio \cup {NotBoosted},
         NEW r, r = [s EXCEPT !.original_priority[q] = v]
  PROVE  /\ r \in Kernel /\ SameCore(s, r) /\ SameRest(s, r)
         /\ SameHolders(s, r) /\ SameWaits(s, r)
<1> DEFINE o == [s.original_priority EXCEPT ![q] = v]
<1>1. r = [s EXCEPT !.original_priority = o]
  OBVIOUS
<1>2. o \in [Queues -> Prio \cup {NotBoosted}]
  BY DEF Kernel
<1> HIDE DEF o
<1>3. r \in Kernel
  BY ZenonT(60), <1>1, <1>2 DEF Kernel
<1>4. /\ SameLists(s, r) /\ SameRest(s, r) /\ r.state = s.state /\ r.used = s.used
      /\ r.terminated_list = s.terminated_list /\ r.current = s.current
  BY <1>1 DEF Kernel, SameLists, SameQueued, SameDelays, SameEvents, SameRest
<1>5. SameHolders(s, r) /\ SameWaits(s, r)
  BY <1>1 DEF Kernel, SameHolders, SameWaits, SameEvents, Delayed
<1> QED BY <1>3, <1>4, <1>5 DEF SameCore

LEMMA SchedFields ==
  ASSUME NEW s, NEW H, KernelInv(s, H)
  PROVE  /\ Reprices(s, Sched(s), H)
         /\ Sched(s).pend_sv \/ (Sched(s).sched_lock > 0 /\ Sched(s).need_resched)
<1>1. s \in Kernel /\ KernelCore(s, H)
  BY CoreFacts DEF KernelInv
<1> DEFINE r == Sched(s)
           b == s.sched_lock > 0
<1>2. r = [s EXCEPT !.need_resched = b, !.pend_sv = IF b THEN @ ELSE TRUE]
  BY <1>1 DEF Sched, SchedCheck, RequestSwitch, Kernel
<1>3. b \in BOOLEAN
  OBVIOUS
<1>4. /\ r \in Kernel /\ SameCore(s, r)
  <2> HIDE DEF b
  <2> QED BY ZenonT(60), <1>1, <1>2, <1>3 DEF Kernel, SameCore, SameLists, SameQueued, SameDelays, SameEvents
<1>5. SameBase(s, r) /\ SameHolders(s, r) /\ SameWaits(s, r)
  <2> HIDE DEF b
  <2> QED BY <1>1, <1>2 DEF Kernel, SameBase, SameHolders, SameWaits, SameEvents, Delayed
<1>6. r.sched_lock = s.sched_lock /\ r.need_resched = b /\ r.pend_sv = IF b THEN s.pend_sv ELSE TRUE
  BY <1>1, <1>2, <1>3 DEF Kernel
<1>7. KernelInv(r, H)
  BY <1>1, <1>4, SameCoreInv
<1> HIDE DEF r
<1> QED BY <1>5, <1>6, <1>7 DEF Reprices, r

\* rtos_task_set_priority of t within a critical section.
LEMMA SetAndSched ==
  ASSUME NEW s, NEW H, KernelInv(s, H), NEW t \in H, NEW p \in Prio, NEW q \in Queues,
         NEW v \in Prio \cup {NotBoosted},
         NEW r, r = [Sched(SetPriority(s, t, p)) EXCEPT !.original_priority[q] = v]
  PROVE  Reprices(s, r, H)
<1> DEFINE a == SetPriority(s, t, p)
           b == Sched(a)
<1>1. KernelInv(a, H) /\ SameRest(s, a) /\ SameHolders(s, a) /\ SameWaits(s, a)
  BY SetPriorityInv, SetPriorityHolders
<1> HIDE DEF a
<1>2. Reprices(a, b, H) /\ (b.pend_sv \/ (b.sched_lock > 0 /\ b.need_resched))
  BY <1>1, SchedFields
<1>3. r = [b EXCEPT !.original_priority[q] = v]
  BY DEF a
<1> HIDE DEF b
<1>4. KernelInv(b, H) /\ KernelCore(b, H) /\ b \in Kernel
  BY <1>2, CoreFacts DEF Reprices, KernelInv
<1>5. /\ r \in Kernel /\ SameCore(b, r) /\ SameRest(b, r)
      /\ SameHolders(b, r) /\ SameWaits(b, r)
  BY <1>3, <1>4, SetOriginal
<1>6. KernelInv(r, H)
  BY <1>4, <1>5, SameCoreInv
<1>7. SameHolders(s, r) /\ SameWaits(s, r)
  BY <1>1, <1>2, <1>5 DEF Reprices, SameHolders, SameWaits, SameEvents
<1>8. /\ SameBase(s, r) /\ (s.sched_lock > 0 => r.pend_sv = s.pend_sv)
      /\ r.pend_sv \/ (r.sched_lock > 0 /\ r.need_resched)
  BY <1>1, <1>2, <1>5 DEF Reprices, SameBase, SameRest
<1> QED BY <1>6, <1>7, <1>8 DEF Reprices

LEMMA SameReprices ==
  ASSUME NEW s, NEW H, KernelInv(s, H)
  PROVE  Reprices(s, s, H)
BY DEF Reprices, SameBase, SameHolders, SameWaits, SameEvents

LEMMA InheritReprices ==
  ASSUME NEW s, NEW H, KernelInv(s, H), NEW q \in Queues, s.mutex_holder[q] \in H \cup {NoTask}
  PROVE  \E r : r = Inherit(s, q) /\ KernelInv(r, H) /\ SameBase(s, r) /\ SameHolders(s, r)
                /\ SameWaits(s, r) /\ (s.sched_lock > 0 => r.pend_sv = s.pend_sv)
<1> DEFINE h    == s.mutex_holder[q]
           mine == s.priority[s.current]
           v    == RestoreTo(s, q)
           mark == [s EXCEPT !.original_priority[q] = v]
           r    == [Sched(SetPriority(mark, h, mine)) EXCEPT !.original_priority[q] = v]
<1>1. s \in Kernel /\ KernelCore(s, H) /\ H \subseteq Threads /\ NoTask \notin Threads
  BY CoreFacts, QueueAssumption DEF KernelInv, NoTask, Threads
<1>2. CASE h # NoTask /\ mine > s.priority[h]
  <2>1. h \in H /\ h \in Threads /\ mine \in Prio /\ s.original_priority[q] \in Prio \cup {NotBoosted}
    BY <1>1, <1>2 DEF Kernel
  <2>2. v \in Prio \cup {NotBoosted}
    <3>1. s.priority[h] \in Prio
      BY <1>1, <2>1 DEF Kernel
    <3> QED BY <2>1, <3>1 DEF RestoreTo
  <2>3. Inherit(s, q) = r
    BY <1>2 DEF Inherit
  <2> HIDE DEF v, h, mine
  <2>4. /\ mark \in Kernel /\ SameCore(s, mark) /\ SameRest(s, mark)
        /\ SameHolders(s, mark) /\ SameWaits(s, mark)
    BY <1>1, <2>2, SetOriginal
  <2> HIDE DEF mark
  <2>5. KernelInv(mark, H)
    BY <1>1, <2>4, SameCoreInv
  <2>6. Reprices(mark, r, H)
    BY <2>1, <2>2, <2>5, SetAndSched
  <2> HIDE DEF r
  <2>7. /\ KernelInv(r, H) /\ SameBase(s, r) /\ SameHolders(s, r) /\ SameWaits(s, r)
        /\ s.sched_lock > 0 => r.pend_sv = s.pend_sv
    BY <2>4, <2>6 DEF Reprices, SameBase, SameRest, SameHolders, SameWaits, SameEvents
  <2> QED BY <2>3, <2>7
<1>3. CASE ~(h # NoTask /\ mine > s.priority[h])
  <2>1. Inherit(s, q) = s
    BY <1>3 DEF Inherit
  <2> QED BY <2>1, SameReprices DEF Reprices
<1> QED BY <1>2, <1>3

LEMMA RestoreReprices ==
  ASSUME NEW s, NEW H, KernelInv(s, H), NEW q \in Queues, s.current \in H
  PROVE  Reprices(s, Restore(s, q), H)
<1> DEFINE p == s.original_priority[q]
           r == [Sched(SetPriority(s, s.current, p)) EXCEPT !.original_priority[q] = NotBoosted]
<1>1. p \in Prio \cup {NotBoosted}
  BY CoreFacts DEF KernelInv, Kernel
<1>2. CASE p # NotBoosted
  <2>1. Restore(s, q) = r
    BY <1>2 DEF Restore
  <2>2. p \in Prio
    BY <1>1, <1>2
  <2> HIDE DEF p
  <2>3. Reprices(s, r, H)
    BY <2>2, SetAndSched
  <2> QED BY <2>1, <2>3
<1>3. CASE p = NotBoosted
  <2>1. Restore(s, q) = s
    BY <1>3 DEF Restore
  <2> QED BY <2>1, SameReprices
<1> QED BY <1>2, <1>3

-----------------------------------------------------------------------------
\* The give of a mutex

\* What a give of q by the running task does to the kernel.
Gives(s, r, q, H) ==
  /\ KernelInv(r, H) /\ SameBase(s, r) /\ Releases(s, r, s.current, q)
  /\ r.recursive_count = s.recursive_count
  /\ s.sched_lock > 0 => r.pend_sv = s.pend_sv
  /\ \/ r.pend_sv \/ (r.sched_lock > 0 /\ r.need_resched)
     \/ r.need_resched = s.need_resched /\ (s.state[s.current] \in OnReadyList =>
                                              r.state[s.current] \in OnReadyList)

LEMMA GiveGives ==
  ASSUME NEW s, NEW H, KernelInv(s, H), NEW q \in Queues, s.current \in H,
         s.current \notin Waiting(s)
  PROVE  Gives(s, Give(s, q), q, H) /\ FirstWaiting(s, Waiters(q)) \in H \cup {NoTask}
<1> DEFINE e    == Waiters(q)
           c    == s.current
           a    == Restore(s, q)
           w    == WakeHighest(a, e)
           heir == FirstWaiting(s, e)
           hq   == [w.held_queue EXCEPT ![c] = NoQueue]
           hh   == [hq EXCEPT ![heir] = q]
           r    == Give(s, q)
<1>1. /\ KernelInv(a, H) /\ SameBase(s, a) /\ SameHolders(s, a) /\ SameWaits(s, a)
      /\ s.sched_lock > 0 => a.pend_sv = s.pend_sv
      /\ a = s \/ a.pend_sv \/ (a.sched_lock > 0 /\ a.need_resched)
  BY RestoreReprices DEF Reprices
<1>2. e \in EventLists /\ c \in Threads /\ FirstWaiting(a, e) = heir /\ H \subseteq Threads
  BY <1>1, CoreFacts DEF EventLists, Waiters, KernelInv, SameWaits, SameEvents, FirstWaiting
<1>3. r = IF heir = NoTask
          THEN [w EXCEPT !.held_queue = hq, !.messages_waiting[q] = 1, !.mutex_holder[q] = NoTask]
          ELSE [w EXCEPT !.held_queue = hh, !.mutex_holder[q] = heir,
                         !.original_priority[q] = NotBoosted]
  BY DEF Give
<1> HIDE DEF a, r
<1>4. KernelCore(a, H) /\ a \in Kernel /\ a.current = c
  BY <1>1, CoreFacts DEF KernelInv, SameBase
<1>5. /\ KernelCore(w, H) /\ SameRest(a, w) /\ SameObjects(a, w) /\ heir \in H \cup {NoTask}
      /\ Rouses(a, w, NoTask)
  BY <1>2, <1>4, WakeHighestInv, WakeRouses
<1>6. w \in Kernel /\ KernelInv(w, H)
  BY <1>1, <1>5, CoreFacts, RestInv
<1>7. /\ w.held_queue = s.held_queue /\ w.mutex_holder = s.mutex_holder
      /\ w.messages_waiting = s.messages_waiting /\ w.recursive_count = s.recursive_count
  BY <1>1, <1>5 DEF SameHolders, SameObjects
<1>8. hq = With(s.held_queue, c, NoQueue) /\ hh = With(With(s.held_queue, c, NoQueue), heir, q)
  BY <1>7 DEF With
<1>9. /\ hq \in [Threads -> Queues \cup {NoQueue}]
      /\ heir # NoTask => hh \in [Threads -> Queues \cup {NoQueue}]
  BY <1>2, <1>5, <1>6 DEF Kernel
<1>10. c \notin Waiting(a)
  BY <1>1 DEF Waiting, SameWaits, SameEvents
<1> HIDE DEF hq, hh, heir
<1>11. /\ r \in Kernel /\ SameCore(w, r) /\ SameRest(w, r) /\ SameWaits(w, r)
       /\ r.recursive_count = w.recursive_count
       /\ Releases(a, r, c, q)
  <2>1. CASE heir = NoTask
    <3> DEFINE mw == [w.messages_waiting EXCEPT ![q] = 1]
               mh == [w.mutex_holder EXCEPT ![q] = NoTask]
    <3>1. r = [w EXCEPT !.held_queue = hq, !.messages_waiting = mw, !.mutex_holder = mh]
      BY <1>3, <2>1
    <3>2. mw = With(a.messages_waiting, q, 1) /\ mh = With(a.mutex_holder, q, NoTask)
      BY <1>1, <1>7 DEF With, SameHolders
    <3>3. mw \in [Queues -> Nat] /\ mh \in [Queues -> Threads \cup {NoTask}]
      BY <1>6 DEF Kernel
    <3>4. s.waiting[e] = <<>> /\ a.waiting[e] = <<>> /\ w = a
      <4>1. s.waiting[e] = <<>>
        <5>1. SUFFICES ASSUME s.waiting[e] # <<>> PROVE FALSE
          OBVIOUS
        <5>2. a.waiting[e] # <<>>
          BY <1>1, <5>1 DEF SameWaits, SameEvents
        <5>3. FirstWaiting(a, e) # NoTask
          BY <1>2, <1>4, <5>2, WakeHighestEffect
        <5> QED BY <1>2, <2>1, <5>3
      <4>2. a.waiting[e] = <<>>
        BY <1>1, <4>1 DEF SameWaits, SameEvents
      <4> QED BY <4>1, <4>2, WakeNobody
    <3> HIDE DEF mw, mh, w
    <3>5. r \in Kernel
      BY <1>6, <1>9, <3>1, <3>3 DEF Kernel
    <3>6. /\ SameLists(w, r) /\ SameRest(w, r) /\ SameWaits(w, r) /\ r.state = w.state
          /\ r.used = w.used /\ r.terminated_list = w.terminated_list /\ r.current = w.current
      BY <1>6, <3>1 DEF Kernel, SameLists, SameQueued, SameDelays, SameEvents, SameRest,
         SameWaits, Delayed
    <3>7. /\ r.held_queue = hq /\ r.messages_waiting = mw /\ r.mutex_holder = mh
          /\ r.recursive_count = w.recursive_count
      BY <1>6, <3>1 DEF Kernel
    <3>8. Frees(a, r, c, q)
      BY <1>1, <1>8, <3>2, <3>4, <3>6, <3>7 DEF Frees, SameWaits, SameEvents, SameHolders, e
    <3> QED BY <3>5, <3>6, <3>7, <3>8 DEF SameCore, Releases
  <2>2. CASE heir # NoTask
    <3> DEFINE op == [w.original_priority EXCEPT ![q] = NotBoosted]
               mh == [w.mutex_holder EXCEPT ![q] = heir]
    <3>1. r = [w EXCEPT !.held_queue = hh, !.mutex_holder = mh, !.original_priority = op]
      BY <1>3, <2>2
    <3>2. mh = With(a.mutex_holder, q, heir)
      BY <1>1, <1>7 DEF With, SameHolders
    <3>3. op \in [Queues -> Prio \cup {NotBoosted}] /\ mh \in [Queues -> Threads \cup {NoTask}]
      BY <1>2, <1>5, <1>6 DEF Kernel
    <3>4. a.waiting[e] # <<>>
      BY <1>2, <2>2 DEF FirstWaiting
    <3> HIDE DEF op, mh, w
    <3>5. r \in Kernel
      BY <1>6, <1>9, <2>2, <3>1, <3>3 DEF Kernel
    <3>6. /\ SameLists(w, r) /\ SameRest(w, r) /\ SameWaits(w, r) /\ r.state = w.state
          /\ r.used = w.used /\ r.terminated_list = w.terminated_list /\ r.current = w.current
      BY <1>6, <3>1 DEF Kernel, SameLists, SameQueued, SameDelays, SameEvents, SameRest,
         SameWaits, Delayed
    <3>7. /\ r.held_queue = hh /\ r.messages_waiting = w.messages_waiting /\ r.mutex_holder = mh
          /\ r.recursive_count = w.recursive_count
      BY <1>6, <3>1 DEF Kernel
    <3>8. /\ r.mutex_holder = With(a.mutex_holder, q, FirstWaiting(a, Waiters(q)))
          /\ r.held_queue = With(With(a.held_queue, c, NoQueue), FirstWaiting(a, Waiters(q)), q)
          /\ r.messages_waiting = a.messages_waiting
          /\ r.recursive_count = a.recursive_count
      BY <1>1, <1>2, <1>7, <1>8, <3>2, <3>7 DEF SameHolders, e
    <3>9. a.waiting[Waiters(q)] # <<>> /\ SameWaits(WakeHighest(a, Waiters(q)), r)
      BY <3>4, <3>6 DEF e, w
    <3>10. Releases(a, r, c, q)
      <4> HIDE DEF e
      <4> QED BY <1>2, <1>4, <1>10, <3>8, <3>9, WokenPasses
    <3> QED BY <3>5, <3>6, <3>7, <3>10 DEF SameCore
  <2> QED BY <2>1, <2>2
<1>12. KernelInv(r, H)
  BY <1>5, <1>6, <1>11, SameCoreInv
<1>13. Releases(s, r, c, q)
  BY <1>1, <1>2, <1>11, SameReleases DEF SameWaits, SameEvents
<1>14. SameBase(s, r) /\ (s.sched_lock > 0 => r.pend_sv = s.pend_sv) /\ SameRest(a, r)
  BY <1>1, <1>5, <1>11 DEF SameBase, SameRest
<1>15. \/ r.pend_sv \/ (r.sched_lock > 0 /\ r.need_resched)
       \/ r.need_resched = s.need_resched /\ (s.state[c] \in OnReadyList =>
                                              r.state[c] \in OnReadyList)
  <2>1. CASE a = s
    <3>1. c # NoTask
      BY <1>2, QueueAssumption DEF NoTask, Threads
    <3>2. r.state[c] = s.state[c] \/ r.state[c] = "READY"
      BY <1>2, <1>5, <1>11, <2>1, <3>1 DEF Rouses, SameCore
    <3> QED BY <1>14, <2>1, <3>2 DEF SameRest, OnReadyList
  <2>2. CASE a.pend_sv \/ (a.sched_lock > 0 /\ a.need_resched)
    BY <1>14, <2>2 DEF SameRest
  <2> QED BY <1>1, <2>1, <2>2
<1>16. Gives(s, r, q, H)
  BY <1>7, <1>11, <1>12, <1>13, <1>14, <1>15 DEF Gives
<1> QED BY <1>5, <1>16 DEF r, heir
-----------------------------------------------------------------------------
\* A step of the running task in mutex.c

\* c goes on at l with the local v, and returns to m from rtos_sched, in the call a,
\* having taken the mutexes as often as o says.
Moves(c, l, m, v, a, o) ==
  /\ pc' = [pc EXCEPT ![c] = l] /\ ret' = [ret EXCEPT ![c] = m] /\ arg' = [arg EXCEPT ![c] = v]
  /\ call' = [call EXCEPT ![c] = a] /\ owns' = [owns EXCEPT ![c] = o]
  /\ isr' = isr /\ handles' = handles

\* The arguments of such a step.
Places(l, m, v, a, o) ==
  /\ l \in {"run", "sched", "take", "count", "give", "woken"} /\ m \in {"run", "dead", "wait"}
  /\ v \in Locals /\ a \in Takes \cup {NoCall} /\ o \in Counts
  /\ l = "woken" => v \in Tasks
  /\ m = "wait" => l = "sched" /\ k.sched_lock = 0
  /\ l = "take" => a \in Takes /\ (k.sched_lock > 0 => a.timeout = 0)

\* c does not block, or is on its way to the switch.
Awake(c, l) ==
  \/ l = "sched" \/ k'.pend_sv \/ (k'.sched_lock > 0 /\ k'.need_resched)
  \/ k'.need_resched = k.need_resched
     /\ (k.state[c] \in OnReadyList => k'.state[c] \in OnReadyList)

LEMMA MovesPlaces ==
  ASSUME MutexInv, NEW c \in Threads, NEW l, NEW m, NEW v, NEW a, NEW o, Moves(c, l, m, v, a, o)
  PROVE  /\ pc'[c] = l /\ ret'[c] = m /\ arg'[c] = v /\ call'[c] = a /\ owns'[c] = o
         /\ \A t \in Threads \ {c} : pc'[t] = pc[t] /\ ret'[t] = ret[t]
         /\ \A t \in Threads \ {c} : Stays(t)
<1>1. /\ pc \in [Threads -> AllLabels] /\ ret \in [Threads -> AllLabels]
      /\ DOMAIN arg = Threads /\ DOMAIN call = Threads /\ DOMAIN owns = Threads
  BY MutexFacts, TypeFacts DEF CallTypes
<1> QED BY <1>1 DEF Moves, Stays

LEMMA MovesInv ==
  ASSUME MutexInv, NEW c \in Tasks, NEW b \in Running \ {"create"}, At(c, b),
         KernelInv(k', handles), SameBase(k, k'), k.sched_lock > 0 => k'.pend_sv = k.pend_sv,
         NEW l, NEW m, NEW v, NEW a, NEW o, Moves(c, l, m, v, a, o), Places(l, m, v, a, o),
         Awake(c, l),
         \A t \in Threads : TaskOK(t)', \A q \in Queues : ObjectOK(q)'
  PROVE  MutexInv'
<1>1. /\ IInv /\ WaitShape /\ LockWaits /\ LockTakes /\ Dozes /\ CallTypes /\ k \in Kernel
      /\ k.sched_lock \in Nat
  BY MutexFacts, TypeFacts
<1>2. /\ c \in handles /\ c \in Threads /\ c # Idle /\ k.current = c /\ pc[c] = b /\ b \in Running
  BY <1>1, CallerLives
<1>3. /\ pc'[c] = l /\ ret'[c] = m /\ call'[c] = a /\ k'.current = c /\ handles' = handles
      /\ \A t \in Threads \ {c} : pc'[t] = pc[t] /\ ret'[t] = ret[t]
      /\ k'.sched_lock = k.sched_lock
  <2>1. /\ pc'[c] = l /\ ret'[c] = m /\ call'[c] = a
        /\ \A t \in Threads \ {c} : pc'[t] = pc[t] /\ ret'[t] = ret[t]
    BY <1>2, MovesPlaces
  <2>2. handles' = handles
    BY DEF Moves
  <2> QED BY <1>2, <2>1, <2>2 DEF SameBase
<1>4. IInv'
  <2>1. ThreadInv'
    <3>1. /\ l \in AllLabels \ {"create", "pend", "free"} /\ l # "created" /\ l # "until"
          /\ m \in {"run", "dead", "wait"} /\ v \in Locals /\ (l = "woken" => v \in Tasks)
      BY DEF Places, AllLabels, Labels
    <3>2. pc[c] # "create"
      BY <1>2
    <3>3. /\ pc' = [pc EXCEPT ![c] = l] /\ ret' = [ret EXCEPT ![c] = m]
          /\ arg' = [arg EXCEPT ![c] = v] /\ isr' = isr /\ handles' = handles
      BY DEF Moves
    <3> QED BY <1>1, <1>2, <3>1, <3>2, <3>3, CallThreadInv
  <2> QED BY <1>3, <2>1 DEF IInv
<1>5. WaitShape'
  BY <1>1, <1>2, <1>3 DEF WaitShape, Places
<1>6. LockWaits'
  BY <1>3 DEF LockWaits, Places
<1>7. LockTakes'
  BY <1>3 DEF LockTakes, Places
<1>8. CallTypes'
  BY <1>1, <1>2 DEF CallTypes, Moves, Places
<1>9. Dozes'
  <2>1. CASE l = "sched"
    <3>1. pc' = [pc EXCEPT ![c] = "sched"]
      BY <2>1 DEF Moves
    <3> QED BY <1>1, <1>3, <3>1, DozesAsked
  <2>2. CASE k'.pend_sv \/ (k'.sched_lock > 0 /\ k'.need_resched)
    BY <2>2 DEF Dozes
  <2>3. CASE /\ k'.need_resched = k.need_resched
             /\ k.state[c] \in OnReadyList => k'.state[c] \in OnReadyList
    BY <1>1, <1>2, <1>3, <2>3, DozesKept
  <2> QED BY <2>1, <2>2, <2>3 DEF Awake
<1> QED BY <1>4, <1>5, <1>6, <1>7, <1>8, <1>9 DEF MutexInv

\* A step of c that does nothing to u: at most it takes a free mutex.
Aside(u, c) ==
  /\ k'.event_list[u] = k.event_list[u] /\ k'.wakeup_reason[u] = k.wakeup_reason[u]
  /\ u \in Delayed(k') => u \in Delayed(k)
  /\ k'.held_queue[u] = k.held_queue[u]
  /\ \A q \in Queues : \/ k'.mutex_holder[q] = k.mutex_holder[q]
                       \/ k.mutex_holder[q] = NoTask /\ k'.mutex_holder[q] = c
  /\ \A q \in Queues : k.mutex_holder[q] = u => k'.recursive_count[q] = k.recursive_count[q]

LEMMA AsideOK ==
  ASSUME MutexInv, NEW c \in Threads, NEW u \in Threads \ {c}, Stays(u), Aside(u, c)
  PROVE  TaskOK(u)'
<1>1. TaskOK(u) /\ NoTask \notin Threads
  BY MutexFacts, QueueAssumption DEF NoTask, Threads
<1>2. u \in Waiting(k') <=> u \in Waiting(k)
  BY DEF Aside, Waiting
<1>3. KeepsWait(u)
  BY <1>1, <1>2 DEF Aside, KeepsWait, TaskOK, WaitOK
<1>4. u \in Waiting(k') => k'.mutex_holder[call[u].q] # NoTask
  <2>1. u \in Waiting(k) => k.mutex_holder[call[u].q] # NoTask /\ call[u].q \in Queues
    BY <1>1 DEF TaskOK, WaitOK, CallOK, InCall, Takes
  <2> QED BY <1>1, <1>2, <2>1 DEF Aside
<1>5. KeepsMutexes(u)
  BY <1>1, <1>4 DEF Aside, KeepsMutexes
<1> QED BY <1>1, <1>3, <1>5, StaysOK

\* What the running task knows of itself, in code of the application or of mutex.c.
LEMMA CallerFacts ==
  ASSUME MutexInv, NEW c \in Tasks, NEW b \in Running \ {"create"}, At(c, b)
  PROVE  /\ c \in handles /\ c \in Threads /\ k.current = c /\ pc[c] = b /\ c # NoTask
         /\ TaskOK(c) /\ call[c] \in Takes \cup {NoCall} /\ owns[c] \in Counts
         /\ arg[c] \in Locals /\ (b # "wait" => ret[c] # "wait")
         /\ b = "wait" \/ (k.sched_lock = 0 /\ b # "woken") => k.state[c] \in OnReadyList
         /\ k.state[c] \in OnReadyList => c \notin Waiting(k) /\ c \notin Delayed(k)
         /\ \A q \in Queues : IsMutex(q) /\ ObjectOK(q)
<1>1. /\ IInv /\ WaitShape /\ LockWaits /\ Dozes /\ CallTypes /\ KernelCore(k, handles)
      /\ \A t \in Threads : TaskOK(t)
      /\ \A q \in Queues : ObjectOK(q) /\ IsMutex(q)
  BY MutexFacts
<1>2. /\ c \in handles /\ c \in Threads /\ k.current = c /\ pc[c] = b /\ ~k.pend_sv
      /\ b \in Running /\ arg \in [Threads -> Locals]
  BY <1>1, CallerLives, TypeFacts
<1>3. c # NoTask
  BY <1>2, QueueAssumption DEF NoTask, Threads
<1>4. b # "wait" => ret[c] # "wait"
  BY <1>1, <1>2 DEF WaitShape, Running
<1>5. b = "wait" \/ (k.sched_lock = 0 /\ b # "woken") => k.state[c] \in OnReadyList
  BY <1>1, <1>2 DEF Dozes, Running, WaitShape, LockWaits
<1>6. k.state[c] \in OnReadyList => c \notin Waiting(k) /\ c \notin Delayed(k)
  BY <1>1 DEF KernelCore, OnReadyList
<1> QED BY <1>1, <1>2, <1>3, <1>4, <1>5, <1>6 DEF CallTypes

-----------------------------------------------------------------------------
\* A take or a give that moves no task between the lists

\* A task in application code.
LEMMA RunOK ==
  ASSUME NEW c \in Threads, ~InCall(c)', c \in handles', c \notin Waiting(k'),
         \A q \in Queues :
           /\ k'.held_queue[c] = q <=> k'.mutex_holder[q] = c
           /\ k'.mutex_holder[q] = c => owns'[c][q] > 0
           /\ owns'[c][q] > 0 =>
                k'.mutex_holder[q] = c /\ (IsRecursive(q) => k'.recursive_count[q] = owns'[c][q])
  PROVE  TaskOK(c)'
BY DEF TaskOK, CallOK, HoldOK, WaitOK, InCall, Has, Inner

\* The mutexes of the running task, before and within a take.
LEMMA OwnsFacts ==
  ASSUME MutexInv, NEW c \in Tasks, NEW b \in {"run", "take"}, At(c, b), NEW q \in Queues
  PROVE  /\ c \notin Waiting(k) /\ owns[c][q] \in Nat
         /\ k.held_queue[c] = q <=> k.mutex_holder[q] = c
         /\ k.mutex_holder[q] = c <=> owns[c][q] > 0
         /\ owns[c][q] > 0 /\ IsRecursive(q) => k.recursive_count[q] = owns[c][q]
         /\ b = "take" => owns[c][q] = 0
<1>1. /\ TaskOK(c) /\ pc[c] = b /\ ret[c] # "wait" /\ owns[c] \in Counts
  BY CallerFacts DEF Running
<1>2. c \notin Waiting(k) /\ owns[c][q] \in Nat
  BY <1>1 DEF TaskOK, WaitOK, Counts
<1>3. Has(c, q) <=> owns[c][q] > 0
  BY <1>1 DEF Has
<1> QED BY <1>1, <1>2, <1>3 DEF TaskOK, HoldOK, CallOK, InCall, Inner

LEMMA MinorInv ==
  ASSUME MutexInv, NEW c \in Tasks, NEW b \in Running \ {"create"}, At(c, b),
         k' \in Kernel, SameCore(k, k'), SameRest(k, k'),
         NEW l, NEW m, NEW v, NEW a, NEW o, Moves(c, l, m, v, a, o), Places(l, m, v, a, o),
         \A u \in Threads \ {c} : /\ k'.wakeup_reason[u] = k.wakeup_reason[u]
                                  /\ k'.held_queue[u] = k.held_queue[u],
         \A q \in Queues : \/ k'.mutex_holder[q] = k.mutex_holder[q]
                           \/ k.mutex_holder[q] = NoTask /\ k'.mutex_holder[q] = c,
         \A q \in Queues : \A u \in Threads \ {c} :
           k.mutex_holder[q] = u => k'.recursive_count[q] = k.recursive_count[q],
         TaskOK(c)', \A q \in Queues : ObjectOK(q)'
  PROVE  MutexInv'
<1>1. /\ c \in Threads /\ KernelCore(k, handles) /\ KernelInv(k, handles) /\ ListsOK(k)
  BY MutexFacts, CallerFacts
<1>2. /\ KernelInv(k', handles) /\ SameBase(k, k') /\ k'.pend_sv = k.pend_sv
      /\ k'.need_resched = k.need_resched /\ k'.state = k.state
  BY <1>1, SameCoreInv DEF SameCore, SameBase, SameRest
<1>3. k'.event_list = k.event_list /\ Delayed(k') = Delayed(k)
  BY DEF SameCore, SameLists, SameEvents, SameDelays, Delayed
<1>4. ASSUME NEW u \in Threads \ {c} PROVE TaskOK(u)'
  <2>1. Aside(u, c)
    BY <1>3 DEF Aside
  <2>2. Stays(u)
    BY <1>1, MovesPlaces
  <2> QED BY <1>1, <2>1, <2>2, AsideOK
<1>5. \A u \in Threads : TaskOK(u)'
  BY <1>4
<1>6. Awake(c, l)
  BY <1>2 DEF Awake
<1> QED BY <1>2, <1>5, <1>6, MovesInv

\* A step within one call, or back to the application, that leaves the kernel alone.
LEMMA StillInv ==
  ASSUME MutexInv, NEW c \in Tasks, NEW b \in Running \ {"create"}, At(c, b), k' = k,
         NEW l, NEW m, NEW v, NEW a, NEW o, Moves(c, l, m, v, a, o), Places(l, m, v, a, o),
         TaskOK(c)'
  PROVE  MutexInv'
<1>1. k' \in Kernel /\ \A q \in Queues : ObjectOK(q)'
  BY MutexFacts DEF ObjectOK
<1>2. SameCore(k, k') /\ SameRest(k, k')
  BY DEF SameCore, SameRest, SameLists, SameQueued, SameDelays, SameEvents
<1> QED BY <1>1, <1>2, MinorInv

\* The step goes on with these arguments.
LEMMA ContinueMoves ==
  ASSUME MutexInv, NEW c \in Tasks, NEW b \in Running \ {"create"}, At(c, b),
         NEW l, Continue(c, l), NEW a, call' = [call EXCEPT ![c] = a],
         NEW o, owns' = [owns EXCEPT ![c] = o]
  PROVE  Moves(c, l, "run", arg[c], a, o)
<1>1. arg \in [Threads -> Locals] /\ c \in Threads
  BY MutexFacts, TypeFacts
<1>2. arg' = [arg EXCEPT ![c] = arg[c]]
  BY <1>1 DEF Continue
<1> QED BY <1>2 DEF Continue, Moves

LEMMA KeepsOwns ==
  ASSUME MutexInv, NEW c \in Tasks
  PROVE  owns = [owns EXCEPT ![c] = owns[c]] /\ call = [call EXCEPT ![c] = call[c]]
BY MutexFacts, TypeFacts DEF CallTypes

\* One more, one less.
LEMMA CountsStep ==
  ASSUME NEW o \in Counts, NEW q \in Queues, NEW n \in 0 .. MaxDepth,
         IsRecursive(q) \/ n <= 1
  PROVE  /\ [o EXCEPT ![q] = n] \in Counts /\ [o EXCEPT ![q] = n][q] = n
         /\ \A p \in Queues \ {q} : [o EXCEPT ![q] = n][p] = o[p]
BY DEF Counts

\* A take that does not wait and finds the mutex taken.
LEMMA TakeFails ==
  ASSUME MutexInv, NEW c \in Tasks, NEW b \in {"run", "take"}, At(c, b),
         k' = k, owns' = owns, call' = [call EXCEPT ![c] = NoCall], Continue(c, "run")
  PROVE  MutexInv'
<1>1. /\ c \in handles /\ c \in Threads /\ owns[c] \in Counts /\ arg[c] \in Locals
      /\ b \in Running \ {"create"}
  BY CallerFacts DEF Running
<1>2. Moves(c, "run", "run", arg[c], NoCall, owns[c])
  BY <1>1, KeepsOwns, ContinueMoves
<1>3. Places("run", "run", arg[c], NoCall, owns[c])
  BY <1>1 DEF Places
<1>4. pc'[c] = "run" /\ ret'[c] = "run"
  BY <1>1, <1>2, MovesPlaces
<1>5. ~InCall(c)' /\ c \in handles'
  BY <1>1, <1>2, <1>4 DEF InCall, Inner, Moves
<1>6. /\ c \notin Waiting(k)
      /\ \A q \in Queues :
           /\ k.held_queue[c] = q <=> k.mutex_holder[q] = c
           /\ k.mutex_holder[q] = c <=> owns[c][q] > 0
           /\ owns[c][q] > 0 /\ IsRecursive(q) => k.recursive_count[q] = owns[c][q]
  <2>1. b \in {"run", "take"}
    OBVIOUS
  <2>2. c \notin Waiting(k)
    BY <1>1, CallerFacts DEF TaskOK, WaitOK
  <2> QED BY <2>1, <2>2, OwnsFacts
<1>7. TaskOK(c)'
  BY <1>1, <1>5, <1>6, RunOK
<1> QED BY <1>1, <1>2, <1>3, <1>7, StillInv

LEMMA AcquireFields ==
  ASSUME NEW s \in Kernel, NEW q \in Queues
  PROVE  \E r : r = Acquire(s, q) /\ r \in Kernel /\ SameCore(s, r) /\ SameRest(s, r)
                /\ r.messages_waiting = With(s.messages_waiting, q, 0)
                /\ r.mutex_holder = With(s.mutex_holder, q, s.current)
                /\ r.held_queue = With(s.held_queue, s.current, q)
                /\ r.original_priority = With(s.original_priority, q, NotBoosted)
                /\ r.recursive_count = s.recursive_count /\ r.wakeup_reason = s.wakeup_reason
<1> DEFINE mw == [s.messages_waiting EXCEPT ![q] = 0]
           mh == [s.mutex_holder EXCEPT ![q] = s.current]
           op == [s.original_priority EXCEPT ![q] = NotBoosted]
           hq == [s.held_queue EXCEPT ![s.current] = q]
           r  == Acquire(s, q)
<1>1. r = [s EXCEPT !.messages_waiting = mw, !.mutex_holder = mh, !.original_priority = op,
                    !.held_queue = hq]
  BY DEF Acquire
<1>2. mw \in [Queues -> Nat] /\ op \in [Queues -> Prio \cup {NotBoosted}]
  BY DEF Kernel
<1>3. /\ mh \in [Queues -> Threads \cup {NoTask}]
      /\ hq \in [Threads -> Queues \cup {NoQueue}]
  BY DEF Kernel
<1>4. mw = With(s.messages_waiting, q, 0) /\ mh = With(s.mutex_holder, q, s.current)
      /\ hq = With(s.held_queue, s.current, q) /\ op = With(s.original_priority, q, NotBoosted)
  BY DEF With
<1> HIDE DEF mw, mh, op, hq, r
<1>5. r \in Kernel
  BY <1>1, <1>2, <1>3 DEF Kernel
<1>6. /\ SameLists(s, r) /\ SameRest(s, r) /\ r.state = s.state /\ r.used = s.used
      /\ r.terminated_list = s.terminated_list /\ r.current = s.current
  BY <1>1 DEF Kernel, SameLists, SameQueued, SameDelays, SameEvents, SameRest
<1>7. /\ r.messages_waiting = mw /\ r.mutex_holder = mh /\ r.held_queue = hq
      /\ r.original_priority = op
      /\ r.recursive_count = s.recursive_count /\ r.wakeup_reason = s.wakeup_reason
  BY <1>1 DEF Kernel
<1> QED BY <1>4, <1>5, <1>6, <1>7 DEF SameCore, r

LEMMA CountFields ==
  ASSUME NEW s \in Kernel, NEW q \in Queues, NEW n \in Int,
         NEW r, r = [s EXCEPT !.recursive_count[q] = n]
  PROVE  /\ r \in Kernel /\ SameCore(s, r) /\ SameRest(s, r)
         /\ r.messages_waiting = s.messages_waiting /\ r.mutex_holder = s.mutex_holder
         /\ r.held_queue = s.held_queue /\ r.wakeup_reason = s.wakeup_reason
         /\ r.recursive_count[q] = n
         /\ \A p \in Queues \ {q} : r.recursive_count[p] = s.recursive_count[p]
<1> DEFINE rc == [s.recursive_count EXCEPT ![q] = n]
<1>1. r = [s EXCEPT !.recursive_count = rc]
  OBVIOUS
<1>2. /\ rc \in [Queues -> Int] /\ rc[q] = n
      /\ \A p \in Queues \ {q} : rc[p] = s.recursive_count[p]
  BY DEF Kernel
<1> HIDE DEF rc
<1>3. r \in Kernel
  BY ZenonT(60), <1>1, <1>2 DEF Kernel
<1>4. /\ SameLists(s, r) /\ SameRest(s, r) /\ r.state = s.state /\ r.used = s.used
      /\ r.terminated_list = s.terminated_list /\ r.current = s.current
  BY <1>1 DEF Kernel, SameLists, SameQueued, SameDelays, SameEvents, SameRest
<1>5. /\ r.messages_waiting = s.messages_waiting /\ r.mutex_holder = s.mutex_holder
      /\ r.held_queue = s.held_queue /\ r.wakeup_reason = s.wakeup_reason
      /\ r.recursive_count = rc
  BY <1>1 DEF Kernel
<1> QED BY <1>2, <1>3, <1>4, <1>5 DEF SameCore

LEMMA ReasonFields ==
  ASSUME NEW s \in Kernel, NEW t \in Threads, NEW r, r = [s EXCEPT !.wakeup_reason[t] = 0]
  PROVE  /\ r \in Kernel /\ SameCore(s, r) /\ SameRest(s, r) /\ SameHolders(s, r)
         /\ \A u \in Threads \ {t} : r.wakeup_reason[u] = s.wakeup_reason[u]
<1> DEFINE w == [s.wakeup_reason EXCEPT ![t] = 0]
<1>1. r = [s EXCEPT !.wakeup_reason = w]
  OBVIOUS
<1>2. w \in [Threads -> 0 .. 2] /\ \A u \in Threads \ {t} : w[u] = s.wakeup_reason[u]
  BY DEF Kernel
<1> HIDE DEF w
<1>3. r \in Kernel
  BY ZenonT(60), <1>1, <1>2 DEF Kernel
<1>4. /\ SameLists(s, r) /\ SameRest(s, r) /\ r.state = s.state /\ r.used = s.used
      /\ r.terminated_list = s.terminated_list /\ r.current = s.current
  BY <1>1 DEF Kernel, SameLists, SameQueued, SameDelays, SameEvents, SameRest
<1>5. SameHolders(s, r) /\ r.wakeup_reason = w
  BY <1>1 DEF Kernel, SameHolders
<1> QED BY <1>2, <1>3, <1>4, <1>5 DEF SameCore

LEMMA SameCoreWaits ==
  ASSUME NEW s, NEW r, SameCore(s, r)
  PROVE  Waiting(r) = Waiting(s) /\ Delayed(r) = Delayed(s)
BY DEF SameCore, SameLists, SameEvents, SameDelays, Waiting, Delayed

LEMMA TakenOwns ==
  ASSUME NEW c, NEW q, Taken(c, q), NEW n, n = owns[c][q] + 1
  PROVE  owns' = [owns EXCEPT ![c] = [owns[c] EXCEPT ![q] = n]] /\ call' = [call EXCEPT ![c] = NoCall]
BY DEF Taken

\* A free mutex is taken.
LEMMA TakesFree ==
  ASSUME MutexInv, NEW c \in Tasks, NEW b \in {"run", "take"}, At(c, b), NEW m \in Takes,
         \A p \in Queues : owns[c][p] = 0, k.messages_waiting[m.q] > 0,
         k' = Acquire(k, m.q),
         \/ /\ IsRecursive(m.q) /\ call' = [call EXCEPT ![c] = m] /\ Continue(c, "count")
            /\ owns' = owns
         \/ ~IsRecursive(m.q) /\ Taken(c, m.q) /\ Continue(c, "run")
  PROVE  MutexInv'
<1> DEFINE q == m.q
<1>1. /\ c \in handles /\ c \in Threads /\ owns[c] \in Counts /\ arg[c] \in Locals
      /\ b \in Running \ {"create"} /\ k.current = c /\ q \in Queues /\ c # NoTask
      /\ k \in Kernel /\ \A p \in Queues : ObjectOK(p)
  BY CallerFacts, MutexFacts DEF Running, Takes
<1>2. k.mutex_holder[q] = NoTask
  BY <1>1 DEF ObjectOK
<1>3. /\ c \notin Waiting(k)
      /\ \A p \in Queues : k.mutex_holder[p] # c /\ k.held_queue[c] # p
  <2>1. b \in {"run", "take"}
    OBVIOUS
  <2>2. c \notin Waiting(k)
    BY <1>1, CallerFacts DEF TaskOK, WaitOK
  <2> QED BY <2>1, <2>2, OwnsFacts
<1> HIDE DEF q
<1>4. /\ k' \in Kernel /\ SameCore(k, k') /\ SameRest(k, k')
      /\ k'.messages_waiting = With(k.messages_waiting, q, 0)
      /\ k'.mutex_holder = With(k.mutex_holder, q, c)
      /\ k'.held_queue = With(k.held_queue, c, q)
      /\ k'.recursive_count = k.recursive_count /\ k'.wakeup_reason = k.wakeup_reason
  BY <1>1, AcquireFields DEF q
<1>5. c \notin Waiting(k')
  BY <1>3, <1>4, SameCoreWaits
<1>6. /\ DOMAIN k.held_queue = Threads /\ DOMAIN k.mutex_holder = Queues
      /\ DOMAIN k.messages_waiting = Queues
  BY <1>1 DEF Kernel
<1>7. /\ k'.mutex_holder[q] = c /\ k'.held_queue[c] = q
      /\ \A p \in Queues \ {q} : k'.mutex_holder[p] = k.mutex_holder[p]
      /\ \A u \in Threads \ {c} : k'.held_queue[u] = k.held_queue[u]
  BY <1>1, <1>4, <1>6 DEF With
<1>8. \A p \in Queues : k'.held_queue[c] = p <=> k'.mutex_holder[p] = c
  BY <1>3, <1>7
<1>9. \A p \in Queues : ObjectOK(p)'
  <2>1. k'.messages_waiting[q] = 0 /\ \A p \in Queues \ {q} : k'.messages_waiting[p] = k.messages_waiting[p]
    BY <1>1, <1>4, <1>6 DEF With
  <2>2. ASSUME NEW p \in Queues PROVE ObjectOK(p)'
    <3>1. CASE p = q
      BY <1>1, <1>7, <2>1, <3>1 DEF ObjectOK
    <3>2. CASE p # q
      BY <1>1, <1>7, <2>1, <3>2 DEF ObjectOK
    <3> QED BY <3>1, <3>2
  <2> QED BY <2>2
<1>10. CASE /\ IsRecursive(m.q) /\ call' = [call EXCEPT ![c] = m] /\ Continue(c, "count")
            /\ owns' = owns
  <2>1. Moves(c, "count", "run", arg[c], m, owns[c])
    BY <1>1, <1>10, KeepsOwns, ContinueMoves
  <2>2. Places("count", "run", arg[c], m, owns[c])
    BY <1>1 DEF Places
  <2>3. pc'[c] = "count" /\ ret'[c] = "run" /\ call'[c] = m /\ owns'[c] = owns[c] /\ handles' = handles
    <3>1. pc'[c] = "count" /\ ret'[c] = "run" /\ call'[c] = m
      BY <1>1, <2>1, MovesPlaces
    <3> QED BY <1>10, <3>1 DEF Continue
  <2>4. CallOK(c)'
    BY <1>1, <1>7, <1>10, <2>3 DEF CallOK, InCall, Inner, q
  <2>5. HoldOK(c)'
    BY <1>1, <1>3, <1>7, <1>8, <2>3 DEF HoldOK, Has, q
  <2>6. WaitOK(c)'
    BY <1>5, <2>3 DEF WaitOK
  <2>7. TaskOK(c)'
    BY <2>4, <2>5, <2>6 DEF TaskOK
  <2> QED BY <1>1, <1>2, <1>4, <1>7, <1>9, <2>1, <2>2, <2>7, MinorInv
<1>11. CASE ~IsRecursive(m.q) /\ Taken(c, m.q) /\ Continue(c, "run")
  <2> DEFINE o == [owns[c] EXCEPT ![q] = 1]
  <2>1. o \in Counts /\ o[q] = 1 /\ \A p \in Queues \ {q} : o[p] = owns[c][p]
    <3>1. 1 \in 0 .. MaxDepth
      BY MutexAssumption
    <3> QED BY <1>1, <3>1, CountsStep
  <2>2. owns' = [owns EXCEPT ![c] = o] /\ call' = [call EXCEPT ![c] = NoCall]
    <3>1. owns[c][q] = 0 /\ Taken(c, q)
      BY <1>1, <1>11 DEF q
    <3>2. 1 = owns[c][q] + 1
      BY <3>1
    <3> QED BY <3>1, <3>2, TakenOwns
  <2> HIDE DEF o
  <2>3. Moves(c, "run", "run", arg[c], NoCall, o)
    BY <1>1, <1>11, <2>2, ContinueMoves
  <2>4. Places("run", "run", arg[c], NoCall, o)
    BY <1>1, <2>1 DEF Places
  <2>5. pc'[c] = "run" /\ ret'[c] = "run" /\ owns'[c] = o /\ handles' = handles
    <3>1. pc'[c] = "run" /\ ret'[c] = "run" /\ owns'[c] = o
      BY <1>1, <2>3, MovesPlaces
    <3> QED BY <1>11, <3>1 DEF Continue
  <2>6. ~InCall(c)'
    BY <2>5 DEF InCall, Inner
  <2>7. TaskOK(c)'
    <3>1. ASSUME NEW p \in Queues
          PROVE  /\ k'.held_queue[c] = p <=> k'.mutex_holder[p] = c
                 /\ k'.mutex_holder[p] = c => owns'[c][p] > 0
                 /\ owns'[c][p] > 0 => k'.mutex_holder[p] = c
                      /\ (IsRecursive(p) => k'.recursive_count[p] = owns'[c][p])
      <4>1. CASE p = q
        BY <1>7, <1>8, <1>11, <2>1, <2>5, <4>1 DEF q
      <4>2. CASE p # q
        BY <1>3, <1>7, <1>8, <2>1, <2>5, <4>2
      <4> QED BY <4>1, <4>2
    <3> QED BY <1>1, <1>5, <2>5, <2>6, <3>1, RunOK
  <2> QED BY <1>1, <1>2, <1>4, <1>7, <1>9, <2>3, <2>4, <2>7, MinorInv
<1> QED BY <1>10, <1>11

\* A holder takes a recursive mutex again.
LEMMA Nests ==
  ASSUME MutexInv, NEW c \in Tasks, At(c, "run"), NEW q \in Queues, IsRecursive(q), Holds(c, q),
         owns[c][q] < MaxDepth, k' = [k EXCEPT !.recursive_count[q] = @ + 1], Taken(c, q),
         Continue(c, "run")
  PROVE  MutexInv'
<1> DEFINE n == owns[c][q] + 1
           o == [owns[c] EXCEPT ![q] = n]
<1>1. /\ c \in handles /\ c \in Threads /\ owns[c] \in Counts /\ arg[c] \in Locals
      /\ "run" \in Running \ {"create"} /\ k \in Kernel /\ \A p \in Queues : ObjectOK(p)
  BY CallerFacts, MutexFacts DEF Running
<1>2. \A p \in Queues :
        /\ c \notin Waiting(k) /\ owns[c][p] \in Nat
        /\ k.held_queue[c] = p <=> k.mutex_holder[p] = c
        /\ k.mutex_holder[p] = c <=> owns[c][p] > 0
        /\ owns[c][p] > 0 /\ IsRecursive(p) => k.recursive_count[p] = owns[c][p]
  <2>1. "run" \in {"run", "take"}
    OBVIOUS
  <2> QED BY <2>1, OwnsFacts
<1>3. n \in 0 .. MaxDepth /\ n \in Int
  BY <1>2, MutexAssumption
<1>4. k.mutex_holder[q] = c /\ owns[c][q] > 0 /\ k.recursive_count[q] + 1 = n
  BY <1>2 DEF Holds
<1>5. o \in Counts /\ o[q] = n /\ \A p \in Queues \ {q} : o[p] = owns[c][p]
  BY <1>1, <1>3, CountsStep
<1>6. owns' = [owns EXCEPT ![c] = o] /\ call' = [call EXCEPT ![c] = NoCall]
  BY TakenOwns
<1>7. k' = [k EXCEPT !.recursive_count[q] = n]
  BY <1>4
<1>8. n > 0
  BY <1>2, <1>4
<1> HIDE DEF o, n
<1>9. /\ k' \in Kernel /\ SameCore(k, k') /\ SameRest(k, k')
      /\ k'.messages_waiting = k.messages_waiting /\ k'.mutex_holder = k.mutex_holder
      /\ k'.held_queue = k.held_queue /\ k'.wakeup_reason = k.wakeup_reason
      /\ k'.recursive_count[q] = n
      /\ \A p \in Queues \ {q} : k'.recursive_count[p] = k.recursive_count[p]
  BY <1>1, <1>3, <1>7, CountFields
<1>10. Moves(c, "run", "run", arg[c], NoCall, o)
  BY <1>1, <1>6, ContinueMoves
<1>11. Places("run", "run", arg[c], NoCall, o)
  BY <1>1, <1>5 DEF Places
<1>12. pc'[c] = "run" /\ ret'[c] = "run" /\ owns'[c] = o
  BY <1>1, <1>10, MovesPlaces
<1>13. ~InCall(c)' /\ c \in handles' /\ c \notin Waiting(k')
  <2>1. Waiting(k') = Waiting(k)
    BY <1>9, SameCoreWaits
  <2> QED BY <1>1, <1>2, <1>12, <2>1 DEF InCall, Inner, Continue
<1>14. TaskOK(c)'
  <2>1. ASSUME NEW p \in Queues
        PROVE  /\ k'.held_queue[c] = p <=> k'.mutex_holder[p] = c
               /\ k'.mutex_holder[p] = c => owns'[c][p] > 0
               /\ owns'[c][p] > 0 => k'.mutex_holder[p] = c
                    /\ (IsRecursive(p) => k'.recursive_count[p] = owns'[c][p])
    <3>1. CASE p = q
      BY <1>2, <1>4, <1>5, <1>8, <1>9, <1>12, <3>1
    <3>2. CASE p # q
      BY <1>2, <1>5, <1>9, <1>12, <3>2
    <3> QED BY <3>1, <3>2
  <2> QED BY <1>1, <1>13, <2>1, RunOK
<1>15. \A p \in Queues : ObjectOK(p)'
  BY <1>1, <1>9 DEF ObjectOK
<1>16. \A p \in Queues : \A u \in Threads \ {c} :
         k.mutex_holder[p] = u => k'.recursive_count[p] = k.recursive_count[p]
  BY <1>4, <1>9
<1> QED BY <1>1, <1>9, <1>10, <1>11, <1>14, <1>15, <1>16, MinorInv

\* The first take of a recursive mutex is counted.
LEMMA CountsOne ==
  ASSUME MutexInv, NEW c \in Tasks, MutexTakeCount(c)
  PROVE  MutexInv'
<1> DEFINE q == call[c].q
           o == [owns[c] EXCEPT ![q] = 1]
<1>1. /\ c \in handles /\ c \in Threads /\ owns[c] \in Counts /\ arg[c] \in Locals
      /\ "count" \in Running \ {"create"} /\ At(c, "count") /\ pc[c] = "count" /\ ret[c] # "wait"
      /\ TaskOK(c) /\ k \in Kernel /\ \A p \in Queues : ObjectOK(p)
  BY CallerFacts, MutexFacts DEF Running, MutexTakeCount
<1>2. /\ q \in Queues /\ IsRecursive(q) /\ k.mutex_holder[q] = c
      /\ \A p \in Queues : owns[c][p] = 0
  BY <1>1 DEF TaskOK, CallOK, InCall, Inner, Takes
<1>3. c \notin Waiting(k)
  BY <1>1 DEF TaskOK, WaitOK
<1>4. \A p \in Queues : k.held_queue[c] = p <=> k.mutex_holder[p] = c
  BY <1>1 DEF TaskOK, HoldOK
<1>5. \A p \in Queues \ {q} : k.mutex_holder[p] # c
  BY <1>2, <1>4
<1>6. o \in Counts /\ o[q] = 1 /\ \A p \in Queues \ {q} : o[p] = owns[c][p]
  <2>1. 1 \in 0 .. MaxDepth
    BY MutexAssumption
  <2> QED BY <1>1, <1>2, <2>1, CountsStep
<1>7. owns' = [owns EXCEPT ![c] = o] /\ call' = [call EXCEPT ![c] = NoCall]
  <2>1. 1 = owns[c][q] + 1 /\ Taken(c, q)
    BY <1>2 DEF MutexTakeCount
  <2> QED BY <2>1, TakenOwns
<1>8. Continue(c, "run") /\ k' = [k EXCEPT !.recursive_count[q] = 1]
  BY DEF MutexTakeCount
<1> HIDE DEF o, q
<1>9. /\ k' \in Kernel /\ SameCore(k, k') /\ SameRest(k, k')
      /\ k'.messages_waiting = k.messages_waiting /\ k'.mutex_holder = k.mutex_holder
      /\ k'.held_queue = k.held_queue /\ k'.wakeup_reason = k.wakeup_reason
      /\ k'.recursive_count[q] = 1
      /\ \A p \in Queues \ {q} : k'.recursive_count[p] = k.recursive_count[p]
  BY <1>1, <1>2, <1>8, CountFields
<1>10. Moves(c, "run", "run", arg[c], NoCall, o)
  BY <1>1, <1>7, <1>8, ContinueMoves
<1>11. Places("run", "run", arg[c], NoCall, o)
  BY <1>1, <1>6 DEF Places
<1>12. pc'[c] = "run" /\ ret'[c] = "run" /\ owns'[c] = o
  BY <1>1, <1>10, MovesPlaces
<1>13. ~InCall(c)' /\ c \in handles' /\ c \notin Waiting(k')
  <2>1. Waiting(k') = Waiting(k)
    BY <1>9, SameCoreWaits
  <2> QED BY <1>1, <1>3, <1>8, <1>12, <2>1 DEF InCall, Inner, Continue
<1>14. TaskOK(c)'
  <2>1. ASSUME NEW p \in Queues
        PROVE  /\ k'.held_queue[c] = p <=> k'.mutex_holder[p] = c
               /\ k'.mutex_holder[p] = c => owns'[c][p] > 0
               /\ owns'[c][p] > 0 => k'.mutex_holder[p] = c
                    /\ (IsRecursive(p) => k'.recursive_count[p] = owns'[c][p])
    <3>1. CASE p = q
      BY <1>2, <1>4, <1>6, <1>9, <1>12, <3>1
    <3>2. CASE p # q
      BY <1>2, <1>4, <1>5, <1>6, <1>9, <1>12, <3>2
    <3> QED BY <3>1, <3>2
  <2> QED BY <1>1, <1>13, <2>1, RunOK
<1>15. \A p \in Queues : ObjectOK(p)'
  BY <1>1, <1>9 DEF ObjectOK
<1>16. \A p \in Queues : \A u \in Threads \ {c} :
         k.mutex_holder[p] = u => k'.recursive_count[p] = k.recursive_count[p]
  BY <1>2, <1>9
<1> QED BY <1>1, <1>9, <1>10, <1>11, <1>14, <1>15, <1>16, MinorInv

\* The end of a wait: the caller was woken, and waits for nothing.
LEMMA WaitFacts ==
  ASSUME MutexInv, NEW c \in Tasks, At(c, "wait")
  PROVE  /\ c \in handles /\ c \in Threads /\ owns[c] \in Counts /\ arg[c] \in Locals
         /\ "wait" \in Running \ {"create"} /\ pc[c] = "wait" /\ ret[c] = "wait"
         /\ c \notin Waiting(k) /\ c \notin Delayed(k)
         /\ call[c] \in Takes /\ call[c].q \in Queues
         /\ \A p \in Queues : owns[c][p] = 0
         /\ \A p \in Queues : k.held_queue[c] = p <=> k.mutex_holder[p] = c
         /\ \A p \in Queues : k.mutex_holder[p] = c => call[c].q = p /\ k.wakeup_reason[c] = 1
         /\ Undisturbed => k.wakeup_reason[c] = 2 \/ k.mutex_holder[call[c].q] = c
<1>1. /\ c \in handles /\ c \in Threads /\ owns[c] \in Counts /\ arg[c] \in Locals
      /\ "wait" \in Running \ {"create"} /\ pc[c] = "wait" /\ TaskOK(c)
      /\ c \notin Waiting(k) /\ c \notin Delayed(k)
  BY CallerFacts DEF Running
<1>2. ret[c] = "wait"
  BY <1>1, MutexFacts DEF WaitShape
<1>3. call[c] \in Takes /\ call[c].q \in Queues /\ \A p \in Queues : owns[c][p] = 0
  BY <1>1, <1>2 DEF TaskOK, CallOK, InCall, Takes
<1>4. \A p \in Queues : k.held_queue[c] = p <=> k.mutex_holder[p] = c
  BY <1>1 DEF TaskOK, HoldOK
<1>5. ASSUME NEW p \in Queues, k.mutex_holder[p] = c
      PROVE  call[c].q = p /\ k.wakeup_reason[c] = 1
  <2>1. Has(c, p)
    BY <1>1, <1>5 DEF TaskOK, HoldOK
  <2> QED BY <1>1, <1>3, <2>1 DEF Has
<1>6. Undisturbed => k.wakeup_reason[c] = 2 \/ k.mutex_holder[call[c].q] = c
  BY <1>1, <1>2 DEF TaskOK, WaitOK
<1> QED BY <1>1, <1>2, <1>3, <1>4, <1>5, <1>6

LEMMA TimesOut ==
  ASSUME MutexInv, NEW c \in Tasks, MutexTimeout(c)
  PROVE  MutexInv'
<1>1. /\ At(c, "wait") /\ k.wakeup_reason[c] = 2 /\ k' = [k EXCEPT !.wakeup_reason[c] = 0]
      /\ call' = [call EXCEPT ![c] = NoCall] /\ Continue(c, "run") /\ owns' = owns
  BY DEF MutexTimeout
<1>2. /\ c \in handles /\ c \in Threads /\ owns[c] \in Counts /\ arg[c] \in Locals
      /\ "wait" \in Running \ {"create"} /\ c \notin Waiting(k)
      /\ \A p \in Queues : owns[c][p] = 0 /\ k.mutex_holder[p] # c
      /\ \A p \in Queues : k.held_queue[c] = p <=> k.mutex_holder[p] = c
  BY <1>1, WaitFacts
<1>3. k \in Kernel /\ \A p \in Queues : ObjectOK(p)
  BY MutexFacts
<1>4. /\ k' \in Kernel /\ SameCore(k, k') /\ SameRest(k, k') /\ SameHolders(k, k')
      /\ \A u \in Threads \ {c} : k'.wakeup_reason[u] = k.wakeup_reason[u]
  BY <1>1, <1>2, <1>3, ReasonFields
<1>5. Moves(c, "run", "run", arg[c], NoCall, owns[c])
  BY <1>1, <1>2, KeepsOwns, ContinueMoves
<1>6. Places("run", "run", arg[c], NoCall, owns[c])
  BY <1>2 DEF Places
<1>7. pc'[c] = "run" /\ ret'[c] = "run" /\ owns'[c] = owns[c]
  BY <1>2, <1>5, MovesPlaces
<1>8. ~InCall(c)' /\ c \in handles' /\ c \notin Waiting(k')
  <2>1. Waiting(k') = Waiting(k)
    BY <1>4, SameCoreWaits
  <2> QED BY <1>1, <1>2, <1>7, <2>1 DEF InCall, Inner, Continue
<1>9. TaskOK(c)'
  BY <1>2, <1>4, <1>7, <1>8, RunOK DEF SameHolders
<1>10. \A p \in Queues : ObjectOK(p)'
  BY <1>3, <1>4 DEF ObjectOK, SameHolders
<1> QED BY <1>1, <1>2, <1>4, <1>5, <1>6, <1>9, <1>10, MinorInv DEF SameHolders

LEMMA Woken ==
  ASSUME MutexInv, NEW c \in Tasks, MutexWoken(c)
  PROVE  MutexInv'
<1> DEFINE q == call[c].q
           o == [owns[c] EXCEPT ![q] = 1]
<1>1. /\ At(c, "wait") /\ k.mutex_holder[q] = c /\ k' = [k EXCEPT !.wakeup_reason[c] = 0]
      /\ IF IsRecursive(q)
         THEN Continue(c, "count") /\ UNCHANGED <<call, owns>>
         ELSE Taken(c, q) /\ Continue(c, "run")
  BY DEF MutexWoken, Holds
<1>2. /\ c \in handles /\ c \in Threads /\ owns[c] \in Counts /\ arg[c] \in Locals
      /\ "wait" \in Running \ {"create"} /\ c \notin Waiting(k)
      /\ call[c] \in Takes /\ q \in Queues
      /\ \A p \in Queues : owns[c][p] = 0
      /\ \A p \in Queues \ {q} : k.mutex_holder[p] # c
      /\ \A p \in Queues : k.held_queue[c] = p <=> k.mutex_holder[p] = c
  BY <1>1, WaitFacts
<1>3. k \in Kernel /\ \A p \in Queues : ObjectOK(p)
  BY MutexFacts
<1>4. /\ k' \in Kernel /\ SameCore(k, k') /\ SameRest(k, k') /\ SameHolders(k, k')
      /\ \A u \in Threads \ {c} : k'.wakeup_reason[u] = k.wakeup_reason[u]
  BY <1>1, <1>2, <1>3, ReasonFields
<1>5. c \notin Waiting(k')
  BY <1>2, <1>4, SameCoreWaits
<1>6. o \in Counts /\ (~IsRecursive(q) => o[q] = 1)
      /\ \A p \in Queues \ {q} : ~IsRecursive(q) => o[p] = owns[c][p]
  <2>1. 1 \in 0 .. MaxDepth
    BY MutexAssumption
  <2> QED BY <1>2, <2>1, CountsStep
<1>7. \A p \in Queues : ObjectOK(p)'
  BY <1>3, <1>4 DEF ObjectOK, SameHolders
<1>8. CASE IsRecursive(q)
  <2>1. Continue(c, "count") /\ call' = call /\ owns' = owns
    BY <1>1, <1>8
  <2>2. Moves(c, "count", "run", arg[c], call[c], owns[c])
    BY <1>1, <1>2, <2>1, KeepsOwns, ContinueMoves
  <2>3. Places("count", "run", arg[c], call[c], owns[c])
    BY <1>2 DEF Places
  <2>4. /\ pc'[c] = "count" /\ ret'[c] = "run" /\ call'[c] = call[c] /\ owns'[c] = owns[c]
        /\ handles' = handles
    <3>1. pc'[c] = "count" /\ ret'[c] = "run" /\ call'[c] = call[c] /\ owns'[c] = owns[c]
      BY <1>2, <2>2, MovesPlaces
    <3> QED BY <2>1, <3>1 DEF Continue
  <2>5. CallOK(c)'
    BY <1>1, <1>2, <1>4, <1>8, <2>4 DEF CallOK, InCall, Inner, SameHolders
  <2>6. HoldOK(c)'
    BY <1>1, <1>2, <1>4, <2>4 DEF HoldOK, Has, SameHolders
  <2>7. WaitOK(c)'
    BY <1>5, <2>4 DEF WaitOK
  <2>8. TaskOK(c)'
    BY <2>5, <2>6, <2>7 DEF TaskOK
  <2> QED BY <1>1, <1>2, <1>4, <1>7, <2>2, <2>3, <2>8, MinorInv DEF SameHolders
<1>9. CASE ~IsRecursive(q)
  <2>1. Continue(c, "run") /\ owns' = [owns EXCEPT ![c] = o] /\ call' = [call EXCEPT ![c] = NoCall]
    <3>1. Taken(c, q) /\ Continue(c, "run") /\ 1 = owns[c][q] + 1
      BY <1>1, <1>2, <1>9
    <3> QED BY <3>1, TakenOwns
  <2> HIDE DEF o
  <2>2. Moves(c, "run", "run", arg[c], NoCall, o)
    BY <1>1, <1>2, <2>1, ContinueMoves
  <2>3. Places("run", "run", arg[c], NoCall, o)
    BY <1>2, <1>6 DEF Places
  <2>4. pc'[c] = "run" /\ ret'[c] = "run" /\ owns'[c] = o /\ handles' = handles
    <3>1. pc'[c] = "run" /\ ret'[c] = "run" /\ owns'[c] = o
      BY <1>2, <2>2, MovesPlaces
    <3> QED BY <2>1, <3>1 DEF Continue
  <2>5. ~InCall(c)'
    BY <2>4 DEF InCall, Inner
  <2>6. TaskOK(c)'
    <3>1. ASSUME NEW p \in Queues
          PROVE  /\ k'.held_queue[c] = p <=> k'.mutex_holder[p] = c
                 /\ k'.mutex_holder[p] = c => owns'[c][p] > 0
                 /\ owns'[c][p] > 0 => k'.mutex_holder[p] = c
                      /\ (IsRecursive(p) => k'.recursive_count[p] = owns'[c][p])
      <4>1. CASE p = q
        BY <1>1, <1>2, <1>4, <1>6, <1>9, <2>4, <4>1 DEF SameHolders
      <4>2. CASE p # q
        BY <1>2, <1>4, <1>6, <1>9, <2>4, <4>2 DEF SameHolders
      <4> QED BY <4>1, <4>2
    <3> QED BY <1>2, <1>5, <2>4, <2>5, <3>1, RunOK
  <2> QED BY <1>1, <1>2, <1>4, <1>7, <2>2, <2>3, <2>6, MinorInv DEF SameHolders
<1> QED BY <1>8, <1>9

\* A give compares the priorities on its way out.
LEMMA Given ==
  ASSUME MutexInv, NEW c \in Tasks, MutexGiven(c)
  PROVE  MutexInv'
<1>1. /\ At(c, "woken") /\ UNCHANGED <<k, isr, ret, handles, call, owns>>
      /\ arg' = [arg EXCEPT ![c] = 0]
      /\ pc' = [pc EXCEPT ![c] = IF k.priority[arg[c]] > k.priority[c] THEN "sched" ELSE "run"]
  BY DEF MutexGiven
<1>2. PICK l \in {"sched", "run"} : pc' = [pc EXCEPT ![c] = l]
  BY <1>1
<1>3. /\ c \in handles /\ c \in Threads /\ owns[c] \in Counts /\ call[c] \in Takes \cup {NoCall}
      /\ "woken" \in Running \ {"create"} /\ pc[c] = "woken" /\ ret[c] # "wait" /\ TaskOK(c)
  BY <1>1, CallerFacts DEF Running
<1>4. ret[c] \in {"run", "dead", "wait"} /\ ret = [ret EXCEPT ![c] = ret[c]]
  BY <1>3, MutexFacts, TypeFacts DEF IInv, ThreadInv, LocalsInv
<1>5. Moves(c, l, ret[c], 0, call[c], owns[c])
  BY <1>1, <1>2, <1>4, KeepsOwns DEF Moves
<1>6. Places(l, ret[c], 0, call[c], owns[c])
  BY <1>2, <1>3, <1>4 DEF Places, Locals
<1>7. TaskOK(c)'
  <2>1. pc'[c] = l
    BY <1>3, <1>5, MovesPlaces
  <2>2. Stays(c)
    BY <1>1, <1>2, <1>3, <2>1 DEF Stays, Inner
  <2>3. KeepsWait(c) /\ KeepsMutexes(c)
    BY <1>1, <1>3 DEF KeepsWait, KeepsMutexes, TaskOK, WaitOK
  <2> QED BY <1>3, <2>2, <2>3, StaysOK
<1> QED BY <1>1, <1>3, <1>5, <1>6, <1>7, StillInv

\* A take that blocks: the holder inherits the priority, and the caller waits.
LEMMA TakeBlocks ==
  ASSUME MutexInv, NEW c \in Tasks, NEW b \in {"run", "take"}, At(c, b), NEW m \in Takes,
         \A p \in Queues : owns[c][p] = 0, k.messages_waiting[m.q] = 0,
         k.sched_lock = 0, m.timeout # 0,
         k' = BlockCurrent(Inherit(k, m.q), Waiters(m.q), m.timeout),
         call' = [call EXCEPT ![c] = m], CallSched(c, "wait"), handles' = handles, owns' = owns
  PROVE  MutexInv'
<1> DEFINE q == m.q
           e == Waiters(q)
           n == m.timeout
<1>1. /\ c \in handles /\ c \in Threads /\ owns[c] \in Counts /\ arg[c] \in Locals
      /\ b \in Running \ {"create"} /\ k.current = c /\ q \in Queues /\ TaskOK(c)
      /\ KernelInv(k, handles) /\ KernelCore(k, handles) /\ k \in Kernel
      /\ \A p \in Queues : ObjectOK(p)
  BY CallerFacts, MutexFacts DEF Running, Takes
<1>2. b \in {"run", "take"}
  OBVIOUS
<1>3. /\ k.state[c] \in OnReadyList /\ c \notin Waiting(k) /\ c \notin Delayed(k)
  BY <1>1, <1>2, CallerFacts
<1>4. \A p \in Queues : k.mutex_holder[p] # c /\ k.held_queue[c] # p
  BY <1>2, OwnsFacts
<1>5. e \in EventLists /\ n \in Nat \cup {Forever}
  BY <1>1, MutexAssumption DEF EventLists, Waiters, Takes
<1>6. k.mutex_holder[q] # NoTask /\ k.mutex_holder[q] \in handles \cup {NoTask}
  <2>1. k.mutex_holder[q] \in Threads \cup {NoTask} /\ k.mutex_holder[q] # NoTask
    BY <1>1 DEF ObjectOK, Kernel
  <2> QED BY <1>1, <2>1, MutexFacts DEF TaskOK, HoldOK
<1>7. PICK s : /\ s = Inherit(k, q) /\ KernelInv(s, handles) /\ SameBase(k, s)
               /\ SameHolders(k, s) /\ SameWaits(k, s)
               /\ k.sched_lock > 0 => s.pend_sv = k.pend_sv
  BY <1>1, <1>6, InheritReprices
<1>8. k' = BlockCurrent(s, e, n)
  BY <1>7
<1> HIDE DEF e, n
<1>9. s.current = c /\ s.state[c] # "BLOCKED" /\ KernelCore(s, handles)
  <2>1. KernelCore(s, handles) /\ s.current = c
    BY <1>1, <1>7 DEF KernelInv, SameBase
  <2>2. c \notin Delayed(s) \cup Waiting(s)
    BY <1>3, <1>7 DEF SameWaits, SameEvents, Waiting
  <2> QED BY <1>1, <2>1, <2>2 DEF KernelCore
<1>10. /\ KernelInv(k', handles) /\ Blocks(s, k', c, e, n)
       /\ k'.wakeup_reason = s.wakeup_reason /\ k'.event_list = With(s.event_list, c, e)
  BY <1>1, <1>5, <1>7, <1>8, <1>9, BlockCurrentInv
<1>11. /\ SameRest(s, k') /\ SameObjects(s, k') /\ Delayed(k') \subseteq Delayed(s) \cup {c}
       /\ Waiting(k') = Waiting(s) \cup {c}
  BY <1>10 DEF Blocks, Effect
<1>12. SameBase(k, k') /\ SameHolders(k, k')
  BY <1>7, <1>11 DEF SameBase, SameHolders, SameRest, SameObjects
<1>13. /\ k'.event_list = With(k.event_list, c, e) /\ k'.wakeup_reason = k.wakeup_reason
       /\ Delayed(k') \subseteq Delayed(k) \cup {c}
  BY <1>7, <1>10, <1>11 DEF SameWaits, SameEvents
<1>14. DOMAIN k.event_list = Threads
  BY <1>1 DEF Kernel
<1>15. Moves(c, "sched", "wait", arg[c], m, owns[c])
  <2>1. arg' = [arg EXCEPT ![c] = arg[c]] /\ owns' = [owns EXCEPT ![c] = owns[c]]
    BY KeepsOwns, MutexFacts, TypeFacts DEF CallSched
  <2> QED BY <2>1 DEF CallSched, Moves
<1>16. Places("sched", "wait", arg[c], m, owns[c])
  BY <1>1 DEF Places
<1>17. pc'[c] = "sched" /\ ret'[c] = "wait" /\ call'[c] = m /\ owns'[c] = owns[c]
  BY <1>1, <1>15, MovesPlaces
<1>18. TaskOK(c)'
  <2>1. k'.event_list[c] = e /\ c \in Waiting(k')
    BY <1>1, <1>11, <1>13, <1>14 DEF With
  <2>2. CallOK(c)'
    BY <1>1, <1>17 DEF CallOK, InCall, Inner
  <2>3. HoldOK(c)'
    BY <1>4, <1>12, <1>17 DEF HoldOK, SameHolders
  <2>4. WaitOK(c)'
    BY <1>6, <1>12, <1>17, <2>1 DEF WaitOK, SameHolders, e, q
  <2> QED BY <2>2, <2>3, <2>4 DEF TaskOK
<1>19. ASSUME NEW u \in Threads \ {c} PROVE TaskOK(u)'
  <2>1. Aside(u, c)
    BY <1>12, <1>13, <1>14 DEF Aside, SameHolders, With
  <2>2. Stays(u)
    BY <1>1, <1>15, MovesPlaces
  <2> QED BY <1>1, <2>1, <2>2, AsideOK
<1>20. \A u \in Threads : TaskOK(u)'
  BY <1>18, <1>19
<1>21. \A p \in Queues : ObjectOK(p)'
  BY <1>1, <1>12 DEF ObjectOK, SameHolders
<1>22. Awake(c, "sched")
  BY DEF Awake
<1> QED BY <1>1, <1>10, <1>12, <1>15, <1>16, <1>20, <1>21, <1>22, MovesInv

\* rtos_mutex_take up to its wait.
LEMMA TryTakeInv ==
  ASSUME MutexInv, NEW c \in Tasks, NEW b \in {"run", "take"}, At(c, b), NEW m \in Takes,
         \A p \in Queues : owns[c][p] = 0, m.timeout # 0 => k.sched_lock = 0, TryTake(c, m)
  PROVE  MutexInv'
<1>1. k.messages_waiting[m.q] \in Nat
  BY MutexFacts DEF Kernel, Takes
<1>2. b \in {"run", "take"}
  OBVIOUS
<1>3. CASE k.messages_waiting[m.q] > 0
  <2>1. k' = Acquire(k, m.q)
    BY <1>3 DEF TryTake
  <2>2. \/ /\ IsRecursive(m.q) /\ call' = [call EXCEPT ![c] = m] /\ Continue(c, "count")
           /\ owns' = owns
        \/ ~IsRecursive(m.q) /\ Taken(c, m.q) /\ Continue(c, "run")
    BY <1>3 DEF TryTake
  <2> QED BY <1>2, <1>3, <2>1, <2>2, TakesFree
<1>4. CASE k.messages_waiting[m.q] = 0
  <2>1. CASE /\ m.timeout = 0 /\ call' = [call EXCEPT ![c] = NoCall] /\ Continue(c, "run")
             /\ UNCHANGED <<k, owns>>
    BY <1>2, <2>1, TakeFails
  <2>2. CASE /\ m.timeout # 0 /\ k' = BlockCurrent(Inherit(k, m.q), Waiters(m.q), m.timeout)
             /\ call' = [call EXCEPT ![c] = m] /\ CallSched(c, "wait")
             /\ UNCHANGED <<handles, owns>>
    BY <1>2, <1>4, <2>2, TakeBlocks
  <2> QED BY <1>4, <2>1, <2>2 DEF TryTake
<1> QED BY <1>1, <1>3, <1>4

\* The application has no mutex when it takes one that it does not hold.
LEMMA TakerHasNone ==
  ASSUME MutexInv, OneAtATime, NEW c \in Tasks, At(c, "run"), NEW m \in TakeCalls(c),
         ~IsRecursive(m.q) \/ ~Holds(c, m.q)
  PROVE  m \in Takes /\ \A p \in Queues : owns[c][p] = 0
<1>1. m \in Takes /\ m.q \in Queues
  BY DEF TakeCalls, Takes
<1>2. \A p \in Queues \ {m.q} : owns[c][p] = 0
  BY DEF TakeCalls, OneAtATime
<1>3. owns[c][m.q] \in Nat /\ (k.mutex_holder[m.q] = c <=> owns[c][m.q] > 0)
  <2>1. "run" \in {"run", "take"}
    OBVIOUS
  <2> QED BY <1>1, <2>1, OwnsFacts
<1>4. owns[c][m.q] = 0
  <2>1. CASE IsRecursive(m.q)
    BY <1>3, <2>1 DEF Holds
  <2>2. CASE ~IsRecursive(m.q)
    BY <1>3, <2>2 DEF TakeCalls
  <2> QED BY <2>1, <2>2
<1> QED BY <1>1, <1>2, <1>4

LEMMA Take ==
  ASSUME MutexInv, OneAtATime, NEW c \in Tasks, MutexTake(c)
  PROVE  MutexInv'
<1>1. At(c, "run") /\ "run" \in {"run", "take"}
  BY DEF MutexTake
<1>2. PICK m \in TakeCalls(c) : ~IsRecursive(m.q) /\ TryTake(c, m)
  BY DEF MutexTake
<1>3. m \in Takes /\ \A p \in Queues : owns[c][p] = 0
  BY <1>1, <1>2, TakerHasNone
<1>4. m.timeout # 0 => k.sched_lock = 0
  BY <1>2 DEF TakeCalls
<1> QED BY <1>1, <1>2, <1>3, <1>4, TryTakeInv

LEMMA TakeInner ==
  ASSUME MutexInv, NEW c \in Tasks, MutexTakeInner(c)
  PROVE  MutexInv'
<1>1. At(c, "take") /\ "take" \in {"run", "take"} /\ TryTake(c, call[c])
  BY DEF MutexTakeInner
<1>2. /\ TaskOK(c) /\ pc[c] = "take" /\ k.current = c
  BY <1>1, CallerFacts DEF Running
<1>3. call[c] \in Takes /\ \A p \in Queues : owns[c][p] = 0
  BY <1>2 DEF TaskOK, CallOK, InCall, Inner
<1>4. call[c].timeout # 0 => k.sched_lock = 0
  BY <1>2, MutexFacts, TypeFacts DEF LockTakes
<1> QED BY <1>1, <1>3, <1>4, TryTakeInv

LEMMA TakeRecursive ==
  ASSUME MutexInv, OneAtATime, NEW c \in Tasks, MutexTakeRecursive(c)
  PROVE  MutexInv'
<1>1. At(c, "run")
  BY DEF MutexTakeRecursive
<1>2. PICK m \in TakeCalls(c) :
        /\ IsRecursive(m.q)
        /\ IF Holds(c, m.q)
           THEN /\ k' = [k EXCEPT !.recursive_count[m.q] = @ + 1]
                /\ Taken(c, m.q)
                /\ Continue(c, "run")
           ELSE /\ call' = [call EXCEPT ![c] = m]
                /\ Continue(c, "take")
                /\ UNCHANGED <<k, owns>>
  BY DEF MutexTakeRecursive
<1>3. CASE Holds(c, m.q)
  <2>1. m.q \in Queues /\ owns[c][m.q] < MaxDepth
    BY <1>2 DEF TakeCalls
  <2> QED BY <1>1, <1>2, <1>3, <2>1, Nests
<1>4. CASE ~Holds(c, m.q)
  <2>1. m \in Takes /\ \A p \in Queues : owns[c][p] = 0
    BY <1>1, <1>4, TakerHasNone
  <2>2. /\ c \in handles /\ c \in Threads /\ owns[c] \in Counts /\ arg[c] \in Locals
        /\ "run" \in Running \ {"create"} /\ TaskOK(c) /\ ret[c] # "wait"
    BY <1>1, CallerFacts DEF Running
  <2>3. Moves(c, "take", "run", arg[c], m, owns[c])
    BY <1>1, <1>2, <1>4, <2>2, KeepsOwns, ContinueMoves
  <2>4. Places("take", "run", arg[c], m, owns[c])
    BY <2>1, <2>2, MutexFacts, TypeFacts DEF Places, TakeCalls
  <2>5. /\ pc'[c] = "take" /\ ret'[c] = "run" /\ call'[c] = m /\ owns'[c] = owns[c]
    BY <2>2, <2>3, MovesPlaces
  <2>6. k' = k /\ handles' = handles
    BY <1>2, <1>4 DEF Continue
  <2>7. \A p \in Queues : k.mutex_holder[p] # c /\ k.held_queue[c] # p
    <3>1. "run" \in {"run", "take"}
      OBVIOUS
    <3> QED BY <1>1, <2>1, <3>1, OwnsFacts
  <2>8. c \notin Waiting(k)
    BY <2>2 DEF TaskOK, WaitOK
  <2>9. TaskOK(c)'
    BY <1>2, <2>1, <2>2, <2>5, <2>6, <2>7, <2>8 DEF TaskOK, CallOK, HoldOK, WaitOK, InCall, Inner
  <2> QED BY <1>1, <2>2, <2>3, <2>4, <2>6, <2>9, StillInv
<1> QED BY <1>3, <1>4

-----------------------------------------------------------------------------
\* The gives

\* The application gives a recursive mutex back once.
LEMMA GiveRecursive ==
  ASSUME MutexInv, NEW c \in Tasks, MutexGiveRecursive(c)
  PROVE  MutexInv'
<1>1. At(c, "run") /\ "run" \in {"run", "take"}
  BY DEF MutexGiveRecursive
<1>2. PICK q \in Queues :
        /\ IsRecursive(q) /\ k.mutex_holder[q] = c
        /\ k' = [k EXCEPT !.recursive_count[q] = @ - 1]
        /\ owns' = [owns EXCEPT ![c][q] = @ - 1]
        /\ IF k.recursive_count[q] > 1
           THEN Continue(c, "run") /\ UNCHANGED call
           ELSE call' = [call EXCEPT ![c] = [q |-> q, timeout |-> 0]] /\ Continue(c, "give")
  BY DEF MutexGiveRecursive, Holds
<1> DEFINE n == owns[c][q] - 1
           o == [owns[c] EXCEPT ![q] = n]
           a == [q |-> q, timeout |-> 0]
<1>3. /\ c \in handles /\ c \in Threads /\ owns[c] \in Counts /\ arg[c] \in Locals
      /\ "run" \in Running \ {"create"} /\ k \in Kernel /\ \A p \in Queues : ObjectOK(p)
      /\ call[c] \in Takes \cup {NoCall}
  BY <1>1, CallerFacts, MutexFacts DEF Running
<1>4. \A p \in Queues :
        /\ c \notin Waiting(k) /\ owns[c][p] \in Nat
        /\ k.held_queue[c] = p <=> k.mutex_holder[p] = c
        /\ k.mutex_holder[p] = c <=> owns[c][p] > 0
        /\ owns[c][p] > 0 /\ IsRecursive(p) => k.recursive_count[p] = owns[c][p]
  BY <1>1, OwnsFacts
<1>5. \A p \in Queues \ {q} : k.mutex_holder[p] # c /\ owns[c][p] = 0
  BY <1>2, <1>4
<1>6. /\ owns[c][q] > 0 /\ k.recursive_count[q] - 1 = n /\ n \in 0 .. MaxDepth /\ n \in Int
      /\ k.recursive_count[q] > 1 <=> n > 0
  <2>1. owns[c][q] \in 1 .. MaxDepth /\ k.recursive_count[q] = owns[c][q]
    BY <1>2, <1>3, <1>4 DEF Counts
  <2> QED BY <2>1, MutexAssumption
<1>7. o \in Counts /\ o[q] = n /\ \A p \in Queues \ {q} : o[p] = owns[c][p]
  BY <1>2, <1>3, <1>6, CountsStep
<1>8. owns' = [owns EXCEPT ![c] = o]
  BY <1>2
<1>9. k' = [k EXCEPT !.recursive_count[q] = n]
  BY <1>2, <1>6
<1>10. a \in Takes /\ a.q = q
  BY DEF Takes
<1> HIDE DEF o, n, a
<1>11. /\ k' \in Kernel /\ SameCore(k, k') /\ SameRest(k, k')
       /\ k'.messages_waiting = k.messages_waiting /\ k'.mutex_holder = k.mutex_holder
       /\ k'.held_queue = k.held_queue /\ k'.wakeup_reason = k.wakeup_reason
       /\ k'.recursive_count[q] = n
       /\ \A p \in Queues \ {q} : k'.recursive_count[p] = k.recursive_count[p]
  <2>1. k \in Kernel /\ n \in Int
    BY <1>3, <1>6
  <2> QED BY <1>9, <2>1, CountFields
<1>12. c \notin Waiting(k')
  BY <1>2, <1>4, <1>11, SameCoreWaits
<1>13. \A p \in Queues : ObjectOK(p)'
  BY <1>3, <1>11 DEF ObjectOK
<1>14. \A p \in Queues : \A u \in Threads \ {c} :
         k.mutex_holder[p] = u => k'.recursive_count[p] = k.recursive_count[p]
  BY <1>2, <1>11
<1>15. CASE k.recursive_count[q] > 1
  <2>1. Continue(c, "run") /\ call' = [call EXCEPT ![c] = call[c]]
    BY <1>2, <1>15, KeepsOwns
  <2>2. Moves(c, "run", "run", arg[c], call[c], o)
    BY <1>1, <1>3, <1>8, <2>1, ContinueMoves
  <2>3. Places("run", "run", arg[c], call[c], o)
    BY <1>3, <1>7 DEF Places
  <2>4. pc'[c] = "run" /\ ret'[c] = "run" /\ owns'[c] = o
    BY <1>3, <2>2, MovesPlaces
  <2>5. ~InCall(c)' /\ c \in handles'
    BY <1>3, <2>1, <2>4 DEF InCall, Inner, Continue
  <2>6. TaskOK(c)'
    <3>1. n > 0
      BY <1>6, <1>15
    <3>2. ASSUME NEW p \in Queues
          PROVE  /\ k'.held_queue[c] = p <=> k'.mutex_holder[p] = c
                 /\ k'.mutex_holder[p] = c => owns'[c][p] > 0
                 /\ owns'[c][p] > 0 => k'.mutex_holder[p] = c
                      /\ (IsRecursive(p) => k'.recursive_count[p] = owns'[c][p])
      <4>1. CASE p = q
        <5>1. k'.held_queue[c] = q /\ k'.mutex_holder[q] = c /\ owns'[c][q] = n
          BY <1>2, <1>4, <1>7, <1>11, <2>4
        <5>2. k'.recursive_count[q] = n
          BY <1>11
        <5> QED BY <3>1, <4>1, <5>1, <5>2
      <4>2. CASE p # q
        BY <1>4, <1>5, <1>7, <1>11, <2>4, <4>2
      <4> QED BY <4>1, <4>2
    <3> QED BY <1>3, <1>12, <2>5, <3>2, RunOK
  <2> QED BY <1>1, <1>3, <1>11, <1>13, <1>14, <2>2, <2>3, <2>6, MinorInv
<1>16. CASE ~(k.recursive_count[q] > 1)
  <2>1. Continue(c, "give") /\ call' = [call EXCEPT ![c] = a]
    BY <1>2, <1>16 DEF a
  <2>2. Moves(c, "give", "run", arg[c], a, o)
    BY <1>1, <1>3, <1>8, <2>1, ContinueMoves
  <2>3. Places("give", "run", arg[c], a, o)
    BY <1>3, <1>7, <1>10 DEF Places
  <2>4. pc'[c] = "give" /\ ret'[c] = "run" /\ call'[c] = a /\ owns'[c] = o
    BY <1>3, <2>2, MovesPlaces
  <2>5. \A p \in Queues : o[p] = 0
    <3>1. n = 0
      BY <1>6, <1>16
    <3> QED BY <1>5, <1>7, <3>1
  <2>6. CallOK(c)'
    BY <1>2, <1>3, <1>10, <1>11, <2>1, <2>4, <2>5 DEF CallOK, InCall, Inner, Continue
  <2>7. HoldOK(c)'
    <3>1. handles' = handles
      BY <2>1 DEF Continue
    <3>2. ASSUME NEW p \in Queues
          PROVE  /\ k'.held_queue[c] = p <=> k'.mutex_holder[p] = c
                 /\ k'.mutex_holder[p] = c => Has(c, p)'
                 /\ ~(owns'[c][p] > 0)
      <4>1. p = q \/ k'.mutex_holder[p] # c
        BY <1>5, <1>11
      <4>2. p = q => Has(c, p)'
        BY <1>10, <2>4 DEF Has
      <4> QED BY <1>4, <1>11, <2>4, <2>5, <4>1, <4>2
    <3> QED BY <1>3, <3>1, <3>2 DEF HoldOK
  <2>8. WaitOK(c)'
    BY <1>12, <2>4 DEF WaitOK
  <2>9. TaskOK(c)'
    BY <2>6, <2>7, <2>8 DEF TaskOK
  <2> QED BY <1>1, <1>3, <1>11, <1>13, <1>14, <2>2, <2>3, <2>9, MinorInv
<1> QED BY <1>15, <1>16

\* The mutex is passed on, or is free.
LEMMA GiveNowInv ==
  ASSUME MutexInv, NEW c \in Tasks, NEW b \in {"run", "give"}, At(c, b), NEW q \in Queues,
         k.mutex_holder[q] = c, GiveNow(c, q),
         NEW a \in Takes \cup {NoCall}, call' = [call EXCEPT ![c] = a],
         NEW o \in Counts, owns' = [owns EXCEPT ![c] = o], \A p \in Queues : o[p] = 0
  PROVE  MutexInv'
<1> DEFINE heir == FirstWaiting(k, Waiters(q))
           l    == IF heir = NoTask THEN "run" ELSE "woken"
           v    == IF heir = NoTask THEN 0 ELSE heir
<1>1. /\ c \in handles /\ c \in Threads /\ b \in Running \ {"create"} /\ k.current = c
      /\ TaskOK(c) /\ KernelInv(k, handles) /\ handles \subseteq Tasks /\ WaitShape
  BY CallerFacts, MutexFacts, TypeFacts DEF Running
<1>2. c \notin Waiting(k)
  BY <1>1, HolderAwake
<1>3. Gives(k, k', q, handles) /\ heir \in handles \cup {NoTask}
  <2>1. k' = Give(k, q)
    BY DEF GiveNow
  <2> QED BY <1>1, <1>2, <2>1, GiveGives
<1>4. /\ l \in {"run", "woken"} /\ v \in Locals /\ (l = "woken" => v \in Tasks)
  BY <1>1, <1>3 DEF Locals, Threads
<1>5. Moves(c, l, "run", v, a, o)
  BY DEF GiveNow, Moves
<1> HIDE DEF heir, l, v
<1>6. Places(l, "run", v, a, o)
  BY <1>4 DEF Places
<1>7. pc'[c] = l /\ ret'[c] = "run" /\ owns'[c] = o /\ \A u \in Threads \ {c} : Stays(u)
  BY <1>1, <1>5, MovesPlaces
<1>8. ~InCall(c)' /\ \A p \in Queues : owns'[c][p] = 0
  BY <1>4, <1>7 DEF InCall, Inner
<1>9. Releases(k, k', c, q)
  BY <1>1, <1>3 DEF Gives
<1>10. /\ \A u \in Threads : TaskOK(u)'
       /\ \A p \in Queues : ObjectOK(p)'
  BY <1>1, <1>7, <1>8, <1>9, ReleaseKeeps
<1>11. /\ KernelInv(k', handles) /\ SameBase(k, k') /\ (k.sched_lock > 0 => k'.pend_sv = k.pend_sv)
       /\ Awake(c, l)
  BY <1>1, <1>3 DEF Gives, Awake
<1> QED BY <1>1, <1>5, <1>6, <1>10, <1>11, MovesInv

LEMMA GivePlain ==
  ASSUME MutexInv, NEW c \in Tasks, MutexGive(c)
  PROVE  MutexInv'
<1>1. At(c, "run") /\ "run" \in {"run", "take"} /\ call' = call
  BY DEF MutexGive
<1>2. PICK q \in Queues : /\ ~IsRecursive(q) /\ k.mutex_holder[q] = c /\ GiveNow(c, q)
                          /\ owns' = [owns EXCEPT ![c][q] = @ - 1]
  BY DEF MutexGive, Holds
<1> DEFINE o == [owns[c] EXCEPT ![q] = 0]
<1>3. /\ c \in Threads /\ owns[c] \in Counts /\ call[c] \in Takes \cup {NoCall}
  BY <1>1, CallerFacts DEF Running
<1>4. \A p \in Queues :
        /\ owns[c][p] \in Nat
        /\ k.held_queue[c] = p <=> k.mutex_holder[p] = c
        /\ k.mutex_holder[p] = c <=> owns[c][p] > 0
  BY <1>1, OwnsFacts
<1>5. owns[c][q] - 1 = 0 /\ \A p \in Queues \ {q} : owns[c][p] = 0
  <2>1. owns[c][q] <= 1 /\ owns[c][q] > 0 /\ owns[c][q] \in Nat
    BY <1>2, <1>3, <1>4 DEF Counts
  <2> QED BY <1>2, <1>4, <2>1
<1>6. o \in Counts /\ o[q] = 0 /\ \A p \in Queues \ {q} : o[p] = owns[c][p]
  <2>1. 0 \in 0 .. MaxDepth
    BY MutexAssumption
  <2> QED BY <1>3, <2>1, CountsStep
<1>7. owns' = [owns EXCEPT ![c] = o] /\ call' = [call EXCEPT ![c] = call[c]]
  <2>1. owns' = [owns EXCEPT ![c] = [owns[c] EXCEPT ![q] = owns[c][q] - 1]]
    BY <1>2
  <2> QED BY <1>1, <1>5, <2>1, KeepsOwns
<1> HIDE DEF o
<1>8. \A p \in Queues : o[p] = 0
  BY <1>5, <1>6
<1>9. "run" \in {"run", "give"} /\ k.mutex_holder[q] = c /\ GiveNow(c, q)
  BY <1>2
<1> QED BY <1>1, <1>3, <1>6, <1>7, <1>8, <1>9, GiveNowInv

LEMMA GiveInner ==
  ASSUME MutexInv, NEW c \in Tasks, MutexGiveInner(c)
  PROVE  MutexInv'
<1>1. At(c, "give") /\ GiveNow(c, call[c].q) /\ call' = [call EXCEPT ![c] = NoCall] /\ owns' = owns
  BY DEF MutexGiveInner
<1>2. c \in Threads /\ owns[c] \in Counts /\ TaskOK(c) /\ pc[c] = "give"
  BY <1>1, CallerFacts DEF Running
<1>3. call[c].q \in Queues /\ k.mutex_holder[call[c].q] = c /\ \A p \in Queues : owns[c][p] = 0
  BY <1>2 DEF TaskOK, CallOK, InCall, Inner, Takes
<1>4. owns' = [owns EXCEPT ![c] = owns[c]]
  BY <1>1, KeepsOwns
<1> QED BY <1>1, <1>2, <1>3, <1>4, GiveNowInv

-----------------------------------------------------------------------------
\* The theorems

LEMMA MutexStepInv ==
  ASSUME MutexInv, OneAtATime, NEW c \in Tasks, MutexStep(c)
  PROVE  MutexInv'
BY Take, TakeRecursive, TakeInner, CountsOne, TimesOut, Woken, GivePlain, GiveRecursive,
   GiveInner, Given DEF MutexStep

LEMMA MutexNextInv ==
  ASSUME MutexInv, YieldsReady, OneAtATime, [MutexNext]_mutexVars
  PROVE  MutexInv'
<1>1. CASE TaskStep
  BY <1>1, TaskStepInv
<1>2. ASSUME NEW c \in Tasks, MutexStep(c) PROVE MutexInv'
  BY <1>2, MutexStepInv
<1>3. CASE UNCHANGED mutexVars
  <2>1. [Next]_vars /\ handles' = handles /\ call' = call /\ owns' = owns /\ k' = k /\ pc' = pc
        /\ ret' = ret
    BY <1>3 DEF mutexVars, vars
  <2>2. IInv' /\ WaitShape' /\ LockWaits' /\ LockTakes' /\ Dozes' /\ CallTypes'
    <3>1. IInv'
      BY <2>1, MutexFacts, NextInv
    <3> QED BY <2>1, <3>1, MutexFacts DEF WaitShape, LockWaits, LockTakes, Dozes, CallTypes
  <2>3. \A q \in Queues : ObjectOK(q)'
    BY <2>1, MutexFacts DEF ObjectOK
  <2>4. ASSUME NEW u \in Threads PROVE TaskOK(u)'
    BY <2>1, MutexFacts DEF TaskOK, CallOK, HoldOK, WaitOK, InCall, Has
  <2> QED BY <2>2, <2>3, <2>4 DEF MutexInv
<1> QED BY <1>1, <1>2, <1>3 DEF MutexNext

LEMMA MutexInitInv ==
  ASSUME MutexInit
  PROVE  MutexInv
<1>1. Init /\ call = [t \in Threads |-> NoCall] /\ owns = [t \in Threads |-> [q \in Queues |-> 0]]
  BY DEF MutexInit
<1>2. IInv /\ k \in Kernel
  BY <1>1, InitInv, TypeFacts DEF Init
<1>3. \A t \in Threads : pc[t] = "run" /\ ret[t] = "run"
  BY <1>1 DEF Init, InitThreads
<1>4. \A t \in Threads : k.held_queue[t] = NoQueue /\ k.event_list[t] = NoList
  BY <1>1 DEF Init, InitKernel
<1>5. \A q \in Queues : k.mutex_holder[q] = NoTask /\ k.messages_waiting[q] = 1
  BY <1>1, MutexAssumption DEF Init, InitKernel
<1>6. k.sched_lock = 0 /\ k.current \in Threads /\ k.state[k.current] \in OnReadyList
  <2>1. First \in Threads
    BY FirstQueued, BootFacts DEF Threads
  <2>2. k.current = First /\ k.state[First] = "RUNNING" /\ k.sched_lock = 0
    BY <1>1, <2>1 DEF Init, InitKernel
  <2> QED BY <2>1, <2>2 DEF OnReadyList
<1>7. CallTypes
  <2>1. [q \in Queues |-> 0] \in Counts
    BY MutexAssumption DEF Counts
  <2> HIDE DEF Counts
  <2> QED BY <1>1, <2>1 DEF CallTypes
<1>8. WaitShape /\ LockWaits /\ LockTakes /\ Dozes
  BY <1>3, <1>6 DEF WaitShape, LockWaits, LockTakes, Dozes
<1>9. ASSUME NEW t \in Threads PROVE TaskOK(t)
  <2>1. NoQueue \notin Queues /\ t # NoTask
    BY QueueAssumption DEF NoTask, Threads
  <2>2. t \notin Waiting(k) /\ ~InCall(t) /\ \A q \in Queues : owns[t][q] = 0
    BY <1>1, <1>3, <1>4 DEF Waiting, InCall, Inner
  <2>3. CallOK(t) /\ WaitOK(t)
    BY <1>3, <2>2 DEF CallOK, WaitOK, InCall, Inner
  <2>4. HoldOK(t)
    BY <1>4, <1>5, <2>1, <2>2 DEF HoldOK
  <2> QED BY <2>3, <2>4 DEF TaskOK
<1>10. \A q \in Queues : ObjectOK(q)
  BY <1>5 DEF ObjectOK
<1> QED BY <1>2, <1>7, <1>8, <1>9, <1>10 DEF MutexInv

\* In every state that is reached each task has and waits for what its place in
\* mutex.c says (TaskOK), each mutex is available exactly when nobody holds it, the
\* scheduler's own invariant holds, and a task that blocks has asked for a switch.
THEOREM MutexInvariance == YieldsReady /\ OneAtATime /\ MutexSpec => []MutexInv
<1> SUFFICES ASSUME YieldsReady, OneAtATime PROVE MutexSpec => []MutexInv
  OBVIOUS
<1>1. MutexInit => MutexInv
  BY MutexInitInv
<1>2. MutexInv /\ [MutexNext]_mutexVars => MutexInv'
  BY MutexNextInv
<1> QED BY <1>1, <1>2, PTL DEF MutexSpec

\* A mutex is free or has a living holder, which finds it in held_queue when it is
\* deleted, and nobody waits for a free one, whatever gives, takes, timeouts,
\* suspensions and deletions of holders and heirs come between (mutex.c, and
\* rtos_queue_release_held of queue.c).
THEOREM HoldersCorrect == YieldsReady /\ OneAtATime /\ MutexSpec => []HolderConsistent
<1>1. MutexInv => HolderConsistent
  <2> SUFFICES ASSUME MutexInv PROVE HolderConsistent
    OBVIOUS
  <2>1. /\ CallTypes /\ k \in Kernel /\ KernelCore(k, handles) /\ handles \subseteq Threads
        /\ \A t \in Threads : TaskOK(t)
        /\ \A q \in Queues : ObjectOK(q) /\ IsMutex(q)
    BY MutexFacts
  <2>2. MutexTypeOK
    <3>1. pc \in [Threads -> MutexLabels] /\ ret \in [Threads -> MutexLabels]
      BY TypeFacts, MutexFacts DEF AllLabels, MutexLabels
    <3>2. /\ call \in [Threads -> [q: Queues, timeout: MutexTimeouts \cup {0}] \cup {NoCall}]
          /\ owns \in [Threads -> [Queues -> 0 .. MaxDepth]]
      BY <2>1 DEF CallTypes, Takes, Counts
    <3> QED BY <2>1, <3>1, <3>2 DEF MutexTypeOK
  <2>3. ASSUME NEW q \in Queues
        PROVE  LET h == k.mutex_holder[q] IN
                 /\ k.messages_waiting[q] = IF h = NoTask THEN 1 ELSE 0
                 /\ k.waiting[Waiters(q)] # <<>> => h # NoTask
                 /\ h # NoTask => h \in handles
                 /\ \A t \in handles : k.held_queue[t] = q <=> t = h
    <3>1. k.messages_waiting[q] = IF k.mutex_holder[q] = NoTask THEN 1 ELSE 0
      BY <2>1 DEF ObjectOK
    <3>2. ASSUME k.waiting[Waiters(q)] # <<>> PROVE k.mutex_holder[q] # NoTask
      <4> DEFINE e == Waiters(q)
                 h == Head(k.waiting[e])
      <4>1. e \in EventLists
        BY DEF EventLists, Waiters
      <4>2. h \in handles /\ k.event_list[h] = e
        BY <2>1, <3>2, <4>1, WakeHighestEffect
      <4>3. h \in Waiting(k) /\ h \in Threads
        BY <2>1, <4>1, <4>2, NoListIsNone DEF Waiting
      <4>4. Waiters(call[h].q) = Waiters(q) /\ k.mutex_holder[call[h].q] # NoTask
        BY <2>1, <4>2, <4>3 DEF TaskOK, WaitOK
      <4> QED BY <4>4 DEF Waiters
    <3>3. k.mutex_holder[q] \in Threads \cup {NoTask}
      BY <2>1 DEF Kernel
    <3>4. k.mutex_holder[q] # NoTask => k.mutex_holder[q] \in handles
      BY <2>1, <3>3 DEF TaskOK, HoldOK
    <3>5. \A t \in handles : k.held_queue[t] = q <=> t = k.mutex_holder[q]
      BY <2>1 DEF TaskOK, HoldOK
    <3> QED BY <3>1, <3>2, <3>4, <3>5
  <2> QED BY <2>2, <2>3 DEF HolderConsistent
<1> QED BY <1>1, MutexInvariance, PTL

\* Mutual exclusion: whoever was told that it has the mutex is its holder until it
\* gives it back, and recursive_count is the number of its takes, through hand-over,
\* timeouts, nesting and the deletion of a holder or of its heir (mutex.c).
THEOREM OwnersCorrect == YieldsReady /\ OneAtATime /\ MutexSpec => []OwnerIsHolder
<1>1. MutexInv => OwnerIsHolder
  BY MutexFacts DEF OwnerIsHolder, TaskOK, HoldOK
<1> QED BY <1>1, MutexInvariance, PTL

\* Unless rtos_task_abort_delay or a suspension ends a wait, a task that goes on from
\* its wait without a timeout is the holder, as rtos_mutex_take asserts (mutex.c:125).
THEOREM WokenCorrect ==
  YieldsReady /\ OneAtATime /\ Undisturbed /\ MutexSpec => []WokenIsHolder
<1> SUFFICES ASSUME YieldsReady, OneAtATime, Undisturbed PROVE MutexSpec => []WokenIsHolder
  OBVIOUS
<1>1. MutexInv => WokenIsHolder
  <2> SUFFICES ASSUME MutexInv, NEW c \in Tasks, At(c, "wait"), k.wakeup_reason[c] # 2
               PROVE  k.mutex_holder[call[c].q] = c
    BY DEF WokenIsHolder
  <2> QED BY WaitFacts
<1> QED BY <1>1, MutexInvariance, PTL

-----------------------------------------------------------------------------
\* Nobody joins

\* Nobody joins an event list, and the order of each is kept.
Sheds(s, r) ==
  /\ \A u \in Threads : r.event_list[u] # NoList => r.event_list[u] = s.event_list[u]
  /\ \A e \in EventLists : \A R : Ordered(s.waiting[e], R) => Ordered(r.waiting[e], R)

LEMMA ShedsTrans ==
  ASSUME NEW s, NEW m, NEW r, Sheds(s, m), Sheds(m, r)
  PROVE  Sheds(s, r)
BY DEF Sheds

LEMMA SameSheds ==
  ASSUME NEW s, NEW r, SameEvents(s, r)
  PROVE  Sheds(s, r)
BY DEF SameEvents, Sheds

LEMMA EasesSheds ==
  ASSUME NEW s, NEW r, NEW X, Eases(s, r, X)
  PROVE  Sheds(s, r)
BY DEF Eases, Sheds

LEMMA WakeSheds ==
  ASSUME NEW s, NEW H, KernelCore(s, H), NEW e \in EventLists
  PROVE  Sheds(s, WakeHighest(s, e)) /\ WakeHighest(s, e).priority = s.priority
<1> DEFINE w == WakeHighest(s, e)
           h == Head(s.waiting[e])
<1>1. s \in Kernel
  BY CoreFacts
<1>2. CASE s.waiting[e] = <<>>
  <2>1. w = s
    BY <1>2, WakeNobody
  <2> QED BY <2>1 DEF Sheds
<1>3. CASE s.waiting[e] # <<>>
  <2>1. /\ w.event_list = With(s.event_list, h, NoList) /\ w.priority = s.priority
        /\ w.waiting = With(s.waiting, e, Tail(s.waiting[e]))
    BY <1>3, WakeHighestEffect
  <2> HIDE DEF w
  <2>2. s.waiting \in [EventLists -> Seq(Threads)] /\ s.event_list \in [Threads -> EventLists \cup {NoList}]
    BY <1>1 DEF Kernel
  <2>3. ASSUME NEW f \in EventLists, NEW R, Ordered(s.waiting[f], R)
        PROVE  Ordered(w.waiting[f], R)
    <3>1. CASE f = e
      <4>1. Ordered(Tail(s.waiting[e]), R)
        BY <1>3, <2>2, <2>3, <3>1, TailOrdered
      <4> QED BY <2>1, <2>2, <3>1, <4>1 DEF With
    <3>2. CASE f # e
      BY <2>1, <2>2, <2>3, <3>2 DEF With
    <3> QED BY <3>1, <3>2
  <2>4. ASSUME NEW u \in Threads, w.event_list[u] # NoList
        PROVE  w.event_list[u] = s.event_list[u]
    BY <2>1, <2>2, <2>4 DEF With
  <2> QED BY <2>1, <2>3, <2>4 DEF Sheds, w
<1> QED BY <1>2, <1>3

\* rtos_queue_release_held: the priority to go back to is forgotten.
LEMMA ReleaseHeldSheds ==
  ASSUME NEW s, NEW H, KernelCore(s, H), NEW t \in Threads, \A q \in Queues : IsMutex(q)
  PROVE  LET r == ReleaseHeld(s, t)
             q == s.held_queue[t]
         IN  /\ Sheds(s, r) /\ r.priority = s.priority
             /\ r.original_priority = IF q = NoQueue THEN s.original_priority
                                      ELSE With(s.original_priority, q, NotBoosted)
<1> DEFINE q     == s.held_queue[t]
           e     == Waiters(q)
           heir  == FirstWaiting(s, e)
           hq    == [s.held_queue EXCEPT ![t] = NoQueue]
           rc    == [s.recursive_count EXCEPT ![q] = IF QueueType[q] = "RECURSIVE" THEN 0 ELSE @]
           op    == [s.original_priority EXCEPT ![q] = NotBoosted]
           clear == [s EXCEPT !.held_queue = hq, !.recursive_count = rc, !.original_priority = op]
           woken == WakeHighest(clear, e)
           given == [woken EXCEPT !.mutex_holder[q] = heir, !.held_queue[heir] = q]
           freed == [clear EXCEPT !.messages_waiting[q] = 1, !.mutex_holder[q] = NoTask]
           r     == ReleaseHeld(s, t)
<1>1. s \in Kernel /\ q \in Queues \cup {NoQueue}
  BY CoreFacts DEF Kernel
<1>2. CASE q = NoQueue
  <2>1. r = s
    BY <1>2 DEF ReleaseHeld
  <2> QED BY <1>2, <2>1 DEF Sheds
<1>3. CASE q \in Queues
  <2>1. q # NoQueue /\ e \in EventLists /\ IsMutex(q)
    BY <1>3, QueueAssumption DEF EventLists, Waiters
  <2>2. r = IF heir = NoTask THEN freed ELSE given
    BY <2>1 DEF ReleaseHeld, Waiters
  <2>3. /\ hq \in [Threads -> Queues \cup {NoQueue}] /\ rc \in [Queues -> Int]
        /\ op \in [Queues -> Prio \cup {NotBoosted}]
    BY SMTT(40), <1>1, <1>3 DEF Kernel
  <2>4. op = With(s.original_priority, q, NotBoosted)
    BY DEF With
  <2> HIDE DEF q, e, heir, hq, rc, op
  <2>5. clear \in Kernel
    BY <1>1, <2>3 DEF Kernel
  <2>6. SameLists(s, clear)
    BY <1>1 DEF Kernel, SameLists, SameQueued, SameDelays, SameEvents
  <2>7. /\ clear.state = s.state /\ clear.used = s.used /\ clear.original_priority = op
        /\ clear.terminated_list = s.terminated_list /\ clear.current = s.current
    BY <1>1 DEF Kernel
  <2> HIDE DEF clear
  <2>8. KernelCore(clear, H) /\ Sheds(s, clear) /\ clear.priority = s.priority
    <3>1. SameCore(s, clear)
      BY <2>6, <2>7 DEF SameCore
    <3> QED BY <2>5, <2>6, <3>1, SameCoreInv, SameSheds DEF SameLists, SameQueued
  <2>9. /\ KernelCore(woken, H) /\ SameObjects(clear, woken)
        /\ Sheds(clear, woken) /\ woken.priority = clear.priority
    BY <2>1, <2>8, WakeHighestInv, WakeSheds
  <2>10. woken \in Kernel
    BY <2>9, CoreFacts
  <2> HIDE DEF woken
  <2>11. /\ SameEvents(woken, given) /\ given.priority = woken.priority
         /\ given.original_priority = woken.original_priority
    BY <2>10 DEF Kernel, SameEvents
  <2>12. /\ SameEvents(clear, freed) /\ freed.priority = clear.priority
         /\ freed.original_priority = clear.original_priority
    BY <2>5 DEF Kernel, SameEvents
  <2> HIDE DEF given, freed, r
  <2>13. Sheds(s, given) /\ Sheds(s, freed)
    BY <2>8, <2>9, <2>11, <2>12, SameSheds, ShedsTrans
  <2>14. /\ Sheds(s, r) /\ r.priority = s.priority
         /\ r.original_priority = With(s.original_priority, q, NotBoosted)
    BY <2>2, <2>4, <2>7, <2>8, <2>9, <2>11, <2>12, <2>13 DEF SameObjects
  <2> QED BY <2>1, <2>14 DEF r, q
<1> QED BY <1>1, <1>2, <1>3

\* What a deletion of t leaves of the order, the priorities and what is remembered of them.
Forgets(s, r, t) ==
  /\ Sheds(s, r) /\ r.priority = s.priority
  /\ r.original_priority = IF s.held_queue[t] = NoQueue THEN s.original_priority
                           ELSE With(s.original_priority, s.held_queue[t], NotBoosted)

LEMMA TerminateForgets ==
  ASSUME NEW s, NEW H, KernelInv(s, H), NEW t \in H, \A q \in Queues : IsMutex(q)
  PROVE  Forgets(s, Terminate(s, t), t)
<1> DEFINE d == [Deactivate(s, t) EXCEPT !.state[t] = "DELETED"]
           r == Terminate(s, t)
<1>1. t \in Threads /\ KernelCore(s, H) /\ ListsOK(s) /\ "DELETED" \in TaskState
  BY CoreFacts DEF KernelInv, TaskState
<1>2. Effect(s, d, Queued(s) \ {t}, Delayed(s) \ {t}, Waiting(s) \ {t},
             [s.state EXCEPT ![t] = "DELETED"])
  BY <1>1, DeactivateStateEffect
<1>3. Loosens(s, d) /\ d.priority = s.priority
  BY <1>1, DeactivateLoosens
<1>4. r = ReleaseHeld(d, t)
  BY DEF Terminate
<1> HIDE DEF d, r
<1>5. Sheds(s, d) /\ SameObjects(s, d)
  BY <1>1, <1>2, <1>3, LoosensEases, EasesSheds DEF Effect
<1>6. KernelCore(d, H \ {t})
  BY <1>1, <1>2, LeavesLists
<1>7. /\ Sheds(d, r) /\ r.priority = d.priority
      /\ r.original_priority = IF d.held_queue[t] = NoQueue THEN d.original_priority
                               ELSE With(d.original_priority, d.held_queue[t], NotBoosted)
  BY <1>1, <1>4, <1>6, ReleaseHeldSheds
<1>8. Forgets(s, r, t)
  BY <1>3, <1>5, <1>7, ShedsTrans DEF Forgets, SameObjects
<1> QED BY <1>8 DEF r

LEMMA DeleteForgets ==
  ASSUME NEW s, NEW H, KernelInv(s, H), NEW t \in H, \A q \in Queues : IsMutex(q)
  PROVE  Forgets(s, DeleteOther(s, t), t) /\ (t = s.current => Forgets(s, DeleteSelf(s), t))
<1> DEFINE d == Terminate(s, t)
           o == [d EXCEPT !.used = @ \ {t}]
           e == [d EXCEPT !.terminated_list = Append(@, t), !.sched_lock = 0]
<1>1. Forgets(s, d, t) /\ d \in Kernel
  BY TerminateForgets, TerminateInv, CoreFacts
<1>2. DeleteOther(s, t) = o
  BY DEF DeleteOther
<1>3. t = s.current => DeleteSelf(s) = IF s.sched_lock > 0
                                       THEN RequestSwitch([e EXCEPT !.need_resched = FALSE])
                                       ELSE [e EXCEPT !.need_resched = TRUE]
  BY DEF DeleteSelf
<1> HIDE DEF d
<1>4. ASSUME NEW r, r.priority = d.priority, r.original_priority = d.original_priority,
             SameEvents(d, r)
      PROVE  Forgets(s, r, t)
  BY <1>1, <1>4, SameSheds, ShedsTrans DEF Forgets
<1>5. o.priority = d.priority /\ o.original_priority = d.original_priority /\ SameEvents(d, o)
  BY <1>1 DEF Kernel, SameEvents
<1>6. Forgets(s, o, t)
  <2> HIDE DEF o
  <2> QED BY <1>4, <1>5
<1>7. /\ e.priority = d.priority /\ e.original_priority = d.original_priority
      /\ SameEvents(d, e) /\ DOMAIN e = DOMAIN d
      /\ {"priority", "original_priority", "waiting", "event_list"} \subseteq DOMAIN d
  BY <1>1 DEF Kernel, SameEvents
<1>8. ASSUME t = s.current PROVE Forgets(s, DeleteSelf(s), t)
  <2> HIDE DEF e
  <2> DEFINE r == DeleteSelf(s)
  <2>1. r = IF s.sched_lock > 0 THEN RequestSwitch([e EXCEPT !.need_resched = FALSE])
                                ELSE [e EXCEPT !.need_resched = TRUE]
    BY <1>3, <1>8
  <2> HIDE DEF r
  <2>2. /\ r.priority = d.priority /\ r.original_priority = d.original_priority
        /\ SameEvents(d, r)
    BY <1>7, <2>1 DEF RequestSwitch, SameEvents
  <2>3. Forgets(s, r, t)
    BY <1>4, <2>2
  <2> QED BY <2>3 DEF r
<1> QED BY <1>2, <1>6, <1>8

-----------------------------------------------------------------------------
\* The priorities of a holder

\* The priority that t goes back to when it gives the mutex that it holds.
Own(s, t) ==
  LET q == s.held_queue[t]
  IN  IF q = NoQueue \/ s.original_priority[q] = NotBoosted THEN s.priority[t]
                                                            ELSE s.original_priority[q]

\* In r, t has priority p and the mutex q remembers v.
Priced(s, r, t, p, q, v) ==
  /\ r.priority = With(s.priority, t, p)
  /\ r.original_priority = With(s.original_priority, q, v)

\* rtos_task_set_priority overwrites what the mutex of t remembers; the code puts it
\* back.
LEMMA SetAndSchedPrices ==
  ASSUME NEW s, NEW H, KernelInv(s, H), NEW t \in H, NEW p \in Prio,
         NEW q \in Queues, s.held_queue[t] = q, NEW v \in Prio \cup {NotBoosted},
         NEW d, d = Sched(SetPriority(s, t, p)),
         NEW r, r = [d EXCEPT !.original_priority[q] = v]
  PROVE  Priced(s, r, t, p, q, v)
<1> DEFINE moved == IF s.state[t] \in OnReadyList
                    THEN TaskReady([TaskUnready(s, t) EXCEPT !.priority[t] = p], t)
                    ELSE [s EXCEPT !.priority[t] = p]
           o == [moved.original_priority EXCEPT ![q] = p]
           a == SetPriority(s, t, p)
           b == Sched(a)
<1>1. /\ KernelInv(moved, H) /\ SameObjects(s, moved)
      /\ moved.priority = With(s.priority, t, p)
  BY MovePriority
<1>2. a = moved \/ a = [moved EXCEPT !.original_priority = o]
  <2>1. moved.held_queue[t] = q
    BY <1>1 DEF SameObjects
  <2>2. a = IF moved.held_queue[t] # NoQueue
               /\ moved.original_priority[moved.held_queue[t]] # NotBoosted
            THEN [moved EXCEPT !.original_priority[moved.held_queue[t]] = p] ELSE moved
    BY DEF SetPriority
  <2> HIDE DEF a, moved
  <2> QED BY <2>1, <2>2
<1>3. r = [b EXCEPT !.original_priority[q] = v]
  OBVIOUS
<1>4. KernelInv(a, H)
  BY SetPriorityInv
<1> HIDE DEF moved, a
<1>5. moved \in Kernel /\ a \in Kernel /\ s \in Kernel
  BY <1>1, <1>4, CoreFacts DEF KernelInv
<1>6. o \in [Queues -> Prio \cup {NotBoosted}] /\ \A u \in Queues \ {q} : o[u] = s.original_priority[u]
  BY <1>1, <1>5 DEF SameObjects, Kernel
<1> HIDE DEF o
<1>7. /\ a.priority = moved.priority
      /\ \A u \in Queues \ {q} : a.original_priority[u] = s.original_priority[u]
  <2>1. CASE a = moved
    BY <1>1, <2>1 DEF SameObjects
  <2>2. CASE a = [moved EXCEPT !.original_priority = o]
    BY <1>5, <1>6, <2>2 DEF Kernel
  <2> QED BY <1>2, <2>1, <2>2
<1>8. b.priority = a.priority /\ b.original_priority = a.original_priority
  BY <1>5 DEF Sched, SchedCheck, RequestSwitch, Kernel
<1>9. b \in Kernel
  BY <1>4, SchedFields, CoreFacts DEF Reprices, KernelInv
<1> HIDE DEF b
<1>10. r.priority = b.priority /\ r.original_priority = [b.original_priority EXCEPT ![q] = v]
  BY <1>3, <1>9 DEF Kernel
<1>11. r.original_priority = With(s.original_priority, q, v)
  <2>1. /\ b.original_priority \in [Queues -> Prio \cup {NotBoosted}]
        /\ s.original_priority \in [Queues -> Prio \cup {NotBoosted}]
    BY <1>5, <1>9 DEF Kernel
  <2> QED BY <1>7, <1>8, <1>10, <2>1 DEF With
<1> QED BY <1>1, <1>7, <1>8, <1>10, <1>11 DEF Priced

LEMMA OwnPrio ==
  ASSUME NEW s \in Kernel, NEW t \in Threads
  PROVE  Own(s, t) \in Prio
<1>1. s.held_queue[t] \in Queues \cup {NoQueue} /\ s.priority[t] \in Prio
  BY DEF Kernel
<1>2. ASSUME s.held_queue[t] \in Queues
      PROVE  s.original_priority[s.held_queue[t]] \in Prio \cup {NotBoosted}
  BY <1>2 DEF Kernel
<1> QED BY <1>1, <1>2 DEF Own

LEMMA RestorePrices ==
  ASSUME NEW s, NEW H, KernelInv(s, H), s.current \in H,
         NEW q \in Queues, s.held_queue[s.current] = q
  PROVE  LET r == Restore(s, q)
             c == s.current
         IN  /\ r.priority = With(s.priority, c, Own(s, c))
             /\ r.original_priority = With(s.original_priority, q, NotBoosted)
<1> DEFINE p == s.original_priority[q]
           c == s.current
           r == [Sched(SetPriority(s, c, p)) EXCEPT !.original_priority[q] = NotBoosted]
<1>1. /\ p \in Prio \cup {NotBoosted} /\ s.priority \in [Threads -> Prio] /\ c \in Threads
      /\ s.original_priority \in [Queues -> Prio \cup {NotBoosted}]
      /\ q # NoQueue
  BY CoreFacts, QueueAssumption DEF KernelInv, Kernel
<1>2. CASE p # NotBoosted
  <2>1. Restore(s, q) = r
    BY <1>2 DEF Restore
  <2>2. p \in Prio /\ Own(s, c) = p
    BY <1>1, <1>2 DEF Own
  <2>3. c \in H /\ s.held_queue[c] = q /\ NotBoosted \in Prio \cup {NotBoosted}
    OBVIOUS
  <2> DEFINE d == Sched(SetPriority(s, c, p))
  <2>4. d = Sched(SetPriority(s, c, p)) /\ r = [d EXCEPT !.original_priority[q] = NotBoosted]
    OBVIOUS
  <2> HIDE DEF p, c, d, r
  <2>5. Priced(s, r, c, p, q, NotBoosted)
    BY <2>2, <2>3, <2>4, SetAndSchedPrices
  <2> QED BY <2>1, <2>2, <2>5 DEF c, Priced
<1>3. CASE p = NotBoosted
  <2>1. Restore(s, q) = s
    BY <1>3 DEF Restore
  <2>2. Own(s, c) = s.priority[c]
    BY <1>3 DEF Own
  <2>3. /\ s.priority = With(s.priority, c, Own(s, c))
        /\ s.original_priority = With(s.original_priority, q, NotBoosted)
    BY <1>1, <1>3, <2>2 DEF With
  <2> QED BY <2>1, <2>3
<1> QED BY <1>2, <1>3

LEMMA InheritPrices ==
  ASSUME NEW s, NEW H, KernelInv(s, H), s.current \in H,
         NEW q \in Queues, NEW h \in H, s.mutex_holder[q] = h, s.held_queue[h] = q
  PROVE  LET r == Inherit(s, q)
         IN  /\ \A t \in Threads \ {h} : r.priority[t] = s.priority[t]
             /\ r.priority[h] >= s.priority[h] /\ r.priority[h] >= s.priority[s.current]
             /\ \A p \in Queues \ {q} : r.original_priority[p] = s.original_priority[p]
             /\ r.held_queue = s.held_queue /\ Own(r, h) = Own(s, h)
<1> DEFINE mine == s.priority[s.current]
           v    == RestoreTo(s, q)
           mark == [s EXCEPT !.original_priority[q] = v]
           r    == [Sched(SetPriority(mark, h, mine)) EXCEPT !.original_priority[q] = v]
<1>1. /\ s \in Kernel /\ KernelCore(s, H) /\ h \in Threads /\ h # NoTask /\ q # NoQueue
      /\ s.priority \in [Threads -> Prio] /\ mine \in Prio
      /\ s.original_priority \in [Queues -> Prio \cup {NotBoosted}]
  <2>1. s \in Kernel /\ KernelCore(s, H) /\ h \in Threads
    BY CoreFacts DEF KernelInv
  <2>2. s.priority \in [Threads -> Prio] /\ s.current \in Threads
        /\ s.original_priority \in [Queues -> Prio \cup {NotBoosted}]
    BY <2>1 DEF Kernel
  <2>3. h # NoTask /\ q # NoQueue
    BY <2>1, QueueAssumption DEF NoTask, Threads
  <2> QED BY <2>1, <2>2, <2>3
<1>2. Prio \subseteq Nat /\ NotBoosted \notin Prio
  BY PriorityAssumption DEF Prio, NotBoosted
<1>3. v = Own(s, h) /\ v \in Prio
  BY <1>1, OwnPrio DEF RestoreTo, Own
<1>4. CASE mine > s.priority[h]
  <2>1. Inherit(s, q) = r
    BY <1>1, <1>4 DEF Inherit
  <2> HIDE DEF v, mine
  <2>2. /\ mark \in Kernel /\ SameCore(s, mark) /\ SameHolders(s, mark)
    BY <1>1, <1>3, SetOriginal
  <2>3. mark.priority = s.priority /\ mark.original_priority = [s.original_priority EXCEPT ![q] = v]
    BY <1>1 DEF Kernel
  <2> HIDE DEF mark
  <2>4. KernelInv(mark, H) /\ mark.held_queue[h] = q
    BY <1>1, <2>2, SameCoreInv DEF SameHolders
  <2>5. /\ r.priority = With(mark.priority, h, mine)
        /\ r.original_priority = With(mark.original_priority, q, v)
    <3> DEFINE d == Sched(SetPriority(mark, h, mine))
    <3>1. d = Sched(SetPriority(mark, h, mine)) /\ r = [d EXCEPT !.original_priority[q] = v]
      OBVIOUS
    <3>2. v \in Prio \cup {NotBoosted}
      BY <1>3
    <3> HIDE DEF d, r
    <3>3. Priced(mark, r, h, mine, q, v)
      BY <1>1, <2>4, <3>1, <3>2, SetAndSchedPrices
    <3> QED BY <3>3 DEF Priced
  <2>6. r.held_queue = s.held_queue
    <3>1. Reprices(mark, r, H)
      BY <1>1, <1>3, <2>4, SetAndSched
    <3> QED BY <2>2, <3>1 DEF Reprices, SameHolders
  <2> HIDE DEF r
  <2>7. /\ \A t \in Threads \ {h} : r.priority[t] = s.priority[t]
        /\ r.priority[h] = mine
        /\ \A p \in Queues \ {q} : r.original_priority[p] = s.original_priority[p]
        /\ r.original_priority[q] = v
    BY <1>1, <2>3, <2>5 DEF With
  <2>8. Own(r, h) = v
    BY <1>1, <1>2, <1>3, <2>6, <2>7 DEF Own
  <2>9. mine >= s.priority[h] /\ mine >= mine
    <3>1. mine \in Nat /\ s.priority[h] \in Nat
      BY <1>1, <1>2
    <3> HIDE DEF mine
    <3> QED BY <1>4, <3>1
  <2> QED BY <1>3, <2>1, <2>6, <2>7, <2>8, <2>9 DEF mine
<1>5. CASE ~(mine > s.priority[h])
  <2>1. Inherit(s, q) = s
    BY <1>5 DEF Inherit
  <2>2. s.priority[h] >= mine /\ s.priority[h] >= s.priority[h]
    <3>1. mine \in Nat /\ s.priority[h] \in Nat
      BY <1>1, <1>2
    <3> HIDE DEF mine
    <3> QED BY <1>5, <3>1
  <2> QED BY <2>1, <2>2
<1> QED BY <1>4, <1>5

LEMMA GivePrices ==
  ASSUME NEW s, NEW H, KernelInv(s, H), s.current \in H,
         NEW q \in Queues, s.held_queue[s.current] = q
  PROVE  LET r == Give(s, q)
             c == s.current
         IN  /\ Sheds(s, r) /\ r.priority = With(s.priority, c, Own(s, c))
             /\ r.original_priority = With(s.original_priority, q, NotBoosted)
<1> DEFINE e    == Waiters(q)
           c    == s.current
           a    == Restore(s, q)
           w    == WakeHighest(a, e)
           heir == FirstWaiting(s, e)
           free == [w EXCEPT !.held_queue[c] = NoQueue]
           one  == [free EXCEPT !.messages_waiting[q] = 1, !.mutex_holder[q] = NoTask]
           two  == [free EXCEPT !.mutex_holder[q] = heir, !.original_priority[q] = NotBoosted,
                                !.held_queue[heir] = q]
           r    == Give(s, q)
<1>1. KernelInv(a, H) /\ SameWaits(s, a)
  BY RestoreReprices DEF Reprices
<1>2. /\ a.priority = With(s.priority, c, Own(s, c))
      /\ a.original_priority = With(s.original_priority, q, NotBoosted)
  BY RestorePrices
<1>3. r = one \/ r = two
  BY DEF Give
<1>4. e \in EventLists
  BY DEF EventLists, Waiters
<1>5. s.original_priority \in [Queues -> Prio \cup {NotBoosted}]
  BY CoreFacts DEF KernelInv, Kernel
<1> HIDE DEF a, r, e, heir
<1>6. /\ KernelCore(w, H) /\ SameObjects(a, w) /\ Sheds(a, w) /\ w.priority = a.priority
  BY <1>1, <1>4, WakeHighestInv, WakeSheds DEF KernelInv
<1>7. w \in Kernel
  BY <1>6, CoreFacts
<1> HIDE DEF w
<1>8. /\ SameEvents(w, one) /\ one.priority = w.priority
      /\ one.original_priority = w.original_priority
  BY <1>7 DEF Kernel, SameEvents
<1>9. /\ SameEvents(w, two) /\ two.priority = w.priority
      /\ two.original_priority = [w.original_priority EXCEPT ![q] = NotBoosted]
  BY <1>7 DEF Kernel, SameEvents
<1> HIDE DEF one, two
<1>10. [w.original_priority EXCEPT ![q] = NotBoosted] = With(s.original_priority, q, NotBoosted)
  BY <1>2, <1>5, <1>6 DEF SameObjects, With
<1>11. /\ SameEvents(w, r) /\ r.priority = a.priority
       /\ r.original_priority = With(s.original_priority, q, NotBoosted)
  BY <1>2, <1>3, <1>6, <1>8, <1>9, <1>10 DEF SameObjects
<1>12. Sheds(s, r)
  BY <1>1, <1>6, <1>11, SameSheds, ShedsTrans DEF SameWaits
<1> QED BY <1>2, <1>11, <1>12 DEF r

-----------------------------------------------------------------------------
\* The holder outranks those who wait

\* As HolderOutranksWaiters, of any kernel.
Outranks(s) ==
  \A q \in Queues : \A t \in Threads :
    s.event_list[t] = Waiters(q) => s.priority[s.mutex_holder[q]] >= s.priority[t]

Ranked(s) == SortedLists(s) /\ Outranks(s)

\* Who holds a mutex that somebody waits for held it before, or was the first to wait;
\* and is not less urgent than before.
Heirs(s, r) ==
  \A q \in Queues : \A t \in Threads :
    r.event_list[t] = Waiters(q) =>
      /\ r.mutex_holder[q] \in Threads
      /\ r.priority[r.mutex_holder[q]] >= s.priority[r.mutex_holder[q]]
      /\ r.mutex_holder[q] = s.mutex_holder[q]
         \/ r.mutex_holder[q] = FirstWaiting(s, Waiters(q))

\* Those who wait have the priority that their place in the list is for.
SamePlaces(s, r) == \A u \in Waiting(r) : r.priority[u] = s.priority[u]

LEMMA WaiterQueues ==
  ASSUME NEW q \in Queues
  PROVE  Waiters(q) \in EventLists /\ Waiters(q) # NoList
         /\ \A p : Waiters(p) = Waiters(q) => p = q
<1>1. Waiters(q) \in EventLists /\ \A p : Waiters(p) = Waiters(q) => p = q
  BY DEF EventLists, Waiters
<1> QED BY <1>1, NoListIsNone

\* The first of a sorted list outranks the others.
LEMMA FirstOutranks ==
  ASSUME NEW s, ListsOK(s), SortedLists(s), NEW e \in EventLists, NEW t \in Threads,
         s.event_list[t] = e
  PROVE  FirstWaiting(s, e) \in Threads /\ s.priority[FirstWaiting(s, e)] >= s.priority[t]
<1> DEFINE l == s.waiting[e]
<1>1. /\ l \in Seq(Threads) /\ t \in ToSet(l) /\ Ordered(l, Ranks(s))
      /\ s.priority \in [Threads -> Prio] /\ Distinct(l)
  BY DEF ListsOK, Kernel, EventsOK, SortedLists
<1>2. s.priority[t] \in Nat
  BY <1>1 DEF Prio
<1>3. FirstWaiting(s, e) = IF l = <<>> THEN NoTask ELSE Head(l)
  BY DEF FirstWaiting
<1> HIDE DEF l
<1>4. l # <<>> /\ Head(l) \in Threads /\ ToSet(l) = {Head(l)} \cup ToSet(Tail(l))
  <2>1. l # <<>>
    BY <1>1, EmptySeq DEF ToSet
  <2> QED BY <1>1, <2>1, HeadDistinct
<1>5. CASE t = Head(l)
  BY <1>2, <1>3, <1>4, <1>5
<1>6. CASE t \in ToSet(Tail(l))
  <2>1. <<Head(l), t>> \in Ranks(s)
    BY <1>1, <1>4, <1>6, TailOrdered
  <2> QED BY <1>3, <1>4, <2>1 DEF Ranks
<1> QED BY <1>1, <1>4, <1>5, <1>6

\* Whoever leaves, and whoever the mutexes pass to.
LEMMA RankedKept ==
  ASSUME NEW s, NEW r, ListsOK(s), ListsOK(r), Sheds(s, r), Heirs(s, r), SamePlaces(s, r),
         Ranked(s)
  PROVE  Ranked(r)
<1>1. /\ s \in Kernel /\ r \in Kernel
      /\ \A u \in Threads : s.priority[u] \in Nat /\ r.priority[u] \in Nat
  <2>1. s \in Kernel /\ r \in Kernel
    BY DEF ListsOK
  <2> QED BY <2>1, NaturalPriorities
<1>2. ASSUME NEW e \in EventLists PROVE Ordered(r.waiting[e], Ranks(r))
  <2> DEFINE l == r.waiting[e]
  <2>1. l \in Seq(Threads) /\ \A u \in Threads : u \in ToSet(l) => r.event_list[u] = e
    BY DEF ListsOK, Kernel, EventsOK
  <2>2. Ordered(l, Ranks(s))
    BY DEF Ranked, SortedLists, Sheds
  <2> HIDE DEF l
  <2>3. ToSet(l) \subseteq Threads
    BY <2>1 DEF ToSet
  <2>4. \A u \in ToSet(l) : r.priority[u] = s.priority[u]
    BY <2>1, <2>3, NoListIsNone DEF SamePlaces, Waiting
  <2>5. Ordered(l, Ranks(r))
    BY <2>1, <2>2, <2>4, OrderedRanks
  <2> QED BY <2>5 DEF l
<1>3. ASSUME NEW q \in Queues, NEW t \in Threads, r.event_list[t] = Waiters(q)
      PROVE  r.priority[r.mutex_holder[q]] >= r.priority[t]
  <2> DEFINE h == r.mutex_holder[q]
  <2>1. Waiters(q) \in EventLists /\ Waiters(q) # NoList
    BY WaiterQueues
  <2>2. s.event_list[t] = Waiters(q) /\ r.priority[t] = s.priority[t]
    BY <1>3, <2>1 DEF Sheds, SamePlaces, Waiting
  <2>3. /\ h \in Threads /\ r.priority[h] >= s.priority[h]
        /\ h = s.mutex_holder[q] \/ h = FirstWaiting(s, Waiters(q))
    BY <1>3 DEF Heirs
  <2>4. s.priority[s.mutex_holder[q]] >= s.priority[t]
    BY <2>2 DEF Ranked, Outranks
  <2>5. s.priority[FirstWaiting(s, Waiters(q))] >= s.priority[t]
    BY <2>1, <2>2, FirstOutranks DEF Ranked
  <2> HIDE DEF h
  <2>6. s.priority[h] >= s.priority[t]
    BY <2>3, <2>4, <2>5
  <2>7. r.priority[h] >= r.priority[t]
    BY <1>1, <2>2, <2>3, <2>6
  <2> QED BY <2>7 DEF h
<1> QED BY <1>2, <1>3 DEF Ranked, SortedLists, Outranks

\* A task that waits for q waits for a living holder.
LEMMA WaitersHolder ==
  ASSUME MutexInv, NEW q \in Queues, NEW t \in Threads, k.event_list[t] = Waiters(q)
  PROVE  k.mutex_holder[q] \in handles /\ k.mutex_holder[q] \in Threads
<1>1. TaskOK(t) /\ t \in Waiting(k)
  BY MutexFacts, WaiterQueues DEF Waiting
<1>2. k.mutex_holder[call[t].q] # NoTask /\ call[t].q = q
  BY <1>1, WaiterQueues DEF TaskOK, WaitOK
<1>3. k.mutex_holder[q] \in Threads
  BY <1>2, MutexFacts DEF Kernel
<1>4. TaskOK(k.mutex_holder[q])
  BY <1>3, MutexFacts
<1> QED BY <1>3, <1>4 DEF TaskOK, HoldOK

\* No mutex that somebody waits for changes hands.
LEMMA SteadyHeirs ==
  ASSUME MutexInv, NEW r, Sheds(k, r), \A u \in handles : r.priority[u] >= k.priority[u],
         \A q \in Queues : r.mutex_holder[q] = k.mutex_holder[q] \/ k.mutex_holder[q] = NoTask
  PROVE  Heirs(k, r)
<1>1. ASSUME NEW q \in Queues, NEW t \in Threads, r.event_list[t] = Waiters(q)
      PROVE  /\ r.mutex_holder[q] \in Threads
             /\ r.priority[r.mutex_holder[q]] >= k.priority[r.mutex_holder[q]]
             /\ r.mutex_holder[q] = k.mutex_holder[q]
  <2>1. k.event_list[t] = Waiters(q)
    BY <1>1, WaiterQueues DEF Sheds
  <2>2. k.mutex_holder[q] \in handles /\ k.mutex_holder[q] \in Threads
    BY <2>1, WaitersHolder
  <2>3. k.mutex_holder[q] # NoTask
    BY <2>2, QueueAssumption DEF NoTask, Threads
  <2> QED BY <2>2, <2>3
<1> QED BY <1>1 DEF Heirs

\* The mutex that t releases passes to the first that waits.
LEMMA ReleaseHeirs ==
  ASSUME MutexInv, NEW t \in Threads, NEW q \in Queues, k.mutex_holder[q] = t, NEW r,
         Releases(k, r, t, q), Sheds(k, r), \A u \in handles \ {t} : r.priority[u] >= k.priority[u]
  PROVE  Heirs(k, r)
<1>1. /\ k \in Kernel /\ k.mutex_holder \in [Queues -> Threads \cup {NoTask}]
      /\ ListsOK(k) /\ handles \subseteq Threads
  BY MutexFacts DEF Kernel
<1>2. TaskOK(t)
  BY MutexFacts
<1>3. ASSUME NEW p \in Queues, NEW u \in Threads, r.event_list[u] = Waiters(p)
      PROVE  /\ r.mutex_holder[p] \in Threads
             /\ r.priority[r.mutex_holder[p]] >= k.priority[r.mutex_holder[p]]
             /\ r.mutex_holder[p] = k.mutex_holder[p]
                \/ r.mutex_holder[p] = FirstWaiting(k, Waiters(p))
  <2>1. k.event_list[u] = Waiters(p)
    BY <1>3, WaiterQueues DEF Sheds
  <2>2. CASE p # q
    <3>1. k.mutex_holder[p] \in handles /\ k.mutex_holder[p] \in Threads
      BY <2>1, WaitersHolder
    <3>2. k.mutex_holder[p] # t
      BY <1>2, <2>2 DEF TaskOK, HoldOK
    <3>3. r.mutex_holder[p] = k.mutex_holder[p]
      BY <1>1, <2>2 DEF Releases, Frees, Passes, With
    <3> QED BY <3>1, <3>2, <3>3
  <2>3. CASE p = q
    <3>1. u \in ToSet(k.waiting[Waiters(q)])
      BY <1>1, <2>1, <2>3, WaiterQueues DEF ListsOK, EventsOK
    <3>2. k.waiting[Waiters(q)] # <<>>
      BY <3>1, EmptySeq DEF ToSet
    <3>3. PICK h \in Threads : Passes(k, r, t, q, h)
      BY <3>2 DEF Releases, Frees
    <3>4. /\ h # t /\ k.event_list[h] = Waiters(q) /\ h = FirstWaiting(k, Waiters(q))
          /\ r.mutex_holder[q] = h
      BY <1>1, <3>3 DEF Passes, With
    <3>5. h \in handles
      BY <3>4, MutexFacts, WaiterQueues DEF KernelCore, Waiting
    <3> QED BY <2>3, <3>4, <3>5
  <2> QED BY <2>2, <2>3
<1> QED BY <1>3 DEF Heirs

-----------------------------------------------------------------------------
\* What a step does to the priorities

\* A step that ranks and prices the tasks as before: r is the kernel after it, and G the
\* tasks that the application has handles of.
Keeps(s, r, G) == \A t \in G : Own(r, t) = Own(s, t)

Calm(s, r, G) == Sheds(s, r) /\ Heirs(s, r) /\ SamePlaces(s, r) /\ Keeps(s, r, G)

LEMMA SameOwn ==
  ASSUME NEW s, NEW r, NEW t, r.held_queue[t] = s.held_queue[t], r.priority[t] = s.priority[t],
         s.held_queue[t] # NoQueue =>
           r.original_priority[s.held_queue[t]] = s.original_priority[s.held_queue[t]]
  PROVE  Own(r, t) = Own(s, t)
BY DEF Own

\* A step that changes neither the objects nor the priorities.
LEMMA SteadyCalm ==
  ASSUME MutexInv, NEW r, Sheds(k, r), \A u \in handles : r.priority[u] = k.priority[u],
         r.held_queue = k.held_queue, r.mutex_holder = k.mutex_holder,
         r.original_priority = k.original_priority
  PROVE  Calm(k, r, handles)
<1>1. \A u \in handles : k.priority[u] \in Nat /\ u \in Threads
  BY MutexFacts, NaturalPriorities
<1>2. \A u \in handles : r.priority[u] >= k.priority[u]
  BY <1>1
<1>3. Heirs(k, r)
  BY <1>2, SteadyHeirs
<1>4. SamePlaces(k, r)
  BY MutexFacts DEF KernelCore, Waiting, Sheds, SamePlaces
<1>5. Keeps(k, r, handles)
  BY SameOwn DEF Keeps
<1> QED BY <1>3, <1>4, <1>5 DEF Calm

\* A step that takes a free mutex.
LEMMA AcquireCalm ==
  ASSUME MutexInv, NEW c \in handles, k.held_queue[c] = NoQueue, NEW q \in Queues,
         k.mutex_holder[q] = NoTask, NEW r, SameEvents(k, r), r.priority = k.priority,
         r.held_queue = With(k.held_queue, c, q), r.mutex_holder = With(k.mutex_holder, q, c),
         r.original_priority = With(k.original_priority, q, NotBoosted)
  PROVE  Calm(k, r, handles)
<1>1. /\ k \in Kernel /\ handles \subseteq Threads
      /\ \A u \in Threads : k.priority[u] \in Nat
  BY MutexFacts, NaturalPriorities
<1>2. \A u \in handles : r.priority[u] >= k.priority[u]
  BY <1>1
<1>3. Sheds(k, r)
  BY SameSheds
<1>4. \A p \in Queues : r.mutex_holder[p] = k.mutex_holder[p] \/ k.mutex_holder[p] = NoTask
  BY <1>1 DEF With, Kernel
<1>5. Heirs(k, r)
  BY <1>2, <1>3, <1>4, SteadyHeirs
<1>6. SamePlaces(k, r)
  BY DEF SamePlaces
<1>7. ASSUME NEW u \in handles PROVE Own(r, u) = Own(k, u)
  <2>1. CASE u = c
    <3>1. r.held_queue[c] = q /\ r.original_priority[q] = NotBoosted
      BY <1>1 DEF With, Kernel
    <3> QED BY <2>1, <3>1 DEF Own
  <2>2. CASE u # c
    <3>1. r.held_queue[u] = k.held_queue[u] /\ k.held_queue[u] \in Queues \cup {NoQueue}
      BY <1>1, <2>2 DEF With, Kernel
    <3>2. k.held_queue[u] # q
      <4>1. TaskOK(u) /\ u # NoTask
        BY <1>1, MutexFacts, QueueAssumption DEF NoTask, Threads
      <4> QED BY <4>1 DEF TaskOK, HoldOK
    <3>3. k.held_queue[u] # NoQueue =>
            r.original_priority[k.held_queue[u]] = k.original_priority[k.held_queue[u]]
      BY <1>1, <3>1, <3>2 DEF With, Kernel
    <3> QED BY <3>1, <3>3, SameOwn
  <2> QED BY <2>1, <2>2
<1> QED BY <1>3, <1>5, <1>6, <1>7 DEF Calm, Keeps

\* A step in which t releases q, and goes back to its own priority if it lives on.
LEMMA ReleaseCalm ==
  ASSUME MutexInv, NEW t \in Threads, NEW q \in Queues, k.mutex_holder[q] = t, NEW r,
         Releases(k, r, t, q), Sheds(k, r),
         \A u \in Threads \ {t} : r.priority[u] = k.priority[u],
         r.original_priority = With(k.original_priority, q, NotBoosted),
         NEW G \in SUBSET handles, t \in G => r.priority[t] = Own(k, t)
  PROVE  Calm(k, r, G)
<1>1. /\ k \in Kernel /\ handles \subseteq Threads
      /\ \A u \in Threads : k.priority[u] \in Nat
      /\ k.held_queue \in [Threads -> Queues \cup {NoQueue}]
      /\ k.original_priority \in [Queues -> Prio \cup {NotBoosted}]
  <2>1. k \in Kernel /\ handles \subseteq Threads
    BY MutexFacts
  <2>2. /\ k.held_queue \in [Threads -> Queues \cup {NoQueue}]
        /\ k.original_priority \in [Queues -> Prio \cup {NotBoosted}]
    BY <2>1 DEF Kernel
  <2> QED BY <2>1, <2>2, NaturalPriorities
<1>2. \A u \in handles \ {t} : r.priority[u] >= k.priority[u]
  BY <1>1
<1>3. Heirs(k, r)
  BY <1>2, ReleaseHeirs
<1>4. TaskOK(t) /\ t \notin Waiting(k)
  BY MutexFacts, HolderAwake
<1>5. SamePlaces(k, r)
  BY <1>4 DEF SamePlaces, Waiting, Sheds
<1>6. ASSUME NEW u \in G PROVE Own(r, u) = Own(k, u)
  <2>1. u \in Threads /\ TaskOK(u)
    BY <1>1, MutexFacts
  <2>2. CASE u = t
    <3>1. r.held_queue[t] = NoQueue
      BY <1>1 DEF Releases, Frees, Passes, With
    <3> QED BY <2>2, <3>1 DEF Own
  <2>3. CASE u # t /\ r.held_queue[u] = k.held_queue[u]
    <3>1. k.held_queue[u] # q
      BY <2>1, <2>3 DEF TaskOK, HoldOK
    <3>2. k.held_queue[u] # NoQueue =>
            r.original_priority[k.held_queue[u]] = k.original_priority[k.held_queue[u]]
      BY <1>1, <2>1, <3>1 DEF With
    <3> QED BY <2>1, <2>3, <3>2, SameOwn
  <2>4. CASE u # t /\ r.held_queue[u] # k.held_queue[u]
    <3>1. PICK h \in Threads : Passes(k, r, t, q, h)
      BY <1>1, <2>1, <2>4 DEF Releases, Frees, With
    <3>2. u = h /\ r.held_queue[u] = q /\ k.event_list[u] = Waiters(q)
      BY <1>1, <2>1, <2>4, <3>1 DEF Passes, With
    <3>3. k.held_queue[u] = NoQueue
      BY <1>1, <2>1, <3>2, MutexFacts, WaiterQueues, WaiterHoldsNothing DEF Waiting
    <3>4. r.original_priority[q] = NotBoosted
      BY <1>1 DEF With
    <3> QED BY <2>1, <2>4, <3>2, <3>3, <3>4 DEF Own
  <2> QED BY <2>2, <2>3, <2>4
<1> QED BY <1>3, <1>5, <1>6 DEF Calm, Keeps

-----------------------------------------------------------------------------
\* The steps

\* A deletion of t, with or without a mutex.
LEMMA DeleteCalm ==
  ASSUME MutexInv, NEW t \in handles, Ends(k, k', t), Forgets(k, k', t)
  PROVE  Calm(k, k', handles \ {t})
<1>1. t \in Threads /\ TaskOK(t) /\ k.held_queue[t] \in Queues \cup {NoQueue}
  BY MutexFacts DEF Kernel
<1>2. Sheds(k, k') /\ k'.priority = k.priority
  BY DEF Forgets
<1>3. CASE k.held_queue[t] = NoQueue
  <2>1. SameHolders(k, k')
    BY <1>3, QueueAssumption DEF Ends
  <2>2. k'.original_priority = k.original_priority
    BY <1>3 DEF Forgets
  <2>3. Calm(k, k', handles)
    BY <1>2, <2>1, <2>2, SteadyCalm DEF SameHolders
  <2> QED BY <2>3 DEF Calm, Keeps
<1>4. CASE k.held_queue[t] \in Queues
  <2> DEFINE q == k.held_queue[t]
  <2>1. k.mutex_holder[q] = t
    BY <1>1, <1>4 DEF TaskOK, HoldOK
  <2>2. Releases(k, k', t, q)
    BY <1>4, QueueAssumption DEF Ends
  <2>3. k'.original_priority = With(k.original_priority, q, NotBoosted)
    BY <1>4, QueueAssumption DEF Forgets
  <2> HIDE DEF q
  <2>4. \A u \in Threads \ {t} : k'.priority[u] = k.priority[u]
    BY <1>2
  <2>5. q \in Queues /\ handles \ {t} \in SUBSET handles /\ t \notin handles \ {t}
    BY <1>4 DEF q
  <2> QED BY <1>1, <1>2, <2>1, <2>2, <2>3, <2>4, <2>5, ReleaseCalm
<1> QED BY <1>1, <1>3, <1>4

\* The steps of RtosTask, but rtos_task_set_priority.
LEMMA TaskStepCalm ==
  ASSUME MutexInv, YieldsReady, "set_priority" \notin Calls, [Next]_vars
  PROVE  Calm(k, k', handles \cap handles')
<1>1. /\ IInv /\ KernelInv(k, handles) /\ handles \subseteq k.used /\ handles \subseteq Threads
      /\ \A q \in Queues : IsMutex(q)
  BY MutexFacts
<1>2. CASE NoDelete
  <2>1. SameObjects(k, k')
    BY <1>2, SteadyHolders
  <2>2. (\E X : Eases(k, k', X)) /\ SameRanks(k, k')
    BY <1>1, <1>2, EaseStep DEF NoDelete
  <2>3. Sheds(k, k') /\ \A u \in handles : k'.priority[u] = k.priority[u]
    BY <1>1, <2>2, EasesSheds DEF SameRanks
  <2>4. Calm(k, k', handles)
    BY <2>1, <2>3, SteadyCalm DEF SameObjects
  <2> QED BY <2>4 DEF Calm, Keeps
<1>3. ASSUME NEW c \in Tasks, TaskDeleteOther(c) \/ TaskDeleteSelf(c)
      PROVE  Calm(k, k', handles \cap handles')
  <2>1. \A t \in handles : k.held_queue[t] \in Queues => t \notin Waiting(k)
    BY <1>1, HoldersAwake
  <2>2. PICK t \in handles : handles' = handles \ {t} /\ Ends(k, k', t) /\ Forgets(k, k', t)
    <3>1. CASE TaskDeleteOther(c)
      <4>1. PICK t \in handles : k' = DeleteOther(k, t) /\ handles' = handles \ {t}
        BY <3>1 DEF TaskDeleteOther
      <4>2. Ends(k, k', t)
        BY <1>1, <2>1, <4>1, DeleteOtherEnds
      <4>3. Forgets(k, k', t)
        BY <1>1, <4>1, DeleteForgets
      <4> QED BY <4>1, <4>2, <4>3
    <3>2. CASE TaskDeleteSelf(c)
      <4>1. k' = DeleteSelf(k) /\ handles' = handles \ {c} /\ At(c, "run")
        BY <3>2 DEF TaskDeleteSelf, Calling
      <4>2. c \in handles /\ k.current = c
        BY <1>1, <4>1, CallerLives DEF Running
      <4>3. Ends(k, k', c)
        BY <1>1, <2>1, <4>1, <4>2, DeleteSelfEnds
      <4>4. Forgets(k, k', c)
        BY <1>1, <4>1, <4>2, DeleteForgets
      <4> QED BY <4>1, <4>2, <4>3, <4>4
    <3> QED BY <1>3, <3>1, <3>2
  <2>3. Calm(k, k', handles \ {t})
    BY <2>2, DeleteCalm
  <2> QED BY <2>2, <2>3 DEF Calm, Keeps
<1> QED BY <1>2, <1>3 DEF NoDelete

\* What a step of mutex.c does to the kernel.
Minor ==
  /\ SameEvents(k, k') /\ k'.priority = k.priority /\ k'.held_queue = k.held_queue
  /\ k'.mutex_holder = k.mutex_holder /\ k'.original_priority = k.original_priority

AcquiresOne(c) ==
  /\ k.held_queue[c] = NoQueue
  /\ \E q \in Queues : k.messages_waiting[q] > 0 /\ k' = Acquire(k, q)

WaitsForOne(c) ==
  /\ k.held_queue[c] = NoQueue /\ k.state[c] \in OnReadyList
  /\ \E q \in Queues, n \in Nat \cup {Forever} :
       k.messages_waiting[q] = 0 /\ k' = BlockCurrent(Inherit(k, q), Waiters(q), n)

GivesOne(c) == \E q \in Queues : k.mutex_holder[q] = c /\ k' = Give(k, q)

LEMMA TryTakeKinds ==
  ASSUME MutexInv, NEW c \in Tasks, NEW b \in {"run", "take"}, At(c, b), NEW m \in Takes,
         \A p \in Queues : owns[c][p] = 0, m.timeout # 0 => k.sched_lock = 0, TryTake(c, m)
  PROVE  handles' = handles /\ (Minor \/ AcquiresOne(c) \/ WaitsForOne(c))
<1>1. /\ c \in Threads /\ k \in Kernel /\ m.q \in Queues /\ m.timeout \in Nat \cup {Forever}
      /\ b \in Running \ {"create"} /\ b # "wait" /\ b # "woken" /\ k.messages_waiting[m.q] \in Nat
  <2>1. b \in Running \ {"create"} /\ b # "wait" /\ b # "woken"
    BY DEF Running
  <2>2. c \in Threads /\ k \in Kernel
    BY <2>1, CallerFacts, MutexFacts
  <2>3. m.q \in Queues /\ m.timeout \in Nat \cup {Forever}
    <3>1. m.q \in Queues /\ m.timeout \in MutexTimeouts \cup {0}
      BY DEF Takes
    <3>2. MutexTimeouts \subseteq Nat \cup {Forever} /\ 0 \in Nat
      BY MutexAssumption
    <3> QED BY <3>1, <3>2
  <2>4. k.messages_waiting[m.q] \in Nat
    BY <2>2, <2>3 DEF Kernel
  <2> QED BY <2>1, <2>2, <2>3, <2>4
<1>2. k.held_queue[c] = NoQueue
  <2>1. \A p \in Queues : k.held_queue[c] # p
    BY OwnsFacts
  <2> QED BY <1>1, <2>1 DEF Kernel
<1>3. CASE k.messages_waiting[m.q] > 0
  BY <1>1, <1>2, <1>3 DEF TryTake, AcquiresOne, Taken, Continue
<1>4. CASE k.messages_waiting[m.q] = 0
  <2>1. CASE UNCHANGED k /\ handles' = handles
    BY <2>1 DEF Minor, SameEvents
  <2>2. CASE /\ m.timeout # 0 /\ k' = BlockCurrent(Inherit(k, m.q), Waiters(m.q), m.timeout)
             /\ handles' = handles
    <3>1. k.state[c] \in OnReadyList
      BY <1>1, <2>2, CallerFacts
    <3> QED BY <1>1, <1>2, <1>4, <2>2, <3>1 DEF WaitsForOne
  <2> QED BY <1>4, <2>1, <2>2 DEF TryTake, Continue
<1> QED BY <1>1, <1>3, <1>4

LEMMA StepKinds ==
  ASSUME MutexInv, OneAtATime, NEW c \in Tasks, MutexStep(c)
  PROVE  /\ handles' = handles /\ c \in handles /\ k.current = c
         /\ Minor \/ AcquiresOne(c) \/ WaitsForOne(c) \/ GivesOne(c)
<1>1. k \in Kernel
  BY MutexFacts
<1>2. PICK b \in {"run", "take", "count", "wait", "give", "woken"} : At(c, b)
  BY DEF MutexStep, MutexTake, MutexTakeRecursive, MutexTakeInner, MutexTakeCount, MutexTimeout,
     MutexWoken, MutexGive, MutexGiveRecursive, MutexGiveInner, MutexGiven
<1>3. c \in handles /\ k.current = c /\ TaskOK(c)
  BY <1>2, CallerFacts DEF Running
<1>4. CASE MutexTake(c)
  <2>1. At(c, "run") /\ "run" \in {"run", "take"}
    BY <1>4 DEF MutexTake
  <2>2. PICK m \in TakeCalls(c) : ~IsRecursive(m.q) /\ TryTake(c, m)
    BY <1>4 DEF MutexTake
  <2>3. m \in Takes /\ \A p \in Queues : owns[c][p] = 0
    BY <2>1, <2>2, TakerHasNone
  <2>4. m.timeout # 0 => k.sched_lock = 0
    BY <2>2 DEF TakeCalls
  <2> QED BY <1>3, <2>1, <2>2, <2>3, <2>4, TryTakeKinds
<1>5. CASE MutexTakeInner(c)
  <2>1. At(c, "take") /\ "take" \in {"run", "take"} /\ TryTake(c, call[c]) /\ pc[c] = "take"
    BY <1>5 DEF MutexTakeInner, At
  <2>2. call[c] \in Takes /\ \A p \in Queues : owns[c][p] = 0
    BY <1>3, <2>1 DEF TaskOK, CallOK, InCall, Inner
  <2>3. call[c].timeout # 0 => k.sched_lock = 0
    BY <1>3, <2>1, MutexFacts, TypeFacts DEF LockTakes
  <2> QED BY <1>3, <2>1, <2>2, <2>3, TryTakeKinds
<1>6. CASE MutexGive(c)
  <2>1. \E q \in Queues : k.mutex_holder[q] = c /\ k' = Give(k, q) /\ handles' = handles
    BY <1>6 DEF MutexGive, Holds, GiveNow
  <2> QED BY <1>3, <2>1 DEF GivesOne
<1>7. CASE MutexGiveInner(c)
  <2>1. pc[c] = "give" /\ k' = Give(k, call[c].q) /\ handles' = handles
    BY <1>7 DEF MutexGiveInner, GiveNow, At
  <2>2. call[c].q \in Queues /\ k.mutex_holder[call[c].q] = c
    BY <1>3, <2>1 DEF TaskOK, CallOK, InCall, Inner, Takes
  <2> QED BY <1>3, <2>1, <2>2 DEF GivesOne
<1>8. ASSUME \/ k' = k \/ \E f : k' = [k EXCEPT !.recursive_count = f]
             \/ \E f : k' = [k EXCEPT !.wakeup_reason = f]
      PROVE  Minor
  <2>1. CASE k' = k
    BY <2>1 DEF Minor, SameEvents
  <2>2. CASE \E f : k' = [k EXCEPT !.recursive_count = f]
    BY <1>1, <2>2 DEF Minor, SameEvents, Kernel
  <2>3. CASE \E f : k' = [k EXCEPT !.wakeup_reason = f]
    BY <1>1, <2>3 DEF Minor, SameEvents, Kernel
  <2> QED BY <1>8, <2>1, <2>2, <2>3
<1>9. CASE MutexTakeRecursive(c)
  <2>1. PICK m : /\ handles' = handles
                 /\ k' = k \/ k' = [k EXCEPT !.recursive_count[m.q] = @ + 1]
    BY <1>9 DEF MutexTakeRecursive, Continue
  <2> QED BY <1>3, <1>8, <2>1
<1>10. CASE MutexGiveRecursive(c)
  <2>1. PICK q : handles' = handles /\ k' = [k EXCEPT !.recursive_count[q] = @ - 1]
    BY <1>10 DEF MutexGiveRecursive, Continue
  <2> QED BY <1>3, <1>8, <2>1
<1>11. CASE MutexTakeCount(c)
  <2>1. handles' = handles /\ k' = [k EXCEPT !.recursive_count[call[c].q] = 1]
    BY <1>11 DEF MutexTakeCount, Continue
  <2> QED BY <1>3, <1>8, <2>1
<1>12. CASE MutexTimeout(c) \/ MutexWoken(c)
  <2>1. handles' = handles /\ k' = [k EXCEPT !.wakeup_reason[c] = 0]
    BY <1>12 DEF MutexTimeout, MutexWoken, Continue
  <2> QED BY <1>3, <1>8, <2>1
<1>13. CASE MutexGiven(c)
  <2>1. handles' = handles /\ k' = k
    BY <1>13 DEF MutexGiven
  <2> QED BY <1>3, <1>8, <2>1
<1> QED BY <1>4, <1>5, <1>6, <1>7, <1>9, <1>10, <1>11, <1>12, <1>13 DEF MutexStep

\* A take of a free mutex, and a give.
LEMMA CalmSteps ==
  ASSUME MutexInv, NEW c \in handles, k.current = c, Minor \/ AcquiresOne(c) \/ GivesOne(c)
  PROVE  Calm(k, k', handles)
<1>1. /\ k \in Kernel /\ KernelInv(k, handles) /\ KernelCore(k, handles) /\ c \in Threads
      /\ \A q \in Queues : ObjectOK(q)
  BY MutexFacts
<1>2. CASE Minor
  <2>1. Sheds(k, k') /\ \A u \in handles : k'.priority[u] = k.priority[u]
    BY <1>2, SameSheds DEF Minor
  <2> QED BY <1>2, <2>1, SteadyCalm DEF Minor
<1>3. CASE AcquiresOne(c)
  <2>1. PICK q \in Queues : k.messages_waiting[q] > 0 /\ k' = Acquire(k, q)
    BY <1>3 DEF AcquiresOne
  <2>2. k.held_queue[c] = NoQueue /\ k.mutex_holder[q] = NoTask
    BY <1>1, <1>3, <2>1 DEF AcquiresOne, ObjectOK
  <2>3. /\ SameCore(k, k') /\ k'.mutex_holder = With(k.mutex_holder, q, c)
        /\ k'.held_queue = With(k.held_queue, c, q)
        /\ k'.original_priority = With(k.original_priority, q, NotBoosted)
    BY <1>1, <2>1, AcquireFields
  <2>4. SameEvents(k, k') /\ k'.priority = k.priority
    BY <2>3 DEF SameCore, SameLists, SameQueued
  <2> QED BY <2>2, <2>3, <2>4, AcquireCalm
<1>4. CASE GivesOne(c)
  <2>1. PICK q \in Queues : k.mutex_holder[q] = c /\ k' = Give(k, q)
    BY <1>4 DEF GivesOne
  <2>2. k.held_queue[c] = q /\ c \notin Waiting(k)
    BY <1>1, <2>1, MutexFacts, HolderAwake DEF TaskOK, HoldOK
  <2>3. Releases(k, k', c, q)
    BY <1>1, <2>1, <2>2, GiveGives DEF Gives
  <2>4. /\ Sheds(k, k') /\ k'.priority = With(k.priority, c, Own(k, c))
        /\ k'.original_priority = With(k.original_priority, q, NotBoosted)
    BY <1>1, <2>1, <2>2, GivePrices
  <2>5. k'.priority[c] = Own(k, c) /\ \A u \in Threads \ {c} : k'.priority[u] = k.priority[u]
    BY <1>1, <2>4 DEF With, Kernel
  <2>6. handles \in SUBSET handles
    OBVIOUS
  <2> QED BY <1>1, <2>1, <2>3, <2>4, <2>5, <2>6, ReleaseCalm
<1> QED BY <1>2, <1>3, <1>4

\* A take that waits: the holder becomes as urgent as the caller, which takes its place
\* in the event list.
LEMMA WaitStep ==
  ASSUME MutexInv, NEW c \in handles, k.current = c, WaitsForOne(c)
  PROVE  Keeps(k, k', handles) /\ (Ranked(k) => Ranked(k'))
<1>1. /\ k \in Kernel /\ KernelInv(k, handles) /\ KernelCore(k, handles) /\ ListsOK(k)
      /\ c \in Threads /\ handles \subseteq Threads
      /\ \A q \in Queues : ObjectOK(q)
      /\ \A u \in Threads : k.priority[u] \in Nat
  BY MutexFacts, NaturalPriorities
<1>2. PICK q \in Queues, n \in Nat \cup {Forever} :
        k.messages_waiting[q] = 0 /\ k' = BlockCurrent(Inherit(k, q), Waiters(q), n)
  BY DEF WaitsForOne
<1> DEFINE h == k.mutex_holder[q]
           e == Waiters(q)
<1>3. h \in Threads /\ h \in handles /\ TaskOK(h) /\ k.held_queue[h] = q /\ h \notin Waiting(k)
  <2>1. h # NoTask /\ h \in Threads
    BY <1>1, <1>2 DEF ObjectOK, Kernel
  <2>2. TaskOK(h)
    BY <2>1, MutexFacts
  <2>3. h \notin Waiting(k)
    BY <2>1, <2>2, MutexFacts, HolderAwake
  <2> QED BY <2>1, <2>2, <2>3 DEF TaskOK, HoldOK
<1>4. h # c /\ k.state[c] \in OnReadyList /\ c \notin Waiting(k) /\ c \notin Delayed(k)
  <2>1. k.held_queue[c] = NoQueue /\ k.state[c] \in OnReadyList
    BY DEF WaitsForOne
  <2>2. k.state[c] # "BLOCKED"
    BY <2>1 DEF OnReadyList
  <2>3. c \notin Waiting(k) /\ c \notin Delayed(k)
    BY <1>1, <2>2 DEF KernelCore
  <2> QED BY <1>3, <2>1, <2>3, QueueAssumption
<1>5. e \in EventLists /\ e # NoList
  BY WaiterQueues
<1> HIDE DEF h
<1>6. k.mutex_holder[q] = h
  BY DEF h
<1>7. PICK m : /\ m = Inherit(k, q) /\ KernelInv(m, handles) /\ SameBase(k, m)
               /\ SameHolders(k, m) /\ SameWaits(k, m)
  BY <1>1, <1>3, <1>6, InheritReprices
<1>8. /\ \A t \in Threads \ {h} : m.priority[t] = k.priority[t]
      /\ m.priority[h] >= k.priority[h] /\ m.priority[h] >= k.priority[c]
      /\ \A p \in Queues \ {q} : m.original_priority[p] = k.original_priority[p]
      /\ m.held_queue = k.held_queue /\ Own(m, h) = Own(k, h)
  BY <1>1, <1>3, <1>6, <1>7, InheritPrices
<1>9. k' = BlockCurrent(m, e, n)
  BY <1>2, <1>7
<1> HIDE DEF e
<1>10. /\ m.current = c /\ m.state[c] # "BLOCKED" /\ m \in Kernel /\ ListsOK(m)
  <2>1. KernelCore(m, handles) /\ m.current = c
    BY <1>7 DEF KernelInv, SameBase
  <2>2. c \notin Delayed(m) \cup Waiting(m)
    BY <1>4, <1>7 DEF SameWaits, SameEvents, Waiting
  <2> QED BY <2>1, <2>2, CoreFacts DEF KernelCore
<1>11. /\ KernelInv(k', handles) /\ Blocks(m, k', c, e, n) /\ k'.priority = m.priority
       /\ k'.event_list = With(m.event_list, c, e)
       /\ k'.waiting = With(m.waiting, e, InsertBefore(m.waiting[e], c, EventPlace(m, e, c)))
  <2>1. /\ KernelInv(m, handles) /\ m.current \in handles /\ m.state[m.current] # "BLOCKED"
        /\ e \in EventLists /\ n \in Nat \cup {Forever}
    BY <1>2, <1>5, <1>7, <1>10
  <2> DEFINE r == BlockCurrent(m, e, n)
  <2>2. /\ KernelInv(r, handles) /\ Blocks(m, r, m.current, e, n) /\ r.priority = m.priority
        /\ r.event_list = With(m.event_list, m.current, e)
        /\ r.waiting = With(m.waiting, e,
                            InsertBefore(m.waiting[e], m.current, EventPlace(m, e, m.current)))
    BY <2>1, BlockCurrentInv
  <2> HIDE DEF r
  <2>3. k' = r
    BY <1>9 DEF r
  <2> QED BY <1>10, <2>2, <2>3
<1>12. SameObjects(m, k')
  BY <1>11 DEF Blocks, Effect
<1>13. Keeps(k, k', handles)
  <2>1. ASSUME NEW u \in handles PROVE Own(m, u) = Own(k, u)
    <3>1. CASE u = h
      BY <1>8, <3>1
    <3>2. CASE u # h
      <4>1. u \in Threads /\ TaskOK(u) /\ k.held_queue[u] \in Queues \cup {NoQueue}
        BY <1>1, MutexFacts DEF Kernel
      <4>2. k.held_queue[u] # q
        BY <1>6, <3>2, <4>1 DEF TaskOK, HoldOK
      <4>3. m.held_queue[u] = k.held_queue[u] /\ m.priority[u] = k.priority[u]
        BY <1>8, <3>2, <4>1
      <4> QED BY <1>8, <4>1, <4>2, <4>3, SameOwn
    <3> QED BY <3>1, <3>2
  <2>2. ASSUME NEW u \in handles PROVE Own(k', u) = Own(m, u)
    BY <1>11, <1>12, SameOwn DEF SameObjects
  <2> QED BY <2>1, <2>2 DEF Keeps
<1>14. ASSUME Ranked(k) PROVE Ranked(m)
  <2>1. Sheds(k, m)
    BY <1>7, SameSheds DEF SameWaits
  <2>2. \A u \in handles : m.priority[u] >= k.priority[u]
    BY <1>1, <1>8
  <2>3. Heirs(k, m)
    BY <1>7, <2>1, <2>2, SteadyHeirs DEF SameHolders
  <2>4. SamePlaces(k, m)
    BY <1>3, <1>7, <1>8 DEF SamePlaces, SameWaits, SameEvents, Waiting
  <2> QED BY <1>1, <1>10, <1>14, <2>1, <2>3, <2>4, RankedKept
<1>15. ASSUME Ranked(m) PROVE Ranked(k')
  <2>1. m.event_list \in [Threads -> EventLists \cup {NoList}] /\ DOMAIN m.waiting = EventLists
    BY <1>10 DEF Kernel
  <2>2. ASSUME NEW f \in EventLists PROVE Ordered(k'.waiting[f], Ranks(k'))
    <3>1. Ranks(k') = Ranks(m)
      BY <1>11 DEF Ranks
    <3>2. CASE f = e
      <4>1. Ordered(m.waiting[e], Ranks(m))
        BY <1>5, <1>15 DEF Ranked, SortedLists
      <4>2. Ordered(InsertBefore(m.waiting[e], c, EventPlace(m, e, c)), Ranks(m))
        BY <1>1, <1>5, <1>10, <4>1, PlaceOrdered
      <4>3. k'.waiting[e] = InsertBefore(m.waiting[e], c, EventPlace(m, e, c))
        BY <1>5, <1>11, <2>1 DEF With
      <4> QED BY <3>1, <3>2, <4>2, <4>3
    <3>3. CASE f # e
      <4>1. k'.waiting[f] = m.waiting[f]
        BY <1>11, <2>1, <3>3 DEF With
      <4> QED BY <1>15, <3>1, <4>1 DEF Ranked, SortedLists
    <3> QED BY <3>2, <3>3
  <2>3. ASSUME NEW p \in Queues, NEW t \in Threads, k'.event_list[t] = Waiters(p)
        PROVE  k'.priority[k'.mutex_holder[p]] >= k'.priority[t]
    <3>1. k'.mutex_holder[p] = m.mutex_holder[p]
      BY <1>12 DEF SameObjects
    <3>2. CASE t = c
      <4>1. Waiters(p) = e
        BY <1>1, <1>11, <2>1, <2>3, <3>2 DEF With
      <4>2. p = q
        BY <4>1, WaiterQueues DEF e
      <4>3. m.mutex_holder[q] = h /\ m.priority[h] >= m.priority[c]
        BY <1>1, <1>4, <1>6, <1>7, <1>8 DEF SameHolders
      <4> QED BY <1>11, <3>1, <3>2, <4>2, <4>3
    <3>3. CASE t # c
      <4>1. m.event_list[t] = Waiters(p)
        BY <1>11, <2>1, <2>3, <3>3 DEF With
      <4> QED BY <1>11, <1>15, <3>1, <4>1 DEF Ranked, Outranks
    <3> QED BY <3>2, <3>3
  <2> QED BY <2>2, <2>3 DEF Ranked, SortedLists, Outranks
<1> QED BY <1>13, <1>14, <1>15

-----------------------------------------------------------------------------
\* The priorities in every state

LEMMA PricesStep ==
  ASSUME MutexInv, MutexInv', YieldsReady, OneAtATime, "set_priority" \notin Calls,
         [MutexNext]_mutexVars
  PROVE  Keeps(k, k', handles \cap handles') /\ (Ranked(k) => Ranked(k'))
<1>1. ListsOK(k) /\ ListsOK(k')
  <2>1. KernelInv(k', handles')
    BY DEF MutexInv, IInv
  <2> QED BY <2>1, MutexFacts DEF KernelInv, KernelCore
<1>2. ASSUME NEW G, Calm(k, k', G) PROVE Keeps(k, k', G) /\ (Ranked(k) => Ranked(k'))
  BY <1>1, <1>2, RankedKept DEF Calm
<1>3. CASE TaskStep \/ UNCHANGED mutexVars
  <2>1. [Next]_vars
    BY <1>3 DEF TaskStep, mutexVars
  <2>2. Calm(k, k', handles \cap handles')
    BY <2>1, TaskStepCalm
  <2> QED BY <1>2, <2>2
<1>4. ASSUME NEW c \in Tasks, MutexStep(c)
      PROVE  Keeps(k, k', handles \cap handles') /\ (Ranked(k) => Ranked(k'))
  <2>1. /\ handles' = handles /\ c \in handles /\ k.current = c
        /\ Minor \/ AcquiresOne(c) \/ WaitsForOne(c) \/ GivesOne(c)
    BY <1>4, StepKinds
  <2>2. Keeps(k, k', handles) /\ (Ranked(k) => Ranked(k'))
    <3>1. CASE Minor \/ AcquiresOne(c) \/ GivesOne(c)
      <4>1. Calm(k, k', handles)
        BY <2>1, <3>1, CalmSteps
      <4> QED BY <1>2, <4>1
    <3>2. CASE WaitsForOne(c)
      BY <2>1, <3>2, WaitStep
    <3> QED BY <2>1, <3>1, <3>2
  <2> QED BY <2>1, <2>2
<1> QED BY <1>3, <1>4 DEF MutexNext

LEMMA RankedInit ==
  ASSUME MutexInit
  PROVE  Ranked(k)
<1>1. k = InitKernel
  BY DEF MutexInit, Init
<1>2. /\ \A e \in EventLists : k.waiting[e] = <<>>
      /\ \A t \in Threads : k.event_list[t] = NoList
  BY <1>1 DEF InitKernel
<1>3. SortedLists(k)
  BY <1>2 DEF SortedLists, Ordered
<1>4. Outranks(k)
  BY <1>2, WaiterQueues DEF Outranks
<1> QED BY <1>3, <1>4 DEF Ranked

\* Priority inheritance: the holder of a mutex is never less urgent than a task that
\* waits for it, through hand-over, timeouts, restored priorities and the deletion of
\* waiters and holders (mutex.c), unless the application changes priorities itself.
THEOREM PriorityInherited ==
  YieldsReady /\ OneAtATime /\ "set_priority" \notin Calls /\ MutexSpec
    => []HolderOutranksWaiters
<1> SUFFICES ASSUME YieldsReady, OneAtATime, "set_priority" \notin Calls
             PROVE  MutexSpec => []HolderOutranksWaiters
  OBVIOUS
<1>1. MutexInit => MutexInv /\ Ranked(k)
  BY MutexInitInv, RankedInit
<1>2. MutexInv /\ Ranked(k) /\ [MutexNext]_mutexVars => MutexInv' /\ Ranked(k)'
  <2> SUFFICES ASSUME MutexInv, Ranked(k), [MutexNext]_mutexVars PROVE MutexInv' /\ Ranked(k')
    BY DEF Ranked, SortedLists, Outranks, Ranks
  <2>1. MutexInv'
    BY MutexNextInv
  <2> QED BY <2>1, PricesStep
<1>3. MutexInv /\ Ranked(k) => HolderOutranksWaiters
  <2> SUFFICES ASSUME MutexInv, Ranked(k), NEW q \in Queues, NEW t \in ToSet(k.waiting[Waiters(q)])
               PROVE  k.priority[t] <= k.priority[k.mutex_holder[q]]
    BY DEF HolderOutranksWaiters
  <2>1. /\ ListsOK(k) /\ Waiters(q) \in EventLists
        /\ \A u \in Threads : k.priority[u] \in Nat
    BY MutexFacts, WaiterQueues DEF Kernel, Prio
  <2>2. k.waiting[Waiters(q)] \in Seq(Threads)
    BY <2>1 DEF ListsOK, Kernel
  <2>3. t \in Threads
    BY <2>2 DEF ToSet
  <2>4. k.event_list[t] = Waiters(q)
    BY <2>1, <2>3 DEF ListsOK, EventsOK
  <2>5. k.mutex_holder[q] \in Threads /\ k.priority[k.mutex_holder[q]] >= k.priority[t]
    BY <2>3, <2>4, WaitersHolder DEF Ranked, Outranks
  <2> QED BY <2>1, <2>3, <2>5
<1> QED BY <1>1, <1>2, <1>3, PTL DEF MutexSpec

\* Without rtos_task_create nobody is about to publish a task.
Settled ==
  /\ \A c \in Threads : pc[c] # "create"
  /\ \A t \in handles : Own(k, t) = BootPrio(t)

LEMMA NobodyCreates ==
  ASSUME MutexInv, "create" \notin Calls, \A c \in Threads : pc[c] # "create",
         [MutexNext]_mutexVars
  PROVE  handles' \subseteq handles /\ \A c \in Threads : pc'[c] # "create"
<1>1. /\ pc \in [Threads -> AllLabels] /\ Idle \in Threads /\ \A t \in Tasks : t \in Threads
      /\ \A c \in Tasks : ret[c] \in {"run", "dead", "wait"}
  BY MutexFacts, TypeFacts DEF IInv, ThreadInv, LocalsInv
<1>2. ASSUME NEW c \in Threads, NEW l, l # "create", pc' = [pc EXCEPT ![c] = l]
      PROVE  \A u \in Threads : pc'[u] # "create"
  BY <1>1, <1>2
<1>3. ASSUME NEW c \in Tasks, MutexStep(c)
      PROVE  handles' \subseteq handles /\ \A u \in Threads : pc'[u] # "create"
  <2>1. handles' = handles /\ \E l : l # "create" /\ pc' = [pc EXCEPT ![c] = l]
    <3>1. CASE MutexTake(c) \/ MutexTakeInner(c)
      <4>1. PICK m : TryTake(c, m)
        BY <3>1 DEF MutexTake, MutexTakeInner
      <4> QED BY <4>1 DEF TryTake, Continue, CallSched
    <3>2. CASE MutexTakeRecursive(c) \/ MutexTakeCount(c) \/ MutexTimeout(c) \/ MutexWoken(c)
               \/ MutexGiveRecursive(c)
      BY <3>2 DEF MutexTakeRecursive, MutexTakeCount, MutexTimeout, MutexWoken,
                  MutexGiveRecursive, Continue
    <3>3. CASE MutexGive(c) \/ MutexGiveInner(c)
      <4>1. PICK q : GiveNow(c, q)
        BY <3>3 DEF MutexGive, MutexGiveInner
      <4>2. \E l \in {"run", "woken"} : pc' = [pc EXCEPT ![c] = l]
        BY <4>1 DEF GiveNow
      <4>3. handles' = handles
        BY <4>1 DEF GiveNow
      <4> QED BY <4>2, <4>3
    <3>4. CASE MutexGiven(c)
      <4>1. \E l \in {"sched", "run"} : pc' = [pc EXCEPT ![c] = l]
        BY <3>4 DEF MutexGiven
      <4>2. handles' = handles
        BY <3>4 DEF MutexGiven
      <4> QED BY <4>1, <4>2
    <3> QED BY <1>3, <3>1, <3>2, <3>3, <3>4 DEF MutexStep
  <2> QED BY <1>1, <1>2, <2>1
<1>4. ASSUME NEW c \in Tasks, Thread(c)
      PROVE  handles' \subseteq handles /\ \A u \in Threads : pc'[u] # "create"
  <2>1. CASE TaskCreate(c) \/ TaskCreateReady(c)
    BY <1>1, <2>1 DEF TaskCreate, TaskCreateReady, Calling, At
  <2>2. CASE RtosSched(c) \/ RtosRequestSwitch(c)
    <3>1. handles' = handles /\ \E l \in {ret[c], "pend"} : pc' = [pc EXCEPT ![c] = l]
      BY <2>2 DEF RtosSched, RtosRequestSwitch, GoTo
    <3> QED BY <1>1, <1>2, <3>1
  <2>3. CASE TaskDeleteOther(c)
    <3>1. \E t \in handles : handles' = handles \ {t} /\ pc' = [pc EXCEPT ![t] = "dead"]
      BY <2>3 DEF TaskDeleteOther
    <3> QED BY <1>2, <3>1, MutexFacts
  <2>4. CASE TaskYield(c) \/ TaskDelay(c) \/ TaskAbortDelay(c) \/ TaskSetPriority(c)
             \/ TaskDeleteSelf(c) \/ TaskDelayUntilSleep(c)
    <3>1. handles' \subseteq handles /\ pc' = [pc EXCEPT ![c] = "sched"]
      BY <2>4 DEF TaskYield, TaskDelay, TaskAbortDelay, TaskSetPriority, TaskDeleteSelf,
                  TaskDelayUntilSleep, CallSched
    <3> QED BY <1>1, <1>2, <3>1
  <2>5. CASE TaskSuspend(c) \/ TaskResume(c) \/ RtosSchedLock(c) \/ RtosSchedUnlock(c)
    <3>1. handles' = handles /\ (pc' = pc \/ pc' = [pc EXCEPT ![c] = "sched"])
      BY <2>5 DEF TaskSuspend, TaskResume, RtosSchedLock, RtosSchedUnlock, SchedIf, CallSched,
                  Return, threadVars
    <3> QED BY <1>1, <1>2, <3>1
  <2>6. CASE TaskDelayUntil(c) \/ TaskCreateReturn(c)
    <3>1. /\ handles' = handles
          /\ \E l \in {"until", "sched", "run"} : pc' = [pc EXCEPT ![c] = l]
      <4>1. CASE TaskDelayUntil(c)
        BY <4>1 DEF TaskDelayUntil
      <4>2. CASE TaskCreateReturn(c)
        <5>1. pc' = [pc EXCEPT ![c] = "sched"] \/ pc' = [pc EXCEPT ![c] = "run"]
          BY <4>2 DEF TaskCreateReturn
        <5> QED BY <4>2, <5>1 DEF TaskCreateReturn
      <4> QED BY <2>6, <4>1, <4>2
    <3> QED BY <1>1, <1>2, <3>1
  <2> QED BY <1>4, <2>1, <2>2, <2>3, <2>4, <2>5, <2>6 DEF Thread
<1>5. CASE Handler \/ UNCHANGED vars
  BY <1>5 DEF Handler, PendSV, SysTick, SysTickWake, SysTickEnd, threadVars, vars
<1>6. CASE IdleThread
  BY <1>1, <1>6 DEF IdleThread, IdleReclaim, IdleFree
<1>7. [Next]_vars \/ \E c \in Tasks : MutexStep(c)
  BY DEF MutexNext, TaskStep, mutexVars
<1> QED BY <1>3, <1>4, <1>5, <1>6, <1>7 DEF Next

LEMMA SettledInit ==
  ASSUME MutexInit
  PROVE  Settled
<1>1. k = InitKernel /\ InitThreads
  BY DEF MutexInit, Init
<1>2. /\ \A t \in Threads : k.held_queue[t] = NoQueue /\ k.priority[t] = BootPrio(t)
      /\ \A t \in Threads : pc[t] = "run"
  BY <1>1 DEF InitKernel, InitThreads
<1>3. handles \subseteq Threads
  BY MutexInitInv, MutexFacts
<1> QED BY <1>2, <1>3 DEF Settled, Own

\* A task that holds no mutex has the priority it was created with: a boost ends with the
\* give of the mutex, also when the task that caused it has timed out or been deleted by
\* then (mutex.c), unless the application creates tasks or changes priorities itself.
THEOREM PriorityGivenBack ==
  YieldsReady /\ OneAtATime /\ "set_priority" \notin Calls /\ "create" \notin Calls /\ MutexSpec
    => []PriorityRestored
<1> SUFFICES ASSUME YieldsReady, OneAtATime, "set_priority" \notin Calls, "create" \notin Calls
             PROVE  MutexSpec => []PriorityRestored
  OBVIOUS
<1>1. MutexInit => MutexInv /\ Settled
  BY MutexInitInv, SettledInit
<1>2. MutexInv /\ Settled /\ [MutexNext]_mutexVars => MutexInv' /\ Settled'
  <2> SUFFICES ASSUME MutexInv, Settled, [MutexNext]_mutexVars PROVE MutexInv' /\ Settled'
    OBVIOUS
  <2>1. MutexInv'
    BY MutexNextInv
  <2>2. handles' \subseteq handles /\ \A c \in Threads : pc'[c] # "create"
    BY NobodyCreates DEF Settled
  <2>3. Keeps(k, k', handles \cap handles')
    BY <2>1, PricesStep
  <2>4. \A t \in handles' : Own(k', t) = BootPrio(t)
    BY <2>2, <2>3 DEF Keeps, Settled
  <2> QED BY <2>1, <2>2, <2>4 DEF Settled, Own
<1>3. MutexInv /\ Settled => PriorityRestored
  <2> SUFFICES ASSUME MutexInv, Settled, NEW t \in handles,
                      \A q \in Queues : k.mutex_holder[q] # t
               PROVE  k.priority[t] = BootPrio(t)
    BY DEF PriorityRestored
  <2>1. TaskOK(t) /\ k.held_queue[t] \in Queues \cup {NoQueue}
    BY MutexFacts DEF Kernel
  <2>2. k.held_queue[t] = NoQueue
    BY <2>1 DEF TaskOK, HoldOK
  <2> QED BY <2>2 DEF Settled, Own
<1> QED BY <1>1, <1>2, <1>3, PTL DEF MutexSpec
=============================================================================
