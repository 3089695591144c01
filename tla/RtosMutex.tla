------------------------------- MODULE RtosMutex -------------------------------
(***************************************************************************)
(* Mutexes with priority inheritance (mutex.c) between the tasks of        *)
(* RtosTask: a mutex is a queue of one place without data, which is passed *)
(* from the task that gives it to the first one waiting.                   *)
(***************************************************************************)
EXTENDS RtosTask

CONSTANTS
  MutexTimeouts,  \* the timeouts the application passes to the takes
  MaxDepth,       \* bound: how deep it nests the takes of a recursive mutex
  MayHaveTwo      \* whether it takes a mutex while it has another

ASSUME MutexAssumption ==
  /\ \A q \in Queues : IsMutex(q)
  /\ MutexTimeouts \subseteq Nat \cup {Forever}
  /\ \A n \in MutexTimeouts : n < TickMod \div 2
  /\ MaxDepth \in Nat \ {0}
  /\ MayHaveTwo \in BOOLEAN

VARIABLES
  call,   \* the arguments of the take that a thread is in
  owns    \* how often a thread has taken a mutex and not given it back

mutexVars == <<vars, call, owns>>

NoCall    == [q |-> NoQueue]
Waiters(q) == <<q, "receive">>

-----------------------------------------------------------------------------
\* The critical sections of mutex.c

Acquire(s, q) ==
  [s EXCEPT !.messages_waiting[q] = 0, !.mutex_holder[q] = s.current,
            !.original_priority[q] = NotBoosted, !.held_queue[s.current] = q]

\* The priority that the holder goes back to.
RestoreTo(s, q) ==
  IF s.original_priority[q] = NotBoosted
  THEN s.priority[s.mutex_holder[q]]
  ELSE s.original_priority[q]

\* Mutant: the copy of original_priority is not put back.
InheritUnsaved(s, q) ==
  LET h    == s.mutex_holder[q]
      mine == s.priority[s.current]
      mark == [s EXCEPT !.original_priority[q] = RestoreTo(s, q)]
  IN  IF h # NoTask /\ mine > s.priority[h] THEN Sched(SetPriority(mark, h, mine)) ELSE s

\* Mutant: a holder that was boosted before is not boosted further.
InheritOnce(s, q) ==
  LET h    == s.mutex_holder[q]
      mine == s.priority[s.current]
      mark == [s EXCEPT !.original_priority[q] = RestoreTo(s, q)]
  IN  IF h # NoTask /\ mine > s.priority[h] /\ s.original_priority[q] = NotBoosted
      THEN [Sched(SetPriority(mark, h, mine)) EXCEPT !.original_priority[q] = RestoreTo(s, q)]
      ELSE s

\* The holder inherits the priority of a waiter; rtos_task_set_priority calls
\* rtos_sched, within the critical section of the take.
Inherit(s, q) ==
  LET h    == s.mutex_holder[q]
      mine == s.priority[s.current]
      mark == [s EXCEPT !.original_priority[q] = RestoreTo(s, q)]
  IN  IF h # NoTask /\ mine > s.priority[h]
      THEN [Sched(SetPriority(mark, h, mine)) EXCEPT !.original_priority[q] = RestoreTo(s, q)]
      ELSE s

Restore(s, q) ==
  IF s.original_priority[q] # NotBoosted
  THEN [Sched(SetPriority(s, s.current, s.original_priority[q])) EXCEPT
          !.original_priority[q] = NotBoosted]
  ELSE s

\* Mutant: the mutex that is passed on is made available too.
GiveAndFree(s, q) ==
  LET heir == FirstWaiting(s, Waiters(q))
      free == [WakeHighest(Restore(s, q), Waiters(q)) EXCEPT
                 !.held_queue[s.current] = NoQueue, !.messages_waiting[q] = 1]
  IN  IF heir = NoTask
      THEN [free EXCEPT !.mutex_holder[q] = NoTask]
      ELSE [free EXCEPT !.mutex_holder[q] = heir, !.original_priority[q] = NotBoosted,
                        !.held_queue[heir] = q]

Give(s, q) ==
  LET heir == FirstWaiting(s, Waiters(q))
      free == [WakeHighest(Restore(s, q), Waiters(q)) EXCEPT !.held_queue[s.current] = NoQueue]
  IN  IF heir = NoTask
      THEN [free EXCEPT !.messages_waiting[q] = 1, !.mutex_holder[q] = NoTask]
      ELSE [free EXCEPT !.mutex_holder[q] = heir, !.original_priority[q] = NotBoosted,
                        !.held_queue[heir] = q]

-----------------------------------------------------------------------------
\* Calls

\* c goes on at label, within mutex.c or in the application.
Continue(c, label) ==
  /\ pc'  = [pc EXCEPT ![c] = label]
  /\ ret' = [ret EXCEPT ![c] = "run"]
  /\ UNCHANGED <<arg, isr, handles>>

\* A take succeeds; that of a recursive mutex sets its count in another section.
Taken(c, q) ==
  /\ owns' = [owns EXCEPT ![c][q] = @ + 1]
  /\ call' = [call EXCEPT ![c] = NoCall]

IsRecursive(q) == QueueType[q] = "RECURSIVE"

\* Mutant: a mutex that nobody holds may be given.
HoldsOrFree(c, q) == k.mutex_holder[q] \in {c, NoTask}

Holds(c, q) == k.mutex_holder[q] = c

\* rtos_mutex_take up to its wait.
TryTake(c, m) ==
  IF k.messages_waiting[m.q] > 0
  THEN /\ k' = Acquire(k, m.q)
       /\ IF IsRecursive(m.q)
          THEN /\ call' = [call EXCEPT ![c] = m] /\ Continue(c, "count") /\ UNCHANGED owns
          ELSE Taken(c, m.q) /\ Continue(c, "run")
  ELSE \/ /\ m.timeout = 0
          /\ call' = [call EXCEPT ![c] = NoCall]
          /\ Continue(c, "run")
          /\ UNCHANGED <<k, owns>>
       \/ /\ m.timeout # 0
          /\ k' = BlockCurrent(Inherit(k, m.q), Waiters(m.q), m.timeout)
          /\ call' = [call EXCEPT ![c] = m]
          /\ CallSched(c, "wait")
          /\ UNCHANGED <<handles, owns>>

\* The application takes a plain mutex only if it does not have it, and waits only
\* without the scheduler lock.
TakeCalls(c) ==
  {m \in [q: Queues, timeout: MutexTimeouts \cup {0}] :
     /\ m.timeout # 0 => k.sched_lock = 0
     /\ MayHaveTwo \/ \A q \in Queues \ {m.q} : owns[c][q] = 0
     /\ owns[c][m.q] < IF IsRecursive(m.q) THEN MaxDepth ELSE 1}

MutexTake(c) ==
  /\ c # Idle /\ At(c, "run")
  /\ \E m \in TakeCalls(c) : ~IsRecursive(m.q) /\ TryTake(c, m)

\* rtos_mutex_take_recursive: nests, or goes on to rtos_mutex_take ...
MutexTakeRecursive(c) ==
  /\ c # Idle /\ At(c, "run")
  /\ \E m \in TakeCalls(c) :
       /\ IsRecursive(m.q)
       /\ IF Holds(c, m.q)
          THEN /\ k' = [k EXCEPT !.recursive_count[m.q] = @ + 1]
               /\ Taken(c, m.q)
               /\ Continue(c, "run")
          ELSE /\ call' = [call EXCEPT ![c] = m]
               /\ Continue(c, "take")
               /\ UNCHANGED <<k, owns>>

MutexTakeInner(c) == At(c, "take") /\ TryTake(c, call[c])

\* ... and then starts to count.
MutexTakeCount(c) ==
  /\ At(c, "count")
  /\ k' = [k EXCEPT !.recursive_count[call[c].q] = 1]
  /\ Taken(c, call[c].q)
  /\ Continue(c, "run")

\* After the wait; the code asserts that the caller is the holder.
MutexTimeout(c) ==
  /\ At(c, "wait") /\ k.wakeup_reason[c] = 2
  /\ k' = [k EXCEPT !.wakeup_reason[c] = 0]
  /\ call' = [call EXCEPT ![c] = NoCall]
  /\ Continue(c, "run")
  /\ UNCHANGED owns

MutexWoken(c) ==
  /\ At(c, "wait") /\ k.wakeup_reason[c] # 2 /\ Holds(c, call[c].q)
  /\ k' = [k EXCEPT !.wakeup_reason[c] = 0]
  /\ IF IsRecursive(call[c].q)
     THEN Continue(c, "count") /\ UNCHANGED <<call, owns>>
     ELSE Taken(c, call[c].q) /\ Continue(c, "run")

\* The give of a mutex, and the comparison of priorities after its section.
GiveNow(c, q) ==
  LET heir == FirstWaiting(k, Waiters(q)) IN
  /\ k' = Give(k, q)
  /\ pc'  = [pc EXCEPT ![c] = IF heir = NoTask THEN "run" ELSE "woken"]
  /\ arg' = [arg EXCEPT ![c] = IF heir = NoTask THEN 0 ELSE heir]
  /\ ret' = [ret EXCEPT ![c] = "run"]
  /\ UNCHANGED <<isr, handles>>

MutexGive(c) ==
  /\ c # Idle /\ At(c, "run")
  /\ \E q \in Queues :
       /\ ~IsRecursive(q) /\ Holds(c, q)
       /\ GiveNow(c, q)
       /\ owns' = [owns EXCEPT ![c][q] = @ - 1]
  /\ UNCHANGED call

MutexGiveRecursive(c) ==
  /\ c # Idle /\ At(c, "run")
  /\ \E q \in Queues :
       /\ IsRecursive(q) /\ Holds(c, q)
       /\ k' = [k EXCEPT !.recursive_count[q] = @ - 1]
       /\ owns' = [owns EXCEPT ![c][q] = @ - 1]
       /\ IF k.recursive_count[q] > 1
          THEN Continue(c, "run") /\ UNCHANGED call
          ELSE call' = [call EXCEPT ![c] = [q |-> q, timeout |-> 0]] /\ Continue(c, "give")

MutexGiveInner(c) ==
  /\ At(c, "give")
  /\ GiveNow(c, call[c].q)
  /\ call' = [call EXCEPT ![c] = NoCall]
  /\ UNCHANGED owns

MutexGiven(c) ==
  /\ At(c, "woken")
  /\ pc'  = [pc EXCEPT ![c] = IF k.priority[arg[c]] > k.priority[c] THEN "sched" ELSE "run"]
  /\ arg' = [arg EXCEPT ![c] = 0]
  /\ UNCHANGED <<k, isr, ret, handles, call, owns>>

-----------------------------------------------------------------------------
MutexInit ==
  /\ Init
  /\ call = [t \in Threads |-> NoCall]
  /\ owns = [t \in Threads |-> [q \in Queues |-> 0]]

\* A step of RtosTask; a task that is deleted leaves its call and its mutexes.
TaskStep ==
  /\ Next
  /\ call' = [t \in Threads |-> IF t \in handles \ handles' THEN NoCall ELSE call[t]]
  /\ owns' = [t \in Threads |-> IF t \in handles \ handles'
                                THEN [q \in Queues |-> 0] ELSE owns[t]]

MutexStep(c) ==
  \/ MutexTake(c) \/ MutexTakeRecursive(c) \/ MutexTakeInner(c) \/ MutexTakeCount(c)
  \/ MutexTimeout(c) \/ MutexWoken(c)
  \/ MutexGive(c) \/ MutexGiveRecursive(c) \/ MutexGiveInner(c) \/ MutexGiven(c)

MutexNext == TaskStep \/ \E c \in Tasks : MutexStep(c)

MutexSpec == MutexInit /\ [][MutexNext]_mutexVars

-----------------------------------------------------------------------------
\* Properties

MutexLabels == Labels \cup {"wait", "take", "count", "give", "woken"}

MutexTypeOK ==
  /\ k \in Kernel
  /\ pc \in [Threads -> MutexLabels] /\ ret \in [Threads -> MutexLabels]
  /\ call \in [Threads -> [q: Queues, timeout: MutexTimeouts \cup {0}] \cup {NoCall}]
  /\ owns \in [Threads -> [Queues -> 0 .. MaxDepth]]

\* A mutex is free or has a living holder, which will find it in held_queue when it
\* is deleted; nobody waits for a free one.
HolderConsistent ==
  /\ MutexTypeOK
  /\ \A q \in Queues : LET h == k.mutex_holder[q] IN
       /\ k.messages_waiting[q] = IF h = NoTask THEN 1 ELSE 0
       /\ k.waiting[Waiters(q)] # <<>> => h # NoTask
       /\ h # NoTask => h \in handles
       /\ \A t \in handles : k.held_queue[t] = q <=> t = h

\* Mutual exclusion: whoever was told that it has the mutex is the holder, through
\* hand-over, timeouts and the deletion of a holder or of its heir; and a recursive
\* mutex has counted its takes.
OwnerIsHolder ==
  \A t \in Threads, q \in Queues :
    owns[t][q] > 0 =>
      /\ k.mutex_holder[q] = t
      /\ IsRecursive(q) => k.recursive_count[q] = owns[t][q]

\* Priority inheritance: the holder is never less urgent than a task that waits.
HolderOutranksWaiters ==
  \A q \in Queues : \A t \in ToSet(k.waiting[Waiters(q)]) :
    k.priority[t] <= k.priority[k.mutex_holder[q]]

\* A task that holds no mutex has the priority it was created with.
PriorityRestored ==
  \A t \in handles : (\A q \in Queues : k.mutex_holder[q] # t) => k.priority[t] = BootPrio(t)

\* Whoever goes on from the wait for a mutex without a timeout is its holder, as
\* rtos_mutex_take asserts (mutex.c:125): no give, timeout or deletion of the holder
\* wakes a waiter without handing the mutex over.
WokenIsHolder ==
  \A c \in Tasks :
    At(c, "wait") /\ k.wakeup_reason[c] # 2 => k.mutex_holder[call[c].q] = c
=============================================================================
