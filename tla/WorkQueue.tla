------------------------------- MODULE WorkQueue -------------------------------
(***************************************************************************)
(* The work queue of the command line (workqueue.c) and the clock it runs  *)
(* by (jiffies: tick.c and scheduler_task).                                *)
(*                                                                         *)
(* Work is queued and cancelled by any task or interrupt handler, inside   *)
(* critical sections.  It is run outside of them, by the lincli task in    *)
(* each round of scheduler_task and by a task that flushes.                *)
(*                                                                         *)
(* A tick_expire, or a register, that is written before it is read again   *)
(* holds 0.                                                                *)
(***************************************************************************)
EXTENDS IntrusiveLists, FiniteSets

CONSTANTS
  Works,        \* the struct work_struct objects
  Delayed,      \* those of them that are part of a struct delayed_work
  NoWork,       \* a NULL struct work_struct pointer
  Lincli,       \* the task that loops over scheduler_task
  Clients,      \* the tasks that call flush_work, cancel_work_sync and
                \* cancel_delayed_work_sync
  Delays,       \* the delay_ticks that the application passes
  JiffiesMod,   \* 2^32 in the code: jiffies is an unsigned long
  MaxLate       \* assumed: lincli falls behind by no more ticks (see SysTick)

Runners == {Lincli} \cup Clients
Jiffies == 0 .. JiffiesMod - 1

ASSUME WorkAssumption   == Delayed \subseteq Works /\ NoWork \notin Works
ASSUME ThreadAssumption == Lincli \notin Clients /\ IsFiniteSet(Clients)
ASSUME JiffiesAssumption ==
  /\ JiffiesMod \in Nat \ {0} /\ MaxLate \in Nat /\ Delays \subseteq Nat
  /\ \A d \in Delays : 2 * (d + 2 * MaxLate + 2) <= JiffiesMod

VARIABLES
  jiffies,
  work_list,      \* system_wq->work_list
  delayed_list,   \* system_wq->delayed_list
  tick_expire,    \* of the delayed works
  pending,        \* the works with WORK_STRUCT_PENDING set
  running,        \* the works with WORK_STRUCT_RUNNING set
  nr_running,
  round,          \* where the lincli task is in scheduler_task
  seen,           \* the value of jiffies it holds in a register
  call,           \* where each client is in its call, and the work it flushes or cancels
  work            \* the local variable of __workqueue_run_one of each runner

lists    == <<work_list, delayed_list, tick_expire>>
flags    == <<pending, running, nr_running>>
threads  == <<round, seen, call, work>>
workVars == <<jiffies, lists, flags, threads>>

Idle == [at |-> "idle", work |-> NoWork]

\* time_after and time_after_eq: the sign of the difference as a long.
TimeAfterEq(a, b) == (a - b) % JiffiesMod < JiffiesMod \div 2
TimeAfter(a, b)   == a # b /\ TimeAfterEq(a, b)

\* The works of S leave the delayed list: their tick_expire is of no more use.
Forget(S) == tick_expire' = [w \in Delayed |-> IF w \in S THEN 0 ELSE tick_expire[w]]

WorkInit ==
  /\ jiffies = 0
  /\ work_list = <<>> /\ delayed_list = <<>>
  /\ tick_expire = [w \in Delayed |-> 0]
  /\ pending = {} /\ running = {} /\ nr_running = 0
  /\ round = "start" /\ seen = 0
  /\ call = [c \in Clients |-> Idle]
  /\ work = [r \in Runners |-> NoWork]

-----------------------------------------------------------------------------
\* Queueing, from any task, handler or work function

\* Mutant: the flag is not tested.
QueueWorkTwice(w) ==
  /\ pending' = pending \cup {w}
  /\ work_list' = Append(work_list, w)
  /\ UNCHANGED <<jiffies, delayed_list, tick_expire, running, nr_running, threads>>

QueueWork(w) ==
  /\ w \notin pending
  /\ pending' = pending \cup {w}
  /\ work_list' = Append(work_list, w)
  /\ UNCHANGED <<jiffies, delayed_list, tick_expire, running, nr_running, threads>>

\* Mutant: the place is looked for with a plain comparison, which a wrap defeats.
ExpiresAfterUnsigned(a, b) == a > b

\* The work on the list before which one that expires at b is linked.
ExpiresAfter(a, b) == TimeAfter(a, b)

QueueDelayedWork(w, d) ==
  LET expire == (jiffies + d) % JiffiesMod
      place  == SelectInSeq(delayed_list, LAMBDA v : ExpiresAfter(tick_expire[v], expire))
  IN  /\ w \notin pending
      /\ pending' = pending \cup {w}
      /\ tick_expire' = [tick_expire EXCEPT ![w] = expire]
      /\ delayed_list' = InsertBefore(delayed_list, w, place)
      /\ UNCHANGED <<jiffies, work_list, running, nr_running, threads>>

-----------------------------------------------------------------------------
\* __workqueue_run_one: the critical sections before and after work->func

Take(r) ==
  LET w == Head(work_list) IN
  /\ work_list # <<>>
  /\ work_list' = Tail(work_list)
  /\ pending' = pending \ {w}
  /\ running' = running \cup {w}
  /\ nr_running' = nr_running + 1
  /\ work' = [work EXCEPT ![r] = w]

\* Mutant: the count of running works is left alone.
FinishUncounted(r) ==
  /\ work[r] # NoWork
  /\ running' = running \ {work[r]}
  /\ work' = [work EXCEPT ![r] = NoWork]
  /\ UNCHANGED <<pending, nr_running>>

\* Mutant: RUNNING is not cleared.
FinishStaysRunning(r) ==
  /\ work[r] # NoWork
  /\ nr_running' = nr_running - 1
  /\ work' = [work EXCEPT ![r] = NoWork]
  /\ UNCHANGED <<pending, running>>

Finish(r) ==
  /\ work[r] # NoWork
  /\ running' = running \ {work[r]}
  /\ nr_running' = nr_running - 1
  /\ work' = [work EXCEPT ![r] = NoWork]
  /\ UNCHANGED pending

-----------------------------------------------------------------------------
\* scheduler_task, after the state engine has run: ++jiffies is a load and a store

LoadJiffies ==
  /\ round = "start"
  /\ seen' = jiffies
  /\ round' = "store"
  /\ UNCHANGED <<jiffies, lists, flags, call, work>>

StoreJiffies ==
  /\ round = "store"
  /\ jiffies' = (seen + 1) % JiffiesMod
  /\ seen' = 0
  /\ round' = "argument"
  /\ UNCHANGED <<lists, flags, call, work>>

\* workqueue_tick_handler(system_wq, jiffies): the argument is loaded first.
PassJiffies ==
  /\ round = "argument"
  /\ seen' = jiffies
  /\ round' = "handler"
  /\ UNCHANGED <<jiffies, lists, flags, call, work>>

\* Mutant: only the work of this very tick has expired.
NotYetExactly(w) == seen # tick_expire[w]

NotYet(w) == ~TimeAfterEq(seen, tick_expire[w])

\* The loop stops at the first work that has not expired.
TickHandler ==
  LET first   == SelectInSeq(delayed_list, NotYet)
      expired == IF first = 0 THEN Len(delayed_list) ELSE first - 1
  IN  /\ round = "handler"
      /\ delayed_list' = SubSeq(delayed_list, expired + 1, Len(delayed_list))
      /\ work_list' = work_list \o SubSeq(delayed_list, 1, expired)
      /\ Forget(ToSet(delayed_list) \ ToSet(delayed_list'))
      /\ seen' = 0
      /\ round' = "run"
      /\ UNCHANGED <<jiffies, flags, call, work>>

LincliTake ==
  /\ round = "run"
  /\ Take(Lincli)
  /\ round' = "func"
  /\ UNCHANGED <<jiffies, delayed_list, tick_expire, seen, call>>

\* Nothing is due: the round ends, and the task sleeps.
LincliSkip ==
  /\ round = "run"
  /\ work_list = <<>>
  /\ round' = "start"
  /\ UNCHANGED <<jiffies, lists, flags, seen, call, work>>

LincliFinish ==
  /\ round = "func"
  /\ Finish(Lincli)
  /\ round' = "start"
  /\ UNCHANGED <<jiffies, lists, seen, call>>

-----------------------------------------------------------------------------
\* flush_work: each flag is tested by a load of its own, and so is each list of
\* flush_workqueue, whose call is of no work

Goes(c, at) == call' = [call EXCEPT ![c].at = at]
Returns(c)  == call' = [call EXCEPT ![c] = Idle]

Flush(c, w) ==
  /\ call[c] = Idle
  /\ call' = [call EXCEPT ![c] = [at |-> "pending?", work |-> w]]
  /\ UNCHANGED <<jiffies, lists, flags, round, seen, work>>

FlushTestsPending(c) ==
  /\ call[c].at = "pending?"
  /\ Goes(c, IF call[c].work \in pending THEN "run" ELSE "running?")
  /\ UNCHANGED <<jiffies, lists, flags, round, seen, work>>

FlushTestsRunning(c) ==
  /\ call[c].at = "running?"
  /\ IF call[c].work \in running THEN Goes(c, "run") ELSE Returns(c)
  /\ UNCHANGED <<jiffies, lists, flags, round, seen, work>>

FlushAll(c) ==
  /\ call[c] = Idle
  /\ call' = [call EXCEPT ![c] = [at |-> "work_list?", work |-> NoWork]]
  /\ UNCHANGED <<jiffies, lists, flags, round, seen, work>>

FlushTestsWorkList(c) ==
  /\ call[c].at = "work_list?"
  /\ Goes(c, IF work_list # <<>> THEN "run" ELSE "delayed_list?")
  /\ UNCHANGED <<jiffies, lists, flags, round, seen, work>>

FlushTestsDelayedList(c) ==
  /\ call[c].at = "delayed_list?"
  /\ IF delayed_list # <<>> THEN Goes(c, "work_list?") ELSE Returns(c)
  /\ UNCHANGED <<jiffies, lists, flags, round, seen, work>>

\* Where the loop begins again.
Again(c) == IF call[c].work = NoWork THEN "work_list?" ELSE "pending?"

FlushTake(c) ==
  /\ call[c].at = "run"
  /\ Take(c)
  /\ Goes(c, "func")
  /\ UNCHANGED <<jiffies, delayed_list, tick_expire, round, seen>>

FlushSkip(c) ==
  /\ call[c].at = "run"
  /\ work_list = <<>>
  /\ Goes(c, Again(c))
  /\ UNCHANGED <<jiffies, lists, flags, round, seen, work>>

FlushFinish(c) ==
  /\ call[c].at = "func"
  /\ Finish(c)
  /\ Goes(c, Again(c))
  /\ UNCHANGED <<jiffies, lists, round, seen>>

-----------------------------------------------------------------------------
\* cancel_delayed_work_sync is its own critical section, then cancel_work_sync

\* Mutant: the flag is cleared and the work stays on its list.
WithdrawFlagOnly(w) ==
  /\ w \in pending
  /\ pending' = pending \ {w}
  /\ UNCHANGED lists

Withdraw(w) ==
  /\ w \in pending
  /\ pending' = pending \ {w}
  /\ work_list' = Unlink(work_list, w)
  /\ delayed_list' = Unlink(delayed_list, w)
  /\ Forget({w})

\* The functions that cancel w: the work of a delayed_work is cancelled by either.
CancelFunctions(w) ==
  {"cancel_work_sync"} \cup (IF w \in Delayed THEN {"cancel_delayed_work_sync"} ELSE {})

Cancel(c, w) ==
  /\ call[c] = Idle
  /\ \E at \in CancelFunctions(w) : call' = [call EXCEPT ![c] = [at |-> at, work |-> w]]
  /\ UNCHANGED <<jiffies, lists, flags, round, seen, work>>

CancelPending(c) ==
  /\ call[c].at \in {"cancel_work_sync", "cancel_delayed_work_sync"}
  /\ Withdraw(call[c].work)
  /\ Returns(c)
  /\ UNCHANGED <<jiffies, running, nr_running, round, seen, work>>

CancelNotPending(c) ==
  /\ call[c].at \in {"cancel_work_sync", "cancel_delayed_work_sync"}
  /\ call[c].work \notin pending
  /\ Goes(c, IF call[c].at = "cancel_work_sync" THEN "spin" ELSE "cancel_work_sync")
  /\ UNCHANGED <<jiffies, lists, flags, round, seen, work>>

\* The busy wait ends.
CancelNotRunning(c) ==
  /\ call[c].at = "spin"
  /\ call[c].work \notin running
  /\ Returns(c)
  /\ UNCHANGED <<jiffies, lists, flags, round, seen, work>>

-----------------------------------------------------------------------------
\* The tick interrupt.  The first two conjuncts are an assumption on how the system is
\* timed, the code has no such guard: nothing is later than MaxLate, neither the work on
\* the delayed list nor the store of an incremented jiffies.  Later works than half of
\* the range of jiffies would be taken for early ones by time_after.

SysTick ==
  /\ \A w \in ToSet(delayed_list) : ~TimeAfterEq(jiffies, tick_expire[w] + MaxLate)
  /\ round \in {"store", "handler"} => (jiffies - seen) % JiffiesMod < MaxLate
  /\ jiffies' = (jiffies + 1) % JiffiesMod
  /\ UNCHANGED <<lists, flags, threads>>

LincliStep ==
  \/ LoadJiffies \/ StoreJiffies \/ PassJiffies \/ TickHandler
  \/ LincliTake \/ LincliSkip \/ LincliFinish

FlushStep(c) ==
  \/ FlushTestsPending(c) \/ FlushTestsRunning(c)
  \/ FlushTestsWorkList(c) \/ FlushTestsDelayedList(c)
  \/ FlushTake(c) \/ FlushSkip(c) \/ FlushFinish(c)

CancelStep(c) == CancelPending(c) \/ CancelNotPending(c) \/ CancelNotRunning(c)

WorkNext ==
  \/ SysTick
  \/ LincliStep
  \/ \E w \in Works : QueueWork(w)
  \/ \E w \in Delayed, d \in Delays : QueueDelayedWork(w, d)
  \/ \E c \in Clients : FlushStep(c) \/ CancelStep(c) \/ FlushAll(c)
  \/ \E c \in Clients, w \in Works : Flush(c, w) \/ Cancel(c, w)

WorkSpec == WorkInit /\ [][WorkNext]_workVars

\* The lincli task is made ready again and again, a task that flushes is not starved, and
\* the functions they run return.  A task that spins gets the processor while lincli, of
\* the highest priority, sleeps between two rounds: it looks at the flag then, however
\* seldom the work is not running.
WorkFairSpec ==
  /\ WorkSpec
  /\ WF_workVars(LincliStep)
  /\ \A c \in Clients : WF_workVars(FlushStep(c)) /\ SF_workVars(CancelStep(c))

-----------------------------------------------------------------------------
Flushing   == {"pending?", "running?", "work_list?", "delayed_list?", "run", "func"}
Cancelling == {"cancel_work_sync", "cancel_delayed_work_sync", "spin"}
CallStates == {"idle"} \cup Flushing \cup Cancelling

\* Type correctness: the types of the variables of workqueue.c and scheduler.c.
WorkTypeOK ==
  /\ jiffies \in Jiffies /\ seen \in Jiffies
  /\ work_list \in Seq(Works) /\ delayed_list \in Seq(Delayed)
  /\ tick_expire \in [Delayed -> Jiffies]
  /\ pending \in SUBSET Works /\ running \in SUBSET Works /\ nr_running \in Nat
  /\ round \in {"start", "store", "argument", "handler", "run", "func"}
  /\ call \in [Clients -> [at : CallStates, work : Works \cup {NoWork}]]
  /\ work \in [Runners -> Works \cup {NoWork}]

\* A work is on one list, once, or on none, and its PENDING flag says which: every
\* list_add_tail in workqueue.c relies on the flag to link no entry twice.
PendingIsLinked ==
  /\ Distinct(work_list) /\ Distinct(delayed_list)
  /\ ToSet(work_list) \cap ToSet(delayed_list) = {}
  /\ pending = ToSet(work_list) \cup ToSet(delayed_list)

\* workqueue_tick_handler leaves no work behind that has expired: it stops at the
\* first that has not, so the list has to stay sorted across a wrap of jiffies and
\* its lost increments.
HandlerLeavesNoneExpired ==
  [][round = "handler" /\ round' = "run" =>
       \A w \in ToSet(delayed_list') : TimeAfter(tick_expire[w], seen)]_workVars

\* nr_running counts the work functions that run, and a work whose RUNNING flag is set
\* is run by somebody, whoever else runs, flushes or cancels at the same time.
RunningIsRun ==
  /\ nr_running = Cardinality({r \in Runners : work[r] # NoWork})
  /\ \A w \in running : \E r \in Runners : work[r] = w

\* The work queue keeps the promise of WorkPool: one run for each time that work was
\* accepted, in the order it became due, unless it was cancelled before.
Pool == INSTANCE WorkPool WITH
          later <- ToSet(delayed_list),
          due   <- work_list,
          runs  <- work

QueueIsWorkPool == Pool!Spec

\* Work that was accepted is run, or cancelled: the lincli task takes one work a round
\* and its own increment of jiffies never goes back behind the round before.
AcceptedWorkRuns == \A w \in Works : w \in pending ~> w \notin pending

\* cancel_work_sync and cancel_delayed_work_sync return, even for work that is queued
\* again whenever it has run.
CancelReturns ==
  \A c \in Clients : call[c].at \in Cancelling ~> call[c].at \notin Cancelling
=============================================================================
