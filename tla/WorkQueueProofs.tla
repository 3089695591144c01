---------------------------- MODULE WorkQueueProofs ----------------------------
(***************************************************************************)
(* Theorems about WorkQueue, for any number of works, of tasks that flush  *)
(* or cancel, of delays and of bounds: its flags and its lists agree, its  *)
(* clock may wrap and lag, and it keeps the promise of WorkPool.           *)
(***************************************************************************)
EXTENDS WorkQueue, ListLemmas, FiniteSetTheorems

\* Where a runner is inside a work function.
InFunction ==
  /\ round = "func" <=> work[Lincli] # NoWork
  /\ \A c \in Clients : call[c].at = "func" <=> work[c] # NoWork

WorkInv == WorkTypeOK /\ PendingIsLinked /\ InFunction /\ RunningIsRun

-----------------------------------------------------------------------------
\* The lists

\* The loop of workqueue_tick_handler stops inside the list, at a work that has not expired,
\* or at its end.
LEMMA HandlerSplits ==
  ASSUME delayed_list \in Seq(Delayed)
  PROVE  \E n \in 0 .. Len(delayed_list) :
           /\ n < Len(delayed_list) => NotYet(delayed_list[n + 1])
           /\ TickHandler =>
                /\ delayed_list' = SubSeq(delayed_list, n + 1, Len(delayed_list))
                /\ work_list' = work_list \o SubSeq(delayed_list, 1, n)
<1> DEFINE I == {i \in 1 .. Len(delayed_list) : NotYet(delayed_list[i])}
           first == IF I # {} THEN Min(I) ELSE 0
           n == IF first = 0 THEN Len(delayed_list) ELSE first - 1
<1>1. Len(delayed_list) \in Nat
  BY LenProperties
<1>2. I # {} => Min(I) \in I /\ Min(I) \in 1 .. Len(delayed_list)
  <2>1. I \in SUBSET Nat /\ I \subseteq 1 .. Len(delayed_list)
    OBVIOUS
  <2> HIDE DEF I
  <2> QED BY <2>1, MinElement
<1>3. first \in 0 .. Len(delayed_list)
  <2> HIDE DEF I
  <2> QED BY <1>1, <1>2
<1>4. n \in 0 .. Len(delayed_list)
  <2> HIDE DEF first
  <2> QED BY <1>1, <1>3
<1>5. SelectInSeq(delayed_list, NotYet) = first
  BY Zenon DEF SelectInSeq
<1>6. TickHandler =>
        /\ delayed_list' = SubSeq(delayed_list, n + 1, Len(delayed_list))
        /\ work_list' = work_list \o SubSeq(delayed_list, 1, n)
  BY <1>5, Zenon DEF TickHandler
<1>7. n < Len(delayed_list) => n + 1 = first /\ first # 0
  <2> HIDE DEF first
  <2> QED BY <1>1, <1>3
<1>8. first # 0 => NotYet(delayed_list[first])
  <2>1. first # 0 => first \in I
    <3> HIDE DEF I
    <3> QED BY <1>2
  <2> HIDE DEF first
  <2> QED BY <2>1
<1> HIDE DEF n, first
<1> QED BY <1>4, <1>6, <1>7, <1>8

\* The i-th work on the list expires after one that is queued now for d ticks.
Behind(i, d) == ExpiresAfter(tick_expire[delayed_list[i]], (jiffies + d) % JiffiesMod)

\* queue_delayed_work finds the first place inside the list before a work that expires
\* after the new one, or the end.
LEMMA DelayedInserted ==
  ASSUME delayed_list \in Seq(Delayed), NEW w \in Delayed, NEW d, QueueDelayedWork(w, d)
  PROVE  \E n \in 0 .. Len(delayed_list) :
           /\ delayed_list' = InsertBefore(delayed_list, w, n)
           /\ \A i \in 1 .. Len(delayed_list) : n = 0 \/ i < n => ~Behind(i, d)
           /\ n # 0 => Behind(n, d)
<1> DEFINE I == {i \in 1 .. Len(delayed_list) : Behind(i, d)}
           n == IF I # {} THEN Min(I) ELSE 0
<1>1. Len(delayed_list) \in Nat
  BY LenProperties
<1>2. I # {} => Min(I) \in 1 .. Len(delayed_list) /\ Min(I) \in I /\ \A i \in I : Min(I) <= i
  <2>1. I \in SUBSET Nat /\ I \subseteq 1 .. Len(delayed_list)
    OBVIOUS
  <2> HIDE DEF I
  <2> QED BY <2>1, MinElement
<1>3. n \in 0 .. Len(delayed_list)
  <2> HIDE DEF I
  <2> QED BY <1>1, <1>2
<1>4. delayed_list' = InsertBefore(delayed_list, w, n)
  BY Zenon DEF QueueDelayedWork, SelectInSeq, Behind
<1>5. n # 0 => n \in I
  <2> HIDE DEF I
  <2> QED BY <1>2
<1>6. \A i \in 1 .. Len(delayed_list) : n = 0 \/ i < n => i \notin I
  <2> HIDE DEF I
  <2> QED BY <1>2
<1> HIDE DEF n
<1> QED BY <1>3, <1>4, <1>5, <1>6

-----------------------------------------------------------------------------
\* The runners

Executing == {r \in Runners : work[r] # NoWork}

LEMMA RunnersFinite == IsFiniteSet(Executing) /\ IsFiniteSet(Executing')
<1>1. IsFiniteSet(Runners)
  BY ThreadAssumption, FS_AddElement DEF Runners
<1> QED BY <1>1, FS_Subset DEF Executing

\* A work function is entered with the flag set and the count one up ...
LEMMA TakeCounts ==
  ASSUME WorkInv, NEW r \in Runners, work[r] = NoWork, Take(r)
  PROVE  /\ RunningIsRun' /\ nr_running' \in Nat
         /\ work' \in [Runners -> Works \cup {NoWork}]
         /\ running' \in SUBSET Works
         /\ Head(work_list) \in Works
<1>1. work_list \in Seq(Works) /\ work_list # <<>>
  BY DEF WorkInv, WorkTypeOK, Take
<1>2. Head(work_list) \in Works /\ Head(work_list) # NoWork
  BY <1>1, HeadDistinct, WorkAssumption
<1>3. /\ work \in [Runners -> Works \cup {NoWork}] /\ running \in SUBSET Works
      /\ nr_running \in Nat /\ nr_running = Cardinality(Executing)
      /\ \A w \in running : \E x \in Runners : work[x] = w
  BY DEF WorkInv, WorkTypeOK, RunningIsRun, Executing
<1>4. /\ work' = [work EXCEPT ![r] = Head(work_list)]
      /\ running' = running \cup {Head(work_list)}
      /\ nr_running' = nr_running + 1
  BY Zenon DEF Take
<1>5. Executing' = Executing \cup {r} /\ r \notin Executing
  BY <1>2, <1>3, <1>4 DEF Executing
<1>6. Cardinality(Executing') = Cardinality(Executing) + 1
  BY <1>5, RunnersFinite, FS_AddElement
<1>7. ASSUME NEW w \in running' PROVE \E x \in Runners : work'[x] = w
  <2>1. CASE w = Head(work_list)
    BY <1>3, <1>4, <2>1
  <2>2. CASE w # Head(work_list)
    <3>1. PICK x \in Runners : work[x] = w
      BY <1>3, <1>4, <2>2
    <3>2. x # r
      BY <1>3, <1>4, <2>2, <3>1, WorkAssumption
    <3> QED BY <1>3, <1>4, <3>1, <3>2
  <2> QED BY <2>1, <2>2
<1>8. nr_running' = Cardinality(Executing')
  BY <1>3, <1>4, <1>6
<1> QED BY <1>2, <1>3, <1>4, <1>7, <1>8 DEF RunningIsRun, Executing

\* ... and left with the flag clear and the count one down, whoever else runs the work.
LEMMA FinishCounts ==
  ASSUME WorkInv, NEW r \in Runners, Finish(r)
  PROVE  /\ RunningIsRun' /\ nr_running' \in Nat
         /\ work' \in [Runners -> Works \cup {NoWork}]
         /\ running' \in SUBSET Works
<1>1. /\ work \in [Runners -> Works \cup {NoWork}] /\ running \in SUBSET Works
      /\ nr_running \in Nat /\ nr_running = Cardinality(Executing)
      /\ \A w \in running : \E x \in Runners : work[x] = w
  BY DEF WorkInv, WorkTypeOK, RunningIsRun, Executing
<1>2. /\ work[r] # NoWork
      /\ work' = [work EXCEPT ![r] = NoWork]
      /\ running' = running \ {work[r]}
      /\ nr_running' = nr_running - 1
  BY DEF Finish
<1>3. Executing' = Executing \ {r} /\ r \in Executing
  BY <1>1, <1>2 DEF Executing
<1>4. Cardinality(Executing') = Cardinality(Executing) - 1 /\ Cardinality(Executing') \in Nat
  BY <1>3, RunnersFinite, FS_RemoveElement, FS_CardinalityType
<1>5. \A w \in running' : \E x \in Runners : work'[x] = w
  BY <1>1, <1>2
<1>6. nr_running' = Cardinality(Executing')
  BY <1>1, <1>2, <1>4
<1> QED BY <1>1, <1>2, <1>4, <1>5, <1>6 DEF RunningIsRun, Executing

-----------------------------------------------------------------------------
\* The flags agree with the lists after each critical section that writes them

LEMMA JiffiesWrap ==
  /\ 0 \in Jiffies
  /\ \A j \in Jiffies, d \in Delays : (j + d) % JiffiesMod \in Jiffies
  /\ \A j \in Jiffies : (j + 1) % JiffiesMod \in Jiffies
<1>1. JiffiesMod \in Nat /\ JiffiesMod > 0 /\ Delays \subseteq Nat
  BY JiffiesAssumption
<1>2. \A n \in Nat : n % JiffiesMod \in 0 .. JiffiesMod - 1
  BY <1>1
<1>3. \A j \in Jiffies : j \in Nat
  BY <1>1 DEF Jiffies
<1>4. \A j \in Jiffies, d \in Delays : j + d \in Nat /\ j + 1 \in Nat
  BY <1>1, <1>3
<1>5. \A j \in Jiffies : j + 1 \in Nat
  BY <1>3
<1> QED BY <1>1, <1>2, <1>4, <1>5 DEF Jiffies

ListTypes(wl, dl) == wl \in Seq(Works) /\ dl \in Seq(Delayed)

Linked(wl, dl, p) ==
  /\ Distinct(wl) /\ Distinct(dl)
  /\ ToSet(wl) \cap ToSet(dl) = {}
  /\ p = ToSet(wl) \cup ToSet(dl)

LEMMA QueueWorkLinks ==
  ASSUME WorkInv, NEW w \in Works, QueueWork(w)
  PROVE  ListTypes(work_list', delayed_list') /\ PendingIsLinked'
<1>1. ListTypes(work_list, delayed_list) /\ Linked(work_list, delayed_list, pending)
  BY DEF WorkInv, WorkTypeOK, PendingIsLinked, ListTypes, Linked
<1>2. /\ w \notin pending /\ pending' = pending \cup {w}
      /\ work_list' = Append(work_list, w) /\ delayed_list' = delayed_list
  BY DEF QueueWork
<1>3. /\ Append(work_list, w) \in Seq(Works)
      /\ ToSet(Append(work_list, w)) = ToSet(work_list) \cup {w}
      /\ Distinct(Append(work_list, w))
  BY <1>1, <1>2, AppendDistinct DEF ListTypes, Linked
<1>4. ListTypes(work_list', delayed_list') /\ Linked(work_list', delayed_list', pending')
  BY <1>1, <1>2, <1>3 DEF ListTypes, Linked
<1> QED BY <1>4 DEF PendingIsLinked, Linked

LEMMA QueueDelayedWorkLinks ==
  ASSUME WorkInv, NEW w \in Delayed, NEW d, QueueDelayedWork(w, d)
  PROVE  ListTypes(work_list', delayed_list') /\ PendingIsLinked'
<1>1. ListTypes(work_list, delayed_list) /\ Linked(work_list, delayed_list, pending)
  BY DEF WorkInv, WorkTypeOK, PendingIsLinked, ListTypes, Linked
<1>2. /\ w \notin pending /\ pending' = pending \cup {w} /\ work_list' = work_list
  BY DEF QueueDelayedWork
<1>3. PICK n \in 0 .. Len(delayed_list) : delayed_list' = InsertBefore(delayed_list, w, n)
  BY <1>1, DelayedInserted DEF ListTypes
<1>4. /\ delayed_list' \in Seq(Delayed)
      /\ ToSet(delayed_list') = ToSet(delayed_list) \cup {w}
      /\ Distinct(delayed_list')
  BY <1>1, <1>2, <1>3, InsertBeforeDistinct DEF ListTypes, Linked
<1>5. ListTypes(work_list', delayed_list') /\ Linked(work_list', delayed_list', pending')
  BY <1>1, <1>2, <1>4 DEF ListTypes, Linked
<1> QED BY <1>5 DEF PendingIsLinked, Linked

LEMMA HandlerLinks ==
  ASSUME WorkInv, TickHandler
  PROVE  ListTypes(work_list', delayed_list') /\ PendingIsLinked'
<1>1. ListTypes(work_list, delayed_list) /\ Linked(work_list, delayed_list, pending)
  BY DEF WorkInv, WorkTypeOK, PendingIsLinked, ListTypes, Linked
<1>2. PICK n \in 0 .. Len(delayed_list) :
        /\ delayed_list' = SubSeq(delayed_list, n + 1, Len(delayed_list))
        /\ work_list' = work_list \o SubSeq(delayed_list, 1, n)
  BY <1>1, HandlerSplits DEF ListTypes
<1> DEFINE a == SubSeq(delayed_list, 1, n)
           b == SubSeq(delayed_list, n + 1, Len(delayed_list))
<1>3. /\ a \in Seq(Delayed) /\ Distinct(a)
      /\ b \in Seq(Delayed) /\ Distinct(b)
      /\ ToSet(a) \cap ToSet(b) = {}
      /\ ToSet(a) \cup ToSet(b) = ToSet(delayed_list)
  BY <1>1, SplitDistinct DEF ListTypes, Linked
<1>4. delayed_list' = b /\ work_list' = work_list \o a /\ pending' = pending
  BY <1>2 DEF TickHandler, flags
<1> HIDE DEF a, b
<1>5. a \in Seq(Works)
  BY <1>3, WorkAssumption, SeqMonotonic
<1>6. ToSet(work_list) \cap ToSet(a) = {}
  BY <1>1, <1>3 DEF Linked
<1>7. /\ work_list \o a \in Seq(Works)
      /\ ToSet(work_list \o a) = ToSet(work_list) \cup ToSet(a)
      /\ Distinct(work_list \o a)
  BY <1>1, <1>3, <1>5, <1>6, ConcatDistinct DEF ListTypes, Linked
<1>8. ListTypes(work_list', delayed_list') /\ Linked(work_list', delayed_list', pending')
  BY <1>1, <1>3, <1>4, <1>7 DEF ListTypes, Linked
<1> QED BY <1>8 DEF PendingIsLinked, Linked

LEMMA TakeLinks ==
  ASSUME WorkInv, NEW r, Take(r), delayed_list' = delayed_list
  PROVE  /\ ListTypes(work_list', delayed_list') /\ PendingIsLinked'
         /\ Head(work_list) \in pending
<1>1. ListTypes(work_list, delayed_list) /\ Linked(work_list, delayed_list, pending)
  BY DEF WorkInv, WorkTypeOK, PendingIsLinked, ListTypes, Linked
<1>2. /\ work_list # <<>> /\ work_list' = Tail(work_list)
      /\ pending' = pending \ {Head(work_list)}
  BY DEF Take
<1>3. /\ Head(work_list) \in ToSet(work_list) /\ work_list' \in Seq(Works)
      /\ Distinct(work_list') /\ ToSet(work_list') = ToSet(work_list) \ {Head(work_list)}
  BY <1>1, <1>2, HeadDistinct DEF ListTypes, Linked
<1>4. ListTypes(work_list', delayed_list') /\ Linked(work_list', delayed_list', pending')
  BY <1>1, <1>2, <1>3 DEF ListTypes, Linked
<1> QED BY <1>1, <1>3, <1>4 DEF PendingIsLinked, Linked

LEMMA WithdrawUnlinks ==
  ASSUME WorkInv, NEW w, Withdraw(w)
  PROVE  ListTypes(work_list', delayed_list') /\ PendingIsLinked'
<1>1. ListTypes(work_list, delayed_list) /\ Linked(work_list, delayed_list, pending)
  BY DEF WorkInv, WorkTypeOK, PendingIsLinked, ListTypes, Linked
<1>2. /\ pending' = pending \ {w} /\ work_list' = Unlink(work_list, w)
      /\ delayed_list' = Unlink(delayed_list, w)
  BY DEF Withdraw
<1>3. /\ work_list' \in Seq(Works) /\ Distinct(work_list')
      /\ ToSet(work_list') = ToSet(work_list) \ {w}
  BY <1>1, <1>2, UnlinkDistinct DEF ListTypes, Linked
<1>4. /\ delayed_list' \in Seq(Delayed) /\ Distinct(delayed_list')
      /\ ToSet(delayed_list') = ToSet(delayed_list) \ {w}
  BY <1>1, <1>2, UnlinkDistinct DEF ListTypes, Linked
<1>5. ListTypes(work_list', delayed_list') /\ Linked(work_list', delayed_list', pending')
  BY <1>1, <1>2, <1>3, <1>4 DEF ListTypes, Linked
<1> QED BY <1>5 DEF PendingIsLinked, Linked

-----------------------------------------------------------------------------
\* The inductive invariant

LEMMA WorkInitInv == WorkInit => WorkInv
<1> SUFFICES ASSUME WorkInit PROVE WorkInv
  OBVIOUS
<1>1. WorkTypeOK
  BY JiffiesWrap DEF WorkInit, WorkTypeOK, CallStates, Idle
<1>2. PendingIsLinked
  BY DEF WorkInit, PendingIsLinked, Distinct, IsInjective, ToSet
<1>3. InFunction
  BY DEF WorkInit, InFunction, Idle, Runners
<1>4. RunningIsRun
  <2>1. {r \in Runners : work[r] # NoWork} = {}
    BY DEF WorkInit
  <2>2. Cardinality({}) = 0
    BY FS_EmptySet
  <2> QED BY <2>1, <2>2 DEF WorkInit, RunningIsRun
<1> QED BY <1>1, <1>2, <1>3, <1>4 DEF WorkInv

\* What the steps that touch no list and no flag have in common.
LEMMA ThreadStep ==
  ASSUME WorkInv, UNCHANGED <<lists, flags, work>>,
         jiffies' \in Jiffies, seen' \in Jiffies,
         round' \in {"start", "store", "argument", "handler", "run", "func"},
         round' = "func" <=> round = "func",
         call' \in [Clients -> [at : CallStates, work : Works \cup {NoWork}]],
         \A c \in Clients : call'[c].at = "func" <=> call[c].at = "func"
  PROVE  WorkInv'
<1>1. /\ work_list' = work_list /\ delayed_list' = delayed_list
      /\ tick_expire' = tick_expire /\ pending' = pending /\ running' = running
      /\ nr_running' = nr_running /\ work' = work
  BY DEF lists, flags
<1>2. WorkTypeOK'
  BY <1>1 DEF WorkInv, WorkTypeOK
<1>3. PendingIsLinked'
  BY <1>1 DEF WorkInv, PendingIsLinked
<1>4. InFunction'
  BY <1>1 DEF WorkInv, InFunction
<1>5. RunningIsRun'
  BY <1>1 DEF WorkInv, RunningIsRun
<1> QED BY <1>2, <1>3, <1>4, <1>5 DEF WorkInv

LEMMA WorkNextInv == WorkInv /\ [WorkNext]_workVars => WorkInv'
<1> SUFFICES ASSUME WorkInv, [WorkNext]_workVars PROVE WorkInv'
  OBVIOUS
<1> DEFINE CallType == [Clients -> [at : CallStates, work : Works \cup {NoWork}]]
<1>1. /\ jiffies \in Jiffies /\ seen \in Jiffies /\ call \in CallType
      /\ round \in {"start", "store", "argument", "handler", "run", "func"}
      /\ tick_expire \in [Delayed -> Jiffies] /\ nr_running \in Nat
      /\ pending \in SUBSET Works /\ running \in SUBSET Works
      /\ work \in [Runners -> Works \cup {NoWork}]
  BY DEF WorkInv, WorkTypeOK
<1>2. ASSUME NEW c \in Clients, NEW at \in CallStates, Goes(c, at)
      PROVE  /\ call' \in CallType
             /\ call'[c].at = at
             /\ \A x \in Clients : x # c => call'[x] = call[x]
  BY <1>1, <1>2 DEF Goes
<1>3. ASSUME NEW c \in Clients, Returns(c)
      PROVE  /\ call' \in CallType
             /\ call'[c].at = "idle"
             /\ \A x \in Clients : x # c => call'[x] = call[x]
  BY <1>1, <1>3 DEF Returns, Idle, CallStates
<1>4. ASSUME NEW c \in Clients, NEW w \in Works, NEW at \in CallStates,
             call' = [call EXCEPT ![c] = [at |-> at, work |-> w]]
      PROVE  /\ call' \in CallType
             /\ call'[c].at = at
             /\ \A x \in Clients : x # c => call'[x] = call[x]
  BY <1>1, <1>4
<1>5. Lincli \in Runners /\ Clients \subseteq Runners /\ Lincli \notin Clients
  BY ThreadAssumption DEF Runners
<1> HIDE DEF CallType
<1>6. ASSUME ListTypes(work_list', delayed_list'), PendingIsLinked',
             UNCHANGED <<running, nr_running, work, round>>,
             jiffies' \in Jiffies, seen' \in Jiffies, call' \in CallType,
             tick_expire' \in [Delayed -> Jiffies], pending' \in SUBSET Works,
             \A c \in Clients : call'[c].at = "func" <=> call[c].at = "func"
      PROVE  WorkInv'
  <2>1. WorkTypeOK'
    BY <1>1, <1>6 DEF WorkTypeOK, ListTypes, CallType
  <2>2. InFunction'
    BY <1>6 DEF WorkInv, InFunction
  <2>3. RunningIsRun'
    BY <1>6 DEF WorkInv, RunningIsRun
  <2> QED BY <1>6, <2>1, <2>2, <2>3 DEF WorkInv
<1>7. CASE UNCHANGED workVars
  BY <1>1, <1>7, ThreadStep DEF workVars, threads, CallType
<1>8. CASE SysTick
  BY <1>1, <1>8, JiffiesWrap, ThreadStep DEF SysTick, threads, CallType
<1>9. CASE LoadJiffies
  BY <1>1, <1>9, ThreadStep DEF LoadJiffies, CallType
<1>10. CASE StoreJiffies
  BY <1>1, <1>10, JiffiesWrap, ThreadStep DEF StoreJiffies, CallType
<1>11. CASE PassJiffies
  BY <1>1, <1>11, ThreadStep DEF PassJiffies, CallType
<1>12. CASE LincliSkip
  BY <1>1, <1>12, ThreadStep DEF LincliSkip, CallType
<1>13. CASE TickHandler
  <2>1. ListTypes(work_list', delayed_list') /\ PendingIsLinked'
    BY <1>13, HandlerLinks
  <2>2. /\ round = "handler" /\ round' = "run" /\ seen' = 0 /\ jiffies' = jiffies
        /\ pending' = pending /\ running' = running /\ nr_running' = nr_running
        /\ call' = call /\ work' = work
    BY <1>13 DEF TickHandler, flags
  <2>3. tick_expire' \in [Delayed -> Jiffies]
    BY <1>1, <1>13, JiffiesWrap DEF TickHandler, Forget
  <2>4. WorkTypeOK'
    BY <1>1, <2>1, <2>2, <2>3, JiffiesWrap DEF WorkTypeOK, ListTypes, CallType
  <2>5. InFunction'
    BY <2>2 DEF WorkInv, InFunction
  <2>6. RunningIsRun'
    BY <2>2 DEF WorkInv, RunningIsRun
  <2> QED BY <2>1, <2>4, <2>5, <2>6 DEF WorkInv
<1>14. ASSUME NEW r \in Runners, work[r] = NoWork, Take(r),
              UNCHANGED <<jiffies, delayed_list, tick_expire, seen>>
       PROVE  /\ PendingIsLinked' /\ RunningIsRun'
              /\ /\ round' \in {"start", "store", "argument", "handler", "run", "func"}
                 /\ call' \in CallType
                 => WorkTypeOK'
  <2>1. ListTypes(work_list', delayed_list') /\ PendingIsLinked'
    BY <1>14, TakeLinks
  <2>2. /\ RunningIsRun' /\ nr_running' \in Nat
        /\ work' \in [Runners -> Works \cup {NoWork}] /\ running' \in SUBSET Works
    BY <1>14, TakeCounts
  <2>3. pending' \in SUBSET Works
    BY <1>1, <1>14 DEF Take
  <2>4. ASSUME round' \in {"start", "store", "argument", "handler", "run", "func"},
               call' \in CallType
        PROVE  WorkTypeOK'
    BY <1>1, <1>14, <2>1, <2>2, <2>3, <2>4 DEF WorkTypeOK, ListTypes, CallType
  <2> QED BY <2>1, <2>2, <2>4
<1>15. CASE LincliTake
  <2>1. /\ round = "run" /\ round' = "func" /\ call' = call /\ Take(Lincli)
        /\ UNCHANGED <<jiffies, delayed_list, tick_expire, seen>>
    BY <1>15 DEF LincliTake
  <2>2. work[Lincli] = NoWork
    BY <2>1 DEF WorkInv, InFunction
  <2>3. PendingIsLinked' /\ RunningIsRun' /\ WorkTypeOK'
    BY <1>1, <1>5, <1>14, <2>1, <2>2
  <2>4. InFunction'
    <3>1. Head(work_list) \in Works /\ Head(work_list) # NoWork
      BY <1>5, <2>1, <2>2, TakeCounts, WorkAssumption
    <3>2. work' = [work EXCEPT ![Lincli] = Head(work_list)]
      BY <2>1, Zenon DEF Take
    <3> QED BY <1>1, <1>5, <2>1, <3>1, <3>2 DEF WorkInv, InFunction
  <2> QED BY <2>3, <2>4 DEF WorkInv
<1>16. ASSUME NEW c \in Clients, FlushTake(c) PROVE WorkInv'
  <2>1. /\ call[c].at = "run" /\ Goes(c, "func") /\ round' = round /\ Take(c)
        /\ UNCHANGED <<jiffies, delayed_list, tick_expire, seen>>
    BY <1>16 DEF FlushTake
  <2>2. work[c] = NoWork
    BY <2>1 DEF WorkInv, InFunction
  <2>3. /\ call' \in CallType /\ call'[c].at = "func"
        /\ \A x \in Clients : x # c => call'[x] = call[x]
    BY <1>2, <2>1 DEF CallStates, Flushing
  <2>4. PendingIsLinked' /\ RunningIsRun' /\ WorkTypeOK'
    BY <1>1, <1>5, <1>14, <2>1, <2>2, <2>3
  <2>5. InFunction'
    <3>1. Head(work_list) \in Works /\ Head(work_list) # NoWork
      BY <1>5, <2>1, <2>2, TakeCounts, WorkAssumption
    <3>2. work' = [work EXCEPT ![c] = Head(work_list)]
      BY <2>1, Zenon DEF Take
    <3> QED BY <1>1, <1>5, <2>1, <2>3, <3>1, <3>2 DEF WorkInv, InFunction
  <2> QED BY <2>4, <2>5 DEF WorkInv
<1>17. ASSUME NEW r \in Runners, Finish(r), UNCHANGED <<jiffies, lists, seen>>
       PROVE  /\ PendingIsLinked' /\ RunningIsRun'
              /\ /\ round' \in {"start", "store", "argument", "handler", "run", "func"}
                 /\ call' \in CallType
                 => WorkTypeOK'
  <2>1. /\ RunningIsRun' /\ nr_running' \in Nat
        /\ work' \in [Runners -> Works \cup {NoWork}] /\ running' \in SUBSET Works
    BY <1>17, FinishCounts
  <2>2. /\ pending' = pending /\ work_list' = work_list /\ delayed_list' = delayed_list
        /\ tick_expire' = tick_expire /\ jiffies' = jiffies /\ seen' = seen
    BY <1>17 DEF Finish, lists
  <2>3. PendingIsLinked'
    BY <2>2 DEF WorkInv, PendingIsLinked
  <2>4. ASSUME round' \in {"start", "store", "argument", "handler", "run", "func"},
               call' \in CallType
        PROVE  WorkTypeOK'
    BY <2>1, <2>2, <2>4 DEF WorkInv, WorkTypeOK, CallType
  <2> QED BY <2>1, <2>3, <2>4
<1>18. CASE LincliFinish
  <2>1. /\ round' = "start" /\ call' = call /\ Finish(Lincli)
        /\ UNCHANGED <<jiffies, lists, seen>>
    BY <1>18 DEF LincliFinish
  <2>2. PendingIsLinked' /\ RunningIsRun' /\ WorkTypeOK'
    BY <1>1, <1>5, <1>17, <2>1
  <2>3. work' = [work EXCEPT ![Lincli] = NoWork]
    BY <2>1 DEF Finish
  <2>4. InFunction'
    BY <1>1, <1>5, <2>1, <2>3 DEF WorkInv, InFunction
  <2> QED BY <2>2, <2>4 DEF WorkInv
<1>19. ASSUME NEW c \in Clients, FlushFinish(c) PROVE WorkInv'
  <2>1. /\ Goes(c, Again(c)) /\ round' = round /\ Finish(c)
        /\ UNCHANGED <<jiffies, lists, seen>>
    BY <1>19 DEF FlushFinish
  <2>2. /\ call' \in CallType /\ call'[c].at # "func"
        /\ \A x \in Clients : x # c => call'[x] = call[x]
    BY <1>2, <2>1 DEF Again, CallStates, Flushing
  <2>3. PendingIsLinked' /\ RunningIsRun' /\ WorkTypeOK'
    BY <1>1, <1>5, <1>17, <2>1, <2>2
  <2>4. work' = [work EXCEPT ![c] = NoWork]
    BY <2>1 DEF Finish
  <2>5. InFunction'
    BY <1>1, <1>5, <2>1, <2>2, <2>4 DEF WorkInv, InFunction
  <2> QED BY <2>3, <2>5 DEF WorkInv
<1>20. ASSUME NEW w \in Works, QueueWork(w) PROVE WorkInv'
  <2>1. ListTypes(work_list', delayed_list') /\ PendingIsLinked'
    BY <1>20, QueueWorkLinks
  <2>2. /\ jiffies' = jiffies /\ seen' = seen /\ call' = call /\ tick_expire' = tick_expire
        /\ pending' = pending \cup {w} /\ UNCHANGED <<running, nr_running, work, round>>
    BY <1>20 DEF QueueWork, threads
  <2> QED BY <1>1, <1>6, <2>1, <2>2
<1>21. ASSUME NEW w \in Delayed, NEW d \in Delays, QueueDelayedWork(w, d) PROVE WorkInv'
  <2>1. ListTypes(work_list', delayed_list') /\ PendingIsLinked'
    BY <1>21, QueueDelayedWorkLinks
  <2>2. /\ jiffies' = jiffies /\ seen' = seen /\ call' = call
        /\ pending' = pending \cup {w} /\ UNCHANGED <<running, nr_running, work, round>>
        /\ tick_expire' = [tick_expire EXCEPT ![w] = (jiffies + d) % JiffiesMod]
    BY <1>21, Zenon DEF QueueDelayedWork, threads
  <2>3. tick_expire' \in [Delayed -> Jiffies] /\ pending' \in SUBSET Works
    BY <1>1, <2>2, JiffiesWrap, WorkAssumption
  <2> QED BY <1>1, <1>6, <2>1, <2>2, <2>3
<1>22. ASSUME NEW c \in Clients, CancelPending(c) PROVE WorkInv'
  <2>1. /\ Withdraw(call[c].work) /\ Returns(c)
        /\ call[c].at \in {"cancel_work_sync", "cancel_delayed_work_sync"}
        /\ UNCHANGED <<jiffies, running, nr_running, round, seen, work>>
    BY <1>22 DEF CancelPending
  <2>2. ListTypes(work_list', delayed_list') /\ PendingIsLinked'
    BY <2>1, WithdrawUnlinks
  <2>3. tick_expire' \in [Delayed -> Jiffies] /\ pending' \in SUBSET Works
    BY <1>1, <2>1, JiffiesWrap DEF Withdraw, Forget
  <2>4. call' \in CallType /\ \A x \in Clients : call'[x].at = "func" <=> call[x].at = "func"
    BY <1>3, <2>1
  <2> QED BY <1>1, <1>6, <2>1, <2>2, <2>3, <2>4
<1>23. ASSUME NEW c \in Clients, \E at \in CallStates \ {"func"} : Goes(c, at),
              call[c].at # "func", UNCHANGED <<jiffies, lists, flags, round, seen, work>>
       PROVE  WorkInv'
  <2>1. call' \in CallType /\ \A x \in Clients : call'[x].at = "func" <=> call[x].at = "func"
    BY <1>2, <1>23
  <2> QED BY <1>1, <1>23, <2>1, ThreadStep DEF CallType
<1>24. ASSUME NEW c \in Clients, Returns(c), call[c].at # "func",
              UNCHANGED <<jiffies, lists, flags, round, seen, work>>
       PROVE  WorkInv'
  <2>1. call' \in CallType /\ \A x \in Clients : call'[x].at = "func" <=> call[x].at = "func"
    BY <1>3, <1>24
  <2> QED BY <1>1, <1>24, <2>1, ThreadStep DEF CallType
<1>25. ASSUME NEW c \in Clients, FlushTestsPending(c) PROVE WorkInv'
  BY <1>23, <1>25 DEF FlushTestsPending, CallStates, Flushing
<1>26. ASSUME NEW c \in Clients, FlushTestsRunning(c) PROVE WorkInv'
  BY <1>23, <1>24, <1>26 DEF FlushTestsRunning, CallStates, Flushing
<1>27. ASSUME NEW c \in Clients, FlushSkip(c) PROVE WorkInv'
  BY <1>23, <1>27 DEF FlushSkip, Again, CallStates, Flushing
<1>28. ASSUME NEW c \in Clients, CancelNotPending(c) PROVE WorkInv'
  BY <1>23, <1>28 DEF CancelNotPending, CallStates, Cancelling
<1>29. ASSUME NEW c \in Clients, CancelNotRunning(c) PROVE WorkInv'
  BY <1>24, <1>29 DEF CancelNotRunning
<1>30. ASSUME NEW c \in Clients, NEW w \in Works, Flush(c, w) \/ Cancel(c, w) PROVE WorkInv'
  <2>1. /\ \E at \in CallStates \ {"func"} : call' = [call EXCEPT ![c] = [at |-> at, work |-> w]]
        /\ call[c].at # "func"
        /\ UNCHANGED <<jiffies, lists, flags, round, seen, work>>
    BY <1>30 DEF Flush, Cancel, CancelFunctions, CallStates, Flushing, Cancelling, Idle
  <2>2. PICK at \in CallStates \ {"func"} : call' = [call EXCEPT ![c] = [at |-> at, work |-> w]]
    BY <2>1
  <2>3. /\ call' \in CallType /\ call'[c].at = at
        /\ \A x \in Clients : x # c => call'[x] = call[x]
    BY <1>4, <2>2
  <2>4. call' \in CallType /\ \A x \in Clients : call'[x].at = "func" <=> call[x].at = "func"
    BY <2>1, <2>3
  <2> QED BY <1>1, <2>1, <2>4, ThreadStep DEF CallType
<1>31. ASSUME NEW c \in Clients, FlushTestsWorkList(c) \/ FlushTestsDelayedList(c) PROVE WorkInv'
  <2>1. CASE FlushTestsWorkList(c)
    BY <1>23, <2>1 DEF FlushTestsWorkList, CallStates, Flushing
  <2>2. CASE FlushTestsDelayedList(c)
    BY <1>23, <1>24, <2>2 DEF FlushTestsDelayedList, CallStates, Flushing
  <2> QED BY <1>31, <2>1, <2>2
<1>32. ASSUME NEW c \in Clients, FlushAll(c) PROVE WorkInv'
  <2> DEFINE now == [at |-> "work_list?", work |-> NoWork]
  <2>1. /\ call' = [call EXCEPT ![c] = now] /\ call[c].at # "func"
        /\ UNCHANGED <<jiffies, lists, flags, round, seen, work>>
    BY <1>32 DEF FlushAll, Idle
  <2>2. now \in [at : CallStates, work : Works \cup {NoWork}] /\ now.at # "func"
    BY DEF CallStates, Flushing
  <2> HIDE DEF now
  <2>3. call' \in CallType /\ \A x \in Clients : call'[x].at = "func" <=> call[x].at = "func"
    BY <1>1, <2>1, <2>2 DEF CallType
  <2> QED BY <1>1, <2>1, <2>3, ThreadStep DEF CallType
<1>33. CASE LincliStep
  BY <1>9, <1>10, <1>11, <1>12, <1>13, <1>15, <1>18, <1>33 DEF LincliStep
<1>34. ASSUME NEW c \in Clients, FlushStep(c) \/ CancelStep(c) PROVE WorkInv'
  BY <1>16, <1>19, <1>22, <1>25, <1>26, <1>27, <1>28, <1>29, <1>31, <1>34 DEF FlushStep, CancelStep
<1>35. CASE WorkNext
  BY <1>8, <1>20, <1>21, <1>30, <1>32, <1>33, <1>34, <1>35 DEF WorkNext
<1> QED BY <1>7, <1>35

THEOREM WorkInvariant == WorkSpec => []WorkInv
BY WorkInitInv, WorkNextInv, PTL DEF WorkSpec

-----------------------------------------------------------------------------
\* The properties

\* The variables of workqueue.c keep their types: nr_running is not counted below 0.
THEOREM WorkTypes == WorkSpec => []WorkTypeOK
<1>1. WorkInv => WorkTypeOK
  BY DEF WorkInv
<1> QED BY <1>1, WorkInvariant, PTL

\* No entry is linked twice, and PENDING tells which works are linked, however many
\* tasks and handlers queue, cancel and flush.
THEOREM LinksAreFlagged == WorkSpec => []PendingIsLinked
<1>1. WorkInv => PendingIsLinked
  BY DEF WorkInv
<1> QED BY <1>1, WorkInvariant, PTL

\* nr_running is the number of work functions that run, and RUNNING is never left set.
THEOREM RunningWorkIsRun == WorkSpec => []RunningIsRun
<1>1. WorkInv => RunningIsRun
  BY DEF WorkInv
<1> QED BY <1>1, WorkInvariant, PTL

-----------------------------------------------------------------------------
\* The clock: although the lincli task falls behind, and its increments are lost, the works
\* on the delayed list stay within half of the range of jiffies

Half == JiffiesMod \div 2

\* How many ticks e is ahead at the tick j, if it is at most MaxLate + 1 ticks over.
Ahead(e, j) == (e - j + MaxLate + 1) % JiffiesMod

\* How many ticks jiffies is ahead of the value that lincli holds of it.
Lag == IF round \in {"store", "handler"} THEN (jiffies - seen) % JiffiesMod ELSE 0

\* The handler is about to look at the delayed list: jiffies has just been counted.
Counted == round \in {"argument", "handler"}

Timely(w) ==
  /\ Delays # {}
  /\ Ahead(tick_expire[w], jiffies) + Lag < Half
  /\ Ahead(tick_expire[w], jiffies) # 0 \/ Counted

\* The works that expire in this order.
Sooner == {p \in Delayed \X Delayed :
             Ahead(tick_expire[p[1]], jiffies) <= Ahead(tick_expire[p[2]], jiffies)}

InTime ==
  /\ Lag \in 0 .. MaxLate
  /\ \A w \in ToSet(delayed_list) : Timely(w)
  /\ Ordered(delayed_list, Sooner)

LEMMA ModFacts ==
  /\ JiffiesMod \in Nat \ {0} /\ MaxLate \in Nat /\ Half \in Nat
  /\ Half + Half <= JiffiesMod
  /\ \A d \in Delays : d \in Nat /\ d + MaxLate + MaxLate + 2 <= Half
<1>1. JiffiesMod \in Nat \ {0} /\ MaxLate \in Nat /\ Delays \subseteq Nat
  BY JiffiesAssumption
<1>2. Half \in Nat /\ Half + Half <= JiffiesMod
  BY <1>1 DEF Half
<1>3. ASSUME NEW d \in Delays PROVE d \in Nat /\ d + MaxLate + MaxLate + 2 <= Half
  <2>1. d \in Nat /\ 2 * (d + 2 * MaxLate + 2) <= JiffiesMod
    BY <1>1, JiffiesAssumption
  <2>2. ASSUME NEW n \in Nat, 2 * n <= JiffiesMod PROVE n <= Half
    BY <1>1, <2>2 DEF Half
  <2>3. d + 2 * MaxLate + 2 \in Nat /\ d + 2 * MaxLate + 2 = d + MaxLate + MaxLate + 2
    BY <1>1, <2>1
  <2> QED BY <2>1, <2>2, <2>3
<1> QED BY <1>1, <1>2, <1>3

LEMMA SomeDelay == Delays # {} => Half >= MaxLate + MaxLate + 2
<1> SUFFICES ASSUME Delays # {} PROVE Half >= MaxLate + MaxLate + 2
  OBVIOUS
<1>1. PICK d \in Delays : TRUE
  OBVIOUS
<1> QED BY <1>1, ModFacts

LEMMA AheadType ==
  ASSUME NEW e \in Int, NEW j \in Int
  PROVE  Ahead(e, j) \in 0 .. JiffiesMod - 1
<1> DEFINE y == e - j + MaxLate + 1
<1>1. y \in Int
  BY ModFacts
<1> HIDE DEF y
<1>2. y % JiffiesMod \in 0 .. JiffiesMod - 1
  BY <1>1, ModFacts, Division
<1> QED BY <1>2 DEF Ahead, y

\* When the clock goes on by k, a work is k ticks less ahead.
LEMMA AheadMoves ==
  ASSUME NEW e \in Int, NEW j \in Int, NEW k \in Int, Ahead(e, j) - k \in 0 .. JiffiesMod - 1
  PROVE  Ahead(e, (j + k) % JiffiesMod) = Ahead(e, j) - k
<1> DEFINE m == JiffiesMod
           y == e - j + MaxLate + 1
           r == Ahead(e, j)
           p == y \div m
           q == (j + k) \div m
           t == (j + k) % m
           z == e - t + MaxLate + 1
<1>1. m \in Nat \ {0} /\ MaxLate \in Nat /\ y \in Int /\ j + k \in Int
  BY ModFacts
<1>2. p \in Int /\ y = p * m + r /\ r \in Int
  <2>1. y % m \in 0 .. m - 1 /\ y \div m \in Int /\ y = (y \div m) * m + (y % m)
    <3> HIDE DEF y, m
    <3> QED BY <1>1, Division
  <2> QED BY <1>1, <2>1 DEF Ahead
<1>3. q \in Int /\ t \in Int /\ j + k = q * m + t
  <2> DEFINE x == j + k
  <2> HIDE DEF m, x
  <2>1. x % m \in 0 .. m - 1 /\ x \div m \in Int /\ x = (x \div m) * m + (x % m)
    BY <1>1, Division DEF x
  <2> QED BY <2>1 DEF x
<1>4. z = y - k + q * m /\ z \in Int
  <2> HIDE DEF q, t, m
  <2>1. q * m \in Int /\ t = j + k - q * m
    BY <1>1, <1>3
  <2> DEFINE u == q * m
  <2> HIDE DEF u
  <2>2. u \in Int /\ t = j + k - u
    BY <2>1 DEF u
  <2>3. z = y - k + u /\ z \in Int
    BY <1>1, <2>2
  <2> QED BY <2>3 DEF u
<1> HIDE DEF z, y, p, q, r, t, m
<1> DEFINE o == p + q
           n == r - k
<1>5. z = o * m + n /\ o \in Int
  BY <1>1, <1>2, <1>3, <1>4
<1>6. n \in 0 .. m - 1
  BY DEF r, m
<1> HIDE DEF o, n
<1>7. z % m = n
  BY <1>1, <1>4, <1>5, <1>6, Remainder
<1> QED BY <1>7 DEF n, z, t, r, m, Ahead

\* The difference of two ticks is that of what they are ahead.
LEMMA AheadDifference ==
  ASSUME NEW e \in Int, NEW f \in Int, NEW j \in Int
  PROVE  (f - e) % JiffiesMod = (Ahead(f, j) - Ahead(e, j)) % JiffiesMod
<1> DEFINE m == JiffiesMod
           x == f - j + MaxLate + 1
           y == e - j + MaxLate + 1
<1>1. m \in Nat \ {0} /\ x \in Int /\ y \in Int /\ f - e = x - y
  BY ModFacts
<1>2. Ahead(f, j) = x % m /\ Ahead(e, j) = y % m
  BY DEF Ahead
<1> HIDE DEF x, y, m
<1> DEFINE a == x % m
           b == y % m
           p == x \div m
           q == y \div m
<1>3. a \in Int /\ b \in Int /\ p \in Int /\ q \in Int /\ x = p * m + a /\ y = q * m + b
  <2>1. x % m \in 0 .. m - 1 /\ x \div m \in Int /\ x = (x \div m) * m + (x % m)
    BY <1>1, Division
  <2>2. y % m \in 0 .. m - 1 /\ y \div m \in Int /\ y = (y \div m) * m + (y % m)
    BY <1>1, Division
  <2> QED BY <2>1, <2>2
<1> HIDE DEF a, b, p, q
<1>4. x - y = (p - q) * m + (a - b) /\ p - q \in Int /\ a - b \in Int /\ x - y \in Int
  BY <1>1, <1>3
<1>5. (x - y) % m = (a - b) % m
  BY <1>1, <1>4, Congruent
<1> QED BY <1>1, <1>2, <1>5 DEF a, b, m

LEMMA SmallDifference ==
  ASSUME NEW m \in Nat \ {0}, NEW a \in 0 .. m - 1, NEW b \in 0 .. m - 1
  PROVE  /\ b >= a => (b - a) % m = b - a
         /\ b < a => (b - a) % m = b - a + m
<1> DEFINE d == b - a
<1>1. d \in Int /\ (b >= a => d \in 0 .. m - 1) /\ (b < a => d \in -m .. -1)
  OBVIOUS
<1> HIDE DEF d
<1>2. (b >= a => d % m = d) /\ (b < a => d % m = d + m)
  BY <1>1, Small
<1> QED BY <1>2 DEF d

\* time_after compares two works as what they are ahead.
LEMMA AheadCompares ==
  ASSUME NEW e \in Jiffies, NEW f \in Jiffies, NEW j \in Jiffies,
         Ahead(e, j) < Half, Ahead(f, j) < Half
  PROVE  TimeAfter(f, e) <=> Ahead(f, j) > Ahead(e, j)
<1> DEFINE a == Ahead(e, j)
           b == Ahead(f, j)
           m == JiffiesMod
           h == Half
<1>1. /\ m \in Nat \ {0} /\ h \in Nat /\ h + h <= m
      /\ e \in 0 .. m - 1 /\ f \in 0 .. m - 1 /\ j \in Int
  BY ModFacts DEF Jiffies
<1>2. a \in 0 .. m - 1 /\ b \in 0 .. m - 1
  BY <1>1, AheadType
<1>3. (f - e) % m = (b - a) % m
  BY <1>1, AheadDifference
<1>4. TimeAfter(f, e) <=> f # e /\ (f - e) % m < h
  BY DEF TimeAfter, TimeAfterEq, Half
<1>5. a < h /\ b < h
  OBVIOUS
<1> HIDE DEF a, b, m, h
<1>6. (b >= a => (b - a) % m = b - a) /\ (b < a => (b - a) % m = b - a + m)
  BY <1>1, <1>2, SmallDifference
<1>7. (f >= e => (f - e) % m = f - e) /\ (f < e => (f - e) % m = f - e + m)
  BY <1>1, SmallDifference
<1> DEFINE u == (f - e) % m
           v == (b - a) % m
<1>9. u = v /\ (TimeAfter(f, e) <=> f # e /\ u < h)
  BY <1>3, <1>4
<1>10. CASE b > a
  <2>1. v = b - a
    BY <1>1, <1>2, <1>6, <1>10
  <2>2. f = e => u = 0
    BY <1>1, <1>7
  <2> HIDE DEF u, v
  <2>3. u < h /\ f # e
    BY <1>1, <1>2, <1>5, <1>9, <1>10, <2>1, <2>2
  <2> QED BY <1>9, <1>10, <2>3 DEF a, b
<1>11. CASE b < a
  <2>1. v = b - a + m
    BY <1>1, <1>2, <1>6, <1>11
  <2> HIDE DEF u, v
  <2>2. ~(u < h)
    BY <1>1, <1>2, <1>5, <1>9, <1>11, <2>1
  <2>3. ~(b > a)
    BY <1>1, <1>2, <1>11
  <2> QED BY <1>9, <2>2, <2>3 DEF a, b
<1>12. CASE b = a
  <2>1. v = 0
    BY <1>1, <1>2, <1>6, <1>12
  <2>2. CASE f > e
    <3>1. u = f - e
      BY <1>1, <1>7, <2>2
    <3> HIDE DEF u, v
    <3> QED BY <1>1, <1>9, <2>1, <2>2, <3>1
  <2>3. CASE f < e
    <3>1. u = f - e + m
      BY <1>1, <1>7, <2>3
    <3> HIDE DEF u, v
    <3> QED BY <1>1, <1>9, <2>1, <2>3, <3>1
  <2>4. CASE f = e
    <3>1. ~(b > a)
      BY <1>1, <1>2, <1>12
    <3> QED BY <1>9, <2>4, <3>1 DEF a, b
  <2> QED BY <1>1, <2>2, <2>3, <2>4
<1> QED BY <1>1, <1>2, <1>10, <1>11, <1>12

LEMMA AheadOfItself ==
  ASSUME NEW s \in Int, Half >= MaxLate + MaxLate + 2
  PROVE  Ahead(s, s) = MaxLate + 1
<1> DEFINE n == MaxLate + 1
<1>1. s - s + MaxLate + 1 = n /\ n \in 0 .. JiffiesMod - 1
  BY ModFacts
<1>2. n % JiffiesMod = n
  BY <1>1, ModFacts, Small
<1> QED BY <1>1, <1>2 DEF Ahead

\* What lies before the lag.
LEMMA AheadOfSeen ==
  ASSUME NEW e \in Jiffies, NEW j \in Jiffies, NEW s \in Jiffies, NEW n \in Nat,
         (j - s) % JiffiesMod = n, Ahead(e, j) + n < Half
  PROVE  Ahead(e, s) = Ahead(e, j) + n
<1> DEFINE m == JiffiesMod
           a == Ahead(e, j)
<1>1. m \in Nat \ {0} /\ Half \in Nat /\ Half + Half <= m
      /\ e \in Int /\ j \in 0 .. m - 1 /\ s \in 0 .. m - 1
  BY ModFacts DEF Jiffies
<1>2. a \in 0 .. m - 1
  BY <1>1, AheadType
<1>3. a - (-n) \in 0 .. m - 1 /\ -n \in Int
  <2> HIDE DEF a, m
  <2>1. a + n < Half
    BY DEF a
  <2> QED BY <1>1, <1>2, <2>1
<1>4. Ahead(e, (j + (-n)) % m) = a - (-n)
  BY <1>1, <1>3, AheadMoves
<1>5. (j + (-n)) % m = s
  <2> HIDE DEF m
  <2>1. (j >= s => (j - s) % m = j - s) /\ (j < s => (j - s) % m = j - s + m)
    BY <1>1, SmallDifference
  <2>2. (j - s) % m = n
    BY DEF m
  <2>3. CASE j >= s
    <3>1. j + (-n) = s
      BY <1>1, <2>1, <2>2, <2>3
    <3> QED BY <1>1, <3>1, Small
  <2>4. CASE j < s
    <3> DEFINE x == j + (-n)
    <3>1. x = s - m /\ x + m = s /\ x \in Int
      BY <1>1, <2>1, <2>2, <2>4
    <3> HIDE DEF x
    <3>2. x \in -m .. -1
      BY <1>1, <3>1
    <3>3. x % m = x + m
      BY <1>1, <3>1, <3>2, Small
    <3> QED BY <3>1, <3>3 DEF x
  <2> QED BY <1>1, <2>3, <2>4
<1> QED BY <1>2, <1>4, <1>5

\* The handler tells the works that have expired.
LEMMA ExpiryIsSeen ==
  ASSUME NEW e \in Jiffies, NEW s \in Jiffies, Half >= MaxLate + MaxLate + 2, Ahead(e, s) < Half
  PROVE  /\ TimeAfter(e, s) <=> Ahead(e, s) > MaxLate + 1
         /\ ~TimeAfterEq(s, e) => Ahead(e, s) > MaxLate + 1
<1> DEFINE a == Ahead(e, s)
<1>1. e \in Int /\ s \in Int /\ MaxLate \in Nat /\ Half \in Nat /\ JiffiesMod \in Nat \ {0}
  BY ModFacts DEF Jiffies
<1>2. a \in 0 .. JiffiesMod - 1 /\ Ahead(s, s) = MaxLate + 1
  BY <1>1, AheadType, AheadOfItself
<1>3. Ahead(s, s) < Half
  BY <1>1, <1>2
<1>4. TimeAfter(e, s) <=> a > MaxLate + 1
  BY <1>2, <1>3, AheadCompares
<1>5. TimeAfter(s, e) <=> MaxLate + 1 > a
  BY <1>2, <1>3, AheadCompares
<1>6. ASSUME a = MaxLate + 1 PROVE TimeAfterEq(s, e)
  <2>1. (s - e) % JiffiesMod = (Ahead(s, s) - a) % JiffiesMod
    BY <1>1, AheadDifference
  <2>2. Ahead(s, s) - a = 0
    BY <1>1, <1>2, <1>6
  <2>3. 0 % JiffiesMod = 0
    BY <1>1, Small
  <2>4. (s - e) % JiffiesMod = 0
    BY <2>1, <2>2, <2>3
  <2>5. 0 < Half
    BY <1>1
  <2> QED BY <2>4, <2>5 DEF TimeAfterEq, Half
<1>7. TimeAfter(s, e) => TimeAfterEq(s, e)
  BY DEF TimeAfter
<1> HIDE DEF a
<1>8. ~TimeAfterEq(s, e) => a > MaxLate + 1
  BY <1>1, <1>2, <1>5, <1>6, <1>7
<1> QED BY <1>4, <1>8 DEF a

\* The bound on the ticks that a work is late.
LEMMA NotTooLate ==
  ASSUME NEW e \in Jiffies, NEW j \in Jiffies, Half >= MaxLate + MaxLate + 2,
         ~TimeAfterEq(j, e + MaxLate)
  PROVE  Ahead(e, j) >= 2
<1> DEFINE m == JiffiesMod
           a == Ahead(e, j)
           y == e - j + MaxLate + 1
           z == j - (e + MaxLate)
           p == y \div m
<1>1. m \in Nat \ {0} /\ Half \in Nat /\ Half + Half <= m /\ e \in Int /\ j \in Int
      /\ MaxLate \in Nat /\ Half >= 2
  BY ModFacts DEF Jiffies
<1>2. y \in Int /\ z \in Int /\ z = 1 - y
  BY <1>1
<1>3. a \in 0 .. m - 1 /\ a = y % m
  BY <1>1, AheadType DEF Ahead
<1>4. ~(z % m < Half)
  BY DEF TimeAfterEq, Half
<1> HIDE DEF z, y, a, m
<1>5. p \in Int /\ y = p * m + a
  BY <1>1, <1>2, <1>3, Division
<1> HIDE DEF p
<1>6. z = (-p) * m + (1 - a) /\ -p \in Int /\ 1 - a \in Int
  <2> DEFINE u == p * m
  <2>1. u \in Int /\ (-p) * m = -u /\ y = u + a
    BY <1>1, <1>5
  <2> HIDE DEF u
  <2>2. z = -u + (1 - a) /\ -p \in Int /\ 1 - a \in Int
    BY <1>2, <1>3, <1>5, <2>1
  <2> QED BY <2>1, <2>2
<1>7. z % m = (1 - a) % m
  <2> DEFINE o == -p
             n == 1 - a
  <2>1. z = o * m + n /\ o \in Int /\ n \in Int
    BY <1>6
  <2> HIDE DEF o, n
  <2>2. z % m = n % m
    BY <1>1, <1>2, <2>1, Congruent
  <2> QED BY <2>2 DEF n
<1>8. ASSUME a = 0 PROVE FALSE
  <2>1. 1 - a = 1 /\ 1 \in 0 .. m - 1
    BY <1>1, <1>8
  <2>2. 1 % m = 1
    BY <1>1, <2>1, Small
  <2> QED BY <1>1, <1>4, <1>7, <2>1, <2>2
<1>9. ASSUME a = 1 PROVE FALSE
  <2>1. 1 - a = 0 /\ 0 \in 0 .. m - 1
    BY <1>1, <1>9
  <2>2. 0 % m = 0
    BY <1>1, <2>1, Small
  <2> QED BY <1>1, <1>4, <1>7, <2>1, <2>2
<1>10. a >= 2
  BY <1>1, <1>3, <1>8, <1>9
<1> QED BY <1>10 DEF a

-----------------------------------------------------------------------------
\* The delayed list is in time after each step

LEMMA TimeTypes ==
  ASSUME WorkInv
  PROVE  /\ jiffies \in Jiffies /\ seen \in Jiffies
         /\ delayed_list \in Seq(Delayed) /\ Distinct(delayed_list)
         /\ \A w \in ToSet(delayed_list) : w \in Delayed
         /\ \A w \in Delayed : tick_expire[w] \in Jiffies
         /\ \A j \in Jiffies : j \in Int
         /\ \A w \in Delayed : Ahead(tick_expire[w], jiffies) \in Nat
<1>1. /\ jiffies \in Jiffies /\ seen \in Jiffies
      /\ delayed_list \in Seq(Delayed) /\ Distinct(delayed_list)
      /\ tick_expire \in [Delayed -> Jiffies]
  BY DEF WorkInv, WorkTypeOK, PendingIsLinked
<1>2. \A w \in ToSet(delayed_list) : w \in Delayed
  BY <1>1, LenProperties DEF ToSet
<1>3. \A j \in Jiffies : j \in Int
  BY ModFacts DEF Jiffies
<1>4. ASSUME NEW w \in Delayed PROVE Ahead(tick_expire[w], jiffies) \in Nat
  <2>1. tick_expire[w] \in Int /\ jiffies \in Int
    BY <1>1, <1>3
  <2>2. Ahead(tick_expire[w], jiffies) \in 0 .. JiffiesMod - 1
    BY <2>1, AheadType
  <2> QED BY <2>2, ModFacts
<1> QED BY <1>1, <1>2, <1>3, <1>4

LEMMA InitInTime == WorkInit => InTime
<1> SUFFICES ASSUME WorkInit PROVE InTime
  OBVIOUS
<1>1. Lag = 0
  BY DEF WorkInit, Lag
<1>2. ToSet(delayed_list) = {} /\ DOMAIN delayed_list = {}
  BY DEF WorkInit, ToSet
<1> QED BY <1>1, <1>2, ModFacts DEF InTime, Ordered

\* The steps that leave the clock alone and add nothing to the list.
LEMMA KeptInTime ==
  ASSUME WorkInv, InTime, jiffies' = jiffies, Lag' = Lag, Counted => Counted',
         \A w \in ToSet(delayed_list') :
           w \in ToSet(delayed_list) /\ tick_expire'[w] = tick_expire[w],
         Ordered(delayed_list', Sooner)
  PROVE  InTime'
<1>1. \A w \in ToSet(delayed_list') : w \in Delayed /\ Timely(w)
  BY TimeTypes DEF InTime
<1>2. \A w \in ToSet(delayed_list') : Timely(w)'
  BY <1>1 DEF Timely
<1>3. ASSUME NEW v \in ToSet(delayed_list'), NEW w \in ToSet(delayed_list'), <<v, w>> \in Sooner
      PROVE  <<v, w>> \in Sooner'
  BY <1>1, <1>3 DEF Sooner
<1>4. Ordered(delayed_list', Sooner')
  BY <1>3, OrderedBy
<1>5. Lag' \in 0 .. MaxLate
  BY DEF InTime
<1> QED BY <1>2, <1>4, <1>5 DEF InTime

\* The list does not change, and the clock goes on by k.
LEMMA MovedInTime ==
  ASSUME WorkInv, InTime, NEW k \in Int, jiffies' = (jiffies + k) % JiffiesMod,
         UNCHANGED <<delayed_list, tick_expire>>, Lag' \in 0 .. MaxLate,
         \A w \in ToSet(delayed_list) :
           LET a == Ahead(tick_expire[w], jiffies)
           IN  a >= k /\ a - k + Lag' < Half /\ (a # k \/ Counted')
  PROVE  InTime'
<1> DEFINE A(w) == Ahead(tick_expire[w], jiffies)
<1>1. \A w \in ToSet(delayed_list) : w \in Delayed /\ tick_expire[w] \in Int /\ A(w) \in Nat
  BY TimeTypes
<1>2. jiffies \in Int /\ Half \in Nat /\ Half + Half <= JiffiesMod /\ JiffiesMod \in Nat
      /\ Lag' \in Nat
  BY TimeTypes, ModFacts
<1>3. ASSUME NEW w \in ToSet(delayed_list)
      PROVE  Ahead(tick_expire[w], jiffies)' = A(w) - k /\ Timely(w)'
  <2>1. A(w) >= k /\ A(w) - k + Lag' < Half /\ (A(w) # k \/ Counted')
    OBVIOUS
  <2>2. tick_expire[w] \in Int /\ A(w) \in Nat
    BY <1>1
  <2> DEFINE a == A(w)
             l == Lag'
  <2>3. a >= k /\ a - k + l < Half /\ a \in Nat /\ l \in Nat
    BY <1>2, <2>1, <2>2
  <2>4. a - k \in 0 .. JiffiesMod - 1
    <3> HIDE DEF a, l
    <3> QED BY <1>2, <2>3
  <2>5. Ahead(tick_expire[w], (jiffies + k) % JiffiesMod) = A(w) - k
    BY <1>2, <2>2, <2>4, AheadMoves
  <2>6. Ahead(tick_expire[w], jiffies)' = A(w) - k
    BY <2>5
  <2>7. Delays # {}
    BY DEF InTime, Timely
  <2>8. a # k => a - k # 0
    <3> HIDE DEF a
    <3> QED BY <2>3
  <2> QED BY <2>1, <2>6, <2>7, <2>8 DEF Timely
<1>4. ASSUME NEW v \in ToSet(delayed_list), NEW w \in ToSet(delayed_list), <<v, w>> \in Sooner
      PROVE  <<v, w>> \in Sooner'
  <2>1. A(v) <= A(w) /\ A(v) \in Nat /\ A(w) \in Nat
    BY <1>1, <1>4 DEF Sooner
  <2>2. A(v) - k <= A(w) - k
    <3> HIDE DEF A
    <3> QED BY <2>1
  <2> QED BY <1>1, <1>3, <2>2 DEF Sooner
<1>5. Ordered(delayed_list, Sooner')
  BY <1>4, OrderedBy DEF InTime
<1> QED BY <1>3, <1>5 DEF InTime

\* The tick interrupt: no work is later than MaxLate, so it is at most one tick later.
LEMMA TickInTime ==
  ASSUME WorkInv, InTime, SysTick
  PROVE  InTime'
<1>1. /\ jiffies' = (jiffies + 1) % JiffiesMod
      /\ UNCHANGED <<delayed_list, tick_expire, round, seen>>
      /\ \A w \in ToSet(delayed_list) : ~TimeAfterEq(jiffies, tick_expire[w] + MaxLate)
      /\ round \in {"store", "handler"} => (jiffies - seen) % JiffiesMod < MaxLate
  BY DEF SysTick, lists, threads
<1>2. Counted' = Counted
  BY <1>1 DEF Counted
<1>3. /\ Lag \in Nat /\ Lag' \in 0 .. MaxLate /\ Lag' <= Lag + 1
      /\ round \notin {"store", "handler"} => Lag' = 0
  <2>1. CASE round \in {"store", "handler"}
    <3> DEFINE m == JiffiesMod
               d == jiffies - seen
               j == jiffies + 1
               t == j % m
    <3>1. /\ Lag = d % m /\ Lag < MaxLate /\ Lag' = (t - seen) % m
          /\ d \in Int /\ j \in Int /\ seen \in Int /\ m \in Nat \ {0} /\ MaxLate \in Nat
          /\ j - seen = d + 1
      <4>1. Lag = d % m /\ Lag < MaxLate
        BY <1>1, <2>1 DEF Lag
      <4>2. Lag' = (jiffies' - seen') % m
        BY <1>1, <2>1 DEF Lag
      <4>3. d \in Int /\ j \in Int /\ seen \in Int /\ j - seen = d + 1
        BY TimeTypes
      <4> QED BY <1>1, <4>1, <4>2, <4>3, ModFacts
    <3> HIDE DEF m, d, j
    <3>2. (t - seen) % m = (j - seen) % m
      <4> DEFINE q == j \div m
                 u == q * m
      <4>1. q \in Int /\ t \in Int /\ j = u + t
        BY <3>1, Division
      <4> HIDE DEF t, q
      <4>2. u \in Int /\ u = q * m
        BY <3>1, <4>1
      <4> HIDE DEF u
      <4> DEFINE x == j - seen
                 y == t - seen
      <4>3. x = u + y /\ x \in Int /\ y \in Int
        BY <3>1, <4>1, <4>2
      <4> HIDE DEF x, y
      <4>4. x % m = y % m
        BY <3>1, <4>1, <4>2, <4>3, Congruent
      <4> QED BY <4>4 DEF x, y
    <3>3. (d + 1) % m \in 0 .. (d % m) + 1
      <4> DEFINE q == d \div m
                 r == d % m
      <4>1. q \in Int /\ r \in 0 .. m - 1 /\ d = q * m + r
        BY <3>1, Division
      <4> HIDE DEF q, r
      <4>2. CASE r + 1 < m
        <5>1. d + 1 = q * m + (r + 1) /\ r + 1 \in 0 .. m - 1 /\ d + 1 \in Int
          BY <3>1, <4>1, <4>2
        <5>2. (d + 1) % m = r + 1
          BY <3>1, <4>1, <5>1, Remainder
        <5> QED BY <4>1, <5>2 DEF r
      <4>3. CASE ~(r + 1 < m)
        <5>1. r + 1 = m
          BY <3>1, <4>1, <4>3
        <5>2. d + 1 = (q + 1) * m + 0 /\ q + 1 \in Int /\ 0 \in 0 .. m - 1 /\ d + 1 \in Int
          BY <3>1, <4>1, <5>1
        <5>3. (d + 1) % m = 0
          BY <3>1, <5>2, Remainder
        <5>4. 0 \in 0 .. r + 1
          BY <3>1, <4>1
        <5> QED BY <5>3, <5>4 DEF r
      <4> QED BY <4>2, <4>3
    <3>4. Lag' \in 0 .. Lag + 1 /\ Lag \in Nat
      BY <3>1, <3>2, <3>3 DEF InTime
    <3>5. MaxLate \in Nat /\ Lag < MaxLate
      BY <3>1
    <3> QED BY <2>1, <3>4, <3>5
  <2>2. CASE round \notin {"store", "handler"}
    BY <1>1, <2>2, ModFacts DEF Lag
  <2> QED BY <2>1, <2>2
<1>4. ASSUME NEW w \in ToSet(delayed_list)
      PROVE  LET a == Ahead(tick_expire[w], jiffies)
             IN  a >= 1 /\ a - 1 + Lag' < Half /\ (a # 1 \/ Counted')
  <2> DEFINE a == Ahead(tick_expire[w], jiffies)
  <2>1. Timely(w) /\ w \in Delayed /\ a \in Nat
    BY TimeTypes DEF InTime
  <2>2. Half >= MaxLate + MaxLate + 2
    BY <2>1, SomeDelay DEF Timely
  <2>3. a >= 2
    BY <1>1, <2>1, <2>2, TimeTypes, NotTooLate
  <2>4. a + Lag < Half
    BY <2>1 DEF Timely
  <2> DEFINE l == Lag'
  <2>5. l \in Nat /\ l <= Lag + 1 /\ Lag \in Nat /\ Half \in Nat
    BY <1>3, ModFacts
  <2> HIDE DEF a, l
  <2>6. a >= 1 /\ a - 1 + l < Half /\ a # 1
    BY <2>1, <2>3, <2>4, <2>5
  <2> QED BY <2>6 DEF a, l
<1> QED BY <1>1, <1>3, <1>4, MovedInTime

\* ++jiffies takes back the ticks that came between its load and its store.
LEMMA StoreInTime ==
  ASSUME WorkInv, InTime, StoreJiffies
  PROVE  InTime'
<1> DEFINE m == JiffiesMod
           n == Lag
           k == 1 - n
<1>1. /\ round = "store" /\ round' = "argument" /\ jiffies' = (seen + 1) % m
      /\ UNCHANGED <<delayed_list, tick_expire>>
  BY DEF StoreJiffies, lists
<1>2. n = (jiffies - seen) % m /\ n \in Nat /\ ~Counted /\ Counted' /\ Lag' = 0
  BY <1>1, ModFacts DEF Lag, InTime, Counted
<1>3. (seen + 1) % m = (jiffies + k) % m
  <2> DEFINE d == jiffies - seen
             q == d \div m
             u == q * m
  <2>1. d \in Int /\ jiffies \in Int /\ seen \in Int /\ m \in Nat \ {0}
    BY TimeTypes, ModFacts
  <2> HIDE DEF n, m
  <2>2. q \in Int /\ d = u + n
    <3>1. q \in Int /\ d % m \in 0 .. m - 1 /\ d = q * m + (d % m)
      <4> HIDE DEF d
      <4> QED BY <2>1, Division
    <3>2. n = d % m
      BY <1>2 DEF m
    <3> QED BY <3>1, <3>2
  <2> HIDE DEF q
  <2>3. u \in Int /\ u = q * m
    BY <2>1, <2>2
  <2> HIDE DEF u
  <2>4. n \in Nat
    BY <1>2
  <2> DEFINE x == jiffies + k
             y == seen + 1
  <2>5. x = u + y /\ x \in Int /\ y \in Int
    BY <2>1, <2>2, <2>3, <2>4
  <2> HIDE DEF x, y
  <2>6. x % m = y % m
    BY <2>1, <2>2, <2>3, <2>5, Congruent
  <2> QED BY <2>6 DEF x, y
<1>4. ASSUME NEW w \in ToSet(delayed_list)
      PROVE  LET a == Ahead(tick_expire[w], jiffies)
             IN  a >= k /\ a - k + Lag' < Half /\ (a # k \/ Counted')
  <2> DEFINE a == Ahead(tick_expire[w], jiffies)
  <2>1. Timely(w) /\ w \in Delayed /\ a \in Nat
    BY TimeTypes DEF InTime
  <2>2. a + n < Half /\ a # 0
    BY <1>2, <2>1 DEF Timely
  <2> HIDE DEF a, n
  <2>3. a >= k /\ a - k + 0 < Half
    BY <1>2, <2>1, <2>2, ModFacts
  <2> QED BY <1>2, <2>3 DEF a
<1>5. k \in Int /\ Lag' \in 0 .. MaxLate
  BY <1>2, ModFacts
<1> HIDE DEF k
<1> QED BY <1>1, <1>3, <1>4, <1>5, MovedInTime

\* The handler stops at the first work that has not expired, and those behind it expire
\* no sooner.
LEMMA HandlerInTime ==
  ASSUME WorkInv, InTime, TickHandler
  PROVE  /\ InTime'
         /\ \A w \in ToSet(delayed_list') : TimeAfter(tick_expire[w], seen)
<1>1. /\ round = "handler" /\ round' = "run" /\ jiffies' = jiffies
      /\ Forget(ToSet(delayed_list) \ ToSet(delayed_list'))
  BY DEF TickHandler
<1>2. delayed_list \in Seq(Delayed)
  BY TimeTypes
<1>3. PICK n \in 0 .. Len(delayed_list) :
        /\ n < Len(delayed_list) => NotYet(delayed_list[n + 1])
        /\ delayed_list' = SubSeq(delayed_list, n + 1, Len(delayed_list))
  BY <1>2, HandlerSplits
<1> DEFINE b == SubSeq(delayed_list, n + 1, Len(delayed_list))
           x == delayed_list[n + 1]
<1>4. /\ Ordered(b, Sooner)
      /\ \A w \in ToSet(b) : n < Len(delayed_list) /\ (w = x \/ <<x, w>> \in Sooner)
  BY <1>2, SuffixOrdered DEF InTime
<1>5. ToSet(b) \subseteq ToSet(delayed_list)
  <2>1. ToSet(SubSeq(delayed_list, 1, n)) \cup ToSet(b) = ToSet(delayed_list)
    BY <1>2, TimeTypes, SplitDistinct
  <2> QED BY <2>1
<1>6. n < Len(delayed_list) => x \in ToSet(delayed_list)
  BY <1>2, LenProperties DEF ToSet
<1>7. delayed_list' = b
  BY <1>3
<1> HIDE DEF b, x
<1> DEFINE A(w) == Ahead(tick_expire[w], jiffies)
<1>8. Lag = (jiffies - seen) % JiffiesMod /\ Lag \in Nat /\ Lag <= MaxLate /\ Lag' = 0
  BY <1>1, ModFacts DEF InTime, Lag
<1>9. ASSUME NEW w \in ToSet(delayed_list)
      PROVE  /\ w \in Delayed /\ A(w) \in Nat /\ A(w) + Lag < Half
             /\ TimeAfter(tick_expire[w], seen) <=> A(w) + Lag > MaxLate + 1
             /\ NotYet(w) => A(w) + Lag > MaxLate + 1
  <2>1. Timely(w) /\ w \in Delayed /\ A(w) \in Nat /\ tick_expire[w] \in Jiffies
    BY TimeTypes DEF InTime
  <2>2. Half >= MaxLate + MaxLate + 2 /\ A(w) + Lag < Half
    BY <2>1, SomeDelay DEF Timely
  <2>3. Ahead(tick_expire[w], seen) = A(w) + Lag
    BY <1>8, <2>1, <2>2, TimeTypes, AheadOfSeen
  <2>4. Ahead(tick_expire[w], seen) < Half /\ seen \in Jiffies
    BY <2>2, <2>3, TimeTypes
  <2>5. /\ TimeAfter(tick_expire[w], seen) <=> A(w) + Lag > MaxLate + 1
        /\ ~TimeAfterEq(seen, tick_expire[w]) => A(w) + Lag > MaxLate + 1
    BY <2>1, <2>2, <2>3, <2>4, ExpiryIsSeen
  <2> QED BY <2>1, <2>2, <2>5 DEF NotYet
<1> HIDE DEF A
<1>10. ASSUME NEW w \in ToSet(b)
       PROVE  w \in ToSet(delayed_list) /\ A(w) + Lag > MaxLate + 1
  <2>1. n < Len(delayed_list) /\ NotYet(x) /\ x \in ToSet(delayed_list) /\ w \in ToSet(delayed_list)
    BY <1>3, <1>4, <1>5, <1>6 DEF x
  <2>2. A(x) + Lag > MaxLate + 1
    BY <1>9, <2>1
  <2>3. A(x) \in Nat /\ A(w) \in Nat /\ MaxLate \in Nat
    BY <1>9, <2>1, ModFacts
  <2>4. A(x) <= A(w)
    <3>1. CASE w = x
      BY <2>3, <3>1
    <3>2. CASE <<x, w>> \in Sooner
      BY <3>2 DEF Sooner, A
    <3> QED BY <1>4, <3>1, <3>2
  <2> QED BY <1>8, <2>1, <2>2, <2>3, <2>4
<1>11. \A w \in ToSet(delayed_list') : TimeAfter(tick_expire[w], seen)
  BY <1>7, <1>9, <1>10
<1>12. \A w \in ToSet(b) : w \in Delayed /\ tick_expire'[w] = tick_expire[w]
  BY <1>1, <1>7, <1>9, <1>10 DEF Forget
<1>13. ASSUME NEW w \in ToSet(b) PROVE Timely(w)'
  <2>1. A(w) \in Nat /\ A(w) + Lag < Half /\ A(w) + Lag > MaxLate + 1 /\ Delays # {}
    BY <1>9, <1>10 DEF InTime, Timely
  <2>2. A(w) + 0 < Half /\ A(w) # 0
    BY <1>8, <2>1, ModFacts
  <2>3. Ahead(tick_expire[w], jiffies)' = A(w)
    BY <1>1, <1>12 DEF A
  <2> QED BY <1>8, <2>1, <2>2, <2>3 DEF Timely
<1>14. ASSUME NEW v \in ToSet(b), NEW w \in ToSet(b), <<v, w>> \in Sooner
       PROVE  <<v, w>> \in Sooner'
  BY <1>1, <1>12, <1>14 DEF Sooner
<1>15. Ordered(delayed_list', Sooner')
  BY <1>4, <1>7, <1>14, OrderedBy
<1>16. Lag' \in 0 .. MaxLate
  BY <1>8, ModFacts
<1> QED BY <1>7, <1>11, <1>13, <1>15, <1>16 DEF InTime

\* A work is linked behind those that expire no later.
LEMMA QueuedInTime ==
  ASSUME WorkInv, InTime, NEW w \in Delayed, NEW d \in Delays, QueueDelayedWork(w, d)
  PROVE  InTime'
<1> DEFINE e == (jiffies + d) % JiffiesMod
           A(v) == Ahead(tick_expire[v], jiffies)
<1>1. /\ jiffies' = jiffies /\ tick_expire' = [tick_expire EXCEPT ![w] = e]
      /\ w \notin pending /\ UNCHANGED <<round, seen>>
  BY Zenon DEF QueueDelayedWork, threads
<1>2. delayed_list \in Seq(Delayed) /\ Distinct(delayed_list) /\ w \notin ToSet(delayed_list)
  BY <1>1, TimeTypes DEF WorkInv, PendingIsLinked
<1>3. PICK n \in 0 .. Len(delayed_list) :
        /\ delayed_list' = InsertBefore(delayed_list, w, n)
        /\ \A i \in 1 .. Len(delayed_list) : n = 0 \/ i < n => ~Behind(i, d)
        /\ n # 0 => Behind(n, d)
  BY <1>2, DelayedInserted
<1>4. ToSet(delayed_list') = ToSet(delayed_list) \cup {w}
  BY <1>2, <1>3, InsertBeforeDistinct
<1>5. /\ d \in Nat /\ d + MaxLate + MaxLate + 2 <= Half /\ Half \in Nat /\ MaxLate \in Nat
      /\ Half + Half <= JiffiesMod /\ JiffiesMod \in Nat \ {0} /\ jiffies \in Int
  BY TimeTypes, ModFacts
<1>6. Lag' = Lag /\ Lag \in Nat /\ Lag <= MaxLate
  BY <1>1, <1>5 DEF Lag, InTime
<1>7. e \in Jiffies
  BY TimeTypes, JiffiesWrap
<1>8. Ahead(e, jiffies) = d + MaxLate + 1
  <2>1. Ahead(jiffies, jiffies) = MaxLate + 1
    BY <1>5, AheadOfItself
  <2> DEFINE n1 == d + MaxLate + 1
             m  == JiffiesMod
             x  == jiffies + d
             q  == x \div m
             u  == q * m
  <2>2. x \in Int /\ m \in Nat \ {0} /\ jiffies \in Int /\ MaxLate \in Nat
        /\ n1 \in 0 .. m - 1
    BY <1>5
  <2>3. e = x % m
    OBVIOUS
  <2> HIDE DEF x, e, m
  <2>4. q \in Int /\ x = u + e /\ e \in Int
    BY <2>2, <2>3, Division
  <2> HIDE DEF q
  <2>5. u = q * m /\ u \in Int
    BY <2>2, <2>4
  <2> HIDE DEF u
  <2> DEFINE y == e - jiffies + MaxLate + 1
  <2>6. x = jiffies + d
    BY DEF x
  <2>7. n1 = u + y /\ n1 \in Int /\ y \in Int
    BY <1>5, <2>2, <2>4, <2>5, <2>6
  <2> HIDE DEF y, n1
  <2>8. n1 % m = y % m
    BY <2>2, <2>4, <2>5, <2>7, Congruent
  <2>9. n1 % m = n1
    BY <2>2, <2>7, Small
  <2> QED BY <2>8, <2>9 DEF Ahead, y, n1, m
<1> HIDE DEF e
<1>9. ASSUME NEW v \in ToSet(delayed_list)
      PROVE  /\ v \in Delayed /\ A(v) \in Nat /\ Timely(v) /\ tick_expire[v] \in Jiffies
             /\ tick_expire'[v] = tick_expire[v]
             /\ ExpiresAfter(tick_expire[v], e) <=> A(v) > Ahead(e, jiffies)
  <2>1. v \in Delayed /\ A(v) \in Nat /\ Timely(v) /\ tick_expire[v] \in Jiffies
    BY TimeTypes DEF InTime
  <2>2. A(v) + Lag < Half
    BY <2>1 DEF Timely
  <2>3. A(v) < Half
    <3> DEFINE a == A(v)
    <3>1. a \in Nat /\ a + Lag < Half
      BY <2>1, <2>2
    <3> HIDE DEF a
    <3>2. a < Half
      BY <1>5, <1>6, <3>1
    <3> QED BY <3>2 DEF a
  <2>4. Ahead(e, jiffies) < Half
    BY <1>5, <1>8
  <2>5. TimeAfter(tick_expire[v], e) <=> A(v) > Ahead(e, jiffies)
    BY <1>7, <2>1, <2>3, <2>4, TimeTypes, AheadCompares
  <2>6. tick_expire'[v] = tick_expire[v]
    BY <1>1, <1>2
  <2> QED BY <2>1, <2>5, <2>6 DEF ExpiresAfter
<1>10. tick_expire'[w] = e
  BY <1>1 DEF WorkInv, WorkTypeOK
<1>11. Ahead(tick_expire[w], jiffies)' = Ahead(e, jiffies)
  BY <1>1, <1>10
<1>12. \A v \in ToSet(delayed_list) : Ahead(tick_expire[v], jiffies)' = A(v)
  BY <1>1, <1>9
<1> HIDE DEF A
<1>13. Counted' = Counted
  BY <1>1 DEF Counted
<1>14. ASSUME NEW v \in ToSet(delayed_list') PROVE Timely(v)'
  <2>1. CASE v = w
    <3>1. /\ d + MaxLate + 1 + Lag < Half /\ d + MaxLate + 1 # 0 /\ Delays # {}
      BY <1>5, <1>6
    <3> QED BY <1>6, <1>8, <1>11, <2>1, <3>1 DEF Timely
  <2>2. CASE v # w
    <3>1. v \in ToSet(delayed_list)
      BY <1>4, <2>2
    <3> QED BY <1>6, <1>9, <1>12, <1>13, <3>1 DEF Timely, A
  <2> QED BY <2>1, <2>2
<1> DEFINE L == Len(delayed_list)
<1>15. \A i \in 1 .. L : delayed_list[i] \in ToSet(delayed_list)
  BY <1>2, LenProperties DEF ToSet
<1>16. ASSUME NEW v \in ToSet(delayed_list), NEW x \in ToSet(delayed_list), <<v, x>> \in Sooner
       PROVE  <<v, x>> \in Sooner' /\ A(v) <= A(x)
  <2>1. A(v) <= A(x)
    BY <1>16 DEF Sooner, A
  <2> QED BY <1>9, <1>12, <2>1 DEF Sooner
<1>17. Ordered(delayed_list, Sooner')
  BY <1>16, OrderedBy DEF InTime
<1>18. ASSUME NEW v \in ToSet(delayed_list)
       PROVE  /\ ~ExpiresAfter(tick_expire[v], e) => <<v, w>> \in Sooner'
              /\ A(v) >= Ahead(e, jiffies) => <<w, v>> \in Sooner'
  <2>1. ~ExpiresAfter(tick_expire[v], e) => A(v) <= Ahead(e, jiffies)
    BY <1>5, <1>8, <1>9
  <2>2. A(v) >= Ahead(e, jiffies) => Ahead(e, jiffies) <= A(v)
    BY <1>5, <1>8, <1>9
  <2> QED BY <1>9, <1>11, <1>12, <2>1, <2>2 DEF Sooner
<1>19. \A i \in 1 .. L : n = 0 \/ i < n => <<delayed_list[i], w>> \in Sooner'
  BY <1>3, <1>15, <1>18 DEF Behind, e
<1>20. ASSUME NEW i \in 1 .. L, n # 0, n <= i PROVE <<w, delayed_list[i]>> \in Sooner'
  <2> DEFINE v == delayed_list[n]
             x == delayed_list[i]
  <2>1. n \in 1 .. L /\ L \in Nat /\ v \in ToSet(delayed_list) /\ x \in ToSet(delayed_list)
    BY <1>2, <1>15, <1>20, LenProperties
  <2>2. A(v) > Ahead(e, jiffies)
    <3>1. ExpiresAfter(tick_expire[v], e)
      BY <1>3, <1>20 DEF Behind, e
    <3> QED BY <1>9, <2>1, <3>1
  <2>3. A(v) <= A(x)
    <3>1. CASE n = i
      BY <1>9, <2>1, <3>1
    <3>2. CASE n # i
      <4>1. n < i /\ n \in DOMAIN delayed_list /\ i \in DOMAIN delayed_list
        BY <1>2, <1>20, <2>1, <3>2, LenProperties
      <4>2. <<v, x>> \in Sooner
        BY <4>1 DEF InTime, Ordered
      <4> QED BY <1>16, <2>1, <4>2
    <3> QED BY <3>1, <3>2
  <2> HIDE DEF v, x
  <2>4. A(x) >= Ahead(e, jiffies)
    BY <1>5, <1>8, <1>9, <2>1, <2>2, <2>3
  <2>5. <<w, x>> \in Sooner'
    BY <1>18, <2>1, <2>4
  <2> QED BY <2>5 DEF x
<1>21. Ordered(delayed_list', Sooner')
  <2> DEFINE R == Sooner'
  <2>1. Ordered(delayed_list, R) /\ \A i \in 1 .. L : n = 0 \/ i < n => <<delayed_list[i], w>> \in R
    BY <1>17, <1>19
  <2>2. \A i \in 1 .. L : n # 0 /\ n <= i => <<w, delayed_list[i]>> \in R
    BY <1>20
  <2> HIDE DEF R
  <2>3. Ordered(InsertBefore(delayed_list, w, n), R)
    BY <1>2, <2>1, <2>2, InsertOrdered
  <2> QED BY <1>3, <2>3 DEF R
<1>22. Lag' \in 0 .. MaxLate
  BY <1>5, <1>6
<1> QED BY <1>14, <1>21, <1>22 DEF InTime

LEMMA WorkInTime == WorkInv /\ InTime /\ [WorkNext]_workVars => InTime'
<1> SUFFICES ASSUME WorkInv, InTime, [WorkNext]_workVars PROVE InTime'
  OBVIOUS
<1>1. /\ delayed_list \in Seq(Delayed) /\ Distinct(delayed_list)
      /\ Ordered(delayed_list, Sooner)
  BY TimeTypes DEF InTime
<1>2. ASSUME UNCHANGED <<jiffies, delayed_list, tick_expire>>, Lag' = Lag, Counted => Counted'
      PROVE  InTime'
  <2>1. \A w \in ToSet(delayed_list') :
          w \in ToSet(delayed_list) /\ tick_expire'[w] = tick_expire[w]
    BY <1>2
  <2>2. Ordered(delayed_list', Sooner)
    BY <1>1, <1>2
  <2> QED BY <1>2, <2>1, <2>2, KeptInTime
<1>3. ASSUME UNCHANGED <<jiffies, round, seen>>
      PROVE  Lag' = Lag /\ (Counted => Counted')
  BY <1>3 DEF Lag, Counted
<1>4. ASSUME UNCHANGED <<jiffies, delayed_list, tick_expire, round, seen>>
      PROVE  InTime'
  BY <1>2, <1>3, <1>4
<1>5. ASSUME UNCHANGED <<jiffies, delayed_list, tick_expire>>,
             round \notin {"store", "argument", "handler"},
             round' \notin {"store", "argument", "handler"}
      PROVE  InTime'
  <2>1. Lag' = Lag /\ (Counted => Counted')
    BY <1>5 DEF Lag, Counted
  <2> QED BY <1>2, <1>5, <2>1
<1>6. CASE UNCHANGED workVars
  BY <1>4, <1>6 DEF workVars, lists, threads
<1>7. CASE LoadJiffies
  <2>1. /\ round = "start" /\ round' = "store" /\ seen' = jiffies
        /\ UNCHANGED <<jiffies, delayed_list, tick_expire>>
    BY <1>7 DEF LoadJiffies, lists
  <2>2. jiffies - jiffies = 0 /\ 0 % JiffiesMod = 0
    BY TimeTypes, ModFacts, Small
  <2>3. Lag' = Lag /\ (Counted => Counted')
    BY <2>1, <2>2 DEF Lag, Counted
  <2> QED BY <1>2, <2>1, <2>3
<1>8. CASE PassJiffies
  <2>1. /\ round = "argument" /\ round' = "handler" /\ seen' = jiffies
        /\ UNCHANGED <<jiffies, delayed_list, tick_expire>>
    BY <1>8 DEF PassJiffies, lists
  <2>2. jiffies - jiffies = 0 /\ 0 % JiffiesMod = 0
    BY TimeTypes, ModFacts, Small
  <2>3. Lag' = Lag /\ (Counted => Counted')
    BY <2>1, <2>2 DEF Lag, Counted
  <2> QED BY <1>2, <2>1, <2>3
<1>9. CASE LincliTake \/ LincliSkip \/ LincliFinish
  BY <1>5, <1>9 DEF LincliTake, LincliSkip, LincliFinish, lists
<1>10. CASE LincliStep
  BY <1>7, <1>8, <1>9, <1>10, StoreInTime, HandlerInTime DEF LincliStep
<1>11. ASSUME NEW w \in Works, QueueWork(w) PROVE InTime'
  BY <1>4, <1>11 DEF QueueWork, threads
<1>12. ASSUME NEW c \in Clients, FlushStep(c) PROVE InTime'
  BY <1>4, <1>12 DEF FlushStep, FlushTestsPending, FlushTestsRunning, FlushTestsWorkList,
                     FlushTestsDelayedList, FlushTake, FlushSkip, FlushFinish, lists
<1>13. ASSUME NEW c \in Clients, CancelPending(c) PROVE InTime'
  <2> DEFINE w == call[c].work
  <2>1. /\ delayed_list' = Unlink(delayed_list, w) /\ Forget({w})
        /\ UNCHANGED <<jiffies, round, seen>>
    BY <1>13 DEF CancelPending, Withdraw
  <2> HIDE DEF w
  <2>2. ToSet(delayed_list') = ToSet(delayed_list) \ {w}
    BY <1>1, <2>1, UnlinkDistinct
  <2>3. Ordered(delayed_list', Sooner)
    BY <1>1, <2>1, UnlinkOrdered
  <2>4. \A v \in ToSet(delayed_list') :
          v \in ToSet(delayed_list) /\ tick_expire'[v] = tick_expire[v]
    BY <2>1, <2>2, TimeTypes DEF Forget
  <2> QED BY <1>3, <2>1, <2>3, <2>4, KeptInTime
<1>14. ASSUME NEW c \in Clients, CancelStep(c) \/ FlushAll(c) PROVE InTime'
  BY <1>4, <1>13, <1>14 DEF CancelStep, CancelNotPending, CancelNotRunning, FlushAll, lists
<1>15. ASSUME NEW c \in Clients, NEW w \in Works, Flush(c, w) \/ Cancel(c, w) PROVE InTime'
  BY <1>4, <1>15 DEF Flush, Cancel, lists
<1>16. CASE WorkNext
  BY <1>10, <1>11, <1>12, <1>14, <1>15, <1>16, TickInTime, QueuedInTime DEF WorkNext
<1> QED BY <1>6, <1>16

\* The tick handler leaves no work behind that has expired: the delayed list stays sorted
\* across a wrap of jiffies and its lost increments, and the signed difference of
\* time_after tells what has expired.
THEOREM NoneExpiredStays == WorkSpec => HandlerLeavesNoneExpired
<1> DEFINE Leaves == round = "handler" /\ round' = "run"
                     => \A w \in ToSet(delayed_list') : TimeAfter(tick_expire[w], seen)
<1>1. WorkInit => WorkInv /\ InTime
  BY WorkInitInv, InitInTime
<1>2. WorkInv /\ InTime /\ [WorkNext]_workVars => WorkInv' /\ InTime'
  BY WorkNextInv, WorkInTime
<1>3. WorkInv /\ InTime /\ [WorkNext]_workVars => [Leaves]_workVars
  <2> SUFFICES ASSUME WorkInv, InTime, WorkNext, round = "handler", round' = "run"
               PROVE  \A w \in ToSet(delayed_list') : TimeAfter(tick_expire[w], seen)
    OBVIOUS
  <2>1. CASE TickHandler
    BY <2>1, HandlerInTime
  <2>2. CASE LincliStep
    BY <2>1, <2>2 DEF LincliStep, LoadJiffies, StoreJiffies, PassJiffies, LincliTake, LincliSkip,
                      LincliFinish
  <2>3. round' # round
    OBVIOUS
  <2>4. ~SysTick
    BY <2>3 DEF SysTick, threads
  <2>5. \A w \in Works : ~QueueWork(w)
    BY <2>3 DEF QueueWork, threads
  <2>6. \A w \in Delayed, d \in Delays : ~QueueDelayedWork(w, d)
    BY <2>3, Zenon DEF QueueDelayedWork, threads
  <2>7. \A c \in Clients : ~FlushStep(c)
    BY <2>3 DEF FlushStep, FlushTestsPending, FlushTestsRunning, FlushTestsWorkList,
                FlushTestsDelayedList, FlushTake, FlushSkip, FlushFinish
  <2>8. \A c \in Clients : ~CancelStep(c) /\ ~FlushAll(c)
    BY <2>3 DEF CancelStep, CancelPending, CancelNotPending, CancelNotRunning, FlushAll
  <2>9. \A c \in Clients, w \in Works : ~Flush(c, w) /\ ~Cancel(c, w)
    BY <2>3 DEF Flush, Cancel
  <2> QED BY <2>2, <2>4, <2>5, <2>6, <2>7, <2>8, <2>9 DEF WorkNext
<1> QED BY <1>1, <1>2, <1>3, PTL DEF WorkSpec, HandlerLeavesNoneExpired

-----------------------------------------------------------------------------
\* The refinement

LEMMA PoolInit == WorkInit => Pool!Init
BY DEF WorkInit, Pool!Init, ToSet

\* A delayed work that has expired joins the end of the list of due work.
LEMMA PoolExpire ==
  ASSUME WorkInv, TickHandler
  PROVE  Pool!Expire
<1>1. /\ work_list \in Seq(Works) /\ delayed_list \in Seq(Delayed) /\ Distinct(delayed_list)
  BY DEF WorkInv, WorkTypeOK, PendingIsLinked
<1>2. PICK n \in 0 .. Len(delayed_list) :
        /\ delayed_list' = SubSeq(delayed_list, n + 1, Len(delayed_list))
        /\ work_list' = work_list \o SubSeq(delayed_list, 1, n)
  BY <1>1, HandlerSplits
<1> DEFINE a == SubSeq(delayed_list, 1, n)
           b == SubSeq(delayed_list, n + 1, Len(delayed_list))
           E == ToSet(a)
<1>3. /\ a \in Seq(Delayed) /\ Len(a) = n /\ Distinct(a)
      /\ ToSet(a) \cap ToSet(b) = {} /\ ToSet(a) \cup ToSet(b) = ToSet(delayed_list)
  BY <1>1, SplitDistinct
<1>4. delayed_list' = b /\ work_list' = work_list \o a /\ UNCHANGED work
  BY <1>2 DEF TickHandler
<1> HIDE DEF a, b
<1>5. DOMAIN a = 1 .. n /\ n \in Nat
  BY <1>1, <1>3, LenProperties
<1>6. a \in SetToSeqs(E)
  <2>0. /\ a \in [1 .. n -> E]
        /\ \A i, j \in 1 .. n : a[i] = a[j] => i = j
        /\ \A x \in E : \E i \in 1 .. n : a[i] = x
    <3>1. E = {a[i] : i \in 1 .. n}
      BY <1>5 DEF ToSet
    <3>2. a = [i \in 1 .. n |-> a[i]]
      BY <1>3, <1>5, LenProperties
    <3> HIDE DEF E
    <3>3. a \in [1 .. n -> E]
      BY <3>1, <3>2
    <3>4. \A i, j \in 1 .. n : a[i] = a[j] => i = j
      BY <1>3, <1>5 DEF Distinct, IsInjective
    <3> QED BY <3>1, <3>3, <3>4
  <2> HIDE DEF E
  <2>1. a \in Bijection(1 .. n, E)
    BY <2>0 DEF Bijection, Injection, Surjection, IsInjective
  <2>2. IsFiniteSet(1 .. n) /\ Cardinality(1 .. n) = n
    BY <1>5, FS_Interval
  <2>3. Cardinality(E) = n
    BY <2>1, <2>2, FS_Bijection DEF ExistsBijection
  <2> QED BY <2>0, <2>3 DEF SetToSeqs
<1>7. E \in SUBSET ToSet(delayed_list) /\ ToSet(delayed_list)' = ToSet(delayed_list) \ E
  BY <1>3, <1>4
<1>8. a \in Pool!SetToSeqs(E)
  <2> HIDE DEF E
  <2>1. Pool!Cardinality(E) = Cardinality(E)
    BY Zenon DEF Pool!Cardinality, Cardinality
  <2> QED BY <1>6, <2>1 DEF Pool!SetToSeqs, SetToSeqs
<1> HIDE DEF E
<1> QED BY <1>4, <1>7, <1>8 DEF Pool!Expire

LEMMA PoolRemoves ==
  ASSUME NEW s, NEW w
  PROVE  Pool!RemoveFirst(s, w) = Unlink(s, w)
BY Zenon DEF Pool!RemoveFirst, Pool!RemoveAt, Pool!SelectInSeq, Pool!Min,
             Unlink, RemoveFirst, RemoveAt, SelectInSeq, Min

PoolVars == <<ToSet(delayed_list), work_list, work>>

\* Every step of the work queue is a step of WorkPool, or none.
LEMMA PoolNext == WorkInv /\ [WorkNext]_workVars => [Pool!Next]_PoolVars
<1> SUFFICES ASSUME WorkInv, [WorkNext]_workVars PROVE [Pool!Next]_PoolVars
  OBVIOUS
<1>1. /\ work_list \in Seq(Works) /\ delayed_list \in Seq(Delayed)
      /\ Linked(work_list, delayed_list, pending)
      /\ \A w \in Works : w # NoWork
  BY WorkAssumption DEF WorkInv, WorkTypeOK, PendingIsLinked, Linked
<1>2. Pool!ToSet(work_list) = ToSet(work_list)
  BY DEF Pool!ToSet, ToSet
<1>3. Lincli \in Runners /\ Clients \subseteq Runners
  BY DEF Runners
<1>4. CASE UNCHANGED <<work_list, delayed_list, work>>
  BY <1>4 DEF PoolVars
<1>5. ASSUME NEW w \in Works, QueueWork(w) PROVE Pool!Accept(w)
  <2>1. /\ w \notin ToSet(delayed_list) \cup ToSet(work_list)
        /\ work_list' = Append(work_list, w)
        /\ delayed_list' = delayed_list /\ work' = work
    BY <1>1, <1>5 DEF QueueWork, threads, Linked
  <2> QED BY <1>2, <2>1 DEF Pool!Accept
<1>6. ASSUME NEW w \in Delayed, NEW d \in Delays, QueueDelayedWork(w, d) PROVE Pool!Accept(w)
  <2>1. /\ w \notin ToSet(delayed_list) \cup ToSet(work_list)
        /\ work_list' = work_list /\ work' = work
    BY <1>1, <1>6 DEF QueueDelayedWork, threads, Linked
  <2>2. PICK n \in 0 .. Len(delayed_list) : delayed_list' = InsertBefore(delayed_list, w, n)
    BY <1>1, <1>6, DelayedInserted
  <2>3. ToSet(delayed_list)' = ToSet(delayed_list) \cup {w}
    BY <1>1, <2>2, InsertBeforeDistinct DEF Linked
  <2> QED BY <1>2, <2>1, <2>3 DEF Pool!Accept
<1>7. ASSUME NEW r \in Runners, work[r] = NoWork, Take(r), delayed_list' = delayed_list
      PROVE  Pool!Begin(r)
  BY <1>7 DEF Take, Pool!Begin
<1>8. ASSUME NEW r \in Runners, Finish(r), UNCHANGED lists PROVE Pool!End(r)
  BY <1>8 DEF Finish, lists, Pool!End
<1>9. ASSUME NEW c \in Clients, CancelPending(c) PROVE \E w \in Works : Pool!Withdraw(w)
  <2> DEFINE w == call[c].work
  <2>1. /\ w \in pending
        /\ work_list' = Unlink(work_list, w) /\ delayed_list' = Unlink(delayed_list, w)
        /\ work' = work
    BY <1>9 DEF CancelPending, Withdraw
  <2>2. w \in Works
    BY <2>1 DEF WorkInv, WorkTypeOK
  <2> HIDE DEF w
  <2>3. ToSet(delayed_list)' = ToSet(delayed_list) \ {w}
    BY <1>1, <2>1, UnlinkDistinct DEF Linked
  <2>4. w \in ToSet(delayed_list) \cup Pool!ToSet(work_list)
    BY <1>1, <1>2, <2>1 DEF Linked
  <2>5. work_list' = Pool!RemoveFirst(work_list, w)
    BY <2>1, PoolRemoves
  <2>6. Pool!Withdraw(w)
    BY <2>1, <2>3, <2>4, <2>5 DEF Pool!Withdraw
  <2> QED BY <2>2, <2>6
<1>10. CASE UNCHANGED workVars
  BY <1>4, <1>10 DEF workVars, lists, threads
<1>11. CASE SysTick
  BY <1>4, <1>11 DEF SysTick, lists, threads
<1>12. CASE LincliStep
  <2>1. CASE LoadJiffies \/ StoreJiffies \/ PassJiffies \/ LincliSkip
    BY <1>4, <2>1 DEF LoadJiffies, StoreJiffies, PassJiffies, LincliSkip, lists
  <2>2. CASE TickHandler
    BY <2>2, PoolExpire DEF Pool!Next
  <2>3. CASE LincliTake
    <3>1. work[Lincli] = NoWork
      BY <2>3 DEF LincliTake, WorkInv, InFunction
    <3> QED BY <1>3, <1>7, <2>3, <3>1 DEF LincliTake, Pool!Next
  <2>4. CASE LincliFinish
    <3>1. Pool!End(Lincli)
      BY <1>3, <1>8, <2>4 DEF LincliFinish
    <3> QED BY <1>3, <3>1 DEF Pool!Next
  <2> QED BY <1>12, <2>1, <2>2, <2>3, <2>4 DEF LincliStep
<1>13. ASSUME NEW c \in Clients, FlushStep(c) PROVE [Pool!Next]_PoolVars
  <2>1. CASE FlushTestsPending(c) \/ FlushTestsRunning(c) \/ FlushSkip(c)
    BY <1>4, <2>1 DEF FlushTestsPending, FlushTestsRunning, FlushSkip, lists
  <2>2. CASE FlushTake(c)
    <3>1. work[c] = NoWork
      BY <2>2 DEF FlushTake, WorkInv, InFunction
    <3> QED BY <1>3, <1>7, <2>2, <3>1 DEF FlushTake, Pool!Next
  <2>3. CASE FlushFinish(c)
    <3>1. Pool!End(c)
      BY <1>3, <1>8, <2>3 DEF FlushFinish
    <3> QED BY <1>3, <3>1 DEF Pool!Next
  <2>4. CASE FlushTestsWorkList(c) \/ FlushTestsDelayedList(c)
    BY <1>4, <2>4 DEF FlushTestsWorkList, FlushTestsDelayedList, lists
  <2> QED BY <1>13, <2>1, <2>2, <2>3, <2>4 DEF FlushStep
<1>14. ASSUME NEW c \in Clients, CancelStep(c) PROVE [Pool!Next]_PoolVars
  <2>1. CASE CancelNotPending(c) \/ CancelNotRunning(c)
    BY <1>4, <2>1 DEF CancelNotPending, CancelNotRunning, lists
  <2>2. CASE CancelPending(c)
    BY <1>9, <2>2 DEF Pool!Next
  <2> QED BY <1>14, <2>1, <2>2 DEF CancelStep
<1>15. ASSUME NEW c \in Clients, NEW w \in Works, Flush(c, w) \/ Cancel(c, w)
       PROVE  [Pool!Next]_PoolVars
  BY <1>4, <1>15 DEF Flush, Cancel, lists
<1>16. ASSUME NEW c \in Clients, FlushAll(c) PROVE [Pool!Next]_PoolVars
  BY <1>4, <1>16 DEF FlushAll, lists
<1>17. \A w \in Works : Pool!Accept(w) => Pool!Next
  BY DEF Pool!Next
<1>18. CASE WorkNext
  BY <1>5, <1>6, <1>11, <1>12, <1>13, <1>14, <1>15, <1>16, <1>17, <1>18, WorkAssumption
     DEF WorkNext
<1> QED BY <1>10, <1>18

\* The work queue keeps the promise of WorkPool, for any number of works and of tasks that
\* queue, cancel and flush them.
THEOREM WorkQueueImplementsWorkPool == WorkSpec => QueueIsWorkPool
<1>1. WorkInit => Pool!Init
  BY PoolInit
<1>2. WorkInv /\ [WorkNext]_workVars => [Pool!Next]_PoolVars
  BY PoolNext
<1> QED BY <1>1, <1>2, WorkInvariant, PTL DEF WorkSpec, QueueIsWorkPool, Pool!Spec, PoolVars
=============================================================================
