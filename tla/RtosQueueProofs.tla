---------------------------- MODULE RtosQueueProofs ----------------------------
(***************************************************************************)
(* Theorems about RtosQueue, for any number of tasks, queues, items and    *)
(* places.                                                                 *)
(*                                                                         *)
(* A ring buffer is a double-ended queue wherever its pointers stand; the  *)
(* invariant of RtosTaskProofs holds with the steps of the calls of        *)
(* queue.h, of semaphores and of interrupt handlers; and those steps do to *)
(* the ring buffers what the mailboxes of module Mailbox promise. The last *)
(* sections are about the tasks that wait: a task in an event list is one  *)
(* whose call will find it there (WaitInv), the lists stay sorted while no *)
(* priority changes (SortedLists), as long as a queue has an item and a    *)
(* reader waits, one that was woken is on its way (NoneLost), and tasks of *)
(* one priority are served in turn (Turn).                                 *)
(***************************************************************************)
EXTENDS RtosQueue, RtosTaskProofs, SequenceTheorems, FiniteSetTheorems

-----------------------------------------------------------------------------
\* The ring buffer

\* Every slot number stays within the buffer.
LEMMA SlotNumbers ==
  ASSUME NEW len \in Nat \ {0}, NEW i \in 0 .. len - 1, NEW n \in 0 .. len
  PROVE  /\ Forward(len, i) \in 0 .. len - 1 /\ Backward(len, i) \in 0 .. len - 1
         /\ Wrap(len, i + n) \in 0 .. len - 1
BY DEF Forward, Backward, Wrap

\* The contents are a sequence of n items.
LEMMA ContentsSeq ==
  ASSUME NEW len \in Nat \ {0}, NEW S, NEW r, NEW n, RingOK(r, len, n, S)
  PROVE  /\ Contents(r, len, n) \in Seq(S) /\ Len(Contents(r, len, n)) = n
         /\ \A i \in 1 .. n : Contents(r, len, n)[i] = r.slots[Wrap(len, r.read_from + i)]
<1>1. \A i \in 1 .. n : r.slots[Wrap(len, r.read_from + i)] \in S
  BY SlotNumbers DEF RingOK
<1>2. n \in Nat
  BY DEF RingOK
<1> QED BY <1>1, <1>2 DEF Contents

\* A queue just initialised is empty, and the first item goes where it is read.
THEOREM RingStartsEmpty ==
  ASSUME NEW len \in Nat \ {0}, NEW S, NEW x \in S
  PROVE  RingOK(RingInit(len, x), len, 0, S)
BY DEF RingOK, RingInit, Forward, Wrap

\* Two sequences with the same items are equal.
LEMMA SameItems ==
  ASSUME NEW S, NEW s \in Seq(S), NEW t \in Seq(S), Len(s) = Len(t),
         \A i \in 1 .. Len(s) : s[i] = t[i]
  PROVE  s = t
BY SeqEqual

\* A send to the back appends, and spoils no item that is in the queue.
THEOREM BackAppends ==
  ASSUME NEW len \in Nat \ {0}, NEW S, NEW r, NEW n, RingOK(r, len, n, S),
         n < len, NEW x \in S
  PROVE  LET s == CopyDataToQueue(r, len, x, "back")
         IN  /\ RingOK(s, len, n + 1, S)
             /\ Contents(s, len, n + 1) = Append(Contents(r, len, n), x)
<1> DEFINE s == CopyDataToQueue(r, len, x, "back")
<1>1. s = [r EXCEPT !.slots[r.write_to] = x, !.write_to = Forward(len, @)]
  BY DEF CopyDataToQueue
<1>2. /\ r.slots \in [0 .. len - 1 -> S] /\ r.write_to \in 0 .. len - 1
      /\ r.read_from \in 0 .. len - 1 /\ n \in Nat
      /\ r.write_to = Wrap(len, r.read_from + n + 1)
  BY DEF RingOK
<1>3. /\ s.slots = [r.slots EXCEPT ![r.write_to] = x]
      /\ s.write_to = Forward(len, r.write_to) /\ s.read_from = r.read_from
      /\ s \in [slots : [0 .. len - 1 -> S], write_to : 0 .. len - 1, read_from : 0 .. len - 1]
  <2>1. r \in [slots : [0 .. len - 1 -> S], write_to : 0 .. len - 1, read_from : 0 .. len - 1]
    BY DEF RingOK
  <2>2. Forward(len, r.write_to) \in 0 .. len - 1
    BY <1>2 DEF Forward
  <2>3. [r.slots EXCEPT ![r.write_to] = x] \in [0 .. len - 1 -> S]
    BY <1>2
  <2> QED BY <1>1, <2>1, <2>2, <2>3
<1> HIDE DEF s
<1>4. RingOK(s, len, n + 1, S)
  <2>1. Forward(len, r.write_to) = IF n + 1 = len THEN Forward(len, r.read_from)
                                   ELSE Wrap(len, r.read_from + (n + 1) + 1)
    <3>1. CASE n + 1 = len
      <4>1. r.write_to = r.read_from
        BY <1>2, <3>1 DEF Wrap
      <4> QED BY <3>1, <4>1
    <3>2. CASE n + 1 < len
      BY SMTT(40), <1>2, <3>2 DEF Forward, Wrap
    <3> QED BY <1>2, <3>1, <3>2
  <2> QED BY <1>2, <1>3, <2>1 DEF RingOK
<1>5. \A i \in 1 .. n : Wrap(len, r.read_from + i) # r.write_to
                        /\ Wrap(len, r.read_from + i) \in 0 .. len - 1
  BY SMTT(40), <1>2 DEF Wrap
<1>6. Contents(s, len, n + 1) = Append(Contents(r, len, n), x)
  <2> DEFINE a == Contents(s, len, n + 1)
             b == Contents(r, len, n)
  <2>1. a \in Seq(S) /\ Len(a) = n + 1
        /\ \A i \in 1 .. n + 1 : a[i] = s.slots[Wrap(len, s.read_from + i)]
    BY <1>4, ContentsSeq
  <2>2. b \in Seq(S) /\ Len(b) = n
        /\ \A i \in 1 .. n : b[i] = r.slots[Wrap(len, r.read_from + i)]
    BY ContentsSeq
  <2> HIDE DEF a, b
  <2>3. ASSUME NEW i \in 1 .. n PROVE a[i] = b[i]
    <3> DEFINE j == Wrap(len, r.read_from + i)
    <3>1. j \in 0 .. len - 1 /\ j # r.write_to
      BY <1>5
    <3>2. a[i] = s.slots[j] /\ b[i] = r.slots[j]
      BY <1>2, <1>3, <2>1, <2>2
    <3> HIDE DEF j
    <3> QED BY <1>2, <1>3, <3>1, <3>2
  <2>4. a[n + 1] = x
    <3>1. s.slots[r.write_to] = x
      BY <1>2, <1>3
    <3>2. Wrap(len, s.read_from + (n + 1)) = r.write_to
      <4>1. s.read_from + (n + 1) = r.read_from + n + 1
        BY <1>2, <1>3
      <4> QED BY <1>2, <4>1
    <3> QED BY <1>2, <2>1, <3>1, <3>2
  <2>5. /\ Append(b, x) \in Seq(S) /\ Len(Append(b, x)) = n + 1
        /\ \A i \in 1 .. n : Append(b, x)[i] = b[i]
        /\ Append(b, x)[n + 1] = x
    BY <1>2, <2>2, AppendProperties
  <2>6. \A i \in 1 .. n + 1 : a[i] = Append(b, x)[i]
    BY <1>2, <2>3, <2>4, <2>5
  <2>7. a = Append(b, x)
    BY <2>1, <2>5, <2>6, SameItems
  <2> QED BY <2>7 DEF a, b
<1> QED BY <1>4, <1>6 DEF s

\* read_from moves on to the item that is received.
Advance(r, len) == [r EXCEPT !.read_from = Forward(len, @)]

LEMMA TakesFirst ==
  ASSUME NEW len \in Nat \ {0}, NEW S, NEW r, NEW n \in Nat \ {0}, RingOK(r, len, n, S)
  PROVE  LET s == Advance(r, len)
         IN  /\ RingOK(s, len, n - 1, S)
             /\ FirstItem(r, len) = Head(Contents(r, len, n))
             /\ Contents(s, len, n - 1) = Tail(Contents(r, len, n))
<1> DEFINE s == Advance(r, len)
<1>1. s = [r EXCEPT !.read_from = Forward(len, @)]
  BY DEF Advance
<1>2. /\ r.slots \in [0 .. len - 1 -> S] /\ r.write_to \in 0 .. len - 1
      /\ r.read_from \in 0 .. len - 1 /\ n \in Nat /\ n <= len
      /\ r.write_to = IF n = len THEN Forward(len, r.read_from)
                      ELSE Wrap(len, r.read_from + n + 1)
  BY DEF RingOK
<1>3. /\ s.slots = r.slots /\ s.write_to = r.write_to
      /\ s.read_from = Forward(len, r.read_from)
      /\ s \in [slots : [0 .. len - 1 -> S], write_to : 0 .. len - 1, read_from : 0 .. len - 1]
  BY <1>1, <1>2, SlotNumbers DEF RingOK
<1> HIDE DEF s
<1>4. RingOK(s, len, n - 1, S)
  <2>1. n - 1 \in 0 .. len /\ n - 1 # len
    BY <1>2
  <2>2. r.write_to = Wrap(len, Forward(len, r.read_from) + (n - 1) + 1)
    BY <1>2 DEF Forward, Wrap
  <2> QED BY <1>3, <2>1, <2>2 DEF RingOK
<1> DEFINE a == Contents(r, len, n)
           b == Contents(s, len, n - 1)
<1>5. a \in Seq(S) /\ Len(a) = n
      /\ \A i \in 1 .. n : a[i] = r.slots[Wrap(len, r.read_from + i)]
  BY ContentsSeq
<1>6. b \in Seq(S) /\ Len(b) = n - 1
      /\ \A i \in 1 .. n - 1 : b[i] = s.slots[Wrap(len, s.read_from + i)]
  BY <1>4, ContentsSeq
<1> HIDE DEF a, b
<1>7. FirstItem(r, len) = Head(a)
  <2>1. Forward(len, r.read_from) = Wrap(len, r.read_from + 1)
    BY <1>2 DEF Forward, Wrap
  <2>2. Head(a) = a[1] /\ 1 \in 1 .. n
    BY <1>2, <1>5
  <2> QED BY <1>5, <2>1, <2>2 DEF FirstItem
<1>8. b = Tail(a)
  <2>1. /\ Tail(a) \in Seq(S) /\ Len(Tail(a)) = n - 1
        /\ \A i \in 1 .. n - 1 : Tail(a)[i] = a[i + 1]
    <3>1. a # <<>>
      BY <1>2, <1>5
    <3> QED BY <1>5, <3>1, HeadTailProperties
  <2>2. \A i \in 1 .. n - 1 :
          Wrap(len, Forward(len, r.read_from) + i) = Wrap(len, r.read_from + (i + 1))
          /\ i + 1 \in 1 .. n
    BY SMTT(40), <1>2 DEF Forward, Wrap
  <2>3. ASSUME NEW i \in 1 .. n - 1 PROVE b[i] = Tail(a)[i]
    <3>1. b[i] = r.slots[Wrap(len, r.read_from + (i + 1))]
      BY <1>3, <1>6, <2>2
    <3>2. Tail(a)[i] = a[i + 1] /\ i + 1 \in 1 .. n
      BY <2>1, <2>2
    <3> QED BY <1>5, <3>1, <3>2
  <2> QED BY <1>6, <2>1, <2>3, SameItems
<1> QED BY <1>4, <1>7, <1>8 DEF s, a, b

\* A receive returns the first item and removes it, and no other; a peek does not.
THEOREM RecvTakesFirst ==
  ASSUME NEW len \in Nat \ {0}, NEW S, NEW r, NEW n, RingOK(r, len, n, S), n > 0
  PROVE  LET s == CopyDataFromQueue(r, len, FALSE)
         IN  /\ RingOK(s, len, n - 1, S)
             /\ FirstItem(r, len) = Head(Contents(r, len, n))
             /\ Contents(s, len, n - 1) = Tail(Contents(r, len, n))
             /\ CopyDataFromQueue(r, len, TRUE) = r
<1>1. n \in Nat \ {0}
  BY DEF RingOK
<1> DEFINE s == Advance(r, len)
<1>2. CopyDataFromQueue(r, len, FALSE) = s /\ CopyDataFromQueue(r, len, TRUE) = r
  BY DEF CopyDataFromQueue, Advance
<1>3. /\ RingOK(s, len, n - 1, S)
      /\ FirstItem(r, len) = Head(Contents(r, len, n))
      /\ Contents(s, len, n - 1) = Tail(Contents(r, len, n))
  BY <1>1, TakesFirst
<1> QED BY <1>2, <1>3

\* A send to the front puts the item before all others and spoils none of them.
THEOREM FrontPrepends ==
  ASSUME NEW len \in Nat \ {0}, NEW S, NEW r, NEW n, RingOK(r, len, n, S),
         n < len, NEW x \in S
  PROVE  LET s == CopyDataToQueue(r, len, x, "front")
         IN  /\ RingOK(s, len, n + 1, S)
             /\ Contents(s, len, n + 1) = <<x>> \o Contents(r, len, n)
<1> DEFINE s == CopyDataToQueue(r, len, x, "front")
<1>1. s = [r EXCEPT !.slots[r.read_from] = x, !.read_from = Backward(len, @)]
  BY DEF CopyDataToQueue
<1>2. /\ r.slots \in [0 .. len - 1 -> S] /\ r.write_to \in 0 .. len - 1
      /\ r.read_from \in 0 .. len - 1 /\ n \in Nat
      /\ r.write_to = Wrap(len, r.read_from + n + 1)
  BY DEF RingOK
<1>3. /\ s.slots = [r.slots EXCEPT ![r.read_from] = x]
      /\ s.write_to = r.write_to /\ s.read_from = Backward(len, r.read_from)
      /\ s \in [slots : [0 .. len - 1 -> S], write_to : 0 .. len - 1, read_from : 0 .. len - 1]
  <2>1. r \in [slots : [0 .. len - 1 -> S], write_to : 0 .. len - 1, read_from : 0 .. len - 1]
    BY DEF RingOK
  <2>2. Backward(len, r.read_from) \in 0 .. len - 1
    BY <1>2 DEF Backward
  <2>3. [r.slots EXCEPT ![r.read_from] = x] \in [0 .. len - 1 -> S]
    BY <1>2
  <2> QED BY <1>1, <2>1, <2>2, <2>3
<1> HIDE DEF s
<1>4. RingOK(s, len, n + 1, S)
  <2>1. r.write_to = IF n + 1 = len THEN Forward(len, Backward(len, r.read_from))
                     ELSE Wrap(len, Backward(len, r.read_from) + (n + 1) + 1)
    <3>1. CASE n + 1 = len
      <4>1. r.write_to = r.read_from
        BY <1>2, <3>1 DEF Wrap
      <4>2. Forward(len, Backward(len, r.read_from)) = r.read_from
        BY <1>2 DEF Forward, Backward
      <4> QED BY <3>1, <4>1, <4>2
    <3>2. CASE n + 1 < len
      BY SMTT(40), <1>2, <3>2 DEF Backward, Wrap
    <3> QED BY <1>2, <3>1, <3>2
  <2> QED BY <1>2, <1>3, <2>1 DEF RingOK
<1> DEFINE a == Contents(s, len, n + 1)
           b == Contents(r, len, n)
           c == <<x>> \o b
<1>5. a \in Seq(S) /\ Len(a) = n + 1
      /\ \A i \in 1 .. n + 1 : a[i] = s.slots[Wrap(len, s.read_from + i)]
  BY <1>4, ContentsSeq
<1>6. b \in Seq(S) /\ Len(b) = n
      /\ \A i \in 1 .. n : b[i] = r.slots[Wrap(len, r.read_from + i)]
  BY ContentsSeq
<1>7. /\ c \in Seq(S) /\ Len(c) = n + 1 /\ c[1] = x
      /\ \A i \in 1 .. n : c[i + 1] = b[i]
  <2> HIDE DEF a, b
  <2>1. <<x>> \in Seq(S) /\ Len(<<x>>) = 1 /\ <<x>>[1] = x
    OBVIOUS
  <2>2. /\ c \in Seq(S) /\ Len(c) = 1 + n
        /\ \A i \in 1 .. 1 + n : c[i] = IF i <= 1 THEN <<x>>[i] ELSE b[i - 1]
    BY <1>6, <2>1, ConcatProperties
  <2> HIDE DEF c
  <2>3. \A i \in 1 .. n : i + 1 \in 1 .. 1 + n /\ ~(i + 1 <= 1) /\ (i + 1) - 1 = i
    BY <1>2
  <2>4. 1 \in 1 .. 1 + n
    BY <1>2
  <2>5. c[1] = x
    BY <2>1, <2>2, <2>4
  <2>6. \A i \in 1 .. n : c[i + 1] = b[i]
    BY <2>2, <2>3
  <2> QED BY <1>2, <2>2, <2>5, <2>6
<1> HIDE DEF a, b, c
<1>8. a[1] = x
  <2>1. Wrap(len, Backward(len, r.read_from) + 1) = r.read_from
    BY <1>2 DEF Backward, Wrap
  <2>2. a[1] = s.slots[r.read_from]
    BY <1>2, <1>3, <1>5, <2>1
  <2> QED BY <1>2, <1>3, <2>2
<1>9. ASSUME NEW i \in 1 .. n PROVE a[i + 1] = b[i]
  <2> DEFINE j == Wrap(len, r.read_from + i)
  <2>1. Wrap(len, Backward(len, r.read_from) + (i + 1)) = j /\ i + 1 \in 1 .. n + 1
    BY SMTT(40), <1>2 DEF Backward, Wrap
  <2>2. j \in 0 .. len - 1 /\ j # r.read_from
    BY <1>2 DEF Wrap
  <2>3. a[i + 1] = s.slots[j]
    BY <1>3, <1>5, <2>1
  <2>4. b[i] = r.slots[j]
    BY <1>6
  <2> HIDE DEF j
  <2> QED BY <1>2, <1>3, <2>2, <2>3, <2>4
<1>10. ASSUME NEW i \in 1 .. n + 1 PROVE a[i] = c[i]
  <2>1. CASE i = 1
    BY <1>7, <1>8, <2>1
  <2>2. CASE i # 1
    <3>1. i - 1 \in 1 .. n /\ (i - 1) + 1 = i
      BY <1>2, <2>2
    <3>2. a[i] = b[i - 1]
      BY <1>9, <3>1
    <3>3. c[i] = b[i - 1]
      BY <1>7, <3>1
    <3> QED BY <3>2, <3>3
  <2> QED BY <2>1, <2>2
<1>11. a = c
  BY <1>5, <1>7, <1>10, SameItems
<1> QED BY <1>4, <1>11 DEF s, a, b, c

\* In a queue of one item, which the code asserts, overwriting replaces it or,
\* if there is none, sends it.
THEOREM OverwriteReplaces ==
  ASSUME NEW S, NEW r, NEW n, RingOK(r, 1, n, S), NEW x \in S
  PROVE  LET s == CopyDataToQueue(r, 1, x, "overwrite")
         IN  RingOK(s, 1, 1, S) /\ Contents(s, 1, 1) = <<x>>
<1> DEFINE s == CopyDataToQueue(r, 1, x, "overwrite")
<1>1. s = [r EXCEPT !.slots[r.read_from] = x]
  BY DEF CopyDataToQueue
<1>2. r.slots \in [0 .. 0 -> S] /\ r.write_to = 0 /\ r.read_from = 0
  BY DEF RingOK
<1>3. /\ s.slots = [r.slots EXCEPT ![0] = x] /\ s.write_to = 0 /\ s.read_from = 0
      /\ s \in [slots : [0 .. 1 - 1 -> S], write_to : 0 .. 1 - 1, read_from : 0 .. 1 - 1]
  <2>1. r \in [slots : [0 .. 1 - 1 -> S], write_to : 0 .. 1 - 1, read_from : 0 .. 1 - 1]
    BY DEF RingOK
  <2>2. [r.slots EXCEPT ![0] = x] \in [0 .. 1 - 1 -> S]
    BY <1>2
  <2> QED BY <1>1, <1>2, <2>1, <2>2
<1> HIDE DEF s
<1>4. RingOK(s, 1, 1, S)
  <2>1. Forward(1, 0) = 0
    BY DEF Forward
  <2> QED BY <1>3, <2>1 DEF RingOK
<1>5. Contents(s, 1, 1) = <<x>>
  <2>1. Wrap(1, s.read_from + 1) = 0
    BY <1>3 DEF Wrap
  <2>2. \A i \in 1 .. 1 : s.slots[Wrap(1, s.read_from + i)] = x
    BY <1>2, <1>3, <2>1
  <2>3. Contents(s, 1, 1) = [i \in 1 .. 1 |-> x]
    BY <2>2 DEF Contents
  <2> QED BY <2>3
<1> QED BY <1>4, <1>5 DEF s

-----------------------------------------------------------------------------
\* The invariant

CallTypes == SendCalls \cup RecvCalls("recv") \cup RecvCalls("peek") \cup {NoCall}

QueueTypes ==
  /\ pc \in [Threads -> QueueLabels] /\ ret \in [Threads -> QueueLabels]
  /\ call \in [Threads -> CallTypes]

\* A thread has a call to go on with exactly while it is blocked in it, or on its way
\* out of it and back; a call that may not wait is never one.
CallsInv ==
  \A t \in Threads :
    /\ call[t] # NoCall <=> ret[t] = "wait"
    /\ call[t] # NoCall => call[t].timeout # 0

\* No queue holds more than it has places for, and the pointers of its ring buffer
\* agree with the count.
RingsInv ==
  /\ ring = [q \in DataQueues |-> ring[q]]
  /\ \A q \in Queues : k.messages_waiting[q] <= Length[q]
  /\ \A q \in DataQueues :
       RingOK(ring[q], Length[q], k.messages_waiting[q], Items \cup {NoItem})

\* The part of the invariant that is about the tasks, ...
TasksInv ==
  /\ IInv /\ NoneHeld(k) /\ SwitchInv
  /\ WaitShape /\ LockWaits /\ QueueTypes /\ CallsInv

\* ... and all of it.
QInv == TasksInv /\ RingsInv

-----------------------------------------------------------------------------
\* The critical sections of the calls

\* A round of a call starts from the kernel as it is, but for wakeup_reason.
Round(s) ==
  /\ KernelInv(s, handles) /\ SameCore(k, s) /\ SameRest(k, s) /\ SameObjects(k, s)

LEMMA KernelRound ==
  ASSUME IInv
  PROVE  Round(k)
BY DEF Round, IInv, SameCore, SameLists, SameQueued, SameDelays, SameEvents, SameRest, SameObjects

LEMMA AwakeFields ==
  ASSUME NEW s \in Kernel, NEW c \in Threads
  PROVE  LET r == [s EXCEPT !.wakeup_reason[c] = 0]
         IN  /\ r \in Kernel /\ SameCore(s, r) /\ SameRest(s, r) /\ SameObjects(s, r)
             /\ r.wakeup_reason = With(s.wakeup_reason, c, 0)
<1> DEFINE w == [s.wakeup_reason EXCEPT ![c] = 0]
           r == [s EXCEPT !.wakeup_reason = w]
<1>1. w \in [Threads -> 0 .. 2]
  BY DEF Kernel
<1>2. r = [s EXCEPT !.wakeup_reason[c] = 0]
  BY DEF Kernel
<1>3. w = With(s.wakeup_reason, c, 0)
  BY DEF With
<1> HIDE DEF w
<1>4. r \in Kernel /\ r.wakeup_reason = w
  BY <1>1 DEF Kernel
<1>5. SameCore(s, r) /\ SameRest(s, r) /\ SameObjects(s, r)
  BY DEF Kernel, SameCore, SameLists, SameQueued, SameDelays, SameEvents, SameRest, SameObjects
<1> HIDE DEF r
<1> QED BY <1>2, <1>3, <1>4, <1>5

LEMMA AwakeRound ==
  ASSUME IInv, NEW c \in Threads
  PROVE  Round(Awake(c)) /\ Awake(c).wakeup_reason = With(k.wakeup_reason, c, 0)
<1> DEFINE r == Awake(c)
<1>1. k \in Kernel /\ KernelInv(k, handles) /\ KernelCore(k, handles)
  BY TypeFacts
<1>2. /\ r \in Kernel /\ SameCore(k, r) /\ SameRest(k, r) /\ SameObjects(k, r)
      /\ r.wakeup_reason = With(k.wakeup_reason, c, 0)
  BY <1>1, AwakeFields DEF Awake
<1> HIDE DEF r
<1>3. KernelInv(r, handles)
  BY <1>1, <1>2, SameCoreInv
<1> QED BY <1>2, <1>3 DEF Round, r

\* The count of a queue.
LEMMA CountFields ==
  ASSUME NEW s \in Kernel, NEW q \in Queues, NEW n \in Nat
  PROVE  LET r == [s EXCEPT !.messages_waiting[q] = n]
         IN  /\ r \in Kernel /\ SameCore(s, r) /\ SameRest(s, r)
             /\ r.messages_waiting = With(s.messages_waiting, q, n)
             /\ r.held_queue = s.held_queue /\ r.wakeup_reason = s.wakeup_reason
<1> DEFINE w == [s.messages_waiting EXCEPT ![q] = n]
           r == [s EXCEPT !.messages_waiting = w]
<1>1. w \in [Queues -> Nat]
  BY DEF Kernel
<1>2. r = [s EXCEPT !.messages_waiting[q] = n]
  BY DEF Kernel
<1>3. w = With(s.messages_waiting, q, n)
  BY DEF With
<1> HIDE DEF w
<1>4. r \in Kernel /\ r.messages_waiting = w
  BY <1>1 DEF Kernel
<1>5. /\ SameCore(s, r) /\ SameRest(s, r) /\ r.held_queue = s.held_queue
      /\ r.wakeup_reason = s.wakeup_reason
  BY DEF Kernel, SameCore, SameLists, SameQueued, SameDelays, SameEvents, SameRest
<1> HIDE DEF r
<1> QED BY <1>2, <1>3, <1>4, <1>5

\* What a critical section that succeeds leaves behind: the kernel with a task w that
\* was woken, or with none, and either way no unseen reason to switch.
Wakes(r, w) ==
  /\ KernelInv(r, handles) /\ SameRest(k, r)
  /\ r.priority = k.priority /\ r.held_queue = k.held_queue
  /\ w \in handles \cup {NoTask}
  /\ Leads(k) => Leads(r) \/ (w # NoTask /\ k.priority[w] > k.priority[k.current])

LEMMA RoundWakes ==
  ASSUME IInv, NEW s, Round(s)
  PROVE  Wakes(s, NoTask)
<1>1. s.ready_list = k.ready_list /\ s.ready_map = k.ready_map /\ s.current = k.current
  BY DEF Round, SameCore, SameLists, SameQueued
<1>2. Leads(k) => Leads(s)
  BY <1>1, LeadsSame
<1>3. s.priority = k.priority /\ s.held_queue = k.held_queue
  BY DEF Round, SameCore, SameLists, SameQueued, SameObjects
<1> QED BY <1>2, <1>3 DEF Round, Wakes

LEMMA WakesRound ==
  ASSUME IInv, NEW s, Round(s), NEW q \in Queues, NEW n \in Nat, NEW e \in EventLists
  PROVE  LET r == WakeHighest([s EXCEPT !.messages_waiting[q] = n], e)
         IN  /\ Wakes(r, FirstWaiting(s, e))
             /\ r.messages_waiting = With(k.messages_waiting, q, n)
<1> DEFINE m == [s EXCEPT !.messages_waiting[q] = n]
           r == WakeHighest(m, e)
           w == FirstWaiting(s, e)
<1>1. s \in Kernel /\ KernelCore(s, handles) /\ KernelInv(s, handles)
  BY CoreFacts DEF Round, KernelInv
<1>2. /\ m \in Kernel /\ SameCore(s, m) /\ SameRest(s, m)
      /\ m.messages_waiting = With(s.messages_waiting, q, n) /\ m.held_queue = s.held_queue
  BY <1>1, CountFields
<1> HIDE DEF m
<1>3. KernelCore(m, handles) /\ KernelInv(m, handles)
  BY <1>1, <1>2, SameCoreInv
<1>4. /\ m.waiting = k.waiting /\ s.waiting = k.waiting /\ m.priority = k.priority
      /\ m.ready_list = k.ready_list /\ m.ready_map = k.ready_map /\ m.current = k.current
      /\ SameRest(k, m) /\ m.held_queue = k.held_queue
      /\ m.messages_waiting = With(k.messages_waiting, q, n)
  BY <1>2 DEF Round, SameCore, SameLists, SameQueued, SameEvents, SameRest, SameObjects
<1>5. FirstWaiting(m, e) = w
  BY <1>4 DEF FirstWaiting
<1>6. /\ KernelCore(r, handles) /\ SameRest(m, r) /\ SameObjects(m, r)
      /\ r.priority = m.priority /\ w \in handles \cup {NoTask}
  BY <1>3, <1>5, WakeHighestInv
<1>7. KernelInv(r, handles)
  BY <1>3, <1>6, RestInv
<1>8. /\ SameRest(k, r) /\ r.priority = k.priority /\ r.held_queue = k.held_queue
      /\ r.messages_waiting = With(k.messages_waiting, q, n)
  BY <1>4, <1>6 DEF SameRest, SameObjects
<1>9. Leads(k) <=> Leads(m)
  BY <1>4, LeadsSame
<1>10. Leads(k) => Leads(r) \/ (w # NoTask /\ k.priority[w] > k.priority[k.current])
  <2>1. CASE m.waiting[e] = <<>>
    BY <1>9, <2>1, WakeNobody
  <2>2. CASE m.waiting[e] # <<>>
    <3> DEFINE t == Head(m.waiting[e])
               p == m.priority[t]
    <3>1. /\ t \in handles /\ w = t /\ t # NoTask
          /\ r.priority = m.priority
          /\ r.ready_list = With(m.ready_list, p, Append(m.ready_list[p], t))
      BY <1>3, <1>5, <2>2, WakeHighestEffect
    <3> HIDE DEF t, r
    <3>2. t \in Threads /\ r.current = m.current
      BY <1>3, <1>6, <3>1, CoreFacts DEF SameRest, r
    <3>3. ASSUME Leads(k), ~(p > m.priority[m.current]) PROVE Leads(r)
      BY <1>3, <1>6, <1>9, <3>1, <3>2, <3>3, LeadsAppend
    <3> QED BY <1>4, <3>1, <3>3
  <2> QED BY <2>1, <2>2
<1> HIDE DEF w, r
<1>11. Wakes(r, w)
  BY <1>6, <1>7, <1>8, <1>10 DEF Wakes
<1> QED BY <1>8, <1>11 DEF m, r, w

\* The current task is ready, when it is free to call.
LEMMA CallerReady ==
  ASSUME IInv, SwitchInv, NEW c \in Tasks, NEW l \in {"run", "wait"}, At(c, l), k.sched_lock = 0
  PROVE  k.state[c] # "BLOCKED"
<1>1. pc[k.current] \notin {"sched", "pend", "created", "woken"} /\ c = k.current
      /\ isr = "none" /\ ~k.pend_sv
  BY DEF At
<1>2. Leads(k)
  BY <1>1 DEF SwitchInv
<1>3. KernelCore(k, handles)
  BY TypeFacts
<1>4. c \in Queued(k)
  BY <1>1, <1>2, <1>3, PickQueued DEF Leads
<1> QED BY <1>3, <1>4 DEF KernelCore, OnReadyList

LEMMA RestBase ==
  ASSUME NEW r, SameRest(k, r)
  PROVE  SameBase(k, r) /\ r.pend_sv = k.pend_sv /\ r.need_resched = k.need_resched
BY DEF SameRest, SameBase

\* A call that is over.
LEMMA FinishInv ==
  ASSUME TasksInv, NEW c \in Tasks, NEW l \in {"run", "wait"}, At(c, l),
         NEW w, Wakes(k', w), Finish(c, w)
  PROVE  TasksInv'
<1>1. /\ IInv /\ NoneHeld(k) /\ SwitchInv /\ WaitShape /\ LockWaits /\ QueueTypes /\ CallsInv
      /\ handles' = handles /\ isr' = isr
  BY DEF TasksInv, Finish
<1>2. /\ c \in handles /\ c \in Threads /\ c # Idle /\ k.current = c /\ ~k.pend_sv
      /\ pc[c] = l /\ isr = "none"
  BY <1>1, CallerLives DEF Running
<1>3. /\ pc \in [Threads -> AllLabels] /\ ret \in [Threads -> AllLabels]
      /\ arg \in [Threads -> Locals] /\ handles \subseteq Tasks
  BY <1>1, TypeFacts
<1>4. /\ KernelInv(k', handles') /\ SameRest(k, k') /\ k'.priority = k.priority
      /\ k'.held_queue = k.held_queue /\ w \in handles \cup {NoTask}
  BY <1>1 DEF Wakes
<1>5. SameBase(k, k') /\ k'.pend_sv = k.pend_sv /\ k'.need_resched = k.need_resched
  BY <1>4, RestBase
<1> DEFINE l2 == IF w = NoTask THEN "run" ELSE "woken"
           v  == IF w = NoTask THEN 0 ELSE w
<1>6. /\ pc' = [pc EXCEPT ![c] = l2] /\ ret' = [ret EXCEPT ![c] = "run"]
      /\ arg' = [arg EXCEPT ![c] = v] /\ call' = [call EXCEPT ![c] = NoCall]
  BY DEF Finish
<1>7. /\ l2 \in {"run", "woken"} /\ v \in Locals /\ (l2 = "woken" => v \in Tasks /\ v = w)
      /\ (l2 = "woken" <=> w # NoTask)
  BY <1>3, <1>4 DEF Locals, Threads
<1> HIDE DEF l2, v
<1>8. IInv'
  <2>1. ThreadInv'
    <3>1. l2 \in AllLabels \ {"create", "pend", "free"} /\ l2 # "created" /\ l2 # "until"
      BY <1>7 DEF AllLabels, Labels
    <3>2. pc[c] # "create"
      BY <1>2
    <3> QED BY <1>1, <1>2, <1>5, <1>6, <1>7, <3>1, <3>2, CallThreadInv
  <2> QED BY <1>4, <2>1 DEF IInv
<1>9. NoneHeld(k)'
  BY <1>1, <1>4 DEF NoneHeld
<1>10. /\ pc'[c] = l2 /\ ret'[c] = "run" /\ call'[c] = NoCall
       /\ arg'[c] = v /\ k'.current = c
       /\ \A t \in Threads \ {c} : pc'[t] = pc[t] /\ ret'[t] = ret[t] /\ call'[t] = call[t]
  BY <1>1, <1>2, <1>3, <1>5, <1>6 DEF QueueTypes, SameBase
<1>11. SwitchInv'
  <2>1. pc[k.current] \notin {"sched", "pend", "created", "woken"}
    BY <1>2
  <2>2. CASE ~Leads(k)
    <3>1. k.sched_lock > 0 /\ k.need_resched
      BY <1>1, <1>2, <2>1, <2>2 DEF SwitchInv
    <3> QED BY <1>5, <3>1 DEF SwitchInv, SameBase
  <2>3. CASE Leads(k) /\ Leads(k')
    BY <2>3 DEF SwitchInv, Leads
  <2>4. CASE Leads(k) /\ ~Leads(k')
    <3>1. w # NoTask /\ k.priority[w] > k.priority[k.current]
      BY <2>4 DEF Wakes
    <3>2. l2 = "woken" /\ v = w
      BY <1>7, <3>1
    <3>3. pc'[k'.current] = "woken" /\ Outranked'
      BY <1>2, <1>4, <1>10, <3>1, <3>2 DEF Outranked
    <3> QED BY <3>3 DEF SwitchInv
  <2> QED BY <2>2, <2>3, <2>4
<1>12. WaitShape'
  BY <1>1, <1>7, <1>10 DEF WaitShape
<1>13. LockWaits'
  BY <1>10 DEF LockWaits
<1>14. QueueTypes'
  BY <1>1, <1>2, <1>6, <1>7 DEF QueueTypes, QueueLabels, Labels, CallTypes
<1>15. CallsInv'
  BY <1>1, <1>10 DEF CallsInv
<1> QED BY <1>8, <1>9, <1>11, <1>12, <1>13, <1>14, <1>15 DEF TasksInv

\* A call that blocks.
LEMMA BlockInv ==
  ASSUME TasksInv, NEW c \in Tasks, NEW l \in {"run", "wait"}, At(c, l), k.sched_lock = 0,
         NEW s, Round(s), NEW e \in EventLists, NEW n \in Nat \cup {Forever},
         k' = BlockCurrent(s, e, n), CallSched(c, "wait"), handles' = handles,
         NEW m \in CallTypes \ {NoCall}, m.timeout # 0, call' = [call EXCEPT ![c] = m]
  PROVE  TasksInv' /\ k'.messages_waiting = k.messages_waiting
<1>1. /\ IInv /\ NoneHeld(k) /\ SwitchInv /\ WaitShape /\ LockWaits /\ QueueTypes /\ CallsInv
  BY DEF TasksInv
<1>2. /\ c \in handles /\ c \in Threads /\ c # Idle /\ k.current = c /\ ~k.pend_sv
      /\ pc[c] = l /\ isr = "none"
  BY <1>1, CallerLives DEF Running
<1>3. /\ pc \in [Threads -> AllLabels] /\ ret \in [Threads -> AllLabels]
  BY <1>1, TypeFacts
<1>4. k.state[c] # "BLOCKED"
  BY <1>1, CallerReady
<1>5. /\ KernelInv(s, handles) /\ s.current = c /\ s.state[c] # "BLOCKED"
      /\ SameRest(k, s) /\ SameObjects(k, s)
  BY <1>2, <1>4 DEF Round, SameCore
<1>6. KernelInv(k', handles) /\ SameRest(s, k') /\ SameObjects(s, k')
  <2> DEFINE r == BlockCurrent(s, e, n)
  <2>1. KernelInv(r, handles) /\ Blocks(s, r, c, e, n)
    BY <1>2, <1>5, BlockCurrentInv
  <2> HIDE DEF r
  <2>2. SameRest(s, r) /\ SameObjects(s, r)
    BY <2>1 DEF Blocks, Effect
  <2> QED BY <2>1, <2>2 DEF r
<1>7. /\ k'.held_queue = k.held_queue /\ k'.messages_waiting = k.messages_waiting
      /\ SameRest(k, k')
  BY <1>5, <1>6 DEF SameRest, SameObjects
<1>8. SameBase(k, k') /\ k'.pend_sv = k.pend_sv /\ k'.current = c /\ k'.sched_lock = 0
  BY <1>2, <1>7, RestBase DEF SameRest
<1>9. IInv'
  <2>1. ThreadInv'
    <3>1. l \in Running \ {"create"}
      BY DEF Running
    <3> QED BY <1>1, <1>8, <3>1, CallSchedInv
  <2> QED BY <1>6, <2>1 DEF IInv
<1>10. pc' = [pc EXCEPT ![c] = "sched"] /\ ret' = [ret EXCEPT ![c] = "wait"]
  BY DEF CallSched
<1>11. SwitchInv'
  BY <1>1, <1>2, <1>8, <1>10, SwitchAsked
<1>12. /\ pc'[c] = "sched" /\ ret'[c] = "wait" /\ call'[c] = m
       /\ \A t \in Threads \ {c} : pc'[t] = pc[t] /\ ret'[t] = ret[t] /\ call'[t] = call[t]
  BY <1>1, <1>2, <1>3, <1>10 DEF QueueTypes
<1>13. NoneHeld(k)'
  BY <1>1, <1>7 DEF NoneHeld
<1>14. WaitShape'
  BY <1>1, <1>2, <1>12 DEF WaitShape
<1>15. LockWaits'
  BY <1>8 DEF LockWaits
<1>16. QueueTypes'
  BY <1>1, <1>2, <1>10 DEF QueueTypes, QueueLabels, Labels
<1>17. CallsInv'
  BY <1>1, <1>12 DEF CallsInv
<1> QED BY <1>7, <1>9, <1>11, <1>13, <1>14, <1>15, <1>16, <1>17 DEF TasksInv

\* A call compares the priorities on its way out.
LEMMA WokenInv ==
  ASSUME TasksInv, NEW c \in Tasks, QueueWoken(c)
  PROVE  TasksInv' /\ k'.messages_waiting = k.messages_waiting
<1>1. /\ IInv /\ NoneHeld(k) /\ SwitchInv /\ WaitShape /\ LockWaits /\ QueueTypes /\ CallsInv
  BY DEF TasksInv
<1>2. /\ At(c, "woken") /\ k' = k /\ UNCHANGED <<isr, ret, handles, call>>
      /\ arg' = [arg EXCEPT ![c] = 0]
      /\ pc' = [pc EXCEPT ![c] = IF k.priority[arg[c]] > k.priority[c] THEN "sched" ELSE "run"]
  BY DEF QueueWoken
<1>3. PICK l \in {"sched", "run"} : pc' = [pc EXCEPT ![c] = l]
  BY <1>2
<1>4. c \in Threads /\ pc[c] = "woken"
  BY <1>1, <1>2, CallerLives DEF Running
<1>5. IInv'
  BY <1>1, <1>2, <1>3, ReturnThreadInv DEF IInv
<1>6. SwitchInv'
  BY <1>1, <1>2, SwitchReturn
<1>7. NoneHeld(k)' /\ LockWaits'
  BY <1>1, <1>2 DEF NoneHeld, LockWaits
<1>8. pc'[c] = l /\ \A t \in Threads \ {c} : pc'[t] = pc[t]
  BY <1>1, <1>3, <1>4 DEF QueueTypes
<1>9. WaitShape'
  BY <1>1, <1>2, <1>4, <1>8 DEF WaitShape
<1>10. QueueTypes'
  BY <1>1, <1>2, <1>3, <1>4 DEF QueueTypes, QueueLabels, Labels
<1>11. CallsInv'
  BY <1>1, <1>2 DEF CallsInv
<1> QED BY <1>2, <1>5, <1>6, <1>7, <1>9, <1>10, <1>11 DEF TasksInv

\* The request for a switch.
LEMMA RequestFields ==
  ASSUME NEW s \in Kernel, NEW a \in BOOLEAN, NEW b \in BOOLEAN
  PROVE  LET r == [s EXCEPT !.need_resched = a, !.pend_sv = b]
         IN  /\ r \in Kernel /\ SameCore(s, r) /\ SameObjects(s, r) /\ SameBase(s, r)
             /\ r.need_resched = a /\ r.pend_sv = b
BY DEF Kernel, SameCore, SameLists, SameQueued, SameDelays, SameEvents, SameObjects, SameBase

\* An interrupt handler that wakes a task of a higher priority asks for a switch.
LEMMA IsrInv ==
  ASSUME TasksInv, isr = "none", NEW r, NEW w, Wakes(r, w), k' = FromIsr(r, w),
         UNCHANGED <<threadVars, isr, handles, call>>
  PROVE  TasksInv' /\ k'.messages_waiting = r.messages_waiting
<1>1. /\ IInv /\ NoneHeld(k) /\ SwitchInv /\ WaitShape /\ LockWaits /\ QueueTypes /\ CallsInv
      /\ pc' = pc /\ ret' = ret /\ arg' = arg
  BY DEF TasksInv, threadVars
<1>2. /\ KernelInv(r, handles) /\ SameRest(k, r) /\ r.priority = k.priority
      /\ r.held_queue = k.held_queue
  BY DEF Wakes
<1>3. r \in Kernel /\ KernelCore(r, handles)
  BY <1>2, CoreFacts DEF KernelInv
<1>4. /\ SameBase(k, r) /\ r.pend_sv = k.pend_sv /\ r.need_resched = k.need_resched
      /\ r.current = k.current /\ r.sched_lock = k.sched_lock
  BY <1>2, RestBase DEF SameRest
<1>5. \/ k' = r /\ ~(w # NoTask /\ r.priority[w] > r.priority[r.current])
      \/ k' = SchedCheck(r) /\ r.sched_lock > 0
      \/ k' = RequestSwitch(SchedCheck(r)) /\ ~(r.sched_lock > 0)
  BY DEF FromIsr, Sched
<1>6. /\ k' \in Kernel /\ SameCore(r, k') /\ SameObjects(r, k') /\ SameBase(r, k')
      /\ (r.sched_lock > 0 => k'.pend_sv = r.pend_sv)
  <2>1. CASE k' = r
    BY <1>3, <2>1 DEF SameCore, SameLists, SameQueued, SameDelays, SameEvents, SameObjects,
                      SameBase
  <2> DEFINE a == r.sched_lock > 0
             b == r.pend_sv
             x == [r EXCEPT !.need_resched = a, !.pend_sv = b]
             y == [r EXCEPT !.need_resched = a, !.pend_sv = TRUE]
  <2>2. a \in BOOLEAN /\ b \in BOOLEAN
    BY <1>3 DEF Kernel
  <2>3. SchedCheck(r) = x /\ RequestSwitch(SchedCheck(r)) = y
    BY <1>3 DEF SchedCheck, RequestSwitch, Kernel
  <2> HIDE DEF a, b
  <2>4. /\ x \in Kernel /\ SameCore(r, x) /\ SameObjects(r, x) /\ SameBase(r, x)
        /\ x.pend_sv = b
    BY <1>3, <2>2, RequestFields
  <2>5. /\ y \in Kernel /\ SameCore(r, y) /\ SameObjects(r, y) /\ SameBase(r, y)
    BY <1>3, <2>2, RequestFields
  <2> HIDE DEF x, y
  <2>6. CASE k' = SchedCheck(r)
    BY <2>3, <2>4, <2>6 DEF b
  <2>7. CASE k' = RequestSwitch(SchedCheck(r)) /\ ~(r.sched_lock > 0)
    BY <2>3, <2>5, <2>7
  <2> QED BY <1>5, <2>1, <2>6, <2>7
<1>7. KernelInv(k', handles)
  BY <1>2, <1>3, <1>6, SameCoreInv
<1>8. /\ k'.used = k.used /\ k'.terminated_list = k.terminated_list /\ k'.current = k.current
      /\ k'.sched_lock = k.sched_lock /\ k'.messages_waiting = r.messages_waiting
      /\ k'.held_queue = k.held_queue /\ k'.priority = k.priority
      /\ k.sched_lock > 0 => k'.pend_sv = k.pend_sv
  BY <1>2, <1>4, <1>6 DEF SameBase, SameObjects, SameCore, SameLists, SameQueued
<1>9. IInv'
  <2>1. ThreadInv'
    BY <1>1, <1>8, HandlerThreadInv
  <2> QED BY <1>7, <2>1 DEF IInv
<1>10. SwitchInv'
  <2>1. CASE k' = r /\ ~(w # NoTask /\ r.priority[w] > r.priority[r.current])
    <3>1. Leads(k) => Leads(k')
      BY <1>2, <1>4, <2>1 DEF Wakes
    <3>2. k'.pend_sv = k.pend_sv /\ k'.need_resched = k.need_resched
      BY <1>4, <2>1
    <3>3. Outranked => Outranked'
      BY <1>1, <1>8 DEF Outranked
    <3> QED BY <1>1, <1>8, <3>1, <3>2, <3>3 DEF SwitchInv, Leads
  <2>2. CASE k' = SchedCheck(r) /\ r.sched_lock > 0
    <3>1. k'.need_resched = TRUE
      BY <1>3, <2>2 DEF SchedCheck, Kernel
    <3> QED BY <1>4, <1>8, <2>2, <3>1 DEF SwitchInv
  <2>3. CASE k' = RequestSwitch(SchedCheck(r))
    <3>1. k'.pend_sv
      BY <1>3, <2>3 DEF SchedCheck, RequestSwitch, Kernel
    <3> QED BY <3>1 DEF SwitchInv
  <2> QED BY <1>5, <2>1, <2>2, <2>3
<1>11. NoneHeld(k)' /\ LockWaits'
  BY <1>1, <1>8 DEF NoneHeld, LockWaits
<1>12. WaitShape' /\ QueueTypes' /\ CallsInv'
  BY <1>1 DEF WaitShape, QueueTypes, CallsInv
<1> QED BY <1>8, <1>9, <1>10, <1>11, <1>12 DEF TasksInv

\* A step of task.h, of PendSV or of SysTick.
LEMMA TaskStepInv ==
  ASSUME TasksInv, YieldsReady, [Next]_vars,
         call' = [t \in Threads |-> IF pc'[t] = "dead" THEN NoCall ELSE call[t]]
  PROVE  TasksInv' /\ k'.messages_waiting = k.messages_waiting
<1>1. /\ IInv /\ NoneHeld(k) /\ SwitchInv /\ WaitShape /\ LockWaits /\ QueueTypes /\ CallsInv
  BY DEF TasksInv
<1>2. IInv'
  BY <1>1, NextInv
<1>3. NoneHeld(k') /\ k'.messages_waiting = k.messages_waiting
  BY <1>1, NoneHeldStep
<1>4. SwitchInv'
  BY <1>1, <1>2, SwitchStep
<1>5. WaitShape' /\ StillWaits /\ LockWaits'
  BY <1>1, WaitsStep, LockWaitsStep
<1>6. QueueTypes'
  <2>1. pc' \in [Threads -> QueueLabels] /\ ret' \in [Threads -> QueueLabels]
    BY <1>1, LabelsStep DEF QueueTypes, QueueLabels
  <2>2. call' \in [Threads -> CallTypes]
    BY <1>1 DEF QueueTypes, CallTypes
  <2> QED BY <2>1, <2>2 DEF QueueTypes
<1>7. CallsInv'
  <2>1. ASSUME NEW t \in Threads
        PROVE  /\ call'[t] # NoCall <=> ret'[t] = "wait"
               /\ call'[t] # NoCall => call'[t].timeout # 0
    <3>1. call'[t] = IF pc'[t] = "dead" THEN NoCall ELSE call[t]
      OBVIOUS
    <3> QED BY <1>1, <1>5, <3>1 DEF CallsInv, StillWaits
  <2> QED BY <2>1 DEF CallsInv
<1>8. NoneHeld(k)'
  BY <1>3 DEF NoneHeld
<1> QED BY <1>2, <1>3, <1>4, <1>5, <1>6, <1>7, <1>8 DEF TasksInv

-----------------------------------------------------------------------------
\* What a step does to the queues

\* The possible effects of a step on counts, rings and receivers: none, a send, a receive.
Untouched == ring' = ring /\ got' = Nothing /\ k'.messages_waiting = k.messages_waiting

OneMore(m) ==
  LET n == k.messages_waiting[m.q]
  IN  IF m.pos = "overwrite" THEN (IF n = 0 THEN 1 ELSE n) ELSE n + 1

Sent(m) ==
  /\ HasRoom(k, m) /\ ring' = Store(m) /\ got' = Nothing
  /\ k'.messages_waiting = With(k.messages_waiting, m.q, OneMore(m))

Received(u, m) ==
  /\ HasItem(k, m) /\ ring' = Fetch(m) /\ got' = <<u, ItemFound(m)>>
  /\ IF m.op = "peek"
     THEN k'.messages_waiting = k.messages_waiting
     ELSE k'.messages_waiting = With(k.messages_waiting, m.q, k.messages_waiting[m.q] - 1)

RecvTypes == RecvCalls("recv") \cup RecvCalls("peek")

Exchange ==
  \/ Untouched
  \/ \E m \in SendCalls : Sent(m)
  \/ \E u \in Threads \cup {"isr"}, m \in RecvTypes : Received(u, m)

LEMMA CallFacts ==
  ASSUME NEW m \in SendCalls \cup RecvTypes
  PROVE  /\ m.q \in Queues /\ m.timeout \in Nat \cup {Forever} /\ m \in CallTypes \ {NoCall}
         /\ Receivers(m.q) \in EventLists /\ Senders(m.q) \in EventLists
         /\ (m.op = "send" <=> m \in SendCalls) /\ (m.op = "send" <=> m \notin RecvTypes)
<1>1. /\ m.q \in Queues /\ m.timeout \in Timeouts \cup {0}
  BY DEF SendCalls, RecvTypes, RecvCalls
<1>2. \A x \in SendCalls : x.op = "send"
  BY DEF SendCalls
<1>3. \A x \in RecvTypes : x.op \in {"recv", "peek"}
  BY DEF RecvTypes, RecvCalls
<1>4. NoCall.op = "none"
  BY DEF NoCall
<1>5. m # NoCall
  BY <1>2, <1>3, <1>4
<1>6. Timeouts \subseteq Nat \cup {Forever}
  BY TimeoutAssumption
<1>7. m \in CallTypes
  BY DEF CallTypes, RecvTypes
<1>8. Receivers(m.q) \in EventLists /\ Senders(m.q) \in EventLists
  BY <1>1 DEF Receivers, Senders, EventLists
<1>9. m.timeout \in Nat \cup {Forever}
  <2> DEFINE n == m.timeout
  <2>1. n \in Timeouts \cup {0}
    BY <1>1
  <2> HIDE DEF n
  <2>2. n \in Nat \cup {Forever}
    BY <1>6, <2>1
  <2> QED BY <2>2 DEF n
<1>10. (m.op = "send" <=> m \in SendCalls) /\ (m.op = "send" <=> m \notin RecvTypes)
  <2>1. m \in SendCalls => m.op = "send"
    BY <1>2
  <2>2. m \in RecvTypes => m.op # "send"
    BY <1>3
  <2> QED BY <2>1, <2>2
<1> QED BY <1>1, <1>5, <1>7, <1>8, <1>9, <1>10

LEMMA RoundCounts ==
  ASSUME IInv, NEW s, Round(s), NEW q \in Queues
  PROVE  /\ s.messages_waiting = k.messages_waiting /\ k.messages_waiting[q] \in Nat
         /\ s \in Kernel
<1>1. k \in Kernel
  BY TypeFacts
<1>2. s \in Kernel
  BY CoreFacts DEF Round, KernelInv
<1> QED BY <1>1, <1>2 DEF Round, SameObjects, Kernel

LEMMA WaitOrFailInv ==
  ASSUME TasksInv, NEW c \in Tasks, NEW l \in {"run", "wait"}, At(c, l), NEW s, Round(s),
         NEW m \in SendCalls \cup RecvTypes, m.timeout # 0 => k.sched_lock = 0,
         NEW e \in EventLists, WaitOrFail(c, s, m, e)
  PROVE  TasksInv' /\ Untouched
<1>1. IInv
  BY DEF TasksInv
<1>2. ring' = ring /\ got' = Nothing
  BY DEF WaitOrFail
<1>3. CASE m.timeout = 0 /\ k' = s /\ Finish(c, NoTask)
  <2>1. Wakes(k', NoTask)
    BY <1>1, <1>3, RoundWakes
  <2>2. TasksInv'
    BY <1>3, <2>1, FinishInv
  <2> QED BY <1>1, <1>2, <1>3, <2>2 DEF Untouched, Round, SameObjects
<1>4. CASE /\ m.timeout # 0 /\ k' = BlockCurrent(s, e, m.timeout)
           /\ call' = [call EXCEPT ![c] = m] /\ CallSched(c, "wait") /\ handles' = handles
  <2>1. m.timeout \in Nat \cup {Forever} /\ m \in CallTypes \ {NoCall}
    BY CallFacts
  <2>2. k.sched_lock = 0
    BY <1>4
  <2>3. TasksInv' /\ k'.messages_waiting = k.messages_waiting
    BY <1>4, <2>1, <2>2, BlockInv
  <2> QED BY <1>2, <2>3 DEF Untouched
<1> QED BY <1>3, <1>4 DEF WaitOrFail

LEMMA SendWakes ==
  ASSUME IInv, NEW s, Round(s), NEW m \in SendCalls
  PROVE  /\ Wakes(Send(s, m), FirstWaiting(s, Receivers(m.q)))
         /\ Send(s, m).messages_waiting = With(k.messages_waiting, m.q, OneMore(m))
<1> DEFINE n == OneMore(m)
<1>1. m.q \in Queues /\ Receivers(m.q) \in EventLists
  BY CallFacts
<1>2. s.messages_waiting = k.messages_waiting /\ k.messages_waiting[m.q] \in Nat
  BY <1>1, RoundCounts
<1>3. n \in Nat
  BY <1>2 DEF OneMore
<1>4. Send(s, m) = WakeHighest([s EXCEPT !.messages_waiting[m.q] = n], Receivers(m.q))
  BY <1>2 DEF Send, OneMore
<1> HIDE DEF n
<1> QED BY <1>1, <1>3, <1>4, WakesRound DEF n

LEMMA RecvWakes ==
  ASSUME IInv, NEW s, Round(s), NEW m \in RecvTypes, HasItem(s, m)
  PROVE  LET w == IF m.op = "peek" THEN NoTask ELSE FirstWaiting(s, Senders(m.q))
             r == Recv(s, m)
         IN  /\ Wakes(r, w)
             /\ m.op = "peek" => r.messages_waiting = k.messages_waiting
             /\ m.op # "peek" =>
                  r.messages_waiting = With(k.messages_waiting, m.q, k.messages_waiting[m.q] - 1)
<1> DEFINE n == k.messages_waiting[m.q] - 1
           w == IF m.op = "peek" THEN NoTask ELSE FirstWaiting(s, Senders(m.q))
           r == Recv(s, m)
<1>1. m.q \in Queues /\ Senders(m.q) \in EventLists
  BY CallFacts
<1>2. s.messages_waiting = k.messages_waiting /\ k.messages_waiting[m.q] \in Nat
  BY <1>1, RoundCounts
<1>3. n \in Nat
  BY <1>2 DEF HasItem
<1>4. CASE m.op = "peek"
  <2>1. Wakes(s, NoTask)
    BY RoundWakes
  <2> QED BY <1>2, <1>4, <2>1 DEF Recv
<1>5. CASE m.op # "peek"
  <2>1. r = WakeHighest([s EXCEPT !.messages_waiting[m.q] = n], Senders(m.q))
    BY <1>2, <1>5 DEF Recv
  <2> HIDE DEF n, r
  <2>2. Wakes(r, FirstWaiting(s, Senders(m.q)))
    BY <1>1, <1>3, <2>1, WakesRound
  <2>3. r.messages_waiting = With(k.messages_waiting, m.q, n)
    BY <1>1, <1>3, <2>1, WakesRound
  <2> QED BY <1>5, <2>2, <2>3 DEF n, r
<1> QED BY <1>4, <1>5

LEMMA TrySendInv ==
  ASSUME TasksInv, NEW c \in Tasks, NEW l \in {"run", "wait"}, At(c, l), NEW s, Round(s),
         NEW m \in SendCalls, m.timeout # 0 => k.sched_lock = 0, TrySend(c, s, m)
  PROVE  TasksInv' /\ Exchange
<1>1. IInv
  BY DEF TasksInv
<1>2. CASE HasRoom(s, m)
  <2>1. /\ k' = Send(s, m) /\ ring' = Store(m) /\ got' = Nothing
        /\ Finish(c, FirstWaiting(s, Receivers(m.q)))
    BY <1>2 DEF TrySend
  <2>2. /\ Wakes(k', FirstWaiting(s, Receivers(m.q)))
        /\ k'.messages_waiting = With(k.messages_waiting, m.q, OneMore(m))
    BY <1>1, <2>1, SendWakes
  <2>3. TasksInv'
    BY <2>1, <2>2, FinishInv
  <2>4. HasRoom(k, m)
    BY <1>2 DEF HasRoom, Round, SameObjects
  <2> QED BY <2>1, <2>2, <2>3, <2>4 DEF Exchange, Sent
<1>3. CASE ~HasRoom(s, m)
  <2>1. WaitOrFail(c, s, m, Senders(m.q))
    BY <1>3 DEF TrySend
  <2>2. Senders(m.q) \in EventLists
    BY CallFacts
  <2> QED BY <2>1, <2>2, WaitOrFailInv DEF Exchange
<1> QED BY <1>2, <1>3

LEMMA TryRecvInv ==
  ASSUME TasksInv, NEW c \in Tasks, NEW l \in {"run", "wait"}, At(c, l), NEW s, Round(s),
         NEW m \in RecvTypes, m.timeout # 0 => k.sched_lock = 0, TryRecv(c, s, m)
  PROVE  TasksInv' /\ Exchange
<1>1. IInv
  BY DEF TasksInv
<1>2. CASE HasItem(s, m)
  <2> DEFINE w == IF m.op = "peek" THEN NoTask ELSE FirstWaiting(s, Senders(m.q))
  <2>1. k' = Recv(s, m) /\ ring' = Fetch(m) /\ got' = <<c, ItemFound(m)>> /\ Finish(c, w)
    BY <1>2 DEF TryRecv
  <2>2. Wakes(k', w)
    BY <1>1, <1>2, <2>1, RecvWakes
  <2>3. /\ m.op = "peek" => k'.messages_waiting = k.messages_waiting
        /\ m.op # "peek" =>
             k'.messages_waiting = With(k.messages_waiting, m.q, k.messages_waiting[m.q] - 1)
    BY <1>1, <1>2, <2>1, RecvWakes
  <2> HIDE DEF w
  <2>4. TasksInv'
    BY <2>1, <2>2, FinishInv
  <2>5. HasItem(k, m)
    BY <1>2 DEF HasItem, Round, SameObjects
  <2>6. Received(c, m)
    BY <2>1, <2>3, <2>5 DEF Received
  <2>7. c \in Threads \cup {"isr"}
    BY DEF Threads
  <2> QED BY <2>4, <2>6, <2>7 DEF Exchange
<1>3. CASE ~HasItem(s, m)
  <2>1. WaitOrFail(c, s, m, Receivers(m.q))
    BY <1>3 DEF TryRecv
  <2>2. Receivers(m.q) \in EventLists
    BY CallFacts
  <2> QED BY <2>1, <2>2, WaitOrFailInv DEF Exchange
<1> QED BY <1>2, <1>3

\* Every step.
LEMMA CallsStep ==
  ASSUME TasksInv, NEW c \in Tasks, QueueStep(c)
  PROVE  TasksInv' /\ Exchange
<1>1. IInv /\ WaitShape /\ LockWaits /\ QueueTypes /\ CallsInv
  BY DEF TasksInv
<1>2. c \in Threads
  BY DEF Threads
<1>3. Round(k) /\ Round(Awake(c))
  BY <1>1, <1>2, KernelRound, AwakeRound
<1>4. CASE QueueSend(c)
  <2>1. PICK m \in SendCalls : MayWait(m) /\ TrySend(c, k, m)
    BY <1>4 DEF QueueSend
  <2>2. At(c, "run")
    BY <1>4 DEF QueueSend, CallingQueue
  <2>3. m.timeout # 0 => k.sched_lock = 0
    BY <2>1 DEF MayWait
  <2> QED BY <1>3, <2>1, <2>2, <2>3, TrySendInv
<1>5. CASE QueueRecv(c)
  <2>1. PICK op \in {"recv", "peek"} :
          CallingQueue(c, op) /\ \E m \in RecvCalls(op) : MayWait(m) /\ TryRecv(c, k, m)
    BY <1>5 DEF QueueRecv
  <2>2. PICK m \in RecvCalls(op) : MayWait(m) /\ TryRecv(c, k, m)
    BY <2>1
  <2>3. m \in RecvTypes /\ At(c, "run")
    BY <2>1, <2>2 DEF RecvTypes, CallingQueue
  <2>4. m.timeout # 0 => k.sched_lock = 0
    BY <2>2 DEF MayWait
  <2> QED BY <1>3, <2>2, <2>3, <2>4, TryRecvInv
<1>6. CASE QueueTimeout(c)
  <2>1. /\ At(c, "wait") /\ k' = Awake(c) /\ Finish(c, NoTask) /\ got' = Nothing /\ ring' = ring
    BY <1>6 DEF QueueTimeout
  <2>2. Wakes(k', NoTask)
    BY <1>1, <1>3, <2>1, RoundWakes
  <2>3. k'.messages_waiting = k.messages_waiting
    BY <1>3, <2>1 DEF Round, SameObjects
  <2>4. TasksInv'
    BY <2>1, <2>2, FinishInv
  <2> QED BY <2>1, <2>3, <2>4 DEF Exchange, Untouched
<1>7. CASE QueueRetry(c)
  <2> DEFINE m == call[c]
             s == Awake(c)
  <2>1. /\ At(c, "wait") /\ pc[c] = "wait" /\ k.current = c
        /\ IF m.op = "send" THEN TrySend(c, s, m) ELSE TryRecv(c, s, m)
    BY <1>7 DEF QueueRetry, At
  <2>2. ret[c] = "wait" /\ m # NoCall /\ m \in CallTypes
    BY <1>1, <1>2, <2>1 DEF WaitShape, CallsInv, QueueTypes
  <2>3. m \in SendCalls \cup RecvTypes
    BY <2>2 DEF CallTypes, RecvTypes
  <2>4. k.sched_lock = 0
    <3>1. k.sched_lock \in Nat
      BY <1>1, TypeFacts
    <3> QED BY <1>1, <2>1, <2>2, <3>1 DEF LockWaits
  <2> HIDE DEF m, s
  <2>5. Round(s)
    BY <1>3 DEF s
  <2>6. CASE m.op = "send"
    <3>1. m \in SendCalls /\ TrySend(c, s, m)
      BY <2>1, <2>3, <2>6, CallFacts
    <3> QED BY <2>1, <2>4, <2>5, <3>1, TrySendInv
  <2>7. CASE m.op # "send"
    <3>1. m \in RecvTypes /\ TryRecv(c, s, m)
      BY <2>1, <2>3, <2>7, CallFacts
    <3> QED BY <2>1, <2>4, <2>5, <3>1, TryRecvInv
  <2> QED BY <2>6, <2>7
<1>8. CASE QueueWoken(c)
  <2>1. ring' = ring /\ got' = Nothing
    BY <1>8 DEF QueueWoken
  <2> QED BY <1>8, <2>1, WokenInv DEF Exchange, Untouched
<1> QED BY <1>4, <1>5, <1>6, <1>7, <1>8 DEF QueueStep

LEMMA IsrStep ==
  ASSUME TasksInv, IsrSend \/ IsrRecv
  PROVE  TasksInv' /\ Exchange
<1>1. IInv
  BY DEF TasksInv
<1>2. Round(k)
  BY <1>1, KernelRound
<1>3. CASE IsrSend
  <2>1. PICK m \in SendCalls : /\ HasRoom(k, m) /\ ring' = Store(m)
                               /\ k' = FromIsr(Send(k, m), FirstWaiting(k, Receivers(m.q)))
    BY <1>3 DEF IsrSend
  <2> DEFINE r == Send(k, m)
             w == FirstWaiting(k, Receivers(m.q))
  <2>2. Wakes(r, w) /\ r.messages_waiting = With(k.messages_waiting, m.q, OneMore(m))
    BY <1>1, <1>2, SendWakes
  <2>3. isr = "none" /\ UNCHANGED <<threadVars, isr, handles, call>> /\ got' = Nothing
        /\ k' = FromIsr(r, w)
    BY <1>3, <2>1 DEF IsrSend
  <2> HIDE DEF r, w
  <2>4. TasksInv' /\ k'.messages_waiting = r.messages_waiting
    BY <2>2, <2>3, IsrInv
  <2> QED BY <2>1, <2>2, <2>3, <2>4 DEF Exchange, Sent
<1>4. CASE IsrRecv
  <2>1. PICK m \in RecvCalls("recv") :
          /\ HasItem(k, m) /\ ring' = Fetch(m) /\ got' = <<"isr", ItemFound(m)>>
          /\ k' = FromIsr(Recv(k, m), FirstWaiting(k, Senders(m.q)))
    BY <1>4 DEF IsrRecv
  <2> DEFINE r == Recv(k, m)
             w == FirstWaiting(k, Senders(m.q))
  <2>2. m \in RecvTypes /\ m.op # "peek"
    BY DEF RecvTypes, RecvCalls
  <2>3. /\ Wakes(r, w)
        /\ r.messages_waiting = With(k.messages_waiting, m.q, k.messages_waiting[m.q] - 1)
    BY <1>1, <1>2, <2>1, <2>2, RecvWakes
  <2>4. isr = "none" /\ UNCHANGED <<threadVars, isr, handles, call>> /\ k' = FromIsr(r, w)
    BY <1>4, <2>1 DEF IsrRecv
  <2> HIDE DEF r, w
  <2>5. TasksInv' /\ k'.messages_waiting = r.messages_waiting
    BY <2>3, <2>4, IsrInv
  <2>6. Received("isr", m)
    BY <2>1, <2>2, <2>3, <2>5 DEF Received
  <2> QED BY <2>2, <2>5, <2>6 DEF Exchange
<1> QED BY <1>3, <1>4

LEMMA TasksStep ==
  ASSUME TasksInv, YieldsReady, [QueueNext]_allVars
  PROVE  TasksInv' /\ (Exchange \/ UNCHANGED <<k, ring, got>>)
<1>1. CASE TaskStep
  <2>1. [Next]_vars /\ ring' = ring /\ got' = Nothing
        /\ call' = [t \in Threads |-> IF pc'[t] = "dead" THEN NoCall ELSE call[t]]
    BY <1>1 DEF TaskStep
  <2> QED BY <2>1, TaskStepInv DEF Exchange, Untouched
<1>2. ASSUME NEW c \in Tasks, QueueStep(c) PROVE TasksInv' /\ Exchange
  BY <1>2, CallsStep
<1>3. CASE IsrSend \/ IsrRecv
  BY <1>3, IsrStep
<1>4. CASE UNCHANGED allVars
  <2>1. UNCHANGED <<k, isr, pc, ret, arg, handles, ring, call, got>>
    BY <1>4 DEF allVars, vars, queueVars
  <2>2. UNCHANGED vars
    BY <2>1 DEF vars
  <2>3. /\ IInv /\ NoneHeld(k) /\ SwitchInv /\ WaitShape /\ LockWaits /\ QueueTypes /\ CallsInv
    BY DEF TasksInv
  <2>4. SwitchInv' /\ WaitShape' /\ LockWaits' /\ QueueTypes' /\ CallsInv' /\ NoneHeld(k)'
    BY <2>1, <2>3 DEF SwitchInv, Leads, Outranked, WaitShape, LockWaits, QueueTypes, CallsInv,
                      NoneHeld
  <2>5. IInv'
    BY <2>2, <2>3, NextInv
  <2> QED BY <2>1, <2>4, <2>5 DEF TasksInv
<1> QED BY <1>1, <1>2, <1>3, <1>4 DEF QueueNext

-----------------------------------------------------------------------------
\* The queues as mailboxes

\* The items of one queue.
Held(R, n, q) ==
  IF q \in DataQueues THEN Contents(R[q], Length[q], n) ELSE [i \in 1 .. n |-> NoItem]

AllItems == Items \cup {NoItem}

LEMMA QueueFacts ==
  ASSUME NEW q \in Queues
  PROVE  /\ Length[q] \in Nat \ {0} /\ DataQueues \subseteq Queues
         /\ NoItem \in AllItems /\ NoItem \notin Urgent
BY LengthAssumption, ItemAssumption, TimeoutAssumption DEF AllItems

LEMMA BoxHeld ==
  /\ Box = [q \in Queues |-> Held(ring, k.messages_waiting[q], q)]
  /\ Box' = [q \in Queues |-> Held(ring', k'.messages_waiting[q], q)]
BY DEF Box, Held

\* The items of a queue are a sequence as long as its count.
LEMMA HeldSeq ==
  ASSUME NEW R, NEW n \in Nat, NEW q \in Queues,
         q \in DataQueues => RingOK(R[q], Length[q], n, AllItems)
  PROVE  Held(R, n, q) \in Seq(AllItems) /\ Len(Held(R, n, q)) = n
<1>1. CASE q \in DataQueues
  BY <1>1, QueueFacts, ContentsSeq DEF Held
<1>2. CASE q \notin DataQueues
  <2> DEFINE s == [i \in 1 .. n |-> NoItem]
  <2>1. s \in Seq(AllItems) /\ Len(s) = n
    BY QueueFacts
  <2> QED BY <1>2, <2>1 DEF Held
<1> QED BY <1>1, <1>2

\* A queue without data holds nothing but copies of NoItem.
LEMMA CopiesGrow ==
  ASSUME NEW n \in Nat, NEW x
  PROVE  [i \in 1 .. n + 1 |-> x] = Append([i \in 1 .. n |-> x], x)
<1> DEFINE a == [i \in 1 .. n + 1 |-> x]
           b == [i \in 1 .. n |-> x]
<1>1. b \in Seq({x}) /\ Len(b) = n /\ a \in Seq({x}) /\ Len(a) = n + 1
  OBVIOUS
<1>2. Append(b, x) \in Seq({x}) /\ Len(Append(b, x)) = n + 1
  BY <1>1
<1>3. \A i \in 1 .. Len(a) : a[i] = Append(b, x)[i]
  <2>1. ASSUME NEW s \in Seq({x}), NEW i \in 1 .. Len(s) PROVE s[i] = x
    OBVIOUS
  <2> QED BY <1>1, <1>2, <2>1
<1> HIDE DEF a, b
<1>4. a = Append(b, x)
  BY <1>1, <1>2, <1>3, SameItems
<1> QED BY <1>4 DEF a, b

LEMMA CopiesShrink ==
  ASSUME NEW n \in Nat \ {0}, NEW x
  PROVE  /\ [i \in 1 .. n - 1 |-> x] = Tail([i \in 1 .. n |-> x])
         /\ Head([i \in 1 .. n |-> x]) = x
<1> DEFINE a == [i \in 1 .. n - 1 |-> x]
           b == [i \in 1 .. n |-> x]
<1>1. b \in Seq({x}) /\ Len(b) = n /\ a \in Seq({x}) /\ Len(a) = n - 1 /\ b[1] = x
  OBVIOUS
<1>2. Tail(b) \in Seq({x}) /\ Len(Tail(b)) = n - 1 /\ Head(b) = x
  BY <1>1
<1>3. \A i \in 1 .. Len(a) : a[i] = Tail(b)[i]
  <2>1. ASSUME NEW s \in Seq({x}), NEW i \in 1 .. Len(s) PROVE s[i] = x
    OBVIOUS
  <2> QED BY <1>1, <1>2, <2>1
<1> HIDE DEF a, b
<1>4. a = Tail(b)
  BY <1>1, <1>2, <1>3, SameItems
<1> QED BY <1>2, <1>4 DEF a, b

\* A change of one queue.
LEMMA BoxChanges ==
  ASSUME NEW q \in Queues, NEW x,
         x = Held(ring', k'.messages_waiting[q], q),
         \A p \in Queues \ {q} : /\ k'.messages_waiting[p] = k.messages_waiting[p]
                                 /\ p \in DataQueues => ring'[p] = ring[p]
  PROVE  Box' = [Box EXCEPT ![q] = x]
<1>1. ASSUME NEW p \in Queues PROVE Box'[p] = [Box EXCEPT ![q] = x][p]
  <2>1. CASE p = q
    BY <2>1, BoxHeld
  <2>2. CASE p # q
    BY <2>2, BoxHeld DEF Held
  <2> QED BY <2>1, <2>2
<1> QED BY <1>1, BoxHeld

LEMMA BoxSame ==
  ASSUME ring' = ring, k'.messages_waiting = k.messages_waiting
  PROVE  Box' = Box
BY BoxHeld

\* The part of the invariant about one queue.
QueueOK(R, n, q) ==
  n <= Length[q] /\ (q \in DataQueues => RingOK(R[q], Length[q], n, AllItems))

LEMMA RingsParts ==
  RingsInv <=> /\ ring = [q \in DataQueues |-> ring[q]]
               /\ \A q \in Queues : QueueOK(ring, k.messages_waiting[q], q)
BY QueueFacts, TimeoutAssumption DEF RingsInv, QueueOK, AllItems

LEMMA RingsChange ==
  ASSUME RingsInv, NEW q \in Queues, NEW n,
         k'.messages_waiting[q] = n, QueueOK(ring', n, q),
         \A p \in Queues \ {q} : k'.messages_waiting[p] = k.messages_waiting[p],
         \/ ring' = ring
         \/ \E r : ring' = [ring EXCEPT ![q] = r]
  PROVE  /\ RingsInv'
         /\ Box' = [Box EXCEPT ![q] = Held(ring', n, q)]
<1>1. /\ ring = [p \in DataQueues |-> ring[p]]
      /\ \A p \in Queues : QueueOK(ring, k.messages_waiting[p], p)
  BY RingsParts
<1>2. ring' = [p \in DataQueues |-> ring'[p]] /\ \A p \in DataQueues \ {q} : ring'[p] = ring[p]
  <2>1. CASE ring' = ring
    BY <1>1, <2>1
  <2>2. ASSUME NEW r, ring' = [ring EXCEPT ![q] = r]
        PROVE  ring' = [p \in DataQueues |-> ring'[p]] /\ \A p \in DataQueues \ {q} : ring'[p] = ring[p]
    BY <1>1, <2>2
  <2> QED BY <2>1, <2>2
<1>3. ASSUME NEW p \in Queues PROVE QueueOK(ring', k'.messages_waiting[p], p)
  <2>1. CASE p = q
    BY <2>1
  <2>2. CASE p # q
    BY <1>1, <1>2, <2>2 DEF QueueOK
  <2> QED BY <2>1, <2>2
<1>4. RingsInv'
  BY <1>2, <1>3, TimeoutAssumption DEF RingsInv, QueueOK, AllItems
<1>5. Box' = [Box EXCEPT ![q] = Held(ring', n, q)]
  BY <1>2, BoxChanges
<1> QED BY <1>4, <1>5

LEMMA SentStep ==
  ASSUME k \in Kernel, RingsInv, NEW m \in SendCalls, Sent(m)
  PROVE  RingsInv' /\ (Boxes!Put(m.q) \/ Boxes!Replace(m.q))
<1> DEFINE q == m.q
           n == k.messages_waiting[q]
           L == Length[q]
           x == m.item
           y == Held(ring, n, q)
           z == Held(ring', OneMore(m), q)
<1>1. /\ q \in Queues
      /\ (q \in DataQueues => /\ x \in Items /\ (m.pos = "front" <=> x \in Urgent)
                              /\ (m.pos = "overwrite" => L = 1)
                              /\ m.pos \in {"back", "front", "overwrite"})
      /\ (q \notin DataQueues => m.item = NoItem /\ m.pos = "back")
  BY DEF SendCalls
<1>2. /\ n \in Nat /\ L \in Nat \ {0} /\ QueueOK(ring, n, q)
      /\ ring = [p \in DataQueues |-> ring[p]] /\ n <= L
  BY <1>1, QueueFacts, RingsParts DEF Kernel, QueueOK
<1>3. /\ k'.messages_waiting[q] = OneMore(m)
      /\ \A p \in Queues \ {q} : k'.messages_waiting[p] = k.messages_waiting[p]
  BY <1>1 DEF Sent, With, Kernel
<1>4. /\ ring' = Store(m) /\ got' = Nothing
      /\ m.pos # "overwrite" => n < L /\ OneMore(m) = n + 1
      /\ m.pos = "overwrite" /\ L = 1 => OneMore(m) = 1
  BY <1>2 DEF Sent, HasRoom, OneMore
<1>5. \/ ring' = ring
      \/ \E r : ring' = [ring EXCEPT ![q] = r]
  BY <1>4 DEF Store
<1>6. y \in Seq(AllItems) /\ Len(y) = n
  BY <1>1, <1>2, HeldSeq DEF QueueOK
<1>7. /\ QueueOK(ring', OneMore(m), q)
      /\ \/ n < L /\ \E e \in AllItems \ Urgent : z = Append(y, e)
         \/ n < L /\ \E e \in AllItems \cap Urgent : z = <<e>> \o y
         \/ L = 1 /\ \E e \in AllItems : z = <<e>>
  <2>1. CASE q \notin DataQueues
    <3>1. ring' = ring /\ m.pos = "back"
      BY <1>1, <1>4, <2>1 DEF Store
    <3>2. z = Append(y, NoItem)
      <4>1. z = [i \in 1 .. n + 1 |-> NoItem] /\ y = [i \in 1 .. n |-> NoItem]
        BY <1>4, <2>1, <3>1 DEF Held
      <4> QED BY <1>2, <4>1, CopiesGrow
    <3>3. NoItem \in AllItems \ Urgent
      BY <1>1, QueueFacts
    <3>4. QueueOK(ring', OneMore(m), q)
      BY <1>2, <1>4, <2>1, <3>1 DEF QueueOK
    <3> HIDE DEF y, z
    <3> QED BY <1>4, <3>1, <3>2, <3>3, <3>4
  <2>2. CASE q \in DataQueues
    <3> DEFINE r == CopyDataToQueue(ring[q], L, x, m.pos)
    <3>1. ring' = [ring EXCEPT ![q] = r]
      BY <1>4, <2>2 DEF Store
    <3> HIDE DEF r
    <3>2. ring'[q] = r
      BY <1>2, <2>2, <3>1
    <3>3. /\ y = Contents(ring[q], L, n) /\ z = Contents(r, L, OneMore(m))
          /\ QueueOK(ring', OneMore(m), q) <=>
               OneMore(m) <= L /\ RingOK(r, L, OneMore(m), AllItems)
      BY <2>2, <3>2 DEF Held, QueueOK
    <3>4. RingOK(ring[q], L, n, AllItems) /\ x \in AllItems
      BY <1>1, <1>2, <2>2 DEF QueueOK, AllItems
    <3> HIDE DEF y, z
    <3>5. CASE m.pos = "back"
      <4>1. RingOK(r, L, n + 1, AllItems) /\ z = Append(y, x)
        BY SMTT(40), <1>2, <1>4, <3>3, <3>4, <3>5, BackAppends DEF r
      <4>2. x \in AllItems \ Urgent
        BY <1>1, <2>2, <3>4, <3>5
      <4>3. n < L /\ OneMore(m) = n + 1
        BY SMTT(40), <1>4, <3>5
      <4>4. QueueOK(ring', OneMore(m), q)
        BY <1>2, <3>3, <4>1, <4>3
      <4> QED BY <4>1, <4>2, <4>3, <4>4
    <3>6. CASE m.pos = "front"
      <4> DEFINE old == ring[q]
                 new == CopyDataToQueue(old, L, x, "front")
      <4>0. n < L /\ OneMore(m) = n + 1 /\ r = new
        BY <1>4, <3>6 DEF r
      <4> HIDE DEF old
      <4>1. RingOK(r, L, n + 1, AllItems) /\ z = <<x>> \o y
        <5>1. RingOK(old, L, n, AllItems) /\ y = Contents(old, L, n) /\ z = Contents(r, L, n + 1)
          BY <3>3, <3>4, <4>0 DEF old
        <5> HIDE DEF n, L, x
        <5>2. /\ RingOK(new, L, n + 1, AllItems)
              /\ Contents(new, L, n + 1) = <<x>> \o Contents(old, L, n)
          BY <1>2, <3>4, <4>0, <5>1, FrontPrepends
        <5> QED BY <4>0, <5>1, <5>2
      <4>2. x \in AllItems \cap Urgent
        BY <1>1, <2>2, <3>4, <3>6
      <4>4. QueueOK(ring', OneMore(m), q)
        BY <1>2, <3>3, <4>0, <4>1
      <4> QED BY <4>0, <4>1, <4>2, <4>4
    <3>7. CASE m.pos = "overwrite"
      <4>1. L = 1 /\ OneMore(m) = 1
        BY <1>1, <1>4, <2>2, <3>7
      <4>2. RingOK(r, 1, 1, AllItems) /\ Contents(r, 1, 1) = <<x>>
        BY <3>4, <3>7, <4>1, OverwriteReplaces DEF r
      <4> QED BY <3>3, <3>4, <4>1, <4>2
    <3> QED BY <1>1, <2>2, <3>5, <3>6, <3>7
  <2> QED BY <2>1, <2>2
<1> HIDE DEF y, z
<1>8. RingsInv' /\ Box' = [Box EXCEPT ![q] = z]
  <2>1. RingsInv' /\ Box' = [Box EXCEPT ![q] = Held(ring', OneMore(m), q)]
    BY <1>1, <1>3, <1>5, <1>7, RingsChange
  <2> QED BY <2>1 DEF z
<1>9. Box[q] = y
  BY <1>1, BoxHeld DEF y
<1>10. Boxes!Put(q) \/ Boxes!Replace(q)
  <2>1. ASSUME n < L, NEW e \in AllItems \ Urgent, z = Append(y, e) PROVE Boxes!Put(q)
    BY <1>4, <1>6, <1>8, <1>9, <2>1 DEF Boxes!Put, AllItems
  <2>2. ASSUME n < L, NEW e \in AllItems \cap Urgent, z = <<e>> \o y PROVE Boxes!Put(q)
    BY <1>4, <1>6, <1>8, <1>9, <2>2 DEF Boxes!Put, AllItems
  <2>3. ASSUME L = 1, NEW e \in AllItems, z = <<e>> PROVE Boxes!Replace(q)
    BY <1>4, <1>8, <2>3 DEF Boxes!Replace, AllItems
  <2> QED BY <1>7, <2>1, <2>2, <2>3
<1> QED BY <1>8, <1>10

LEMMA ReceivedStep ==
  ASSUME k \in Kernel, RingsInv, NEW m \in RecvTypes, NEW u \in Threads \cup {"isr"},
         Received(u, m)
  PROVE  RingsInv' /\ (Boxes!Take(u, m.q) \/ Boxes!Peek(u, m.q))
<1> DEFINE q == m.q
           n == k.messages_waiting[q]
           L == Length[q]
           y == Held(ring, n, q)
<1>1. q \in Queues
  BY CallFacts
<1>2. /\ n \in Nat \ {0} /\ L \in Nat \ {0} /\ QueueOK(ring, n, q)
      /\ ring = [p \in DataQueues |-> ring[p]] /\ n <= L
  BY <1>1, QueueFacts, RingsParts DEF Kernel, QueueOK, Received, HasItem
<1>3. y \in Seq(AllItems) /\ Len(y) = n
  BY <1>1, <1>2, HeldSeq DEF QueueOK
<1>4. Box[q] = y
  BY <1>1, BoxHeld
<1>5. ring' = Fetch(m) /\ got' = <<u, ItemFound(m)>>
  BY DEF Received
<1>6. ItemFound(m) = Head(y)
  <2>1. CASE q \in DataQueues
    <3> DEFINE old == ring[q]
    <3>1. /\ RingOK(old, L, n, AllItems) /\ y = Contents(old, L, n) /\ n > 0
          /\ ItemFound(m) = FirstItem(old, L)
      BY <1>2, <2>1 DEF ItemFound, QueueOK, Held
    <3> HIDE DEF old, n, L, y
    <3>2. FirstItem(old, L) = Head(Contents(old, L, n))
      <4>1. L \in Nat \ {0} /\ n \in Nat \ {0}
        BY <1>2
      <4>2. RingOK(old, L, n, AllItems)
        BY <3>1
      <4> QED BY <4>1, <4>2, TakesFirst
    <3> QED BY <3>1, <3>2
  <2>2. CASE q \notin DataQueues
    BY <1>2, <2>2, CopiesShrink DEF ItemFound, Held
  <2> QED BY <2>1, <2>2
<1> HIDE DEF y
<1>7. Boxes!Receive(u, q)
  BY <1>2, <1>3, <1>4, <1>5, <1>6 DEF Boxes!Receive
<1>8. CASE m.op = "peek"
  <2>1. k'.messages_waiting = k.messages_waiting
    BY <1>8 DEF Received
  <2>2. ring' = ring
    <3>1. CASE q \in DataQueues
      <4>1. Fetch(m) = [ring EXCEPT ![q] = ring[q]]
        BY <1>8, <3>1 DEF Fetch, CopyDataFromQueue
      <4> QED BY <1>2, <1>5, <4>1
    <3>2. CASE q \notin DataQueues
      BY <1>5, <3>2 DEF Fetch
    <3> QED BY <3>1, <3>2
  <2>3. RingsInv' /\ Box' = Box
    BY <2>1, <2>2, BoxSame DEF RingsInv
  <2> QED BY <1>7, <2>3 DEF Boxes!Peek
<1>9. CASE m.op # "peek"
  <2> DEFINE z == Held(ring', n - 1, q)
  <2>1. /\ k'.messages_waiting[q] = n - 1
        /\ \A p \in Queues \ {q} : k'.messages_waiting[p] = k.messages_waiting[p]
    BY <1>1, <1>9 DEF Received, With, Kernel
  <2>2. \/ ring' = ring
        \/ \E r : ring' = [ring EXCEPT ![q] = r]
    BY <1>5 DEF Fetch
  <2>3. QueueOK(ring', n - 1, q) /\ z = Tail(y)
    <3>1. CASE q \notin DataQueues
      <4>1. z = [i \in 1 .. n - 1 |-> NoItem] /\ y = [i \in 1 .. n |-> NoItem]
        BY <3>1 DEF Held, y
      <4> QED BY <1>2, <3>1, <4>1, CopiesShrink DEF QueueOK
    <3>2. CASE q \in DataQueues
      <4> DEFINE r == CopyDataFromQueue(ring[q], L, FALSE)
      <4>1. ring' = [ring EXCEPT ![q] = r]
        BY <1>5, <1>9, <3>2 DEF Fetch
      <4>2. RingOK(r, L, n - 1, AllItems) /\ Contents(r, L, n - 1) = Tail(Contents(ring[q], L, n))
        <5> DEFINE old == ring[q]
        <5>1. RingOK(old, L, n, AllItems) /\ n > 0 /\ r = CopyDataFromQueue(old, L, FALSE)
          BY <1>2, <3>2 DEF QueueOK
        <5> HIDE DEF r, old, n, L
        <5>2. /\ RingOK(r, L, n - 1, AllItems)
              /\ Contents(r, L, n - 1) = Tail(Contents(old, L, n))
          <6>1. r = Advance(old, L)
            BY <5>1 DEF CopyDataFromQueue, Advance
          <6> DEFINE new == Advance(old, L)
          <6>2. L \in Nat \ {0} /\ n \in Nat \ {0}
            BY <1>2
          <6>3. RingOK(old, L, n, AllItems)
            BY <5>1
          <6>4. /\ RingOK(new, L, n - 1, AllItems)
                /\ Contents(new, L, n - 1) = Tail(Contents(old, L, n))
            BY <6>2, <6>3, TakesFirst
          <6> QED BY <6>1, <6>4
        <5> QED BY <5>2 DEF old
      <4> HIDE DEF r
      <4>3. ring'[q] = r
        BY <1>2, <3>2, <4>1
      <4> QED BY <1>2, <3>2, <4>2, <4>3 DEF QueueOK, Held, y
    <3> QED BY <3>1, <3>2
  <2> HIDE DEF z
  <2>4. RingsInv' /\ Box' = [Box EXCEPT ![q] = Tail(y)]
    <3>1. RingsInv' /\ Box' = [Box EXCEPT ![q] = Held(ring', n - 1, q)]
      BY <1>1, <2>1, <2>2, <2>3, RingsChange
    <3> QED BY <2>3, <3>1 DEF z
  <2> QED BY <1>4, <1>7, <2>4 DEF Boxes!Take
<1> QED BY <1>8, <1>9

\* Every step does to the mailboxes one of the things they promise.
BoxStep == [Boxes!Next]_<<Box, got>>

LEMMA RingsStep ==
  ASSUME k \in Kernel, RingsInv, Exchange \/ UNCHANGED <<k, ring, got>>
  PROVE  RingsInv' /\ BoxStep
<1>1. CASE Untouched
  <2>1. RingsInv' /\ Box' = Box /\ got' = Nothing
    BY <1>1, BoxSame DEF Untouched, RingsInv
  <2> QED BY <2>1 DEF BoxStep, Boxes!Next, Boxes!Other
<1>2. ASSUME NEW m \in SendCalls, Sent(m) PROVE RingsInv' /\ BoxStep
  <2>1. m.q \in Queues
    BY CallFacts
  <2>2. RingsInv' /\ (Boxes!Put(m.q) \/ Boxes!Replace(m.q))
    BY <1>2, SentStep
  <2> QED BY <2>1, <2>2 DEF BoxStep, Boxes!Next
<1>3. ASSUME NEW u \in Threads \cup {"isr"}, NEW m \in RecvTypes, Received(u, m)
      PROVE  RingsInv' /\ BoxStep
  <2>1. m.q \in Queues
    BY CallFacts
  <2>2. RingsInv' /\ (Boxes!Take(u, m.q) \/ Boxes!Peek(u, m.q))
    BY <1>3, ReceivedStep
  <2> QED BY <2>1, <2>2 DEF BoxStep, Boxes!Next
<1>4. CASE UNCHANGED <<k, ring, got>>
  <2>1. RingsInv' /\ Box' = Box
    BY <1>4, BoxSame DEF RingsInv
  <2> QED BY <1>4, <2>1 DEF BoxStep
<1> QED BY <1>1, <1>2, <1>3, <1>4 DEF Exchange

-----------------------------------------------------------------------------
\* Theorems

LEMMA QueueInitInv ==
  ASSUME QueueInit
  PROVE  QInv /\ Boxes!Init
<1>1. /\ k = [InitKernel EXCEPT !.messages_waiting = Available] /\ InitThreads
      /\ ring = [q \in DataQueues |-> RingInit(Length[q], NoItem)]
      /\ call = [t \in Threads |-> NoCall] /\ got = Nothing
  BY DEF QueueInit
<1>2. /\ isr = "none" /\ pc = [t \in Threads |-> "run"] /\ ret = [t \in Threads |-> "run"]
      /\ arg = [t \in Threads |-> 0] /\ handles = BootTasks
  BY <1>1 DEF InitThreads
<1>3. KernelInv(InitKernel, BootTasks) /\ InitKernel \in Kernel
  BY InitKernelInv, CoreFacts DEF KernelInv
<1>4. /\ k \in Kernel /\ SameCore(InitKernel, k) /\ SameRest(InitKernel, k)
      /\ k.messages_waiting = Available /\ k.held_queue = InitKernel.held_queue
  <2>1. Available \in [Queues -> Nat]
    BY LengthAssumption
  <2> HIDE DEF InitKernel
  <2>2. k \in Kernel /\ k.messages_waiting = Available
    BY <1>1, <1>3, <2>1 DEF Kernel
  <2>3. SameCore(InitKernel, k) /\ SameRest(InitKernel, k) /\ k.held_queue = InitKernel.held_queue
    BY <1>1, <1>3 DEF Kernel, SameCore, SameLists, SameQueued, SameDelays, SameEvents, SameRest
  <2> QED BY <2>2, <2>3
<1>5. IInv
  <2>1. KernelInv(k, handles)
    BY <1>2, <1>3, <1>4, SameCoreInv DEF KernelInv
  <2>2. ThreadInv
    <3>1. k.terminated_list = <<>> /\ k.sched_lock = 0
      BY <1>4, InitKernelInv DEF SameRest
    <3>2. handles \in SUBSET Tasks
      BY <1>2, BootFacts
    <3>3. ThreadTypes
      BY <1>2, <3>2 DEF ThreadTypes, AllLabels, Labels, Locals
    <3>4. SlotsInv /\ LocalsInv
      BY <1>2 DEF SlotsInv, LocalsInv, Threads
    <3>5. DyingInv /\ LockInv
      BY <3>1, EmptyDistinct DEF DyingInv, LockInv
    <3> QED BY <3>3, <3>4, <3>5 DEF ThreadInv
  <2> QED BY <2>1, <2>2 DEF IInv
<1>6. NoneHeld(k)
  <2>1. InitKernel.held_queue = [t \in Threads |-> NoQueue]
    BY DEF InitKernel
  <2> QED BY <1>4, <2>1 DEF NoneHeld
<1>7. SwitchInv
  <2>1. Leads(InitKernel)
    BY InitKernelInv DEF Leads
  <2>2. Leads(k)
    BY <1>4, <2>1, LeadsSame DEF SameCore, SameLists, SameQueued
  <2> QED BY <2>2 DEF SwitchInv
<1>8. k.current \in Threads
  BY <1>4 DEF Kernel
<1>9. WaitShape /\ LockWaits /\ QueueTypes /\ CallsInv
  <2>1. CallsInv
    BY <1>1, <1>2 DEF CallsInv
  <2> QED BY <1>1, <1>2, <1>8, <2>1 DEF WaitShape, LockWaits, QueueTypes, QueueLabels, Labels, CallTypes
<1>10. RingsInv
  <2>1. ASSUME NEW q \in Queues PROVE QueueOK(ring, k.messages_waiting[q], q)
    <3>1. Available[q] <= Length[q] /\ (q \in DataQueues => Available[q] = 0)
      BY LengthAssumption
    <3>2. q \in DataQueues => RingOK(ring[q], Length[q], 0, AllItems)
      BY <1>1, QueueFacts, RingStartsEmpty
    <3> QED BY <1>4, <3>1, <3>2 DEF QueueOK
  <2> QED BY <1>1, <2>1, RingsParts
<1>11. Boxes!Init
  <2>1. ASSUME NEW q \in Queues PROVE Held(ring, k.messages_waiting[q], q) \in Seq(AllItems)
    <3>1. QueueOK(ring, k.messages_waiting[q], q)
      BY <1>10, RingsParts
    <3>2. k.messages_waiting[q] \in Nat
      BY <1>4 DEF Kernel
    <3> QED BY <3>1, <3>2, HeldSeq DEF QueueOK
  <2>2. Box \in [Queues -> Seq(AllItems)]
    BY <2>1, BoxHeld
  <2> QED BY <1>1, <2>2 DEF Boxes!Init, AllItems
<1> QED BY <1>5, <1>6, <1>7, <1>9, <1>10, <1>11 DEF QInv, TasksInv

LEMMA QueueStepInv ==
  ASSUME QInv, YieldsReady, [QueueNext]_allVars
  PROVE  QInv' /\ BoxStep
<1>1. TasksInv /\ RingsInv /\ k \in Kernel
  BY TypeFacts DEF QInv, TasksInv
<1>2. TasksInv' /\ (Exchange \/ UNCHANGED <<k, ring, got>>)
  BY <1>1, TasksStep
<1>3. RingsInv' /\ BoxStep
  BY <1>1, <1>2, RingsStep
<1> QED BY <1>2, <1>3 DEF QInv

\* The objects keep their types, no queue ever holds more than it has places for, and
\* the two pointers of a ring buffer agree with messages_waiting.
THEOREM QueueTypesCorrect == YieldsReady /\ QueueSpec => []QueueTypeOK
<1> SUFFICES ASSUME YieldsReady PROVE QueueSpec => []QueueTypeOK
  OBVIOUS
<1>1. QueueInit => QInv
  BY QueueInitInv
<1>2. QInv /\ [QueueNext]_allVars => QInv'
  BY QueueStepInv
<1>3. QInv => QueueTypeOK
  <2> SUFFICES ASSUME QInv PROVE QueueTypeOK
    OBVIOUS
  <2>1. k \in Kernel
    BY TypeFacts DEF QInv, TasksInv
  <2>2. QueueTypes /\ RingsInv
    BY DEF QInv, TasksInv
  <2> QED BY <2>1, <2>2 DEF QueueTypes, CallTypes, RingsInv, QueueTypeOK
<1> QED BY <1>1, <1>2, <1>3, PTL DEF QueueSpec

\* A task that a send, a receive or an interrupt makes ready gets the processor if it
\* outranks the one that has it: no path forgets to ask for the switch.
THEOREM QueueNoSwitchMissed == YieldsReady /\ QueueSpec => []QueueNoMissedSwitch
<1> SUFFICES ASSUME YieldsReady PROVE QueueSpec => []QueueNoMissedSwitch
  OBVIOUS
<1>1. QueueInit => QInv
  BY QueueInitInv
<1>2. QInv /\ [QueueNext]_allVars => QInv'
  BY QueueStepInv
<1>3. QInv => QueueNoMissedSwitch
  BY DEF QInv, TasksInv, SwitchInv, Leads, QueueNoMissedSwitch
<1> QED BY <1>1, <1>2, <1>3, PTL DEF QueueSpec

\* The queues are the mailboxes of module Mailbox, for any number of senders and
\* receivers that block, are woken, time out, are aborted, suspended or deleted.
THEOREM QueuesImplementMailboxes == YieldsReady /\ QueueSpec => QueuesAreMailboxes
<1> SUFFICES ASSUME YieldsReady PROVE QueueSpec => QueuesAreMailboxes
  OBVIOUS
<1>1. QueueInit => QInv /\ Boxes!Init
  BY QueueInitInv
<1>2. QInv /\ [QueueNext]_allVars => QInv' /\ [Boxes!Next]_<<Box, got>>
  BY QueueStepInv DEF BoxStep
<1> QED BY <1>1, <1>2, PTL DEF QueueSpec, QueuesAreMailboxes, Boxes!Spec

-----------------------------------------------------------------------------
\* What the critical sections do to the tasks that wait

\* The list that a call waits in, the one it wakes a task from, and when it succeeds.
Own(m)   == IF m.op = "send" THEN Senders(m.q) ELSE Receivers(m.q)
Other(m) == IF m.op = "send" THEN Receivers(m.q) ELSE Senders(m.q)
Can(m)   == IF m.op = "send" THEN HasRoom(k, m) ELSE HasItem(k, m)

\* Nobody starts or ends a wait; c may have seen the reason of its last wake-up.
NoWake(r, c) ==
  /\ SameEvents(k, r) /\ Delayed(r) = Delayed(k) /\ r.priority = k.priority
  /\ \A u \in Threads \ {c} : r.wakeup_reason[u] = k.wakeup_reason[u]

\* The first task of the list e is woken ...
Picks(r, c, e) ==
  \E t \in Threads :
    /\ k.waiting[e] # <<>> /\ t = Head(k.waiting[e])
    /\ r.event_list = With(k.event_list, t, NoList)
    /\ r.waiting = With(k.waiting, e, Tail(k.waiting[e]))
    /\ Delayed(r) = Delayed(k) \ {t} /\ r.priority = k.priority
    /\ r.wakeup_reason[t] = 1
    /\ \A u \in Threads \ {c, t} : r.wakeup_reason[u] = k.wakeup_reason[u]

\* ... if there is one.
Serves(r, c, e) == (k.waiting[e] = <<>> /\ NoWake(r, c)) \/ Picks(r, c, e)

\* c waits in the list e, for n ticks.
Joins(r, c, e, n) ==
  /\ r.event_list = With(k.event_list, c, e)
  /\ r.waiting = With(k.waiting, e, InsertBefore(k.waiting[e], c, EventPlace(k, e, c)))
  /\ Delayed(r) = IF n = Forever THEN Delayed(k) ELSE Delayed(k) \cup {c}
  /\ r.priority = k.priority
  /\ \A u \in Threads \ {c} : r.wakeup_reason[u] = k.wakeup_reason[u]

\* The kernel in which a round of a call of c is executed.
RoundOf(s, c) ==
  Round(s) /\ \A u \in Threads \ {c} : s.wakeup_reason[u] = k.wakeup_reason[u]

LEMMA RoundQuiet ==
  ASSUME NEW s, NEW c, RoundOf(s, c)
  PROVE  NoWake(s, c)
BY DEF RoundOf, Round, SameCore, SameLists, SameQueued, SameDelays, NoWake, Delayed

\* Only lists, reasons and priorities count.
LEMMA ServesThen ==
  ASSUME NEW m, NEW c, NEW e, Serves(m, c, e), NEW r, SameWaits(m, r), r.priority = m.priority
  PROVE  Serves(r, c, e)
<1>1. /\ r.waiting = m.waiting /\ r.event_list = m.event_list
      /\ Delayed(r) = Delayed(m) /\ r.wakeup_reason = m.wakeup_reason
  BY DEF SameWaits, SameEvents
<1>2. CASE k.waiting[e] = <<>> /\ NoWake(m, c)
  <2>1. NoWake(r, c)
    BY <1>1, <1>2 DEF NoWake, SameEvents
  <2> QED BY <1>2, <2>1 DEF Serves
<1>3. CASE Picks(m, c, e)
  <2>1. Picks(r, c, e)
    BY <1>1, <1>3 DEF Picks
  <2> QED BY <2>1 DEF Serves
<1> QED BY <1>2, <1>3 DEF Serves

LEMMA CountWaits ==
  ASSUME NEW s \in Kernel, NEW q \in Queues, NEW n \in Nat
  PROVE  SameWaits(s, [s EXCEPT !.messages_waiting[q] = n])
BY DEF SameWaits, SameEvents, Delayed, Kernel

LEMMA WakeServes ==
  ASSUME IInv, NEW c, NEW s, RoundOf(s, c), NEW q \in Queues, NEW n \in Nat, NEW e \in EventLists
  PROVE  Serves(WakeHighest([s EXCEPT !.messages_waiting[q] = n], e), c, e)
<1> DEFINE m == [s EXCEPT !.messages_waiting[q] = n]
           r == WakeHighest(m, e)
           t == Head(m.waiting[e])
<1>1. s \in Kernel /\ KernelCore(s, handles) /\ Round(s)
  BY CoreFacts DEF RoundOf, Round, KernelInv
<1>2. SameWaits(s, m) /\ m \in Kernel /\ SameCore(s, m) /\ SameRest(s, m)
  BY <1>1, CountWaits, CountFields
<1> HIDE DEF m
<1>3. KernelCore(m, handles)
  BY <1>1, <1>2, SameCoreInv
<1>4. NoWake(s, c)
  BY RoundQuiet
<1>5. /\ m.waiting = k.waiting /\ m.event_list = k.event_list /\ Delayed(m) = Delayed(k)
      /\ m.priority = k.priority
      /\ \A u \in Threads \ {c} : m.wakeup_reason[u] = k.wakeup_reason[u]
  BY <1>2, <1>4 DEF SameWaits, SameEvents, SameCore, SameLists, SameQueued, NoWake
<1>6. CASE m.waiting[e] = <<>>
  <2>1. r = m
    BY <1>6, WakeNobody
  <2>2. NoWake(m, c)
    BY <1>5 DEF NoWake, SameEvents
  <2> QED BY <1>5, <1>6, <2>1, <2>2 DEF Serves, m
<1>7. CASE m.waiting[e] # <<>>
  <2>1. /\ MadeReady(m, r, t) /\ r.priority = m.priority
        /\ r.wakeup_reason = With(m.wakeup_reason, t, 1)
        /\ r.event_list = With(m.event_list, t, NoList)
        /\ r.waiting = With(m.waiting, e, Tail(m.waiting[e])) /\ t \in handles
    BY <1>3, <1>7, WakeHighestEffect
  <2>2. t \in Threads /\ m.wakeup_reason \in [Threads -> 0 .. 2]
    BY <1>2, <1>3, <2>1, CoreFacts DEF Kernel
  <2> HIDE DEF r, t
  <2>3. Delayed(r) = Delayed(m) \ {t}
    BY <2>1 DEF MadeReady, Effect
  <2>4. r.wakeup_reason[t] = 1 /\ \A u \in Threads \ {t} : r.wakeup_reason[u] = m.wakeup_reason[u]
    BY <2>1, <2>2 DEF With
  <2>5. Picks(r, c, e)
    <3>1. k.waiting[e] # <<>> /\ t = Head(k.waiting[e])
      BY <1>5, <1>7 DEF t
    <3>2. /\ r.event_list = With(k.event_list, t, NoList)
          /\ r.waiting = With(k.waiting, e, Tail(k.waiting[e]))
          /\ Delayed(r) = Delayed(k) \ {t} /\ r.priority = k.priority
      BY <1>5, <2>1, <2>3
    <3>3. \A u \in Threads \ {c, t} : r.wakeup_reason[u] = k.wakeup_reason[u]
      BY <1>5, <2>4
    <3> QED BY <2>2, <2>4, <3>1, <3>2, <3>3 DEF Picks
  <2> QED BY <2>5 DEF Serves, r, m
<1> QED BY <1>6, <1>7

LEMMA BlockJoins ==
  ASSUME IInv, NEW c \in Tasks, k.current = c, c \in handles, k.state[c] # "BLOCKED",
         NEW s, RoundOf(s, c), NEW e \in EventLists, NEW n \in Nat \cup {Forever}
  PROVE  Joins(BlockCurrent(s, e, n), c, e, n)
<1> DEFINE r == BlockCurrent(s, e, n)
<1>1. /\ KernelInv(s, handles) /\ s.current = c /\ s.state[c] # "BLOCKED" /\ SameCore(k, s)
  BY DEF RoundOf, Round, SameCore
<1>2. /\ Blocks(s, r, c, e, n) /\ r.priority = s.priority /\ r.wakeup_reason = s.wakeup_reason
      /\ r.event_list = With(s.event_list, c, e)
      /\ r.waiting = With(s.waiting, e, InsertBefore(s.waiting[e], c, EventPlace(s, e, c)))
  BY <1>1, BlockCurrentInv
<1> HIDE DEF r
<1>3. NoWake(s, c)
  BY RoundQuiet
<1>4. /\ s.waiting = k.waiting /\ s.event_list = k.event_list /\ Delayed(s) = Delayed(k)
      /\ s.priority = k.priority
      /\ \A u \in Threads \ {c} : s.wakeup_reason[u] = k.wakeup_reason[u]
  BY <1>3 DEF NoWake, SameEvents
<1>5. Delayed(r) = IF n = Forever THEN Delayed(k) ELSE Delayed(k) \cup {c}
  BY <1>2, <1>4 DEF Blocks, Effect
<1>6. EventPlace(s, e, c) = EventPlace(k, e, c)
  BY <1>4 DEF EventPlace
<1> QED BY <1>2, <1>4, <1>5, <1>6 DEF Joins, r

-----------------------------------------------------------------------------
\* What the steps of the calls do to the tasks that wait

\* m is the call that c makes, or goes on with.
Of(c, m) ==
  /\ m \in SendCalls \cup RecvTypes
  /\ m = call[c] \/ (call[c] = NoCall /\ m.op \in QueueCalls)

Others(c) == \A u \in Threads \ {c} : call'[u] = call[u] /\ ret'[u] = ret[u]

Ends(c) == call'[c] = NoCall /\ ret'[c] = "run" /\ Others(c)

Counts(m) ==
  k'.messages_waiting =
    With(k.messages_waiting, m.q,
         IF m.op = "send" THEN OneMore(m) ELSE k.messages_waiting[m.q] - 1)

\* A call that is over: it failed or looked at an item, ...
GaveUp(c) ==
  /\ NoWake(k', c) /\ Ends(c) /\ k'.messages_waiting = k.messages_waiting
  /\ \/ call[c] = NoCall \/ k.wakeup_reason[c] = 2
     \/ \E m : Of(c, m) /\ m.op = "peek"

\* ... sent or received an item; ...
Done(c, m) ==
  /\ Of(c, m) /\ m.op # "peek" /\ Can(m) /\ Serves(k', c, Other(m)) /\ Ends(c) /\ Counts(m)

\* ... or it waits.
Waits(c, m) ==
  /\ Of(c, m) /\ ~Can(m) /\ m.timeout # 0 /\ Joins(k', c, Own(m), m.timeout)
  /\ call'[c] = m /\ ret'[c] = "wait" /\ Others(c)
  /\ k'.messages_waiting = k.messages_waiting

\* An interrupt handler sends or receives.
DoneFromIsr(m) ==
  /\ m \in SendCalls \cup RecvTypes /\ m.op # "peek" /\ Can(m) /\ Serves(k', NoTask, Other(m))
  /\ UNCHANGED <<call, ret>> /\ Counts(m)

CallEffect(c) ==
  GaveUp(c) \/ (\E m : Done(c, m)) \/ (\E m : Waits(c, m)) \/ UNCHANGED <<k, call, ret>>

LEMMA FinishEnds ==
  ASSUME QueueTypes, NEW c \in Threads, NEW w, Finish(c, w)
  PROVE  Ends(c) /\ handles' = handles
BY DEF Finish, QueueTypes, Ends, Others

LEMMA WaitOrFailEffect ==
  ASSUME TasksInv, NEW c \in Tasks, NEW l \in {"run", "wait"}, At(c, l), NEW s, RoundOf(s, c),
         NEW m, Of(c, m), ~Can(m), m.timeout # 0 => k.sched_lock = 0,
         WaitOrFail(c, s, m, Own(m))
  PROVE  CallEffect(c) /\ handles' = handles
<1>1. IInv /\ SwitchInv /\ QueueTypes /\ CallsInv
  BY DEF TasksInv
<1>2. /\ c \in handles /\ c \in Threads /\ k.current = c
  BY <1>1, CallerLives DEF Running
<1>3. m \in SendCalls \cup RecvTypes
  BY DEF Of
<1>4. /\ m.timeout \in Nat \cup {Forever} /\ Own(m) \in EventLists
  BY <1>3, CallFacts DEF Own
<1>5. CASE m.timeout = 0 /\ k' = s /\ Finish(c, NoTask)
  <2>1. Ends(c) /\ handles' = handles
    BY <1>1, <1>2, <1>5, FinishEnds
  <2>2. NoWake(k', c) /\ k'.messages_waiting = k.messages_waiting
    BY <1>5, RoundQuiet DEF RoundOf, Round, SameObjects
  <2>3. call[c] = NoCall
    BY <1>1, <1>2, <1>5 DEF CallsInv, Of
  <2>4. GaveUp(c)
    BY <2>1, <2>2, <2>3 DEF GaveUp
  <2> QED BY <2>1, <2>4 DEF CallEffect
<1>6. CASE /\ m.timeout # 0 /\ k' = BlockCurrent(s, Own(m), m.timeout)
           /\ call' = [call EXCEPT ![c] = m] /\ CallSched(c, "wait") /\ handles' = handles
  <2>1. k.state[c] # "BLOCKED"
    BY <1>1, <1>6, CallerReady
  <2>2. Joins(k', c, Own(m), m.timeout)
    BY <1>1, <1>2, <1>4, <1>6, <2>1, BlockJoins
  <2>3. call'[c] = m /\ ret'[c] = "wait" /\ Others(c)
    BY <1>1, <1>2, <1>6 DEF CallSched, QueueTypes, Others
  <2>4. k'.messages_waiting = k.messages_waiting
    <3>1. m \in CallTypes \ {NoCall}
      BY <1>3, CallFacts
    <3>2. Round(s) /\ k.sched_lock = 0
      BY <1>6 DEF RoundOf
    <3> QED BY <1>4, <1>6, <3>1, <3>2, BlockInv
  <2>5. Waits(c, m)
    BY <1>6, <2>2, <2>3, <2>4 DEF Waits
  <2> QED BY <1>6, <2>5 DEF CallEffect
<1> QED BY <1>5, <1>6 DEF WaitOrFail

LEMMA SendServes ==
  ASSUME IInv, NEW c, NEW s, RoundOf(s, c), NEW m \in SendCalls
  PROVE  Serves(Send(s, m), c, Receivers(m.q))
<1> DEFINE n == OneMore(m)
<1>1. m.q \in Queues /\ Receivers(m.q) \in EventLists /\ Round(s)
  BY CallFacts DEF RoundOf
<1>2. s.messages_waiting = k.messages_waiting /\ k.messages_waiting[m.q] \in Nat
  BY <1>1, RoundCounts
<1>3. n \in Nat
  BY <1>2 DEF OneMore
<1>4. Send(s, m) = WakeHighest([s EXCEPT !.messages_waiting[m.q] = n], Receivers(m.q))
  BY <1>2 DEF Send, OneMore
<1> HIDE DEF n
<1> QED BY SMTT(40), <1>1, <1>3, <1>4, WakeServes

LEMMA RecvServes ==
  ASSUME IInv, NEW c, NEW s, RoundOf(s, c), NEW m \in RecvTypes, HasItem(s, m), m.op # "peek"
  PROVE  Serves(Recv(s, m), c, Senders(m.q))
<1> DEFINE n == k.messages_waiting[m.q] - 1
<1>1. m.q \in Queues /\ Senders(m.q) \in EventLists /\ Round(s)
  BY CallFacts DEF RoundOf
<1>2. s.messages_waiting = k.messages_waiting /\ k.messages_waiting[m.q] \in Nat
  BY <1>1, RoundCounts
<1>3. n \in Nat
  BY <1>2 DEF HasItem
<1>4. Recv(s, m) = WakeHighest([s EXCEPT !.messages_waiting[m.q] = n], Senders(m.q))
  BY <1>2 DEF Recv
<1> HIDE DEF n
<1> QED BY <1>1, <1>3, <1>4, WakeServes

LEMMA TrySendEffect ==
  ASSUME TasksInv, NEW c \in Tasks, NEW l \in {"run", "wait"}, At(c, l), NEW s, RoundOf(s, c),
         NEW m \in SendCalls, Of(c, m), m.timeout # 0 => k.sched_lock = 0, TrySend(c, s, m)
  PROVE  CallEffect(c) /\ handles' = handles
<1>1. IInv /\ QueueTypes /\ c \in Threads /\ m.op = "send"
  BY CallFacts DEF TasksInv, Threads
<1>2. HasRoom(s, m) <=> Can(m)
  BY <1>1 DEF RoundOf, Round, SameObjects, HasRoom, Can
<1>3. CASE Can(m)
  <2>1. k' = Send(s, m) /\ Finish(c, FirstWaiting(s, Receivers(m.q)))
    BY <1>2, <1>3 DEF TrySend
  <2>2. Ends(c) /\ handles' = handles
    BY <1>1, <2>1, FinishEnds
  <2>3. Serves(k', c, Other(m))
    BY <1>1, <2>1, SendServes DEF Other
  <2>4. Counts(m)
    BY <1>1, <2>1, SendWakes DEF Counts, RoundOf
  <2>5. Done(c, m)
    BY <1>1, <1>3, <2>2, <2>3, <2>4 DEF Done
  <2> QED BY <2>2, <2>5 DEF CallEffect
<1>4. CASE ~Can(m)
  <2>1. WaitOrFail(c, s, m, Own(m))
    BY <1>1, <1>2, <1>4 DEF TrySend, Own
  <2> QED BY <1>4, <2>1, WaitOrFailEffect
<1> QED BY <1>3, <1>4

LEMMA TryRecvEffect ==
  ASSUME TasksInv, NEW c \in Tasks, NEW l \in {"run", "wait"}, At(c, l), NEW s, RoundOf(s, c),
         NEW m \in RecvTypes, Of(c, m), m.timeout # 0 => k.sched_lock = 0, TryRecv(c, s, m)
  PROVE  CallEffect(c) /\ handles' = handles
<1>1. IInv /\ QueueTypes /\ c \in Threads /\ m.op # "send" /\ Round(s)
  BY CallFacts DEF TasksInv, Threads, RoundOf
<1>2. HasItem(s, m) <=> Can(m)
  BY <1>1 DEF Round, SameObjects, HasItem, Can
<1>3. CASE Can(m)
  <2>1. /\ k' = Recv(s, m)
        /\ \E w : Finish(c, w)
    BY <1>2, <1>3 DEF TryRecv
  <2>2. Ends(c) /\ handles' = handles
    BY <1>1, <2>1, FinishEnds
  <2>3. CASE m.op = "peek"
    <3>1. k' = s
      BY <2>1, <2>3 DEF Recv
    <3>2. NoWake(k', c) /\ k'.messages_waiting = k.messages_waiting
      BY <1>1, <3>1, RoundQuiet DEF Round, SameObjects
    <3>3. GaveUp(c)
      BY <2>2, <2>3, <3>2 DEF GaveUp
    <3> QED BY <2>2, <3>3 DEF CallEffect
  <2>4. CASE m.op # "peek"
    <3>1. HasItem(s, m)
      BY <1>2, <1>3
    <3>2. Serves(k', c, Other(m))
      BY <1>1, <2>1, <2>4, <3>1, RecvServes DEF Other
    <3>3. Counts(m)
      BY <1>1, <2>1, <2>4, <3>1, RecvWakes DEF Counts
    <3>4. Done(c, m)
      BY <1>3, <2>2, <2>4, <3>2, <3>3 DEF Done
    <3> QED BY <2>2, <3>4 DEF CallEffect
  <2> QED BY <2>3, <2>4
<1>4. CASE ~Can(m)
  <2>1. WaitOrFail(c, s, m, Own(m))
    BY <1>1, <1>2, <1>4 DEF TryRecv, Own
  <2> QED BY <1>4, <2>1, WaitOrFailEffect
<1> QED BY <1>3, <1>4

LEMMA CallsEffect ==
  ASSUME TasksInv, NEW c \in Tasks, QueueStep(c)
  PROVE  CallEffect(c) /\ handles' = handles
<1>1. IInv /\ WaitShape /\ LockWaits /\ QueueTypes /\ CallsInv
  BY DEF TasksInv
<1>2. c \in Threads
  BY DEF Threads
<1>3. RoundOf(k, c) /\ RoundOf(Awake(c), c)
  <2>1. Round(k) /\ Round(Awake(c)) /\ Awake(c).wakeup_reason = With(k.wakeup_reason, c, 0)
    BY <1>1, <1>2, KernelRound, AwakeRound
  <2>2. k.wakeup_reason \in [Threads -> 0 .. 2]
    BY <1>1, TypeFacts DEF Kernel
  <2>3. \A u \in Threads \ {c} : Awake(c).wakeup_reason[u] = k.wakeup_reason[u]
    BY <2>1, <2>2 DEF With
  <2> QED BY <2>1, <2>3 DEF RoundOf
<1>4. ASSUME At(c, "run") PROVE call[c] = NoCall
  <2>1. pc[c] = "run"
    BY <1>4 DEF At
  <2> QED BY <1>1, <1>2, <2>1 DEF WaitShape, CallsInv
<1>5. CASE QueueSend(c)
  <2>1. PICK m \in SendCalls : MayWait(m) /\ TrySend(c, k, m)
    BY <1>5 DEF QueueSend
  <2>2. At(c, "run") /\ "send" \in QueueCalls
    BY <1>5 DEF QueueSend, CallingQueue
  <2>3. m.timeout # 0 => k.sched_lock = 0
    BY <2>1 DEF MayWait
  <2>4. Of(c, m)
    BY <1>4, <2>2, CallFacts DEF Of
  <2> QED BY <1>3, <2>1, <2>2, <2>3, <2>4, TrySendEffect
<1>6. CASE QueueRecv(c)
  <2>1. PICK op \in {"recv", "peek"} :
          CallingQueue(c, op) /\ \E m \in RecvCalls(op) : MayWait(m) /\ TryRecv(c, k, m)
    BY <1>6 DEF QueueRecv
  <2>2. PICK m \in RecvCalls(op) : MayWait(m) /\ TryRecv(c, k, m)
    BY <2>1
  <2>3. m \in RecvTypes /\ m.op = op /\ At(c, "run") /\ op \in QueueCalls
    BY <2>1, <2>2 DEF RecvTypes, RecvCalls, CallingQueue
  <2>4. m.timeout # 0 => k.sched_lock = 0
    BY <2>2 DEF MayWait
  <2>5. Of(c, m)
    BY <1>4, <2>3 DEF Of
  <2> QED BY <1>3, <2>2, <2>3, <2>4, <2>5, TryRecvEffect
<1>7. CASE QueueTimeout(c)
  <2>1. k.wakeup_reason[c] = 2 /\ k' = Awake(c) /\ Finish(c, NoTask)
    BY <1>7 DEF QueueTimeout
  <2>2. Ends(c) /\ handles' = handles
    BY <1>1, <1>2, <2>1, FinishEnds
  <2>3. NoWake(k', c) /\ k'.messages_waiting = k.messages_waiting
    BY <1>3, <2>1, RoundQuiet DEF RoundOf, Round, SameObjects
  <2>4. GaveUp(c)
    BY <2>1, <2>2, <2>3 DEF GaveUp
  <2> QED BY <2>2, <2>4 DEF CallEffect
<1>8. CASE QueueRetry(c)
  <2> DEFINE m == call[c]
             s == Awake(c)
  <2>1. /\ At(c, "wait") /\ pc[c] = "wait" /\ k.current = c
        /\ IF m.op = "send" THEN TrySend(c, s, m) ELSE TryRecv(c, s, m)
    BY <1>8 DEF QueueRetry, At
  <2>2. ret[c] = "wait" /\ m # NoCall /\ m \in CallTypes
    BY <1>1, <1>2, <2>1 DEF WaitShape, CallsInv, QueueTypes
  <2>3. m \in SendCalls \cup RecvTypes
    BY <2>2 DEF CallTypes, RecvTypes
  <2>4. k.sched_lock = 0
    <3>1. k.sched_lock \in Nat
      BY <1>1, TypeFacts
    <3> QED BY <1>1, <2>1, <2>2, <3>1 DEF LockWaits
  <2>5. Of(c, m)
    BY <2>3 DEF Of
  <2> HIDE DEF m, s
  <2>6. RoundOf(s, c)
    BY <1>3 DEF s
  <2>7. CASE m.op = "send"
    <3>1. m \in SendCalls /\ TrySend(c, s, m)
      BY <2>1, <2>3, <2>7, CallFacts
    <3> QED BY <2>1, <2>4, <2>5, <2>6, <3>1, TrySendEffect
  <2>8. CASE m.op # "send"
    <3>1. m \in RecvTypes /\ TryRecv(c, s, m)
      BY <2>1, <2>3, <2>8, CallFacts
    <3> QED BY <2>1, <2>4, <2>5, <2>6, <3>1, TryRecvEffect
  <2> QED BY <2>7, <2>8
<1>9. CASE QueueWoken(c)
  BY <1>9 DEF QueueWoken, CallEffect
<1> QED BY <1>5, <1>6, <1>7, <1>8, <1>9 DEF QueueStep

LEMMA FromIsrWaits ==
  ASSUME NEW s \in Kernel, NEW w
  PROVE  SameWaits(s, FromIsr(s, w)) /\ FromIsr(s, w).priority = s.priority
<1>1. CASE FromIsr(s, w) = s
  BY <1>1 DEF SameWaits, SameEvents
<1>2. CASE FromIsr(s, w) = SchedCheck(s)
  BY <1>2 DEF SchedCheck, SameWaits, SameEvents, Delayed, Kernel
<1>3. CASE FromIsr(s, w) = RequestSwitch(SchedCheck(s))
  BY <1>3 DEF RequestSwitch, SchedCheck, SameWaits, SameEvents, Delayed, Kernel
<1> QED BY <1>1, <1>2, <1>3 DEF FromIsr, Sched

LEMMA IsrEffect ==
  ASSUME TasksInv, IsrSend \/ IsrRecv
  PROVE  (\E m : DoneFromIsr(m)) /\ handles' = handles
<1>1. IInv /\ UNCHANGED <<call, ret, handles>> /\ isr = "none"
  BY DEF TasksInv, IsrSend, IsrRecv, threadVars
<1>2. RoundOf(k, NoTask) /\ Round(k)
  BY <1>1, KernelRound DEF RoundOf
<1>3. ASSUME NEW m \in SendCalls \cup RecvTypes, m.op # "peek", Can(m), NEW r, NEW w,
             Wakes(r, w), Serves(r, NoTask, Other(m)), k' = FromIsr(r, w),
             r.messages_waiting = With(k.messages_waiting, m.q,
               IF m.op = "send" THEN OneMore(m) ELSE k.messages_waiting[m.q] - 1)
      PROVE  DoneFromIsr(m)
  <2>1. r \in Kernel
    BY <1>3, CoreFacts DEF Wakes, KernelInv
  <2>2. SameWaits(r, k') /\ k'.priority = r.priority
    BY <1>3, <2>1, FromIsrWaits
  <2>3. Serves(k', NoTask, Other(m))
    BY <1>3, <2>2, ServesThen
  <2>4. k'.messages_waiting = r.messages_waiting
    BY <1>3, <2>1 DEF FromIsr, Sched, SchedCheck, RequestSwitch, Kernel
  <2> QED BY <1>1, <1>3, <2>3, <2>4 DEF DoneFromIsr, Counts
<1>4. CASE IsrSend
  <2>1. PICK m \in SendCalls :
          HasRoom(k, m) /\ k' = FromIsr(Send(k, m), FirstWaiting(k, Receivers(m.q)))
    BY <1>4 DEF IsrSend
  <2>2. m.op = "send"
    BY CallFacts
  <2>3. /\ Wakes(Send(k, m), FirstWaiting(k, Receivers(m.q)))
        /\ Send(k, m).messages_waiting = With(k.messages_waiting, m.q, OneMore(m))
    BY <1>1, <1>2, SendWakes
  <2>4. Serves(Send(k, m), NoTask, Other(m))
    BY <1>1, <1>2, <2>2, SendServes DEF Other
  <2>5. Can(m)
    BY <2>1, <2>2 DEF Can
  <2>6. DoneFromIsr(m)
    BY <1>3, <2>1, <2>2, <2>3, <2>4, <2>5
  <2> QED BY <1>1, <2>6
<1>5. CASE IsrRecv
  <2>1. PICK m \in RecvCalls("recv") :
          HasItem(k, m) /\ k' = FromIsr(Recv(k, m), FirstWaiting(k, Senders(m.q)))
    BY <1>5 DEF IsrRecv
  <2>2. m.op = "recv" /\ m \in RecvTypes
    BY DEF RecvCalls, RecvTypes
  <2>3. /\ Wakes(Recv(k, m), FirstWaiting(k, Senders(m.q)))
        /\ Recv(k, m).messages_waiting
             = With(k.messages_waiting, m.q, k.messages_waiting[m.q] - 1)
    BY <1>1, <1>2, <2>1, <2>2, RecvWakes
  <2>4. Serves(Recv(k, m), NoTask, Other(m))
    BY <1>1, <1>2, <2>1, <2>2, RecvServes DEF Other
  <2>5. Can(m)
    BY <2>1, <2>2 DEF Can
  <2>6. DoneFromIsr(m)
    BY <1>3, <2>1, <2>2, <2>3, <2>4, <2>5
  <2> QED BY <1>1, <2>6
<1> QED BY <1>4, <1>5

-----------------------------------------------------------------------------
\* The tasks that wait

\* Who is on an event list is blocked in a call that waits there, with its time
\* running unless it waits for ever; who was woken is on no list.
WaitInv ==
  \A t \in Threads :
    /\ k.event_list[t] # NoList =>
         /\ ret[t] = "wait" /\ Own(call[t]) = k.event_list[t]
         /\ call[t].timeout # Forever => t \in Delayed(k)
    /\ ret[t] = "wait" /\ k.event_list[t] = NoList => t \notin Delayed(k)
    /\ call[t] # NoCall => call[t].op \in QueueCalls

LEMMA EventTypes ==
  ASSUME IInv
  PROVE  /\ k.event_list \in [Threads -> EventLists \cup {NoList}] /\ EventsOK(k)
         /\ k.waiting \in [EventLists -> Seq(Threads)] /\ k.priority \in [Threads -> Prio]
         /\ k.messages_waiting \in [Queues -> Nat] /\ k.wakeup_reason \in [Threads -> 0 .. 2]
BY TypeFacts DEF ListsOK, Kernel

\* A task that calls does not wait.
LEMMA CallerFree ==
  ASSUME TasksInv, WaitInv, NEW c \in Tasks, QueueStep(c)
  PROVE  k.event_list[c] = NoList
<1>1. IInv /\ SwitchInv /\ WaitShape /\ LockWaits
  BY DEF TasksInv
<1>2. c \in Threads
  BY DEF Threads
<1>3. CASE At(c, "run") \/ At(c, "woken")
  <2>1. pc[c] \in {"run", "woken"}
    BY <1>3 DEF At
  <2> QED BY <1>1, <1>2, <2>1 DEF WaitShape, WaitInv
<1>4. CASE At(c, "wait")
  <2>1. pc[c] = "wait" /\ k.current = c
    BY <1>4 DEF At
  <2>2. ret[c] = "wait"
    BY <1>1, <1>2, <2>1 DEF WaitShape
  <2>3. k.sched_lock = 0
    <3>1. k.sched_lock \in Nat
      BY <1>1, TypeFacts
    <3> QED BY <1>1, <2>1, <2>2, <3>1 DEF LockWaits
  <2>4. k.state[c] # "BLOCKED"
    BY <1>1, <1>4, <2>3, CallerReady
  <2>5. KernelCore(k, handles)
    BY <1>1, TypeFacts
  <2> QED BY <1>2, <2>4, <2>5 DEF KernelCore, Waiting
<1> QED BY <1>3, <1>4 DEF QueueStep, QueueSend, QueueRecv, QueueTimeout, QueueRetry, QueueWoken,
                          CallingQueue

\* A critical section that succeeds ends the wait of one task at most.
LEMMA ServesFacts ==
  ASSUME IInv, NEW c, NEW e \in EventLists, Serves(k', c, e)
  PROVE  \A t \in Threads :
           \/ k'.event_list[t] = k.event_list[t] /\ (t \in Delayed(k') <=> t \in Delayed(k))
           \/ k'.event_list[t] = NoList /\ t \notin Delayed(k')
<1>1. CASE NoWake(k', c)
  BY <1>1 DEF NoWake, SameEvents
<1>2. CASE Picks(k', c, e)
  <2>1. PICK t \in Threads : /\ k'.event_list = With(k.event_list, t, NoList)
                             /\ Delayed(k') = Delayed(k) \ {t}
    BY <1>2 DEF Picks
  <2>2. k.event_list \in [Threads -> EventLists \cup {NoList}]
    BY EventTypes
  <2>3. k'.event_list[t] = NoList /\ \A u \in Threads \ {t} : k'.event_list[u] = k.event_list[u]
    BY <2>1, <2>2 DEF With
  <2> QED BY <2>1, <2>3
<1> QED BY <1>1, <1>2 DEF Serves

LEMMA CallWaitInv ==
  ASSUME TasksInv, WaitInv, NEW c \in Tasks, k.event_list[c] = NoList, CallEffect(c)
  PROVE  WaitInv'
<1>1. IInv /\ c \in Threads
  BY DEF TasksInv, Threads
<1>2. ASSUME Ends(c),
             \A t \in Threads :
               \/ k'.event_list[t] = k.event_list[t] /\ (t \in Delayed(k') <=> t \in Delayed(k))
               \/ k'.event_list[t] = NoList /\ t \notin Delayed(k')
      PROVE  WaitInv'
  <2>1. ASSUME NEW t \in Threads
        PROVE  /\ k'.event_list[t] # NoList =>
                    /\ ret'[t] = "wait" /\ Own(call'[t]) = k'.event_list[t]
                    /\ call'[t].timeout # Forever => t \in Delayed(k')
               /\ ret'[t] = "wait" /\ k'.event_list[t] = NoList => t \notin Delayed(k')
               /\ call'[t] # NoCall => call'[t].op \in QueueCalls
    <3>1. CASE t = c
      BY <1>2, <3>1 DEF Ends
    <3>2. CASE t # c
      <4>1. call'[t] = call[t] /\ ret'[t] = ret[t]
        BY <1>2, <3>2 DEF Ends, Others
      <4> QED BY <1>2, <4>1 DEF WaitInv
    <3> QED BY <3>1, <3>2
  <2> QED BY <2>1 DEF WaitInv, Own
<1>3. CASE GaveUp(c)
  BY <1>2, <1>3 DEF GaveUp, NoWake, SameEvents
<1>4. ASSUME NEW m, Done(c, m) PROVE WaitInv'
  <2>1. Other(m) \in EventLists /\ Serves(k', c, Other(m)) /\ Ends(c)
    BY <1>4, CallFacts DEF Done, Of, Other
  <2> QED BY <1>1, <1>2, <2>1, ServesFacts
<1>5. ASSUME NEW m, Waits(c, m) PROVE WaitInv'
  <2>1. /\ m \in SendCalls \cup RecvTypes /\ Joins(k', c, Own(m), m.timeout)
        /\ call'[c] = m /\ ret'[c] = "wait" /\ Others(c)
    BY <1>5 DEF Waits, Of
  <2>2. Own(m) \in EventLists /\ m # NoCall
    BY <2>1, CallFacts DEF Own
  <2>3. Own(m) # NoList
    BY <2>2, NoListIsNone
  <2>4. k.event_list \in [Threads -> EventLists \cup {NoList}]
    BY <1>1, EventTypes
  <2>5. k'.event_list[c] = Own(m) /\ \A t \in Threads \ {c} : k'.event_list[t] = k.event_list[t]
    BY <1>1, <2>1, <2>4 DEF Joins, With
  <2>6. /\ m.timeout # Forever => c \in Delayed(k')
        /\ \A t \in Threads \ {c} : t \in Delayed(k') <=> t \in Delayed(k)
    BY <2>1 DEF Joins
  <2>7. m.op \in QueueCalls
    BY <1>1, <1>5, <2>2 DEF Waits, Of, WaitInv
  <2>8. ASSUME NEW t \in Threads
        PROVE  /\ k'.event_list[t] # NoList =>
                    /\ ret'[t] = "wait" /\ Own(call'[t]) = k'.event_list[t]
                    /\ call'[t].timeout # Forever => t \in Delayed(k')
               /\ ret'[t] = "wait" /\ k'.event_list[t] = NoList => t \notin Delayed(k')
               /\ call'[t] # NoCall => call'[t].op \in QueueCalls
    <3>1. CASE t = c
      BY <2>1, <2>3, <2>5, <2>6, <2>7, <3>1
    <3>2. CASE t # c
      <4>1. /\ call'[t] = call[t] /\ ret'[t] = ret[t] /\ k'.event_list[t] = k.event_list[t]
            /\ t \in Delayed(k') <=> t \in Delayed(k)
        BY <2>1, <2>5, <2>6, <3>2 DEF Others
      <4> QED BY <4>1 DEF WaitInv
    <3> QED BY <3>1, <3>2
  <2> QED BY <2>8 DEF WaitInv, Own
<1>6. CASE UNCHANGED <<k, call, ret>>
  BY <1>6 DEF WaitInv, Own
<1> QED BY <1>3, <1>4, <1>5, <1>6 DEF CallEffect

LEMMA IsrWaitInv ==
  ASSUME TasksInv, WaitInv, NEW m, DoneFromIsr(m)
  PROVE  WaitInv'
<1>1. IInv
  BY DEF TasksInv
<1>2. /\ Other(m) \in EventLists /\ Serves(k', NoTask, Other(m)) /\ call' = call /\ ret' = ret
  BY CallFacts DEF DoneFromIsr, Other
<1>3. \A t \in Threads :
        \/ k'.event_list[t] = k.event_list[t] /\ (t \in Delayed(k') <=> t \in Delayed(k))
        \/ k'.event_list[t] = NoList /\ t \notin Delayed(k')
  BY <1>1, <1>2, ServesFacts
<1> QED BY <1>2, <1>3 DEF WaitInv, Own

\* A step of task.h ends waits, and starts none.
LEMMA TaskWaitInv ==
  ASSUME TasksInv, WaitInv, YieldsReady, [Next]_vars,
         call' = [t \in Threads |-> IF pc'[t] = "dead" THEN NoCall ELSE call[t]]
  PROVE  WaitInv'
<1>1. /\ IInv /\ NoneHeld(k) /\ WaitShape /\ CallsInv
  BY DEF TasksInv
<1>2. TasksInv' /\ StillWaits
  BY <1>1, TaskStepInv, WaitsStep
<1>3. KernelCore(k', handles')
  <2>1. IInv'
    BY <1>2 DEF TasksInv
  <2> QED BY <2>1 DEF IInv, KernelInv
<1>4. PICK X : /\ Eases(k, k', X)
               /\ \A t \in Threads : ret[t] = "wait" => t \notin X
  <2>1. CASE Eases(k, k', {})
    BY <2>1
  <2>2. ASSUME NEW c \in handles, pc[c] \in {"run", "until"}, Eases(k, k', {c})
        PROVE  \E X : Eases(k, k', X) /\ \A t \in Threads : ret[t] = "wait" => t \notin X
    <3>1. \A t \in Threads : ret[t] = "wait" => t # c
      BY <1>1, <2>2 DEF WaitShape
    <3> QED BY <2>2, <3>1
  <2> QED BY <1>1, <2>1, <2>2, EaseStep
<1>5. ASSUME NEW t \in Threads
      PROVE  /\ k'.event_list[t] # NoList =>
                  /\ ret'[t] = "wait" /\ Own(call'[t]) = k'.event_list[t]
                  /\ call'[t].timeout # Forever => t \in Delayed(k')
             /\ ret'[t] = "wait" /\ k'.event_list[t] = NoList => t \notin Delayed(k')
             /\ call'[t] # NoCall => call'[t].op \in QueueCalls
  <2>1. call'[t] = IF pc'[t] = "dead" THEN NoCall ELSE call[t]
    OBVIOUS
  <2>2. ASSUME k'.event_list[t] # NoList
        PROVE  /\ ret'[t] = "wait" /\ Own(call'[t]) = k'.event_list[t]
               /\ call'[t].timeout # Forever => t \in Delayed(k')
    <3>1. k'.event_list[t] = k.event_list[t] /\ (t \in Delayed(k) => t \in Delayed(k'))
      BY <1>4, <2>2 DEF Eases
    <3>2. t \in handles'
      BY <1>3, <2>2 DEF KernelCore, Waiting
    <3>3. ret[t] = "wait"
      BY <2>2, <3>1 DEF WaitInv
    <3>4. pc'[t] # "dead" /\ ret'[t] = "wait"
      BY <1>2, <3>2, <3>3 DEF StillWaits
    <3> QED BY <2>1, <2>2, <3>1, <3>4 DEF WaitInv
  <2>3. ASSUME ret'[t] = "wait", k'.event_list[t] = NoList
        PROVE  t \notin Delayed(k')
    <3>1. ret[t] = "wait"
      BY <1>2, <2>3 DEF StillWaits
    <3>2. t \notin X
      BY <1>4, <3>1
    <3>3. t \in Delayed(k') => t \in Delayed(k) /\ k.event_list[t] = NoList
      BY <1>4, <2>3, <3>2 DEF Eases
    <3> QED BY <3>1, <3>3 DEF WaitInv
  <2>4. call'[t] # NoCall => call'[t].op \in QueueCalls
    BY <2>1 DEF WaitInv
  <2> QED BY <2>2, <2>3, <2>4
<1> QED BY <1>5 DEF WaitInv, Own

\* What every step does to the calls and to the waiting tasks.
LEMMA StepCases ==
  ASSUME QInv, YieldsReady, [QueueNext]_allVars
  PROVE  \/ /\ [Next]_vars /\ k'.messages_waiting = k.messages_waiting
            /\ call' = [t \in Threads |-> IF pc'[t] = "dead" THEN NoCall ELSE call[t]]
         \/ \E c \in Tasks : QueueStep(c) /\ CallEffect(c) /\ handles' = handles
         \/ (\E m : DoneFromIsr(m)) /\ handles' = handles
<1>1. TasksInv
  BY DEF QInv
<1>2. CASE TaskStep
  <2>1. [Next]_vars /\ call' = [t \in Threads |-> IF pc'[t] = "dead" THEN NoCall ELSE call[t]]
    BY <1>2 DEF TaskStep
  <2>2. k'.messages_waiting = k.messages_waiting
    BY <1>1, <2>1, NoneHeldStep DEF TasksInv
  <2> QED BY <2>1, <2>2
<1>3. ASSUME NEW c \in Tasks, QueueStep(c)
      PROVE  \E c2 \in Tasks : QueueStep(c2) /\ CallEffect(c2) /\ handles' = handles
  BY <1>1, <1>3, CallsEffect
<1>4. CASE IsrSend \/ IsrRecv
  BY <1>1, <1>4, IsrEffect
<1>5. CASE UNCHANGED allVars
  <2>1. UNCHANGED vars /\ UNCHANGED <<k, call, pc>>
    BY <1>5 DEF allVars, vars, queueVars
  <2>2. call' = [t \in Threads |-> IF pc'[t] = "dead" THEN NoCall ELSE call[t]]
    <3>1. call = [t \in Threads |-> call[t]]
      BY <1>1 DEF TasksInv, QueueTypes
    <3>2. \A t \in Threads : pc[t] = "dead" => call[t] = NoCall
      <4>1. \A t \in Threads : pc[t] = "dead" => ret[t] # "wait"
        BY <1>1 DEF TasksInv, WaitShape
      <4> QED BY <1>1, <4>1 DEF TasksInv, CallsInv
    <3>3. \A t \in Threads : call[t] = IF pc'[t] = "dead" THEN NoCall ELSE call[t]
      BY <2>1, <3>2
    <3> QED BY <2>1, <3>1, <3>3
  <2> QED BY <2>1, <2>2
<1> QED BY <1>2, <1>3, <1>4, <1>5 DEF QueueNext

LEMMA WaitInvStep ==
  ASSUME QInv, WaitInv, YieldsReady, [QueueNext]_allVars
  PROVE  WaitInv'
<1>1. TasksInv
  BY DEF QInv
<1>2. CASE /\ [Next]_vars
           /\ call' = [t \in Threads |-> IF pc'[t] = "dead" THEN NoCall ELSE call[t]]
  BY <1>1, <1>2, TaskWaitInv
<1>3. ASSUME NEW c \in Tasks, QueueStep(c), CallEffect(c) PROVE WaitInv'
  BY <1>1, <1>3, CallerFree, CallWaitInv
<1>4. ASSUME NEW m, DoneFromIsr(m) PROVE WaitInv'
  BY <1>1, <1>4, IsrWaitInv
<1> QED BY <1>2, <1>3, <1>4, StepCases

LEMMA WaitInvInit ==
  ASSUME QueueInit
  PROVE  WaitInv
<1>1. /\ k = [InitKernel EXCEPT !.messages_waiting = Available] /\ InitThreads
      /\ call = [t \in Threads |-> NoCall]
  BY DEF QueueInit
<1>2. k.event_list = [t \in Threads |-> NoList]
  BY <1>1 DEF InitKernel
<1>3. ret = [t \in Threads |-> "run"]
  BY <1>1 DEF InitThreads
<1>4. ASSUME NEW t \in Threads
      PROVE  k.event_list[t] = NoList /\ ret[t] # "wait" /\ call[t] = NoCall
  BY <1>1, <1>2, <1>3
<1> QED BY <1>4 DEF WaitInv

LEMMA WaitersAreConsistent ==
  ASSUME QInv, WaitInv
  PROVE  WaitersConsistent
<1>1. IInv /\ CallsInv /\ KernelCore(k, handles)
  BY TypeFacts DEF QInv, TasksInv
<1>2. EventsOK(k)
  BY <1>1, EventTypes
<1>3. ASSUME NEW t \in Threads, k.event_list[t] # NoList
      PROVE  /\ t \in handles /\ k.state[t] = "BLOCKED"
             /\ call[t] # NoCall /\ WaitsIn(t) = k.event_list[t]
             /\ call[t].timeout # Forever => OnDelayList(k, t)
  <2>1. t \in handles /\ k.state[t] = "BLOCKED"
    BY <1>1, <1>3 DEF KernelCore, Waiting
  <2>2. /\ ret[t] = "wait" /\ Own(call[t]) = k.event_list[t]
        /\ call[t].timeout # Forever => t \in Delayed(k)
    BY <1>3 DEF WaitInv
  <2>3. call[t] # NoCall
    BY <1>1, <2>2 DEF CallsInv
  <2> QED BY <2>1, <2>2, <2>3 DEF Own, WaitsIn, OnDelayList, Delayed
<1>4. ASSUME NEW t \in handles, k.state[t] = "BLOCKED"
      PROVE  OnDelayList(k, t) \/ k.event_list[t] # NoList
  <2>1. t \in Delayed(k) \cup Waiting(k)
    BY <1>1, <1>4 DEF KernelCore
  <2> QED BY <2>1 DEF Waiting, Delayed, OnDelayList
<1> QED BY <1>2, <1>3, <1>4 DEF WaitersConsistent, EventsOK

\* A task is on an event list exactly while it is blocked in a call that waits there,
\* once, and unless it waits for ever its time runs: whatever sends, receives, time-outs,
\* aborts, suspensions and deletions do to it, no wait is half ended.
THEOREM WaitersCorrect == YieldsReady /\ QueueSpec => []WaitersConsistent
<1> SUFFICES ASSUME YieldsReady PROVE QueueSpec => []WaitersConsistent
  OBVIOUS
<1>1. QueueInit => QInv /\ WaitInv
  BY QueueInitInv, WaitInvInit
<1>2. QInv /\ WaitInv /\ [QueueNext]_allVars => QInv' /\ WaitInv'
  BY QueueStepInv, WaitInvStep
<1>3. QInv /\ WaitInv => WaitersConsistent
  BY WaitersAreConsistent
<1> QED BY <1>1, <1>2, <1>3, PTL DEF QueueSpec

-----------------------------------------------------------------------------
\* The order of the event lists

LEMMA SortedIffOrdered ==
  ASSUME IInv
  PROVE  EventListsSorted <=> SortedLists(k)
<1>1. ASSUME NEW e \in EventLists
      PROVE  Ordered(k.waiting[e], Ranks(k)) <=>
               \A i, j \in DOMAIN k.waiting[e] :
                 i < j => k.priority[k.waiting[e][i]] >= k.priority[k.waiting[e][j]]
  <2> DEFINE l == k.waiting[e]
  <2>1. l \in Seq(Threads)
    BY EventTypes
  <2> HIDE DEF l
  <2>2. \A i \in DOMAIN l : l[i] \in Threads
    BY <2>1
  <2>3. \A i, j \in DOMAIN l :
          <<l[i], l[j]>> \in Ranks(k) <=> k.priority[l[i]] >= k.priority[l[j]]
    BY <2>2 DEF Ranks
  <2> QED BY <2>3 DEF Ordered, l
<1> QED BY <1>1 DEF EventListsSorted, SortedLists

LEMMA ServesSorted ==
  ASSUME IInv, SortedLists(k), NEW c, NEW e \in EventLists, Serves(k', c, e)
  PROVE  SortedLists(k')
<1>1. CASE NoWake(k', c)
  BY <1>1 DEF NoWake, SameEvents, SortedLists, Ranks
<1>2. CASE Picks(k', c, e)
  <2>1. /\ k.waiting[e] # <<>> /\ k'.priority = k.priority
        /\ k'.waiting = With(k.waiting, e, Tail(k.waiting[e]))
    BY <1>2 DEF Picks
  <2>2. k.waiting \in [EventLists -> Seq(Threads)] /\ Ranks(k') = Ranks(k)
    BY <2>1, EventTypes DEF Ranks
  <2>3. k'.waiting[e] = Tail(k.waiting[e])
        /\ \A f \in EventLists \ {e} : k'.waiting[f] = k.waiting[f]
    BY <2>1, <2>2 DEF With
  <2>4. k.waiting[e] \in Seq(Threads) /\ Ordered(k.waiting[e], Ranks(k))
    BY <2>2 DEF SortedLists
  <2>5. Ordered(Tail(k.waiting[e]), Ranks(k))
    BY <2>1, <2>4, TailOrdered
  <2>6. ASSUME NEW f \in EventLists PROVE Ordered(k'.waiting[f], Ranks(k'))
    <3>1. CASE f = e
      BY <2>2, <2>3, <2>5, <3>1
    <3>2. CASE f # e
      BY <2>2, <2>3, <3>2 DEF SortedLists
    <3> QED BY <3>1, <3>2
  <2> QED BY <2>6 DEF SortedLists
<1> QED BY <1>1, <1>2 DEF Serves

LEMMA CallSorted ==
  ASSUME TasksInv, SortedLists(k), NEW c \in Tasks, CallEffect(c)
  PROVE  SortedLists(k')
<1>1. IInv /\ c \in Threads
  BY DEF TasksInv, Threads
<1>2. CASE GaveUp(c) \/ UNCHANGED <<k, call, ret>>
  BY <1>2 DEF GaveUp, NoWake, SameEvents, SortedLists, Ranks
<1>3. ASSUME NEW m, Done(c, m) PROVE SortedLists(k')
  <2>1. Other(m) \in EventLists /\ Serves(k', c, Other(m))
    BY <1>3, CallFacts DEF Done, Of, Other
  <2> QED BY <1>1, <2>1, ServesSorted
<1>4. ASSUME NEW m, Waits(c, m) PROVE SortedLists(k')
  <2> DEFINE e == Own(m)
  <2>1. e \in EventLists /\ Joins(k', c, e, m.timeout)
    BY <1>4, CallFacts DEF Waits, Of, Own
  <2> HIDE DEF e
  <2>2. /\ k'.waiting = With(k.waiting, e, InsertBefore(k.waiting[e], c, EventPlace(k, e, c)))
        /\ Ranks(k') = Ranks(k)
    BY <2>1 DEF Joins, Ranks
  <2>3. k.waiting \in [EventLists -> Seq(Threads)]
    BY <1>1, EventTypes
  <2>4. /\ k'.waiting[e] = InsertBefore(k.waiting[e], c, EventPlace(k, e, c))
        /\ \A f \in EventLists \ {e} : k'.waiting[f] = k.waiting[f]
    BY <2>1, <2>2, <2>3 DEF With
  <2>5. Ordered(k'.waiting[e], Ranks(k))
    <3>1. k \in Kernel
      BY <1>1, TypeFacts
    <3>2. Ordered(k.waiting[e], Ranks(k))
      BY <2>1 DEF SortedLists
    <3> QED BY <1>1, <2>1, <2>4, <3>1, <3>2, PlaceOrdered
  <2>6. ASSUME NEW f \in EventLists PROVE Ordered(k'.waiting[f], Ranks(k'))
    <3>1. CASE f = e
      BY <2>2, <2>5, <3>1
    <3>2. CASE f # e
      BY <2>2, <2>4, <3>2 DEF SortedLists
    <3> QED BY <3>1, <3>2
  <2> QED BY <2>6 DEF SortedLists
<1> QED BY <1>2, <1>3, <1>4 DEF CallEffect

LEMMA TaskSorted ==
  ASSUME TasksInv, TasksInv', SortedLists(k), YieldsReady, [Next]_vars, "set_priority" \notin Calls
  PROVE  SortedLists(k')
<1>1. /\ IInv /\ NoneHeld(k) /\ IInv'
  BY DEF TasksInv
<1>2. PICK X : Eases(k, k', X)
  BY <1>1, EaseStep
<1>3. \A u \in k.used : k'.priority[u] = k.priority[u]
  BY <1>1, EaseStep DEF SameRanks
<1>4. /\ k'.waiting \in [EventLists -> Seq(Threads)] /\ EventsOK(k')
  <2>1. KernelCore(k', handles')
    BY <1>1 DEF IInv, KernelInv
  <2> QED BY <2>1 DEF KernelCore, ListsOK, Kernel
<1>5. KernelCore(k, handles) /\ k.used \subseteq Tasks
  BY <1>1, TypeFacts
<1>6. ASSUME NEW e \in EventLists PROVE Ordered(k'.waiting[e], Ranks(k'))
  <2> DEFINE l == k'.waiting[e]
  <2>1. Ordered(l, Ranks(k))
    BY <1>2 DEF Eases, SortedLists
  <2>2. l \in Seq(Threads) /\ \A i \in DOMAIN l : l[i] \in Threads /\ l[i] \in ToSet(l)
    BY <1>4 DEF ToSet
  <2>3. ASSUME NEW i \in DOMAIN l PROVE k'.priority[l[i]] = k.priority[l[i]] /\ l[i] \in Threads
    <3> DEFINE u == l[i]
    <3>1. u \in Threads /\ u \in ToSet(l)
      BY <2>2, <2>3
    <3> HIDE DEF u
    <3>2. k'.event_list[u] = e
      BY <1>4, <3>1 DEF EventsOK
    <3>3. k'.event_list[u] # NoList
      BY <3>2, NoListIsNone
    <3>4. k.event_list[u] # NoList
      BY <1>2, <3>1, <3>3 DEF Eases
    <3>5. u \in k.used
      BY <1>5, <3>1, <3>4 DEF KernelCore, Waiting
    <3> QED BY <1>3, <3>1, <3>5 DEF u
  <2> HIDE DEF l
  <2>4. ASSUME NEW i \in DOMAIN l, NEW j \in DOMAIN l, i < j PROVE <<l[i], l[j]>> \in Ranks(k')
    <3>1. <<l[i], l[j]>> \in Ranks(k)
      BY <2>1, <2>4 DEF Ordered
    <3>2. k.priority[l[i]] >= k.priority[l[j]]
      BY <3>1 DEF Ranks
    <3> QED BY <2>3, <3>2 DEF Ranks
  <2>5. Ordered(l, Ranks(k'))
    BY <2>4 DEF Ordered
  <2> QED BY <2>5 DEF l
<1> QED BY <1>6 DEF SortedLists

LEMMA SortedStep ==
  ASSUME QInv, SortedLists(k), YieldsReady, "set_priority" \notin Calls, [QueueNext]_allVars
  PROVE  SortedLists(k')
<1>1. TasksInv /\ TasksInv'
  BY QueueStepInv DEF QInv
<1>2. IInv
  BY <1>1 DEF TasksInv
<1>3. CASE [Next]_vars
  BY <1>1, <1>3, TaskSorted
<1>4. ASSUME NEW c \in Tasks, CallEffect(c) PROVE SortedLists(k')
  BY <1>1, <1>4, CallSorted
<1>5. ASSUME NEW m, DoneFromIsr(m) PROVE SortedLists(k')
  <2>1. Other(m) \in EventLists /\ Serves(k', NoTask, Other(m))
    BY <1>5, CallFacts DEF DoneFromIsr, Other
  <2> QED BY <1>2, <2>1, ServesSorted
<1> QED BY <1>3, <1>4, <1>5, StepCases

LEMMA SortedInit ==
  ASSUME QueueInit
  PROVE  SortedLists(k)
<1>1. k = [InitKernel EXCEPT !.messages_waiting = Available]
  BY DEF QueueInit
<1>2. k.waiting = [e \in EventLists |-> <<>>]
  BY <1>1 DEF InitKernel
<1>3. ASSUME NEW e \in EventLists PROVE Ordered(k.waiting[e], Ranks(k))
  <2>1. k.waiting[e] = <<>>
    BY <1>2
  <2> QED BY <2>1 DEF Ordered
<1> QED BY <1>3 DEF SortedLists

\* Both event lists of every queue are sorted by priority, as rtos_queue.h says of them,
\* in a system whose application does not call rtos_task_set_priority, which does not
\* re-sort the list that the task waits in.
THEOREM EventListsStaySorted ==
  YieldsReady /\ "set_priority" \notin Calls /\ QueueSpec => []EventListsSorted
<1> SUFFICES ASSUME YieldsReady, "set_priority" \notin Calls PROVE QueueSpec => []EventListsSorted
  OBVIOUS
<1>1. QueueInit => QInv /\ SortedLists(k)
  BY QueueInitInv, SortedInit
<1>2. QInv /\ SortedLists(k) /\ [QueueNext]_allVars => QInv' /\ SortedLists(k)'
  <2> SUFFICES ASSUME QInv, SortedLists(k), [QueueNext]_allVars PROVE QInv' /\ SortedLists(k)'
    OBVIOUS
  <2>1. SortedLists(k')
    BY SortedStep
  <2> QED BY <2>1, QueueStepInv DEF SortedLists, Ranks
<1>3. QInv /\ SortedLists(k) => EventListsSorted
  BY SortedIffOrdered DEF QInv, TasksInv
<1> QED BY <1>1, <1>2, <1>3, PTL DEF QueueSpec

-----------------------------------------------------------------------------
\* No lost wake-up

\* The items that a receiver can have, the places that a sender can have.
Spare(s, e) ==
  IF e[2] = "receive" THEN s.messages_waiting[e[1]]
  ELSE Length[e[1]] - s.messages_waiting[e[1]]

Enough(e) == k.waiting[e] # <<>> => Spare(k, e) <= Cardinality(Retrying(e))

NoneLost == \A e \in EventLists : Enough(e)

LEMMA ListFacts ==
  ASSUME NEW e \in EventLists
  PROVE  /\ e[1] \in Queues /\ e[2] \in {"send", "receive"}
         /\ e = IF e[2] = "receive" THEN Receivers(e[1]) ELSE Senders(e[1])
BY DEF EventLists, Receivers, Senders

LEMMA LostIffEnough == NoLostWakeup <=> NoneLost
<1>1. ASSUME NEW q \in Queues
      PROVE  /\ Receivers(q) \in EventLists /\ Senders(q) \in EventLists
             /\ Spare(k, Receivers(q)) = k.messages_waiting[q]
             /\ Spare(k, Senders(q)) = Length[q] - k.messages_waiting[q]
  BY DEF EventLists, Receivers, Senders, Spare
<1>2. ASSUME NoLostWakeup, NEW e \in EventLists PROVE Enough(e)
  BY <1>1, <1>2, ListFacts DEF NoLostWakeup, Enough
<1>3. ASSUME NoneLost, NEW q \in Queues
      PROVE  /\ k.waiting[Receivers(q)] # <<>> =>
                  k.messages_waiting[q] <= Cardinality(Retrying(Receivers(q)))
             /\ k.waiting[Senders(q)] # <<>> =>
                  Length[q] - k.messages_waiting[q] <= Cardinality(Retrying(Senders(q)))
  <2>1. Enough(Receivers(q)) /\ Enough(Senders(q))
    BY <1>1, <1>3 DEF NoneLost
  <2> QED BY <1>1, <2>1 DEF Enough
<1> QED BY <1>2, <1>3 DEF NoLostWakeup, NoneLost

LEMMA RetryingMember ==
  ASSUME NEW e, NEW t
  PROVE  t \in Retrying(e) <=>
           /\ t \in Threads /\ call[t] # NoCall /\ Own(call[t]) = e
           /\ k.event_list[t] = NoList /\ k.wakeup_reason[t] = 1
BY DEF Retrying, WaitsIn, Own

LEMMA RetryingFinite ==
  ASSUME NEW e
  PROVE  /\ IsFiniteSet(Retrying(e)) /\ IsFiniteSet(Retrying(e)')
         /\ Cardinality(Retrying(e)) \in Nat /\ Cardinality(Retrying(e)') \in Nat
<1>1. IsFiniteSet(Threads)
  BY PoolAssumption, FS_AddElement DEF Threads
<1>2. Retrying(e) \in SUBSET Threads /\ Retrying(e)' \in SUBSET Threads
  BY DEF Retrying
<1>3. IsFiniteSet(Retrying(e)) /\ IsFiniteSet(Retrying(e)')
  BY <1>1, <1>2, FS_Subset
<1> QED BY <1>3, FS_CardinalityType

\* A task that was woken and goes on trying keeps the balance; a task that is woken
\* allows for one more item, and one that has tried again for one less.
LEMMA Balance ==
  ASSUME NEW e \in EventLists, Enough(e), Spare(k, e) \in Int, Spare(k', e) \in Int,
         \/ k'.waiting[e] = <<>>
         \/ Spare(k', e) <= 0
         \/ /\ k.waiting[e] # <<>>
            /\ \/ Retrying(e) \subseteq Retrying(e)' /\ Spare(k', e) <= Spare(k, e)
               \/ \E t : /\ t \notin Retrying(e) /\ Retrying(e) \cup {t} \subseteq Retrying(e)'
                         /\ Spare(k', e) <= Spare(k, e) + 1
               \/ \E c : /\ Retrying(e) \ {c} \subseteq Retrying(e)'
                         /\ Spare(k', e) <= Spare(k, e) - 1
  PROVE  Enough(e)'
<1> DEFINE A == Retrying(e)
           B == Retrying(e)'
           x == Spare(k, e)
           y == Spare(k', e)
<1>1. /\ IsFiniteSet(A) /\ IsFiniteSet(B) /\ Cardinality(A) \in Nat /\ Cardinality(B) \in Nat
  BY RetryingFinite
<1>2. y = Spare(k, e)'
  BY DEF Spare
<1>3. x \in Int /\ y \in Int /\ (k.waiting[e] # <<>> => x <= Cardinality(A))
  BY DEF Enough
<1>4. ASSUME k'.waiting[e] # <<>> PROVE y <= Cardinality(B)
  <2> HIDE DEF A, B, x, y
  <2>1. CASE y <= 0
    BY <1>1, <1>3, <2>1
  <2>2. CASE A \subseteq B /\ y <= x /\ k.waiting[e] # <<>>
    <3>1. Cardinality(A) <= Cardinality(B)
      BY <1>1, <2>2, FS_Subset
    <3> QED BY <1>1, <1>3, <2>2, <3>1
  <2>3. ASSUME k.waiting[e] # <<>>, NEW t, t \notin A, A \cup {t} \subseteq B, y <= x + 1
        PROVE  y <= Cardinality(B)
    <3>1. Cardinality(A \cup {t}) = Cardinality(A) + 1
      BY <1>1, <2>3, FS_AddElement
    <3>2. Cardinality(A \cup {t}) <= Cardinality(B)
      BY <1>1, <2>3, FS_Subset
    <3> QED BY <1>1, <1>3, <2>3, <3>1, <3>2
  <2>4. ASSUME k.waiting[e] # <<>>, NEW c, A \ {c} \subseteq B, y <= x - 1
        PROVE  y <= Cardinality(B)
    <3>1. /\ Cardinality(A \ {c}) = IF c \in A THEN Cardinality(A) - 1 ELSE Cardinality(A)
      BY <1>1, FS_RemoveElement
    <3>2. Cardinality(A \ {c}) <= Cardinality(B)
      BY <1>1, <2>4, FS_Subset
    <3> QED BY <1>1, <1>3, <2>4, <3>1, <3>2
  <2> QED BY <1>4, <2>1, <2>2, <2>3, <2>4 DEF A, B, x, y
<1> QED BY <1>2, <1>4 DEF Enough

\* A critical section ends no retry but that of its caller, and makes no list longer.
LEMMA ServesKeeps ==
  ASSUME TasksInv, WaitInv, NEW c, NEW e \in EventLists, Serves(k', c, e), Others(c),
         NEW f \in EventLists
  PROVE  /\ Retrying(f) \ {c} \subseteq Retrying(f)'
         /\ k'.waiting[f] # <<>> => k.waiting[f] # <<>>
<1>1. IInv
  BY DEF TasksInv
<1>2. /\ k.event_list \in [Threads -> EventLists \cup {NoList}] /\ EventsOK(k)
      /\ k.waiting \in [EventLists -> Seq(Threads)]
  BY <1>1, EventTypes
<1>3. ASSUME NEW u \in Retrying(f) \ {c},
             k'.event_list[u] = NoList, k'.wakeup_reason[u] = 1
      PROVE  u \in Retrying(f)'
  <2>1. u \in Threads /\ call[u] # NoCall /\ Own(call[u]) = f
    BY <1>3, RetryingMember
  <2>2. call'[u] = call[u]
    BY <1>3, <2>1 DEF Others
  <2>3. call'[u] # NoCall /\ Own(call'[u]) = f
    BY <2>1, <2>2
  <2> QED BY <1>3, <2>1, <2>3 DEF Retrying, WaitsIn, Own
<1>4. \A u \in Retrying(f) : /\ u \in Threads /\ k.event_list[u] = NoList
                             /\ k.wakeup_reason[u] = 1
  BY RetryingMember
<1>5. CASE NoWake(k', c)
  <2>1. k'.waiting = k.waiting /\ k'.event_list = k.event_list
        /\ \A u \in Threads \ {c} : k'.wakeup_reason[u] = k.wakeup_reason[u]
    BY <1>5 DEF NoWake, SameEvents
  <2> QED BY <1>3, <1>4, <2>1
<1>6. CASE Picks(k', c, e)
  <2>1. PICK t \in Threads : /\ k.waiting[e] # <<>> /\ t = Head(k.waiting[e])
                             /\ k'.event_list = With(k.event_list, t, NoList)
                             /\ k'.waiting = With(k.waiting, e, Tail(k.waiting[e]))
                             /\ k'.wakeup_reason[t] = 1
                             /\ \A u \in Threads \ {c, t} :
                                  k'.wakeup_reason[u] = k.wakeup_reason[u]
    BY <1>6 DEF Picks
  <2>2. \A u \in Threads : k'.event_list[u] = IF u = t THEN NoList ELSE k.event_list[u]
    BY <1>2, <2>1 DEF With
  <2>3. f # e => k'.waiting[f] = k.waiting[f]
    BY <1>2, <2>1 DEF With
  <2>4. ASSUME NEW u \in Retrying(f) \ {c}
        PROVE  k'.event_list[u] = NoList /\ k'.wakeup_reason[u] = 1
    BY <1>4, <2>1, <2>2, <2>4
  <2> QED BY <1>3, <2>1, <2>3, <2>4
<1> QED BY <1>5, <1>6 DEF Serves

LEMMA SpareTypes ==
  ASSUME QInv, QInv'
  PROVE  \A e \in EventLists : Spare(k, e) \in Int /\ Spare(k', e) \in Int
<1>1. k.messages_waiting \in [Queues -> Nat] /\ k'.messages_waiting \in [Queues -> Nat]
  <2>1. k \in Kernel
    BY TypeFacts DEF QInv, TasksInv
  <2>2. k' \in Kernel
    BY CoreFacts DEF QInv, TasksInv, IInv, KernelInv
  <2> QED BY <2>1, <2>2 DEF Kernel
<1>2. Length \in [Queues -> Nat \ {0}]
  BY LengthAssumption
<1> QED BY <1>1, <1>2, ListFacts DEF Spare

\* The balance of the two lists of the queue of m: one more for the list that is
\* served, one less for the other, and no change for the lists of other queues.
LEMMA SpareChange ==
  ASSUME QInv, NEW m \in SendCalls \cup RecvTypes, m.op # "peek", Counts(m), NEW e \in EventLists
  PROVE  /\ e = Other(m) => Spare(k', e) <= Spare(k, e) + 1
         /\ e = Own(m) => Spare(k', e) <= Spare(k, e) - 1 \/ Spare(k', e) <= 0
         /\ e # Own(m) /\ e # Other(m) => Spare(k', e) = Spare(k, e)
<1> DEFINE q == m.q
           n == k.messages_waiting[q]
           L == Length[q]
<1>1. /\ q \in Queues /\ (m.op = "send" => m \in SendCalls)
  BY CallFacts
<1>2. k.messages_waiting \in [Queues -> Nat] /\ n \in Nat /\ L \in Nat /\ n <= L
  <2>1. k.messages_waiting \in [Queues -> Nat]
    BY EventTypes DEF QInv, TasksInv
  <2> QED BY <1>1, <2>1, LengthAssumption DEF QInv, RingsInv
<1>3. /\ k'.messages_waiting[q] = IF m.op = "send" THEN OneMore(m) ELSE n - 1
      /\ \A p \in Queues \ {q} : k'.messages_waiting[p] = k.messages_waiting[p]
  BY <1>1, <1>2 DEF Counts, With
<1>4. m.op = "send" /\ m.pos = "overwrite" => L = 1
  BY <1>1 DEF SendCalls
<1>5. OneMore(m) = IF m.pos = "overwrite" THEN (IF n = 0 THEN 1 ELSE n) ELSE n + 1
  BY DEF OneMore
<1>6. Receivers(q) = <<q, "receive">> /\ Senders(q) = <<q, "send">>
  BY DEF Receivers, Senders
<1> HIDE DEF n, L
<1>7. CASE e[1] # q
  <2>1. e # Own(m) /\ e # Other(m)
    BY <1>6, <1>7 DEF Own, Other
  <2> QED BY <1>3, <1>7, <2>1, ListFacts DEF Spare
<1>8. CASE e[1] = q /\ m.op = "send"
  <2>1. Own(m) = Senders(q) /\ Other(m) = Receivers(q)
    BY <1>8 DEF Own, Other
  <2>2. CASE e[2] = "receive"
    <3>1. e = Other(m) /\ e # Own(m)
      BY <1>6, <1>8, <2>1, <2>2, ListFacts
    <3>2. Spare(k', e) = OneMore(m) /\ Spare(k, e) = n
      BY <1>3, <1>8, <2>2 DEF Spare, n
    <3> QED BY <1>2, <1>5, <3>1, <3>2
  <2>3. CASE e[2] = "send"
    <3>1. e = Own(m) /\ e # Other(m)
      BY <1>6, <1>8, <2>1, <2>3, ListFacts
    <3>2. Spare(k', e) = L - OneMore(m) /\ Spare(k, e) = L - n
      BY <1>3, <1>8, <2>3 DEF Spare, n, L
    <3> QED BY <1>2, <1>4, <1>5, <1>8, <3>1, <3>2
  <2> QED BY <2>2, <2>3, ListFacts
<1>9. CASE e[1] = q /\ m.op # "send"
  <2>1. Own(m) = Receivers(q) /\ Other(m) = Senders(q)
    BY <1>9 DEF Own, Other
  <2>2. CASE e[2] = "receive"
    <3>1. e = Own(m) /\ e # Other(m)
      BY <1>6, <1>9, <2>1, <2>2, ListFacts
    <3>2. Spare(k', e) = n - 1 /\ Spare(k, e) = n
      BY <1>3, <1>9, <2>2 DEF Spare, n
    <3> QED BY <1>2, <3>1, <3>2
  <2>3. CASE e[2] = "send"
    <3>1. e = Other(m) /\ e # Own(m)
      BY <1>6, <1>9, <2>1, <2>3, ListFacts
    <3>2. Spare(k', e) = L - (n - 1) /\ Spare(k, e) = L - n
      BY <1>3, <1>9, <2>3 DEF Spare, n, L
    <3> QED BY <1>2, <3>1, <3>2
  <2> QED BY <2>2, <2>3, ListFacts
<1> QED BY <1>7, <1>8, <1>9

\* The head of the list that is served goes on trying.
LEMMA PickRetries ==
  ASSUME TasksInv, WaitInv, NEW c, NEW e \in EventLists, Serves(k', c, e), Others(c),
         k'.waiting[e] # <<>>, c \in Threads => k.event_list[c] = NoList
  PROVE  \E t : t \notin Retrying(e) /\ t \in Retrying(e)'
<1>1. IInv /\ CallsInv
  BY DEF TasksInv
<1>2. /\ k.event_list \in [Threads -> EventLists \cup {NoList}] /\ EventsOK(k)
      /\ k.waiting \in [EventLists -> Seq(Threads)]
  BY <1>1, EventTypes
<1>3. ~(k.waiting[e] = <<>> /\ NoWake(k', c))
  BY DEF NoWake, SameEvents
<1>4. PICK t \in Threads : /\ k.waiting[e] # <<>> /\ t = Head(k.waiting[e])
                           /\ k'.event_list = With(k.event_list, t, NoList)
                           /\ k'.wakeup_reason[t] = 1
  BY <1>3 DEF Serves, Picks
<1>5. k.event_list[t] = e /\ e # NoList
  <2>1. t \in ToSet(k.waiting[e])
    BY <1>2, <1>4, HeadDistinct
  <2> QED BY <1>2, <2>1, NoListIsNone DEF EventsOK
<1>6. t # c
  BY <1>5
<1>7. ret[t] = "wait" /\ Own(call[t]) = e
  BY <1>5 DEF WaitInv
<1>8. call[t] # NoCall /\ call'[t] = call[t]
  BY <1>1, <1>6, <1>7 DEF CallsInv, Others
<1>9. k'.event_list[t] = NoList
  BY <1>2, <1>4 DEF With
<1>10. t \notin Retrying(e)
  BY <1>5, RetryingMember
<1>11. call'[t] # NoCall /\ Own(call'[t]) = e
  BY <1>7, <1>8
<1>12. t \in Retrying(e)'
  BY <1>4, <1>9, <1>11 DEF Retrying, WaitsIn, Own
<1> QED BY <1>10, <1>12

LEMMA ServedEnough ==
  ASSUME QInv, QInv', WaitInv, NoneLost, NEW c, NEW m \in SendCalls \cup RecvTypes,
         m.op # "peek", Serves(k', c, Other(m)), Counts(m), Others(c),
         c \in Threads => k.event_list[c] = NoList /\ (call[c] = m \/ call[c] = NoCall)
  PROVE  NoneLost'
<1>1. TasksInv
  BY DEF QInv
<1>2. Other(m) \in EventLists
  BY CallFacts DEF Other
<1>3. ASSUME NEW e \in EventLists PROVE Enough(e)'
  <2>1. Enough(e) /\ Spare(k, e) \in Int /\ Spare(k', e) \in Int
    BY SpareTypes DEF NoneLost
  <2>2. /\ Retrying(e) \ {c} \subseteq Retrying(e)'
        /\ k'.waiting[e] # <<>> => k.waiting[e] # <<>>
    BY <1>1, <1>2, ServesKeeps
  <2>3. e # Own(m) => c \notin Retrying(e)
    BY RetryingMember
  <2>4. /\ e = Other(m) => Spare(k', e) <= Spare(k, e) + 1
        /\ e = Own(m) => Spare(k', e) <= Spare(k, e) - 1 \/ Spare(k', e) <= 0
        /\ e # Own(m) /\ e # Other(m) => Spare(k', e) = Spare(k, e)
    BY SpareChange
  <2>5. CASE k'.waiting[e] = <<>>
    BY <2>1, <2>5, Balance
  <2>6. CASE k'.waiting[e] # <<>> /\ e = Own(m)
    BY <2>1, <2>2, <2>4, <2>6, Balance
  <2>7. CASE k'.waiting[e] # <<>> /\ e # Own(m) /\ e = Other(m)
    <3>1. PICK t : t \notin Retrying(e) /\ t \in Retrying(e)'
      BY <1>1, <2>7, PickRetries
    <3>2. Retrying(e) \cup {t} \subseteq Retrying(e)'
      BY <2>2, <2>3, <2>7, <3>1
    <3> QED BY <2>1, <2>2, <2>4, <2>7, <3>1, <3>2, Balance
  <2>8. CASE k'.waiting[e] # <<>> /\ e # Own(m) /\ e # Other(m)
    <3>1. Retrying(e) \subseteq Retrying(e)'
      BY <2>2, <2>3, <2>8
    <3>2. Spare(k', e) <= Spare(k, e)
      BY <2>1, <2>4, <2>8
    <3> QED BY <2>1, <2>2, <2>8, <3>1, <3>2, Balance
  <2> QED BY <2>5, <2>6, <2>7, <2>8
<1> QED BY <1>3 DEF NoneLost

\* A step that wakes nobody and moves no item.
LEMMA StillEnough ==
  ASSUME QInv, QInv', NEW e \in EventLists, Enough(e),
         k'.messages_waiting = k.messages_waiting,
         k'.waiting[e] # <<>> => k.waiting[e] # <<>>,
         Retrying(e) \subseteq Retrying(e)'
  PROVE  Enough(e)'
<1>1. Spare(k, e) \in Int /\ Spare(k', e) \in Int
  BY SpareTypes
<1>2. Spare(k', e) = Spare(k, e)
  BY DEF Spare
<1>3. Spare(k', e) <= Spare(k, e)
  BY <1>1, <1>2
<1>4. CASE k'.waiting[e] = <<>>
  BY <1>1, <1>4, Balance
<1>5. CASE k.waiting[e] # <<>>
  BY <1>1, <1>3, <1>5, Balance
<1> QED BY <1>4, <1>5

LEMMA GaveUpEnough ==
  ASSUME QInv, QInv', WaitInv, NoneLost, "peek" \notin QueueCalls,
         NEW c \in Tasks, GaveUp(c)
  PROVE  NoneLost'
<1>1. NoWake(k', c) /\ Others(c) /\ k'.messages_waiting = k.messages_waiting /\ c \in Threads
  BY DEF GaveUp, Ends, Threads
<1>2. call[c] = NoCall \/ k.wakeup_reason[c] = 2
  <2>1. ASSUME NEW m, Of(c, m), m.op = "peek", call[c] # NoCall PROVE FALSE
    BY <1>1, <2>1 DEF Of, WaitInv
  <2>2. ASSUME NEW m, Of(c, m), m.op = "peek", call[c] = NoCall PROVE FALSE
    <3>1. m # NoCall
      BY <2>2, CallFacts DEF Of
    <3> QED BY <2>2, <3>1 DEF Of
  <2> QED BY <2>1, <2>2 DEF GaveUp
<1>3. ASSUME NEW e \in EventLists PROVE Enough(e)'
  <2>1. /\ k'.waiting = k.waiting /\ k'.event_list = k.event_list
        /\ \A u \in Threads \ {c} : k'.wakeup_reason[u] = k.wakeup_reason[u]
    BY <1>1 DEF NoWake, SameEvents
  <2>2. ASSUME NEW u \in Retrying(e) PROVE u \in Retrying(e)'
    <3>1. /\ u \in Threads /\ call[u] # NoCall /\ Own(call[u]) = e
          /\ k.event_list[u] = NoList /\ k.wakeup_reason[u] = 1
      BY <2>2, RetryingMember
    <3>2. u # c
      BY <1>2, <3>1
    <3>3. call'[u] = call[u] /\ k'.event_list[u] = NoList /\ k'.wakeup_reason[u] = 1
      BY <1>1, <2>1, <3>1, <3>2 DEF Others
    <3>4. call'[u] # NoCall /\ Own(call'[u]) = e
      BY <3>1, <3>3
    <3> QED BY <3>1, <3>3, <3>4 DEF Retrying, WaitsIn, Own
  <2> QED BY <1>1, <2>1, <2>2, StillEnough DEF NoneLost
<1> QED BY <1>3 DEF NoneLost

LEMMA WaitsEnough ==
  ASSUME QInv, QInv', WaitInv, NoneLost, NEW c \in Tasks, NEW m, Waits(c, m)
  PROVE  NoneLost'
<1>1. /\ m \in SendCalls \cup RecvTypes /\ Joins(k', c, Own(m), m.timeout) /\ Others(c)
      /\ k'.messages_waiting = k.messages_waiting /\ ~Can(m) /\ c \in Threads
      /\ call[c] = m \/ call[c] = NoCall
  BY DEF Waits, Of, Threads
<1>2. /\ k.event_list \in [Threads -> EventLists \cup {NoList}]
      /\ k.waiting \in [EventLists -> Seq(Threads)]
  BY EventTypes DEF QInv, TasksInv
<1>3. Own(m) \in EventLists /\ m.q \in Queues
  BY <1>1, CallFacts DEF Own
<1>4. /\ \A u \in Threads \ {c} : /\ k'.event_list[u] = k.event_list[u]
                                  /\ k'.wakeup_reason[u] = k.wakeup_reason[u]
      /\ \A e \in EventLists \ {Own(m)} : k'.waiting[e] = k.waiting[e]
  BY <1>1, <1>2, <1>3 DEF Joins, With
<1>5. ASSUME NEW e \in EventLists PROVE Enough(e)'
  <2>1. Enough(e) /\ Spare(k, e) \in Int /\ Spare(k', e) \in Int
    BY SpareTypes DEF NoneLost
  <2>2. CASE e = Own(m)
    <3>1. Spare(k', e) = Spare(k, e)
      BY <1>1 DEF Spare
    <3>2. Spare(k, e) <= 0
      <4> DEFINE n == k.messages_waiting[m.q]
                 L == Length[m.q]
      <4>1. n \in Nat /\ L \in Nat
        <5>1. k.messages_waiting \in [Queues -> Nat]
          BY EventTypes DEF QInv, TasksInv
        <5> QED BY <1>3, <5>1, LengthAssumption
      <4>2. CASE m.op = "send"
        <5>1. e[1] = m.q /\ e[2] = "send"
          BY <2>2, <4>2 DEF Own, Senders
        <5>2. ~(n < L)
          BY <1>1, <4>2 DEF Can, HasRoom
        <5>3. Spare(k, e) = L - n
          BY <5>1 DEF Spare
        <5> HIDE DEF n, L
        <5> QED BY <4>1, <5>2, <5>3
      <4>3. CASE m.op # "send"
        <5>1. e[1] = m.q /\ e[2] = "receive"
          BY <2>2, <4>3 DEF Own, Receivers
        <5>2. ~(n > 0)
          BY <1>1, <4>3 DEF Can, HasItem
        <5>3. Spare(k, e) = n
          BY <5>1 DEF Spare
        <5> HIDE DEF n, L
        <5> QED BY <4>1, <5>2, <5>3
      <4> QED BY <4>2, <4>3
    <3> QED BY <2>1, <3>1, <3>2, Balance
  <2>3. CASE e # Own(m)
    <3>1. ASSUME NEW u \in Retrying(e) PROVE u \in Retrying(e)'
      <4>1. /\ u \in Threads /\ call[u] # NoCall /\ Own(call[u]) = e
            /\ k.event_list[u] = NoList /\ k.wakeup_reason[u] = 1
        BY <3>1, RetryingMember
      <4>2. u # c
        BY <1>1, <2>3, <4>1
      <4>3. call'[u] = call[u] /\ k'.event_list[u] = NoList /\ k'.wakeup_reason[u] = 1
        BY <1>1, <1>4, <4>1, <4>2 DEF Others
      <4>4. call'[u] # NoCall /\ Own(call'[u]) = e
        BY <4>1, <4>3
      <4> QED BY <4>1, <4>3, <4>4 DEF Retrying, WaitsIn, Own
    <3> QED BY <1>1, <1>4, <2>1, <2>3, <3>1, StillEnough
  <2> QED BY <2>2, <2>3
<1> QED BY <1>5 DEF NoneLost

\* A step of task.h ends no retry, unless it deletes the task.
LEMMA TaskEnough ==
  ASSUME QInv, QInv', WaitInv, NoneLost, YieldsReady, "delete" \notin Calls, [Next]_vars,
         k'.messages_waiting = k.messages_waiting,
         call' = [t \in Threads |-> IF pc'[t] = "dead" THEN NoCall ELSE call[t]]
  PROVE  NoneLost'
<1>1. /\ IInv /\ NoneHeld(k) /\ WaitShape /\ CallsInv /\ StillWaits /\ IInv'
      /\ handles \subseteq handles'
  BY WaitsStep, HandlesStay DEF QInv, TasksInv
<1>2. PICK X : Eases(k, k', X)
  BY <1>1, EaseStep
<1>3. SameReasons(k, k')
  BY <1>1, EaseStep
<1>4. EventsOK(k) /\ k.waiting \in [EventLists -> Seq(Threads)]
  BY <1>1, EventTypes
<1>5. EventsOK(k') /\ k'.waiting \in [EventLists -> Seq(Threads)]
  <2>1. KernelCore(k', handles')
    BY <1>1 DEF IInv, KernelInv
  <2> QED BY <2>1 DEF KernelCore, ListsOK, Kernel
<1>6. ASSUME NEW e \in EventLists, k'.waiting[e] # <<>> PROVE k.waiting[e] # <<>>
  <2> DEFINE t == Head(k'.waiting[e])
  <2>1. t \in Threads /\ t \in ToSet(k'.waiting[e])
    BY <1>5, <1>6, HeadDistinct
  <2> HIDE DEF t
  <2>2. k'.event_list[t] = e
    BY <1>5, <2>1 DEF EventsOK
  <2>3. k.event_list[t] = e
    BY <1>2, <2>1, <2>2, NoListIsNone DEF Eases
  <2>4. t \in ToSet(k.waiting[e])
    BY <1>4, <2>1, <2>3 DEF EventsOK
  <2> QED BY <2>4 DEF ToSet
<1>7. ASSUME NEW e \in EventLists, NEW u \in Retrying(e) PROVE u \in Retrying(e)'
  <2>1. /\ u \in Threads /\ call[u] # NoCall /\ Own(call[u]) = e
        /\ k.event_list[u] = NoList /\ k.wakeup_reason[u] = 1
    BY <1>7, RetryingMember
  <2>2. ret[u] = "wait" /\ u \in handles
    BY <1>1, <2>1 DEF CallsInv, WaitShape
  <2>3. call'[u] = call[u]
    <3>1. pc'[u] # "dead"
      BY <1>1, <2>1, <2>2 DEF StillWaits
    <3> QED BY <2>1, <3>1
  <2>4. k'.event_list[u] = NoList
    BY <1>2, <2>1 DEF Eases
  <2>5. k'.wakeup_reason[u] = 1
    <3>1. u \notin Delayed(k) /\ u \notin Waiting(k)
      BY <2>1, <2>2 DEF WaitInv, Waiting
    <3>2. u \in k.used
      BY <1>1, <2>2, TypeFacts
    <3> QED BY <1>3, <2>1, <3>1, <3>2 DEF SameReasons
  <2>6. call'[u] # NoCall /\ Own(call'[u]) = e
    BY <2>1, <2>3
  <2> QED BY <2>1, <2>4, <2>5, <2>6 DEF Retrying, WaitsIn, Own
<1>8. ASSUME NEW e \in EventLists PROVE Enough(e)'
  BY <1>6, <1>7, StillEnough DEF NoneLost
<1> QED BY <1>8 DEF NoneLost

LEMMA EnoughStep ==
  ASSUME QInv, WaitInv, NoneLost, YieldsReady, "delete" \notin Calls, "peek" \notin QueueCalls,
         [QueueNext]_allVars
  PROVE  NoneLost'
<1>1. QInv'
  BY QueueStepInv
<1>2. CASE /\ [Next]_vars /\ k'.messages_waiting = k.messages_waiting
           /\ call' = [t \in Threads |-> IF pc'[t] = "dead" THEN NoCall ELSE call[t]]
  BY <1>1, <1>2, TaskEnough
<1>3. ASSUME NEW c \in Tasks, QueueStep(c), CallEffect(c) PROVE NoneLost'
  <2>1. c \in Threads /\ k.event_list[c] = NoList
    BY <1>3, CallerFree DEF QInv, Threads
  <2>2. ASSUME NEW m, Done(c, m) PROVE NoneLost'
    <3>1. /\ m \in SendCalls \cup RecvTypes /\ m.op # "peek" /\ Serves(k', c, Other(m))
          /\ Counts(m) /\ Others(c) /\ (call[c] = m \/ call[c] = NoCall)
      BY <2>2 DEF Done, Of, Ends
    <3> QED BY <1>1, <2>1, <3>1, ServedEnough
  <2>3. ASSUME NEW m, Waits(c, m) PROVE NoneLost'
    BY <1>1, <2>3, WaitsEnough
  <2>4. CASE GaveUp(c)
    BY <1>1, <2>4, GaveUpEnough
  <2>5. CASE UNCHANGED <<k, call, ret>>
    BY <2>5 DEF NoneLost, Enough, Spare, Retrying, WaitsIn
  <2> QED BY <1>3, <2>2, <2>3, <2>4, <2>5 DEF CallEffect
<1>4. ASSUME NEW m, DoneFromIsr(m) PROVE NoneLost'
  <2>1. /\ m \in SendCalls \cup RecvTypes /\ m.op # "peek" /\ Serves(k', NoTask, Other(m))
        /\ Counts(m) /\ Others(NoTask)
    BY <1>4 DEF DoneFromIsr, Others
  <2>2. NoTask \notin Threads
    BY IdleAssumption, QueueAssumption DEF NoTask, Threads
  <2> QED BY <1>1, <2>1, <2>2, ServedEnough
<1> QED BY <1>2, <1>3, <1>4, StepCases

LEMMA EnoughInit ==
  ASSUME QueueInit
  PROVE  NoneLost
<1>1. k = [InitKernel EXCEPT !.messages_waiting = Available]
  BY DEF QueueInit
<1>2. k.waiting = [e \in EventLists |-> <<>>]
  BY <1>1 DEF InitKernel
<1> QED BY <1>2 DEF NoneLost, Enough

\* No wake-up is lost: beside a waiting receiver there are never more items than
\* receivers that were woken and have yet to try again, nor free places beside a waiting
\* sender, in a system whose application does not delete tasks nor look at items without
\* taking them: a task that was woken and is deleted takes the wake-up with it, and so
\* does one that peeks.
THEOREM NoWakeupLost ==
  YieldsReady /\ "delete" \notin Calls /\ "peek" \notin QueueCalls /\ QueueSpec => []NoLostWakeup
<1> SUFFICES ASSUME YieldsReady, "delete" \notin Calls, "peek" \notin QueueCalls
             PROVE  QueueSpec => []NoLostWakeup
  OBVIOUS
<1>1. QueueInit => QInv /\ WaitInv /\ NoneLost
  BY QueueInitInv, WaitInvInit, EnoughInit
<1>2. QInv /\ WaitInv /\ NoneLost /\ [QueueNext]_allVars => QInv' /\ WaitInv' /\ NoneLost'
  BY QueueStepInv, WaitInvStep, EnoughStep
<1>3. NoneLost => NoLostWakeup
  BY LostIffEnough
<1> QED BY <1>1, <1>2, <1>3, PTL DEF QueueSpec

-----------------------------------------------------------------------------
\* First come, first served among equals

\* Nobody gets ahead of a task that waits in the list s but one of a higher priority.
InTurn(s, r) ==
  \A t \in ToSet(r), u \in ToSet(s) : Ahead(r, t, u) => Ahead(s, t, u) \/ k.priority[t] > k.priority[u]

\* The pairs of s in their order.
Pairs(s) == {p \in Threads \X Threads : Ahead(s, p[1], p[2])}

LEMMA PairsOrdered ==
  ASSUME NEW s \in Seq(Threads)
  PROVE  Ordered(s, Pairs(s))
<1>1. \A i \in DOMAIN s : s[i] \in Threads
  OBVIOUS
<1> QED BY <1>1 DEF Ordered, Pairs, Ahead

LEMMA OrderKept ==
  ASSUME NEW s, NEW r, Ordered(r, Pairs(s))
  PROVE  InTurn(s, r)
<1> SUFFICES ASSUME NEW t, NEW u, Ahead(r, t, u) PROVE Ahead(s, t, u)
  BY DEF InTurn
<1>1. PICK i, j \in DOMAIN r : i < j /\ r[i] = t /\ r[j] = u
  BY DEF Ahead
<1>2. <<t, u>> \in Pairs(s)
  BY <1>1 DEF Ordered
<1> QED BY <1>2 DEF Pairs

\* Who joins a sorted list does so behind all of its own priority.
LEMMA JoinsInTurn ==
  ASSUME IInv, SortedLists(k), NEW c \in Threads, NEW e \in EventLists, k.event_list[c] = NoList
  PROVE  InTurn(k.waiting[e], InsertBefore(k.waiting[e], c, EventPlace(k, e, c)))
<1> DEFINE l == k.waiting[e]
           n == EventPlace(k, e, c)
           below == {v \in Threads : k.priority[c] > k.priority[v]}
           Q == Pairs(l) \cup (Threads \X {c}) \cup ({c} \X below)
<1>1. k \in Kernel /\ EventsOK(k) /\ l \in Seq(Threads)
  BY TypeFacts, EventTypes
<1>2. c \notin ToSet(l)
  BY <1>1, NoListIsNone DEF EventsOK
<1>3. /\ n \in 0 .. Len(l)
      /\ n # 0 => k.priority[c] > k.priority[l[n]]
  BY <1>1, EventPlaceFirst
<1>4. Ordered(l, Ranks(k))
  BY DEF SortedLists
<1>5. \A u \in Threads : k.priority[u] \in Nat
  BY <1>1, NaturalPriorities
<1>6. DOMAIN l = 1 .. Len(l) /\ Len(l) \in Nat /\ \A i \in 1 .. Len(l) : l[i] \in Threads
  BY <1>1
<1> HIDE DEF l, n
<1>7. Ordered(l, Q)
  BY <1>1, PairsOrdered DEF Ordered
<1>8. \A i \in 1 .. Len(l) : <<l[i], c>> \in Q
  BY <1>6
<1>9. ASSUME NEW i \in 1 .. Len(l), n # 0, n <= i PROVE <<c, l[i]>> \in Q
  <2>1. n \in 1 .. Len(l) /\ l[n] \in Threads /\ l[i] \in Threads
    BY <1>3, <1>6, <1>9
  <2>2. k.priority[l[n]] >= k.priority[l[i]]
    <3>1. CASE n = i
      BY <1>5, <2>1, <3>1
    <3>2. CASE n < i
      BY <1>4, <1>6, <2>1, <3>2 DEF Ordered, Ranks
    <3> QED BY <1>3, <1>9, <3>1, <3>2
  <2>3. k.priority[c] > k.priority[l[i]]
    BY <1>3, <1>5, <1>9, <2>1, <2>2
  <2> QED BY <2>1, <2>3
<1> DEFINE r == InsertBefore(l, c, n)
<1>10. Ordered(r, Q)
  <2> HIDE DEF Q
  <2> QED BY <1>1, <1>3, <1>7, <1>8, <1>9, InsertOrdered
<1> HIDE DEF r
<1>11. ASSUME NEW t \in ToSet(r), NEW u \in ToSet(l), Ahead(r, t, u)
       PROVE  Ahead(l, t, u) \/ k.priority[t] > k.priority[u]
  <2>1. <<t, u>> \in Q
    BY <1>10, <1>11 DEF Ahead, Ordered
  <2>2. u # c
    BY <1>2 DEF l
  <2> QED BY <2>1, <2>2 DEF Pairs
<1> QED BY <1>11 DEF InTurn, l, n, r

\* What WokenInTurn says of a step.
Turn ==
  \A e \in EventLists :
    /\ InTurn(k.waiting[e], k'.waiting[e])
    /\ \A t \in ToSet(k.waiting[e]) \ ToSet(k'.waiting[e]) :
         k'.messages_waiting # k.messages_waiting => t = Head(k.waiting[e])

LEMMA ServesTurn ==
  ASSUME IInv, NEW c, NEW e \in EventLists, Serves(k', c, e)
  PROVE  Turn
<1>1. k.waiting \in [EventLists -> Seq(Threads)]
  BY EventTypes
<1>2. ASSUME NEW f \in EventLists, k'.waiting[f] = k.waiting[f]
      PROVE  /\ InTurn(k.waiting[f], k'.waiting[f])
             /\ ToSet(k.waiting[f]) \ ToSet(k'.waiting[f]) = {}
  BY <1>2 DEF InTurn
<1>3. CASE NoWake(k', c)
  BY <1>2, <1>3 DEF NoWake, SameEvents, Turn
<1>4. CASE Picks(k', c, e)
  <2>1. /\ k.waiting[e] # <<>> /\ k.waiting[e] \in Seq(Threads)
        /\ k'.waiting[e] = Tail(k.waiting[e])
        /\ \A f \in EventLists \ {e} : k'.waiting[f] = k.waiting[f]
    BY <1>1, <1>4 DEF Picks, With
  <2>2. InTurn(k.waiting[e], k'.waiting[e])
    BY <2>1, PairsOrdered, TailOrdered, OrderKept
  <2>3. ASSUME NEW t \in ToSet(k.waiting[e]) \ ToSet(k'.waiting[e]) PROVE t = Head(k.waiting[e])
    <3> DEFINE l == k.waiting[e]
    <3>1. /\ DOMAIN l = 1 .. Len(l) /\ Len(l) \in Nat /\ l \in Seq(Threads)
          /\ Tail(l) \in Seq(Threads) /\ Len(Tail(l)) = Len(l) - 1 /\ Head(l) = l[1]
          /\ \A i \in 1 .. Len(Tail(l)) : Tail(l)[i] = l[i + 1]
      BY <2>1, LenProperties, EmptySeq, HeadTailProperties
    <3>2. DOMAIN Tail(l) = 1 .. Len(l) - 1
      BY <3>1, LenProperties
    <3>3. t \in ToSet(l) /\ t \notin ToSet(Tail(l))
      BY <2>1, <2>3
    <3> HIDE DEF l
    <3>4. PICK i \in 1 .. Len(l) : l[i] = t
      BY <3>1, <3>3 DEF ToSet
    <3>5. ASSUME i # 1 PROVE FALSE
      <4>1. i - 1 \in 1 .. Len(l) - 1 /\ (i - 1) + 1 = i
        BY <3>1, <3>4, <3>5
      <4>2. Tail(l)[i - 1] = t
        BY <3>1, <3>4, <4>1
      <4> QED BY <3>2, <3>3, <4>1, <4>2 DEF ToSet
    <3> QED BY <3>1, <3>4, <3>5 DEF l
  <2> QED BY <1>2, <2>1, <2>2, <2>3 DEF Turn
<1> QED BY <1>3, <1>4 DEF Serves

LEMMA CallTurn ==
  ASSUME TasksInv, SortedLists(k), NEW c \in Tasks, k.event_list[c] = NoList, CallEffect(c)
  PROVE  Turn
<1>1. IInv /\ c \in Threads
  BY DEF TasksInv, Threads
<1>2. ASSUME k'.waiting = k.waiting PROVE Turn
  BY <1>2 DEF Turn, InTurn
<1>3. CASE GaveUp(c) \/ UNCHANGED <<k, call, ret>>
  BY <1>2, <1>3 DEF GaveUp, NoWake, SameEvents
<1>4. ASSUME NEW m, Done(c, m) PROVE Turn
  <2>1. Other(m) \in EventLists /\ Serves(k', c, Other(m))
    BY <1>4, CallFacts DEF Done, Of, Other
  <2> QED BY <1>1, <2>1, ServesTurn
<1>5. ASSUME NEW m, Waits(c, m) PROVE Turn
  <2> DEFINE e == Own(m)
  <2>1. e \in EventLists /\ Joins(k', c, e, m.timeout) /\ k'.messages_waiting = k.messages_waiting
    BY <1>5, CallFacts DEF Waits, Of, Own
  <2> HIDE DEF e
  <2>2. k.waiting \in [EventLists -> Seq(Threads)]
    BY <1>1, EventTypes
  <2>3. /\ k'.waiting[e] = InsertBefore(k.waiting[e], c, EventPlace(k, e, c))
        /\ \A f \in EventLists \ {e} : k'.waiting[f] = k.waiting[f]
    BY <2>1, <2>2 DEF Joins, With
  <2>4. InTurn(k.waiting[e], k'.waiting[e])
    BY <1>1, <2>1, <2>3, JoinsInTurn
  <2>5. \A f \in EventLists \ {e} : InTurn(k.waiting[f], k'.waiting[f])
    BY <2>3 DEF InTurn
  <2> QED BY <2>1, <2>4, <2>5 DEF Turn
<1> QED BY <1>3, <1>4, <1>5 DEF CallEffect

LEMMA TurnStep ==
  ASSUME QInv, WaitInv, SortedLists(k), YieldsReady, [QueueNext]_allVars
  PROVE  Turn
<1>1. TasksInv /\ IInv /\ NoneHeld(k)
  BY DEF QInv, TasksInv
<1>2. CASE [Next]_vars /\ k'.messages_waiting = k.messages_waiting
  <2>1. PICK X : Eases(k, k', X)
    BY <1>1, <1>2, EaseStep
  <2>2. ASSUME NEW e \in EventLists PROVE InTurn(k.waiting[e], k'.waiting[e])
    <3>1. k.waiting[e] \in Seq(Threads)
      BY <1>1, EventTypes
    <3>2. Ordered(k'.waiting[e], Pairs(k.waiting[e]))
      BY <2>1, <3>1, PairsOrdered DEF Eases
    <3> QED BY <3>2, OrderKept
  <2> QED BY <1>2, <2>2 DEF Turn
<1>3. ASSUME NEW c \in Tasks, QueueStep(c), CallEffect(c) PROVE Turn
  BY <1>1, <1>3, CallerFree, CallTurn
<1>4. ASSUME NEW m, DoneFromIsr(m) PROVE Turn
  <2>1. Other(m) \in EventLists /\ Serves(k', NoTask, Other(m))
    BY <1>4, CallFacts DEF DoneFromIsr, Other
  <2> QED BY <1>1, <2>1, ServesTurn
<1> QED BY <1>2, <1>3, <1>4, StepCases

\* Tasks of one priority that wait for a queue are woken in the order in which they came,
\* whoever else joins the list, times out or is taken out of it in between: no task gets
\* ahead of one that waits unless it is more urgent (queue.c, prv_insert_task_to_event_list),
\* and a send or receive wakes the head of the list.
THEOREM FirstComeFirstServed ==
  YieldsReady /\ "set_priority" \notin Calls /\ QueueSpec => WokenInTurn
<1> SUFFICES ASSUME YieldsReady, "set_priority" \notin Calls PROVE QueueSpec => WokenInTurn
  OBVIOUS
<1>1. QueueInit => QInv /\ WaitInv /\ SortedLists(k)
  BY QueueInitInv, WaitInvInit, SortedInit
<1>2. QInv /\ WaitInv /\ SortedLists(k) /\ [QueueNext]_allVars =>
        QInv' /\ WaitInv' /\ SortedLists(k)'
  <2> SUFFICES ASSUME QInv, WaitInv, SortedLists(k), [QueueNext]_allVars
               PROVE  QInv' /\ WaitInv' /\ SortedLists(k)'
    OBVIOUS
  <2>1. SortedLists(k')
    BY SortedStep
  <2> QED BY <2>1, QueueStepInv, WaitInvStep DEF SortedLists, Ranks
<1>3. QInv /\ WaitInv /\ SortedLists(k) /\ [QueueNext]_allVars => Turn
  BY TurnStep
<1> QED BY <1>1, <1>2, <1>3, PTL DEF QueueSpec, WokenInTurn, Turn, InTurn
=============================================================================
