-------------------------------- MODULE MCMutex --------------------------------
(***************************************************************************)
(* Instances of RtosMutex for TLC.                                         *)
(***************************************************************************)
EXTENDS RtosMutex

CONSTANTS t1, t2, t3, q1, q2

AllPlain  == [q \in Queues |-> "MUTEX"]

OneOfEach == [q \in Queues |-> IF q = q1 THEN "RECURSIVE" ELSE "MUTEX"]

TickOrForever == {1, Forever}
JustForever   == {Forever}

\* What main() creates: a task of each priority above the idle task's.
BootThree ==
  [p \in Prio |-> CASE p = 1 -> <<t1>> [] p = 2 -> <<t2>> [] p = 3 -> <<t3>> [] OTHER -> <<>>]

\* What TLC tells states apart by: how far off a wake-up is and not at which tick, the
\* two delay lists as one (run task_timing shows that they are one timer queue);
\* wakeup_reason where a task will read it, in or after a wait, which a give or a
\* tick has set by then; not the priority and the slice of a deleted task that
\* nobody has in arg.
Due(t) == IF OnDelayList(k, t) THEN (k.wake_tick[t] - k.tick_count) % TickMod ELSE 0

Gone == Tasks \ (handles \cup {k.current} \cup Range(arg))

Seen ==
  <<[k EXCEPT
       !.tick_count    = 0,
       !.delay_list    = @ \o k.overflow_list,
       !.overflow_list = <<>>,
       !.wake_tick     = [t \in Threads |-> Due(t)],
       !.wakeup_reason = [t \in Threads |-> IF ret[t] = "wait" \/ pc[t] = "wait" THEN @[t] ELSE 0],
       !.priority      = [t \in Threads |-> IF t \in Gone THEN 0 ELSE @[t]],
       !.time_slice    = [t \in Threads |-> IF t \in Gone THEN 0 ELSE @[t]]],
    isr, pc, ret, arg, handles, call, owns>>
=============================================================================
