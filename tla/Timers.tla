-------------------------------- MODULE Timers --------------------------------
(***************************************************************************)
(* What the delay lists of LinRTOS promise: a task that asks for n ticks   *)
(* is woken by the n-th tick that follows, never by an earlier one and     *)
(* never by a later one, unless it is taken off the list before.  A tick   *)
(* wakes all the tasks it expires before the next one is counted.          *)
(***************************************************************************)
EXTENDS Integers

CONSTANTS Threads,   \* those that can sleep
          Horizon    \* the longest delay

VARIABLE left        \* how many ticks each still sleeps

Off == -1            \* does not sleep

Init == left = [t \in Threads |-> Off]

Arm(t) ==
  /\ left[t] # 0
  /\ \E n \in 1 .. Horizon : left' = [left EXCEPT ![t] = n]

Cancel(t) ==
  /\ left[t] > 0
  /\ left' = [left EXCEPT ![t] = Off]

Expire(t) ==
  /\ left[t] = 0
  /\ left' = [left EXCEPT ![t] = Off]

Tick ==
  /\ \A t \in Threads : left[t] # 0
  /\ left' = [t \in Threads |-> IF left[t] = Off THEN Off ELSE left[t] - 1]

Next == Tick \/ \E t \in Threads : Arm(t) \/ Cancel(t) \/ Expire(t)

Spec == Init /\ [][Next]_left
=============================================================================
