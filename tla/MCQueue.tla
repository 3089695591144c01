-------------------------------- MODULE MCQueue --------------------------------
(***************************************************************************)
(* Instances of RtosQueue for TLC: two or three tasks and one queue.       *)
(***************************************************************************)
EXTENDS RtosQueue

CONSTANTS t1, t2, t3, q1, s1

AllBase   == [q \in Queues |-> "BASE"]
LengthOne == [q \in Queues |-> 1]
LengthTwo == [q \in Queues |-> 2]
OneAndTwo == [q \in Queues |-> IF q = q1 THEN 2 ELSE 1]
NoneYet   == [q \in Queues |-> 0]

JustForever == {Forever}

\* t1 and t2 have one priority: a run from <<t1, t2>> is one from <<t2, t1>> renamed.
Twins == Permutations({t1, t2})

\* What main() creates.
BootMixed     == [p \in Prio |-> CASE p = 1 -> <<t1>> [] p = 2 -> <<t2>> [] OTHER -> <<>>]
BootOneHigher == [p \in Prio |-> CASE p = 1 -> <<t1, t2>> [] p = 2 -> <<t3>> [] OTHER -> <<>>]
BootEqual     == [p \in Prio |-> IF p = 1 THEN <<t1, t2, t3>> ELSE <<>>]
BootEqualPair == [p \in Prio |-> IF p = 1 THEN <<t1, t2>> ELSE <<>>]
=============================================================================
