-------------------------------- MODULE MCTask --------------------------------
(***************************************************************************)
(* Instances of RtosTask for TLC: an application without queues.           *)
(***************************************************************************)
EXTENDS RtosTask

CONSTANTS t1, t2, t3

NoQueueType == <<>>

\* What main() creates: one task of priority 1, or several.
BootOne   == [p \in Prio |-> IF p = 1 THEN <<t1>> ELSE <<>>]
BootTwo   == [p \in Prio |-> IF p = 1 THEN <<t1, t2>> ELSE <<>>]
BootThree == [p \in Prio |-> IF p = 1 THEN <<t1, t2, t3>> ELSE <<>>]

\* The slots other than the first, which main() fills, are alike.
Slots == Permutations({t2, t3})
=============================================================================
