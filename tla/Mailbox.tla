-------------------------------- MODULE Mailbox --------------------------------
(***************************************************************************)
(* What the queues of LinRTOS promise their users: each holds a sequence   *)
(* of at most Length items; a send puts one at the back, an urgent one at  *)
(* the front, or replaces the only one; a receive returns the first and    *)
(* removes it, unless it only peeks.  The items of a semaphore are alike.  *)
(***************************************************************************)
EXTENDS Integers, Sequences

CONSTANTS Queues, Length, Users,
          Items,    \* what is sent
          Urgent,   \* those of them that are sent to the front
          Nothing   \* no user and no item

VARIABLES box,      \* the items in each queue
          got       \* the user and the item, if the last step was a receive

Init ==
  /\ box \in [Queues -> Seq(Items)]
  /\ got = Nothing

Put(q) ==
  /\ Len(box[q]) < Length[q]
  /\ \E x \in Items :
       box' = [box EXCEPT ![q] = IF x \in Urgent THEN <<x>> \o @ ELSE Append(@, x)]
  /\ got' = Nothing

Replace(q) ==
  /\ Length[q] = 1
  /\ \E x \in Items : box' = [box EXCEPT ![q] = <<x>>]
  /\ got' = Nothing

Receive(u, q) ==
  /\ box[q] # <<>>
  /\ got' = <<u, Head(box[q])>>

Take(u, q) == Receive(u, q) /\ box' = [box EXCEPT ![q] = Tail(@)]
Peek(u, q) == Receive(u, q) /\ UNCHANGED box

\* The users do something else.
Other == got' = Nothing /\ UNCHANGED box

Next ==
  \/ \E q \in Queues : Put(q) \/ Replace(q)
  \/ \E q \in Queues, u \in Users : Take(u, q) \/ Peek(u, q)
  \/ Other

Spec == Init /\ [][Next]_<<box, got>>
=============================================================================
