------------------------------- MODULE RtosRing -------------------------------
(***************************************************************************)
(* The ring buffer of a message queue (queue.c): item slots 0 .. len - 1,  *)
(* write_to the slot the next item sent to the back goes to, and read_from *)
(* the slot before that of the first item.  The pointers move by whole     *)
(* items within a buffer of len of them, so that the two-part memcpy of    *)
(* the code never splits an item.                                          *)
(***************************************************************************)
EXTENDS Integers, SequencesExt

\* rtos_queue_init: read_from starts at the last slot.
RingInit(len, x) ==
  [slots |-> [i \in 0 .. len - 1 |-> x], write_to |-> 0, read_from |-> len - 1]

\* A pointer that reaches either end of the buffer continues at the other end.
Forward(len, i) == IF i + 1 >= len THEN 0 ELSE i + 1
Backward(len, i) == IF i - 1 < 0 THEN len - 1 ELSE i - 1

\* Mutant: read_from moves before the item is written.
CopyDataMovesFirst(r, len, x, pos) ==
  CASE pos = "back"      -> [r EXCEPT !.slots[r.write_to] = x,
                                      !.write_to = Forward(len, @)]
    [] pos = "front"     -> [r EXCEPT !.slots[Backward(len, r.read_from)] = x,
                                      !.read_from = Backward(len, @)]
    [] pos = "overwrite" -> [r EXCEPT !.slots[r.read_from] = x]

CopyDataToQueue(r, len, x, pos) ==
  CASE pos = "back"      -> [r EXCEPT !.slots[r.write_to] = x,
                                      !.write_to = Forward(len, @)]
    [] pos = "front"     -> [r EXCEPT !.slots[r.read_from] = x,
                                      !.read_from = Backward(len, @)]
    [] pos = "overwrite" -> [r EXCEPT !.slots[r.read_from] = x]

FirstItem(r, len) == r.slots[Forward(len, r.read_from)]

CopyDataFromQueue(r, len, peek) ==
  IF peek THEN r ELSE [r EXCEPT !.read_from = Forward(len, @)]

\* The n items a receiver will find, in order.
Wrap(len, i) == IF i >= len THEN i - len ELSE i
Contents(r, len, n) == [i \in 1 .. n |-> r.slots[Wrap(len, r.read_from + i)]]

\* A ring of n items in order: write_to is n slots past that of the first item.
RingOK(r, len, n, S) ==
  /\ r \in [slots     : [0 .. len - 1 -> S],
            write_to  : 0 .. len - 1,
            read_from : 0 .. len - 1]
  /\ n \in 0 .. len
  /\ r.write_to = IF n = len THEN Forward(len, r.read_from)
                  ELSE Wrap(len, r.read_from + n + 1)
=============================================================================
