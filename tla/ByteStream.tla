------------------------------- MODULE ByteStream -------------------------------
(***************************************************************************)
(* What the input of the command line promises: the bytes that are         *)
(* accepted come out once each and in order.  A burst that does not fit    *)
(* loses its end, and one that the owner has shut out is lost; the owner   *)
(* may drop everything that waits.                                         *)
(***************************************************************************)
EXTENDS SequencesExt

CONSTANTS Bursts, Capacity, NoByte

VARIABLES waiting, taken

Init == waiting = <<>> /\ taken = NoByte

Arrive ==
  \E s \in Bursts :
    /\ \E p \in Prefixes(s) :
         /\ p = s \/ Len(waiting) + Len(p) = Capacity
         /\ waiting' = waiting \o p
         /\ Len(waiting') <= Capacity
    /\ UNCHANGED taken

\* A byte is handed over, and only then is it gone from the stream.
HandOver ==
  /\ taken = NoByte /\ waiting # <<>>
  /\ taken' = Head(waiting)
  /\ UNCHANGED waiting

Take ==
  /\ taken # NoByte /\ waiting # <<>> /\ taken = Head(waiting)
  /\ taken' = NoByte
  /\ waiting' = Tail(waiting)

Drop ==
  /\ taken = NoByte
  /\ waiting' = <<>>
  /\ UNCHANGED taken

Next == Arrive \/ HandOver \/ Take \/ Drop

Spec == Init /\ [][Next]_<<waiting, taken>>
=============================================================================
