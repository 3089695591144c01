-------------------------------- MODULE Editor --------------------------------
(***************************************************************************)
(* What the command line's editor promises: characters go in and out at    *)
(* the cursor, and the last Depth different lines can be had again, from   *)
(* the newest on.                                                          *)
(***************************************************************************)
EXTENDS SequencesExt

CONSTANTS Chars, Depth

VARIABLES
  before, after,   \* the line, on both sides of the cursor
  past,            \* the lines kept, newest first
  age,             \* which of them was recalled last; 0: none
  entered          \* the line entered last

keeps == <<past, age, entered>>

Init == before = <<>> /\ after = <<>> /\ past = <<>> /\ age = 0 /\ entered = <<>>

Type  == (\E c \in Chars : before' = Append(before, c)) /\ UNCHANGED <<after, keeps>>
Left  == before # <<>> /\ before' = Front(before) /\ after' = <<Last(before)>> \o after
         /\ UNCHANGED keeps
Right == after # <<>> /\ before' = Append(before, Head(after)) /\ after' = Tail(after)
         /\ UNCHANGED keeps
Delete    == after # <<>> /\ after' = Tail(after) /\ UNCHANGED <<before, keeps>>
Backspace == before # <<>> /\ before' = Front(before) /\ UNCHANGED <<after, keeps>>

Recall(n) ==
  /\ n \in 0 .. Len(past)
  /\ age' = n
  /\ before' = IF n = 0 THEN <<>> ELSE past[n]
  /\ after' = <<>>
  /\ UNCHANGED <<past, entered>>

Older == Recall(age + 1)
Newer == Recall(age - 1)

\* A line like the newest is not kept twice; an empty one changes nothing.
Kept(line) ==
  IF past # <<>> /\ Head(past) = line THEN past
  ELSE SubSeq(<<line>> \o past, 1, IF Len(past) < Depth THEN Len(past) + 1 ELSE Depth)

Enter ==
  /\ entered' = before \o after
  /\ IF entered' = <<>> THEN UNCHANGED <<past, age>> ELSE past' = Kept(entered') /\ age' = 0
  /\ before' = <<>> /\ after' = <<>>

Next == Type \/ Left \/ Right \/ Delete \/ Backspace \/ Older \/ Newer \/ Enter

Spec == Init /\ [][Next]_<<before, after, keeps>>
=============================================================================
