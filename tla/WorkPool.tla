-------------------------------- MODULE WorkPool --------------------------------
(***************************************************************************)
(* What the work queue promises: work that is accepted is owed one run,    *)
(* and until that run begins the same work is not accepted again.  Work is *)
(* due at once or after a delay, and what is due is run first come first   *)
(* served.  Only cancelling removes the debt.                              *)
(***************************************************************************)
EXTENDS SequencesExt

CONSTANTS Works,
          Runners,   \* those that run what is due
          NoWork

VARIABLES later,     \* owed, not due yet
          due,       \* owed and due, in the order it became due
          runs       \* what each runner is running

Init ==
  /\ later = {}
  /\ due = <<>>
  /\ runs = [r \in Runners |-> NoWork]

Accept(w) ==
  /\ w \notin later \cup ToSet(due)
  /\ \/ due' = Append(due, w) /\ UNCHANGED later
     \/ later' = later \cup {w} /\ UNCHANGED due
  /\ UNCHANGED runs

Expire ==
  \E S \in SUBSET later : \E s \in SetToSeqs(S) :
    /\ later' = later \ S
    /\ due' = due \o s
    /\ UNCHANGED runs

Withdraw(w) ==
  /\ w \in later \cup ToSet(due)
  /\ later' = later \ {w}
  /\ due' = RemoveFirst(due, w)
  /\ UNCHANGED runs

Begin(r) ==
  /\ runs[r] = NoWork
  /\ due # <<>>
  /\ due' = Tail(due)
  /\ runs' = [runs EXCEPT ![r] = Head(due)]
  /\ UNCHANGED later

End(r) ==
  /\ runs[r] # NoWork
  /\ runs' = [runs EXCEPT ![r] = NoWork]
  /\ UNCHANGED <<later, due>>

Next ==
  \/ Expire
  \/ \E w \in Works : Accept(w) \/ Withdraw(w)
  \/ \E r \in Runners : Begin(r) \/ End(r)

Spec == Init /\ [][Next]_<<later, due, runs>>
=============================================================================
