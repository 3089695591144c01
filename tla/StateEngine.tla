------------------------------- MODULE StateEngine -------------------------------
(***************************************************************************)
(* The state machine engine (stateM.c) that the scheduler of the command   *)
(* line runs on.  An engine is [from, to]: the state it is in and the one  *)
(* the next run enters.  stateEngineRun exits from, enters to and calls    *)
(* the task of the state it is now in; here the change of state and the    *)
(* task are two steps, with nothing between them but interrupts.           *)
(***************************************************************************)
CONSTANT NoState   \* a NULL struct tState pointer

engine_init(startup) == [from |-> NoState, to |-> startup]

MustSwitch(e)  == e.from # e.to
RunsTask(e, s) == e.from = s /\ e.to = s
Switched(e)    == [e EXCEPT !.from = e.to]

\* CLI_ERR_STATEM_SAME leaves the engine as it is.
state_switch(e, s) == IF s = e.from THEN e ELSE [e EXCEPT !.to = s]
=============================================================================
