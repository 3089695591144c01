------------------------------ MODULE CommandLine ------------------------------
(***************************************************************************)
(* What the scheduler of the command line promises, without its engine,    *)
(* its buffers and its memory pool.  The commands of the start-up table,   *)
(* then those of each line, run one at a time and in order; a variable     *)
(* stands for the commands of its value at the time it is reached; the     *)
(* first failure drops what is left; a command that is done is not run     *)
(* again.  A variable that is reached in the value of another one replaces *)
(* what is left of that value.                                             *)
(***************************************************************************)
EXTENDS CliText, Naturals

CONSTANTS Values, Lines, AutoCmds, NoCmd

VARIABLES mode,      \* "boot", "prompt" or "line"
          boot,      \* the start-up commands that are left
          todo,      \* what is left of the line
          alias,     \* what is left of the variable that is being expanded
          running,   \* the command that runs
          done,      \* has it run for the last time?
          env        \* the values of the variables

shell == <<mode, boot, todo, alias, running, done, env>>

Init ==
  /\ mode = "boot" /\ boot = AutoCmds
  /\ todo = <<>> /\ alias = <<>>
  /\ running = NoCmd /\ done = FALSE
  /\ env \in [Vars -> UNION {Values[v] : v \in Vars}]
  /\ \A v \in Vars : env[v] \in Values[v]

Reached ==
  IF mode = "boot" THEN boot ELSE IF alias # <<>> THEN alias ELSE todo

MayTake == running = NoCmd /\ mode # "prompt" /\ Reached # <<>>

Take ==
  /\ boot'  = IF mode = "boot" THEN Tail(boot) ELSE boot
  /\ alias' = IF mode = "line" /\ alias # <<>> THEN Tail(alias) ELSE alias
  /\ todo'  = IF mode = "line" /\ alias = <<>> THEN Tail(todo) ELSE todo

\* What the text t may run: itself as it stands, or the one command that it
\* stands for.  A start-up command is one command: what follows are arguments.
Runnable(t) ==
  LET m == Meaning(t, env) IN
  Commands \cap
    ({Name(t)} \cup (IF Len(m) = 1 \/ (mode = "boot" /\ m # <<>>) THEN {Name(Head(m))} ELSE {}))

Run ==
  /\ MayTake /\ Take
  /\ running' \in Runnable(Head(Reached))
  /\ UNCHANGED <<mode, done, env>>

\* A text that runs no command: blank, or a request for help.
Skip ==
  /\ MayTake /\ Take
  /\ UNCHANGED <<mode, running, done, env>>

Expand ==
  /\ MayTake /\ mode = "line"
  /\ Len(Meaning(Head(Reached), env)) > 1
  /\ alias' = Meaning(Head(Reached), env)
  /\ todo' = IF alias = <<>> THEN Tail(todo) ELSE todo
  /\ UNCHANGED <<mode, boot, running, done, env>>

Drop == boot' = <<>> /\ todo' = <<>> /\ alias' = <<>>

\* The attempt to run a command fails.
Refuse ==
  /\ running = NoCmd /\ mode # "prompt"
  /\ Drop
  /\ mode' \in {mode, "prompt"}
  /\ UNCHANGED <<running, done, env>>

\* A command may set a variable each time it is called; it says when it has
\* been called for the last time and whether it has failed.
Work ==
  /\ running # NoCmd /\ ~done
  /\ done' \in BOOLEAN
  /\ \/ done' /\ Drop
     \/ UNCHANGED <<boot, todo, alias>>
  /\ env' \in {env} \cup UNION {{[env EXCEPT ![v] = s] : s \in Values[v]} : v \in Vars}
  /\ UNCHANGED <<mode, running>>

End ==
  /\ running # NoCmd /\ done
  /\ running' = NoCmd /\ done' = FALSE
  /\ UNCHANGED <<mode, boot, todo, alias, env>>

Prompt ==
  /\ mode # "prompt" /\ running = NoCmd
  /\ boot = <<>> /\ todo = <<>> /\ alias = <<>>
  /\ mode' = "prompt"
  /\ UNCHANGED <<boot, todo, alias, running, done, env>>

Enter ==
  /\ mode = "prompt"
  /\ \E l \in Lines : mode' = "line" /\ todo' = l
  /\ UNCHANGED <<boot, alias, running, done, env>>

Next == Run \/ Skip \/ Expand \/ Refuse \/ Work \/ End \/ Prompt \/ Enter

Spec == Init /\ [][Next]_shell
=============================================================================
