-------------------------------- MODULE CliText --------------------------------
(***************************************************************************)
(* The texts of the command line: what extract_next_cmd, do_substitution   *)
(* and tokenize see of them (scheduler.c, cli_env.c, cmd_dispose.c).       *)
(*                                                                         *)
(* A text is a sequence of commands, those that && separates.  A command   *)
(* is a name of the command table, alone or with a reference to a variable *)
(* among its arguments; a reference to a variable alone; or blank.  Other  *)
(* arguments are left out.                                                 *)
(***************************************************************************)
EXTENDS Sequences

CONSTANTS
  Commands,         \* the names in the command table
  Vars              \* the environment variables (CLI_ENV)

Calls == Commands \X Vars
Terms == Commands \cup Vars \cup Calls

\* argv[0] of a command: tokenize cuts its arguments off.
Name(t) == IF t \in Calls THEN t[1] ELSE t

\* The command t behind "cmd ": its words become arguments of cmd.
AsArgument(cmd, t) ==
  IF t \in Vars THEN <<cmd, t>> ELSE IF t \in Calls THEN <<cmd, t[2]>> ELSE cmd

\* do_substitution: the text with its variable replaced by its value.  A value
\* behind a command gives it arguments as far as the first &&.
Meaning(t, values) ==
  CASE t \in Vars  -> values[t]
    [] t \in Calls -> LET v == values[t[2]] IN
                      IF v = <<>> THEN <<t[1]>> ELSE [v EXCEPT ![1] = AsArgument(t[1], @)]
    [] OTHER       -> <<t>>
=============================================================================
