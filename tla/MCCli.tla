--------------------------------- MODULE MCCli ---------------------------------
(***************************************************************************)
(* Instances of CliScheduler for TLC.  The command ls is an ordinary one,  *)
(* su is staged, fix has an argument buffer of its own and null has no     *)
(* cmd_task.  The variable x may stand for a chain that goes on with y;    *)
(* one line has x among the arguments of ls, and so has the start-up table.*)
(***************************************************************************)
EXTENDS CliScheduler

CONSTANTS ls, su, fix, null, x, y, z

MCValues ==
  [v \in {x, y, z} |->
     CASE v = x -> {<<y, su>>, <<ls>>} [] v = y -> {<<fix, ls>>} [] v = z -> {<<>>, <<su>>}]
MCLines    == {<<>>, <<Blank>>, <<x, null>>, <<ls, Blank, su, Blank>>, <<<<ls, x>>, z>>}
MCAutoCmds == <<x, NoCmd, <<fix, x>>>>
=============================================================================
