------------------------------ MODULE CliScheduler ------------------------------
(***************************************************************************)
(* The scheduler of the command line (scheduler.c) with the blocks it      *)
(* takes from the memory pool (cli_mpool.c): the commands of the start-up  *)
(* table, the lines split at && and the variables in them (cli_env.c), the *)
(* preparation of a command (cmd_dispose.c) and its life in cmd_run.       *)
(*                                                                         *)
(* Everything is done by one task, the one that loops over scheduler_task. *)
(* The texts are those of CliText.                                         *)
(***************************************************************************)
EXTENDS CliText, StateEngine, Integers, FiniteSets

CONSTANTS
  Legacy,           \* those with neither cmd_entry nor cmd_exit
  Bare,             \* those with no cmd_task
  OwnBuffer,        \* those with an arg_buf of their own
  Values,           \* the texts that each variable may be given
  Lines,            \* the lines that may be entered
  AutoCmds,         \* cli_auto_cmds
  Blank,            \* a command of no words
  NoCmd,            \* a NULL pointer to a command
  CLI_MPOOL_COUNT

Blocks == 0 .. CLI_MPOOL_COUNT - 1
NoBuf  == -1                          \* a NULL pointer to a block
Origin == -2                          \* the buffer of origin_cmd
Words  == Terms \cup {Blank}

ASSUME StateAssumption   == NoState \notin {"start", "auto_run", "get_char", "dispose", "cmd_run"}
ASSUME PoolAssumption    == CLI_MPOOL_COUNT \in Nat \ {0}
ASSUME CommandAssumption ==
  /\ Legacy \cup Bare \cup OwnBuffer \subseteq Commands
  /\ Commands \cap Vars = {} /\ Calls \cap (Commands \cup Vars) = {}
  /\ Blank \notin Terms /\ NoCmd \notin Words
ASSUME TextAssumption    ==
  /\ Lines \subseteq Seq(Words) /\ AutoCmds \in Seq(Words \cup {NoCmd})
  /\ DOMAIN Values = Vars
  /\ \A v \in Vars : Values[v] # {} /\ Values[v] \subseteq Seq(Terms)

VARIABLES
  eng,        \* scheduler_eng
  line,       \* origin_cmd.buf, from ENTER to the end of the line; then <<>>
  env,        \* the value of each variable
  ctx         \* cmd_ctx, the dyn_value of each variable and the bitmap of the pool

cliVars == <<eng, line, env, ctx>>

\* cmd_ret is TRUE when it is negative.  The rests of the chains are texts:
\* chain_p and sub_chain_p.  args is the block that argv points into.
CliContext ==
  [cmd_def : Commands \cup {NoCmd}, failed : BOOLEAN,
   chain_buf : Blocks \cup {NoBuf}, chain : Seq(Words),
   sub_chain_buf : Blocks \cup {NoBuf}, sub_chain : Seq(Words),
   auto_run_idx : 0 .. Len(AutoCmds), next_state : {"auto_run", "dispose"},
   env_buf : Blocks \cup {NoBuf}, arg_buf : Blocks \cup {NoBuf},
   args : Blocks \cup {NoBuf, Origin},
   dyn_value : [Vars -> Blocks \cup {NoBuf}], bitmap : SUBSET Blocks]

\* cli_mpool_alloc takes the lowest free block; cli_mpool_free(NULL) does nothing.
cli_mpool_alloc(c) ==
  LET free == Blocks \ c.bitmap IN
  IF free = {} THEN NoBuf ELSE CHOOSE b \in free : \A x \in free : b <= x
Marked(c, b)        == [c EXCEPT !.bitmap = @ \cup ({b} \ {NoBuf})]
cli_mpool_free(c, b) == [c EXCEPT !.bitmap = @ \ {b}]

\* Mutant: a clean-up that forgets the sub-chain.
CleanupMainChain(c) ==
  [c EXCEPT !.bitmap = @ \ {c.chain_buf, c.env_buf},
            !.chain_buf = NoBuf, !.chain = <<>>, !.env_buf = NoBuf]

scheduler_cleanup(c) ==
  [c EXCEPT !.bitmap = @ \ {c.chain_buf, c.sub_chain_buf, c.env_buf},
            !.chain_buf = NoBuf, !.chain = <<>>,
            !.sub_chain_buf = NoBuf, !.sub_chain = <<>>, !.env_buf = NoBuf]

CliInit ==
  /\ eng = engine_init("start")
  /\ line = <<>>
  /\ env \in [Vars -> UNION {Values[v] : v \in Vars}]
  /\ \A v \in Vars : env[v] \in Values[v]
  /\ ctx = [cmd_def |-> NoCmd, failed |-> FALSE,
            chain_buf |-> NoBuf, chain |-> <<>>,
            sub_chain_buf |-> NoBuf, sub_chain |-> <<>>,
            auto_run_idx |-> 0, next_state |-> "auto_run",
            env_buf |-> NoBuf, arg_buf |-> NoBuf, args |-> NoBuf,
            dyn_value |-> [v \in Vars |-> NoBuf], bitmap |-> {}]

Goto(s) == eng' = state_switch(eng, s)

(***************************************************************************)
(* The preparation of a command (cmd_parse_prepare).                       *)
(***************************************************************************)

\* alloc_help_marks: a block for each mark of an option, or none for either.
NoMarks == <<NoBuf, NoBuf>>
alloc_help_marks(c) ==
  LET req == cli_mpool_alloc(c)
      dep == cli_mpool_alloc(Marked(c, req))
  IN IF req # NoBuf /\ dep # NoBuf THEN <<req, dep>> ELSE NoMarks

\* cli_print_help gives the marks back; without them it prints nothing.
cli_print_help(c) ==
  LET m == alloc_help_marks(c) IN
  cli_mpool_free(cli_mpool_free(Marked(Marked(c, m[1]), m[2]), m[1]), m[2])

\* dispose_exit with cmd_ret 0 for a blank command ("nothing") and for -h
\* ("helped", or "silent" for want of blocks), with -1 when "refused"; "misread"
\* is an error of cli_auto_parse.  Which of them it is depends on the arguments,
\* on the user and on the pool.
Outcomes(c, w) ==
  CASE w = Blank       -> {"nothing"}
    [] w \in Commands  -> {"refused", IF alloc_help_marks(c) = NoMarks THEN "silent" ELSE "helped"}
                          \cup (IF w \in OwnBuffer \/ cli_mpool_alloc(c) # NoBuf
                                THEN {"misread", "ready"} ELSE {})
    [] OTHER           -> {"refused"}

cmd_parse_cleanup(c) == [cli_mpool_free(c, c.arg_buf) EXCEPT !.arg_buf = NoBuf]

cmd_parse_prepare(c, w, o, args) ==
  LET b == IF w \in OwnBuffer THEN NoBuf ELSE cli_mpool_alloc(c) IN
  CASE o = "nothing"              -> [c EXCEPT !.failed = FALSE]
    [] o \in {"helped", "silent"} -> [cli_print_help(c) EXCEPT !.failed = FALSE]
    [] o = "ready" -> [Marked(c, b) EXCEPT !.cmd_def = w, !.arg_buf = b, !.args = args]
    [] OTHER       -> [c EXCEPT !.failed = TRUE]

(***************************************************************************)
(* The states of the scheduler.                                            *)
(***************************************************************************)

scheduler_cmd_run_exit(c) ==
  [cli_mpool_free(cmd_parse_cleanup(c), c.env_buf) EXCEPT
     !.cmd_def = NoCmd, !.env_buf = NoBuf, !.args = NoBuf]

SwitchState ==
  /\ MustSwitch(eng)
  /\ eng' = Switched(eng)
  /\ ctx' = IF eng.from = "cmd_run" THEN scheduler_cmd_run_exit(ctx) ELSE ctx
  /\ UNCHANGED <<line, env>>

Start ==
  /\ RunsTask(eng, "start")
  /\ Goto("auto_run")
  /\ UNCHANGED <<line, env, ctx>>

AutoRunAborts == ctx.auto_run_idx > 0 /\ ctx.failed
AutoRunOver   == AutoRunAborts \/ ctx.auto_run_idx >= Len(AutoCmds)

AutoRunExit ==
  /\ RunsTask(eng, "auto_run") /\ AutoRunOver
  /\ Goto("get_char")
  /\ ctx' = [ctx EXCEPT !.auto_run_idx = 0]
  /\ UNCHANGED <<line, env>>

\* cli_auto_cmds holds the words of one command: after auto_run_env_replace
\* the words behind && in the value of a variable are its arguments.
AutoRunReadings(w) ==
  {Name(w)} \cup (IF w \in Vars /\ cli_mpool_alloc(ctx) # NoBuf
                  THEN {IF env[w] = <<>> THEN Blank ELSE Name(Head(env[w]))} ELSE {})

AutoRunCommand ==
  /\ RunsTask(eng, "auto_run") /\ ~AutoRunOver
  /\ LET cmd == AutoCmds[ctx.auto_run_idx + 1]
         c   == [ctx EXCEPT !.auto_run_idx = @ + 1]
     IN \/ cmd = NoCmd /\ ctx' = c /\ UNCHANGED eng
        \/ /\ cmd # NoCmd
           /\ \E w \in AutoRunReadings(cmd) : \E o \in Outcomes(c, w) :
                /\ ctx' = [cmd_parse_prepare(c, w, o, Origin) EXCEPT
                             !.next_state = IF o = "ready" THEN "auto_run" ELSE @]
                /\ IF o = "ready" THEN Goto("cmd_run") ELSE UNCHANGED eng
  /\ UNCHANGED <<line, env>>

Enter ==
  /\ RunsTask(eng, "get_char")
  /\ \E l \in Lines : line' = l
  /\ Goto("dispose")
  /\ UNCHANGED <<env, ctx>>

\* should_dispose_exit: the line moves to a block of the pool.
Opened ==
  LET b == cli_mpool_alloc(ctx) IN
  IF ctx.chain_buf # NoBuf \/ line = <<>> \/ b = NoBuf THEN ctx
  ELSE [Marked(ctx, b) EXCEPT !.chain_buf = b, !.chain = line, !.failed = FALSE]

\* extract_next_cmd: only blanks are left.
Spent(text) == text = <<>> \/ text = <<Blank>>

\* Mutant: the old sub-chain is dropped without being freed.
ForgetSubChain(c) == [c EXCEPT !.sub_chain_buf = NoBuf, !.sub_chain = <<>>]

FreeSubChain(c) ==
  [cli_mpool_free(c, c.sub_chain_buf) EXCEPT !.sub_chain_buf = NoBuf, !.sub_chain = <<>>]

\* The context in which the next command is extracted, and where it is.
Extracting ==
  IF Opened.sub_chain_buf # NoBuf /\ Spent(Opened.sub_chain)
  THEN FreeSubChain(Opened) ELSE Opened
InSubChain == Extracting.sub_chain_buf # NoBuf
Word   == IF InSubChain THEN Head(Extracting.sub_chain) ELSE Head(Extracting.chain)
Source == IF InSubChain THEN Extracting.sub_chain_buf ELSE Extracting.chain_buf
\* Mutant: the chain pointer does not move on.
ExtractedInPlace ==
  IF InSubChain THEN [Extracting EXCEPT !.sub_chain = Tail(@)] ELSE Extracting

Extracted ==
  IF InSubChain THEN [Extracting EXCEPT !.sub_chain = Tail(@)]
                ELSE [Extracting EXCEPT !.chain = Tail(@)]

NoLine   == Opened.chain_buf = NoBuf
\* Mutant: the line goes on after a failure.
LineOverAtEnd == ~InSubChain /\ Spent(Extracting.chain)

LineOver == Opened.failed \/ (~InSubChain /\ Spent(Extracting.chain))

LeaveLine(c) ==
  /\ Goto("get_char")
  /\ line' = <<>>
  /\ ctx' = c
  /\ UNCHANGED env

DisposeExit ==
  /\ RunsTask(eng, "dispose")
  /\ \/ NoLine /\ LeaveLine(Opened)
     \/ ~NoLine /\ LineOver /\ LeaveLine(scheduler_cleanup(Opened))

HasCommand == RunsTask(eng, "dispose") /\ ~NoLine /\ ~LineOver

\* apply_env_replace: the block that the text with its variables replaced is in.
EnvBuf   == cli_mpool_alloc(Extracted)
Replaced == Marked(Extracted, EnvBuf)
Replacement == Meaning(Word, env)

\* dispose_fail; nothing has been prepared when a preparation fails.
DisposeFail(c) == LeaveLine(scheduler_cleanup(c))

DisposeNoMemory ==
  /\ HasCommand /\ EnvBuf = NoBuf
  /\ DisposeFail(Extracted)

\* try_sub_chain: there is a && in the text.
DisposeExpand ==
  /\ HasCommand /\ EnvBuf # NoBuf
  /\ Len(Replacement) > 1
  /\ ctx' = [FreeSubChain(Replaced) EXCEPT !.sub_chain_buf = EnvBuf, !.sub_chain = Replacement]
  /\ UNCHANGED <<eng, line, env>>

\* Is the command dispatched from env_buf, or as it stands?  A blank one, and
\* one whose replacement is empty or does not fit, is as it stands.
InEnvBuf  == {FALSE} \cup (IF Word # Blank /\ Len(Replacement) = 1 THEN {TRUE} ELSE {})
Dispatched(inEnv) == Name(IF inEnv THEN Head(Replacement) ELSE Word)

CLI_OK == 0
dispatch_ret(o) == IF o = "misread" THEN -1 ELSE IF o = "ready" THEN CLI_OK ELSE 0

\* Mutant: the buffer is freed after a failure only.
FreeAfterFailure(c, ret, env_buf) == IF ret < 0 THEN cli_mpool_free(c, env_buf) ELSE c

handle_dispatch_result(c, ret, env_buf) ==
  IF ret <= 0 THEN cli_mpool_free(c, env_buf) ELSE [c EXCEPT !.env_buf = env_buf]

DisposeDispatch ==
  /\ HasCommand /\ EnvBuf # NoBuf
  /\ \E inEnv \in InEnvBuf :
       LET held == IF inEnv THEN EnvBuf ELSE NoBuf
           c    == IF inEnv THEN Replaced ELSE Extracted
       IN \E o \in Outcomes(c, Dispatched(inEnv)) :
            LET p == cmd_parse_prepare(c, Dispatched(inEnv), o, IF inEnv THEN EnvBuf ELSE Source)
                d == handle_dispatch_result(p, dispatch_ret(o), held)
            IN CASE o = "misread" -> DisposeFail(d)
                 [] o = "ready"   -> /\ Goto("cmd_run")
                                     /\ ctx' = [d EXCEPT !.next_state = "dispose"]
                                     /\ UNCHANGED <<line, env>>
                 [] OTHER         -> ctx' = d /\ UNCHANGED <<eng, line, env>>

(***************************************************************************)
(* The command runs.                                                       *)
(***************************************************************************)

\* A call of cmd_task with its result; it may set variables (cli_env_set).
CallCommand(result) ==
  /\ RunsTask(eng, "cmd_run")
  /\ ctx.cmd_def \in Commands \ Bare
  /\ LET b == cli_mpool_alloc(ctx)
         c == [ctx EXCEPT !.failed = (result = "fail")]
     IN \/ ctx' = c /\ UNCHANGED env
        \/ /\ b # NoBuf
           /\ \E v \in Vars : \E s \in Values[v] :
                /\ env' = [env EXCEPT ![v] = s]
                /\ ctx' = [cli_mpool_free(Marked(c, b), c.dyn_value[v]) EXCEPT !.dyn_value[v] = b]
  /\ IF result = "continue" /\ ctx.cmd_def \notin Legacy
     THEN UNCHANGED eng ELSE Goto(ctx.next_state)
  /\ UNCHANGED line

CallBare ==
  /\ RunsTask(eng, "cmd_run")
  /\ ctx.cmd_def \in Bare \cup {NoCmd}
  /\ Goto(ctx.next_state)
  /\ UNCHANGED <<line, env, ctx>>

FinishCommand == \E result \in {"fail", "ok"} : CallCommand(result)

(***************************************************************************)
(* The specification.  scheduler_task is called over and over, so no task  *)
(* is left waiting; that a command ends at last is up to the command.      *)
(***************************************************************************)

SchedulerRun ==
  \/ SwitchState \/ Start \/ AutoRunExit \/ AutoRunCommand
  \/ DisposeExit \/ DisposeNoMemory \/ DisposeExpand \/ DisposeDispatch
  \/ CallBare \/ FinishCommand

CliNext == SchedulerRun \/ Enter \/ CallCommand("continue")

CliSpec     == CliInit /\ [][CliNext]_cliVars
CliFairSpec == CliSpec /\ WF_cliVars(SchedulerRun)

(***************************************************************************)
(* Properties.                                                             *)
(***************************************************************************)

CliTypeOK ==
  /\ eng \in [from : {NoState, "start", "auto_run", "get_char", "dispose", "cmd_run"},
             to : {"start", "auto_run", "get_char", "dispose", "cmd_run"}]
  /\ line \in Seq(Words)
  /\ env \in [Vars -> Seq(Terms)]
  /\ ctx \in CliContext

\* The places that hold a block.
Holders(c) ==
  <<c.chain_buf, c.sub_chain_buf, c.env_buf, c.arg_buf>>

\* No block leaks and none is shared: the marked blocks of the pool are the
\* ones that the context and the variables hold, each held in one place
\* (scheduler.c frees at eleven places; cmd_dispose.c and cli_env.c at two more).
BlocksAreOwned ==
  /\ CliTypeOK
  /\ ctx.bitmap = ({Holders(ctx)[i] : i \in 1..4} \cup {ctx.dyn_value[v] : v \in Vars}) \ {NoBuf}
  /\ \A i, j \in 1..4 : Holders(ctx)[i] = Holders(ctx)[j] /\ Holders(ctx)[i] # NoBuf => i = j
  /\ \A v, w \in Vars : ctx.dyn_value[v] = ctx.dyn_value[w] /\ ctx.dyn_value[v] # NoBuf => v = w
  /\ \A i \in 1..4, v \in Vars : Holders(ctx)[i] = ctx.dyn_value[v] => ctx.dyn_value[v] = NoBuf

\* At the prompt a line has left nothing behind: no command, no chain, and no
\* block but those of the variables.
PromptHoldsNothing ==
  RunsTask(eng, "get_char") =>
    /\ ctx.cmd_def = NoCmd
    /\ \A i \in 1..4 : Holders(ctx)[i] = NoBuf
    /\ ctx.bitmap = {ctx.dyn_value[v] : v \in Vars} \ {NoBuf}

\* Are n blocks left beside those of the variables?
Spare(n) == Cardinality({ctx.dyn_value[v] : v \in Vars} \ {NoBuf}) + n <= CLI_MPOOL_COUNT

\* With four blocks to spare no command, cli_env_set or start-up help fails for
\* want of memory; help on a line needs a fifth (alloc_help_marks beside the
\* chain, the sub-chain and env_buf), without which it prints nothing.
NeverOutOfBlocks ==
  /\ Spare(4) =>
       /\ HasCommand => cli_mpool_alloc(Replaced) # NoBuf
       /\ RunsTask(eng, "cmd_run") => cli_mpool_alloc(ctx) # NoBuf
       /\ RunsTask(eng, "auto_run") => alloc_help_marks(ctx) # NoMarks
  /\ Spare(5) /\ HasCommand => alloc_help_marks(Replaced) # NoMarks

\* The prompt comes back, after the start-up table and after every line, as long
\* as no variable stands, through others, for a text it is part of itself.
PromptReturns == eng.from # "get_char" ~> RunsTask(eng, "get_char")

(***************************************************************************)
(* What the scheduler promises.                                            *)
(***************************************************************************)

Mode ==
  CASE eng.to \in {"start", "auto_run"} -> "boot"
    [] eng.to = "get_char"              -> "prompt"
    [] eng.to = "dispose"               -> "line"
    [] OTHER -> IF ctx.next_state = "auto_run" THEN "boot" ELSE "line"

\* What is left to extract of a text; a blank end is not.
Left(text) ==
  IF text # <<>> /\ text[Len(text)] = Blank THEN SubSeq(text, 1, Len(text) - 1) ELSE text

Boot ==
  IF Mode # "boot" \/ AutoRunAborts THEN <<>>
  ELSE SubSeq(AutoCmds, ctx.auto_run_idx + 1, Len(AutoCmds))

Todo ==
  IF Mode # "line" \/ (ctx.chain_buf # NoBuf /\ ctx.failed) THEN <<>>
  ELSE Left(IF ctx.chain_buf = NoBuf THEN line ELSE ctx.chain)

Alias == IF ctx.failed THEN <<>> ELSE Left(ctx.sub_chain)

Called == eng.from = "cmd_run" /\ eng.to # "cmd_run"

Shell == INSTANCE CommandLine WITH
  Lines <- {Left(l) : l \in Lines}, mode <- Mode, boot <- Boot, todo <- Todo,
  alias <- Alias, running <- ctx.cmd_def, done <- Called

\* Commands run one at a time, in the order in which the line or the start-up
\* table gives them, none again after its last call and none after a failure.
RunsTheCommandLine == Shell!Spec

\* "环境变量替换缓冲区，在 cmd_run_exit 中释放" (scheduler.c:155): the text that the
\* arguments of a command point into stays allocated until the command ends.
ArgsStayAllocated ==
  ctx.args \in Blocks => ctx.args \in {ctx.chain_buf, ctx.sub_chain_buf, ctx.env_buf}
=============================================================================
