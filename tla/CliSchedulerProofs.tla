-------------------------- MODULE CliSchedulerProofs --------------------------
(***************************************************************************)
(* Theorems about CliScheduler, for any command table, start-up table,     *)
(* lines, variables and number of blocks: no block of the pool leaks or is *)
(* held twice, and a line leaves nothing behind at the prompt.             *)
(*                                                                         *)
(* OwnedBy is BlocksAreOwned of a context, and that env_buf is never used: *)
(* every operator that takes or gives back blocks is shown to preserve it. *)
(* Held says in which states of the scheduler which block may be held.     *)
(***************************************************************************)
EXTENDS CliScheduler, ListLemmas, FiniteSetTheorems

OwnedBy(c) ==
  /\ c.bitmap = ({c.chain_buf, c.sub_chain_buf, c.env_buf, c.arg_buf}
                 \cup {c.dyn_value[v] : v \in Vars}) \ {NoBuf}
  /\ c.chain_buf # NoBuf => c.chain_buf \notin {c.sub_chain_buf, c.env_buf, c.arg_buf}
  /\ c.sub_chain_buf # NoBuf => c.sub_chain_buf \notin {c.env_buf, c.arg_buf}
  /\ c.env_buf # NoBuf => c.env_buf # c.arg_buf
  /\ \A v, w \in Vars : c.dyn_value[v] = c.dyn_value[w] /\ c.dyn_value[v] # NoBuf => v = w
  /\ \A v \in Vars : c.dyn_value[v] \in {c.chain_buf, c.sub_chain_buf, c.env_buf, c.arg_buf}
                       => c.dyn_value[v] = NoBuf
  /\ c.env_buf = NoBuf

Good(c) == c \in CliContext /\ OwnedBy(c)

\* No command is being run, or is prepared to.
Idle(c) == c.cmd_def = NoCmd /\ c.arg_buf = NoBuf /\ c.env_buf = NoBuf

\* No line is being run.
NoChain(c) == c.chain_buf = NoBuf /\ c.sub_chain_buf = NoBuf

Held ==
  /\ eng.from # "cmd_run" /\ eng.to # "cmd_run" => Idle(ctx)
  /\ eng.to \in {"start", "auto_run", "get_char"} \/ (eng.to = "cmd_run" /\ ctx.next_state = "auto_run")
       => NoChain(ctx)
  /\ ctx.chain_buf = NoBuf => ctx.sub_chain_buf = NoBuf

CliInv == CliTypeOK /\ OwnedBy(ctx) /\ Held

-----------------------------------------------------------------------------
\* Blocks

LEMMA BlockFacts ==
  /\ CLI_MPOOL_COUNT \in Nat \ {0} /\ Blocks \subseteq Nat
  /\ NoBuf \notin Blocks /\ Origin \notin Blocks /\ NoBuf # Origin
  BY PoolAssumption DEF Blocks, NoBuf, Origin

LEMMA EmptyText == <<>> \in Seq(Words)
  BY EmptySeq

\* The value of a variable is a text, and so is one that gives a command its arguments.
LEMMA MeaningIsText ==
  ASSUME NEW values \in [Vars -> Seq(Terms)], NEW t \in Terms
  PROVE  Meaning(t, values) \in Seq(Terms)
<1>1. CASE t \in Vars
  <2>1. t \notin Calls
    BY <1>1, CommandAssumption
  <2>2. Meaning(t, values) = values[t]
    BY <1>1, <2>1, Zenon DEF Meaning
  <2> QED BY <1>1, <2>2
<1>2. CASE t \in Calls /\ t \notin Vars
  <2> DEFINE v == values[t[2]]
             a == AsArgument(t[1], v[1])
  <2>1. t[1] \in Commands /\ t[2] \in Vars
    BY <1>2 DEF Calls
  <2>2. v \in Seq(Terms)
    BY <2>1
  <2>3. CASE v = <<>>
    <3>1. Meaning(t, values) = <<t[1]>> /\ t[1] \in Terms
      BY <1>2, <2>1, <2>3 DEF Meaning, Terms
    <3> QED BY <3>1
  <2>4. CASE v # <<>>
    <3>1. Meaning(t, values) = [v EXCEPT ![1] = a]
      BY <1>2, <2>4 DEF Meaning
    <3>2. a \in Terms
      BY <2>1 DEF AsArgument, Terms, Calls
    <3>3. 1 \in 1 .. Len(v)
      BY <2>2, <2>4, EmptySeq, LenProperties
    <3> HIDE DEF v, a
    <3> QED BY <2>2, <3>1, <3>2, <3>3, ExceptSeq
  <2> QED BY <2>3, <2>4
<1>3. CASE t \notin Vars /\ t \notin Calls
  BY <1>3 DEF Meaning
<1> QED BY <1>1, <1>2, <1>3

\* What is dispatched is the name of a command, of a variable, or blank.
LEMMA NameIsWord ==
  ASSUME NEW t \in Words
  PROVE  Name(t) \in Words
BY DEF Name, Words, Terms, Calls

\* cli_mpool_alloc returns a free block, or none.
LEMMA Allocated ==
  ASSUME NEW c
  PROVE  /\ cli_mpool_alloc(c) # NoBuf => cli_mpool_alloc(c) \in Blocks \ c.bitmap
         /\ Blocks \ c.bitmap # {} => cli_mpool_alloc(c) # NoBuf
<1> DEFINE free == Blocks \ c.bitmap
<1>1. CASE free = {}
  BY <1>1 DEF cli_mpool_alloc
<1>2. CASE free # {}
  <2>1. free \in SUBSET Nat
    BY BlockFacts
  <2>2. Min(free) \in free /\ \A y \in free : Min(free) <= y
    <3> HIDE DEF free
    <3> QED BY <1>2, <2>1, MinElement
  <2>3. (CHOOSE b \in free : \A x \in free : b <= x) \in free
    BY <2>2
  <2> QED BY <1>2, <2>3, BlockFacts DEF cli_mpool_alloc
<1> QED BY <1>1, <1>2

\* A request for help gives back the blocks it takes.
LEMMA HelpGivesBack ==
  ASSUME NEW c \in CliContext
  PROVE  cli_print_help(c) = c
<1> DEFINE r == cli_mpool_alloc(c)
           d == cli_mpool_alloc(Marked(c, r))
           m == alloc_help_marks(c)
<1>1. r # NoBuf => r \in Blocks \ c.bitmap
  BY Allocated
<1>2. d # NoBuf => d \in Blocks \ Marked(c, r).bitmap
  BY Allocated
<1>3. Marked(c, r).bitmap = c.bitmap \cup ({r} \ {NoBuf})
  BY DEF Marked, CliContext
<1>4. m = IF r # NoBuf /\ d # NoBuf THEN <<r, d>> ELSE NoMarks
  BY Zenon DEF alloc_help_marks
<1> HIDE DEF r, d, m
<1>5. m[1] \notin c.bitmap /\ m[2] \notin c.bitmap
  <2>1. NoBuf \notin c.bitmap
    BY BlockFacts DEF CliContext
  <2> QED BY <1>1, <1>2, <1>3, <1>4, <2>1 DEF NoMarks
<1> DEFINE m1 == m[1]
           m2 == m[2]
<1>6. cli_print_help(c) = cli_mpool_free(cli_mpool_free(Marked(Marked(c, m1), m2), m1), m2)
  BY Zenon DEF cli_print_help, m
<1>7. m1 \notin c.bitmap /\ m2 \notin c.bitmap
  BY <1>5
<1> HIDE DEF m1, m2
<1> DEFINE b == (((c.bitmap \cup ({m1} \ {NoBuf})) \cup ({m2} \ {NoBuf})) \ {m1}) \ {m2}
<1>8. cli_print_help(c) = [c EXCEPT !.bitmap = b]
  <2> DEFINE b1 == c.bitmap \cup ({m1} \ {NoBuf})
             b2 == b1 \cup ({m2} \ {NoBuf})
             b3 == b2 \ {m1}
  <2>1. /\ Marked(c, m1) = [c EXCEPT !.bitmap = b1] /\ Marked([c EXCEPT !.bitmap = b1], m2) = [c EXCEPT !.bitmap = b2]
        /\ cli_mpool_free([c EXCEPT !.bitmap = b2], m1) = [c EXCEPT !.bitmap = b3]
        /\ cli_mpool_free([c EXCEPT !.bitmap = b3], m2) = [c EXCEPT !.bitmap = b]
    BY DEF cli_mpool_free, Marked, CliContext
  <2> HIDE DEF b1, b2, b3, b
  <2> QED BY <1>6, <2>1
<1>9. b = c.bitmap
  <2>1. \A x : x \in b <=> x \in c.bitmap
    BY <1>7
  <2> HIDE DEF b
  <2> QED BY <2>1
<1>10. [c EXCEPT !.bitmap = c.bitmap] = c
  BY DEF CliContext
<1> QED BY <1>8, <1>9, <1>10

LEMMA CleanupGood ==
  ASSUME NEW c, Good(c)
  PROVE  /\ Good(scheduler_cleanup(c)) /\ NoChain(scheduler_cleanup(c))
         /\ Idle(c) => Idle(scheduler_cleanup(c))
<1> DEFINE d == scheduler_cleanup(c)
<1>1. d \in CliContext
  BY BlockFacts, EmptyText DEF Good, CliContext, scheduler_cleanup
<1>2. /\ d.bitmap = c.bitmap \ {c.chain_buf, c.sub_chain_buf, c.env_buf}
      /\ NoChain(d) /\ d.env_buf = NoBuf
      /\ d.arg_buf = c.arg_buf /\ d.dyn_value = c.dyn_value /\ d.cmd_def = c.cmd_def
  BY DEF Good, CliContext, scheduler_cleanup, NoChain
<1> HIDE DEF d
<1>3. OwnedBy(d)
  BY <1>2 DEF Good, OwnedBy, NoChain
<1> QED BY <1>1, <1>2, <1>3 DEF Good, Idle, d

LEMMA RunExitGood ==
  ASSUME NEW c, Good(c)
  PROVE  LET d == scheduler_cmd_run_exit(c)
         IN /\ Good(d) /\ Idle(d)
            /\ d.chain_buf = c.chain_buf /\ d.sub_chain_buf = c.sub_chain_buf
<1> DEFINE d == scheduler_cmd_run_exit(c)
<1>1. d \in CliContext
  BY BlockFacts DEF Good, CliContext, scheduler_cmd_run_exit, cmd_parse_cleanup, cli_mpool_free
<1>2. /\ d.bitmap = c.bitmap \ {c.arg_buf, c.env_buf}
      /\ d.env_buf = NoBuf /\ d.arg_buf = NoBuf /\ d.cmd_def = NoCmd
      /\ d.chain_buf = c.chain_buf /\ d.sub_chain_buf = c.sub_chain_buf
      /\ d.dyn_value = c.dyn_value
  BY DEF Good, CliContext, scheduler_cmd_run_exit, cmd_parse_cleanup, cli_mpool_free
<1> HIDE DEF d
<1>3. OwnedBy(d)
  BY <1>2 DEF Good, OwnedBy
<1> QED BY <1>1, <1>2, <1>3 DEF Good, Idle, d

LEMMA FreeSubChainGood ==
  ASSUME NEW c, Good(c)
  PROVE  /\ Good(FreeSubChain(c)) /\ FreeSubChain(c).sub_chain_buf = NoBuf
         /\ FreeSubChain(c).chain_buf = c.chain_buf
         /\ Idle(c) => Idle(FreeSubChain(c))
<1> DEFINE d == FreeSubChain(c)
<1>1. d \in CliContext
  BY BlockFacts, EmptyText DEF Good, CliContext, FreeSubChain, cli_mpool_free
<1>2. /\ d.bitmap = c.bitmap \ {c.sub_chain_buf}
      /\ d.sub_chain_buf = NoBuf /\ d.chain_buf = c.chain_buf
      /\ d.env_buf = c.env_buf /\ d.arg_buf = c.arg_buf /\ d.cmd_def = c.cmd_def
      /\ d.dyn_value = c.dyn_value
  BY DEF Good, CliContext, FreeSubChain, cli_mpool_free
<1> HIDE DEF d
<1>3. OwnedBy(d)
  BY <1>2 DEF Good, OwnedBy
<1> QED BY <1>1, <1>2, <1>3 DEF Good, Idle, d

\* A preparation that is ready takes a free block for arg_buf, or none when the command has
\* its own; another changes nothing that holds a block.
LEMMA Prepared ==
  ASSUME NEW c \in CliContext, NEW w \in Words,
         NEW a \in Blocks \cup {NoBuf, Origin}, NEW o \in Outcomes(c, w)
  PROVE  LET d == cmd_parse_prepare(c, w, o, a)
         IN /\ d \in CliContext
            /\ d.chain_buf = c.chain_buf /\ d.sub_chain_buf = c.sub_chain_buf
            /\ d.env_buf = c.env_buf /\ d.dyn_value = c.dyn_value
            /\ d.next_state = c.next_state
            /\ o = "ready" => \E b \in (Blocks \ c.bitmap) \cup {NoBuf} :
                                d.arg_buf = b /\ d.bitmap = c.bitmap \cup ({b} \ {NoBuf})
            /\ o # "ready" => /\ d.arg_buf = c.arg_buf /\ d.cmd_def = c.cmd_def
                              /\ d.bitmap = c.bitmap
<1> DEFINE d == cmd_parse_prepare(c, w, o, a)
           b == IF w \in OwnBuffer THEN NoBuf ELSE cli_mpool_alloc(c)
<1>1. b \in (Blocks \ c.bitmap) \cup {NoBuf}
  BY Allocated
<1>2. o = "ready" => w \in Commands
  BY DEF Outcomes
<1>3. CASE o = "ready"
  <2>1. d = [Marked(c, b) EXCEPT !.cmd_def = w, !.arg_buf = b, !.args = a]
    BY <1>3 DEF cmd_parse_prepare
  <2> HIDE DEF b
  <2> DEFINE m == c.bitmap \cup ({b} \ {NoBuf})
             d1 == [c EXCEPT !.bitmap = m, !.arg_buf = b]
             d2 == [d1 EXCEPT !.cmd_def = w]
  <2>2. m \in SUBSET Blocks /\ b \in Blocks \cup {NoBuf} /\ w \in Commands
    BY <1>1, <1>2, <1>3 DEF CliContext
  <2>3. d = [c EXCEPT !.bitmap = m, !.cmd_def = w, !.arg_buf = b, !.args = a]
    BY <2>1 DEF Marked, CliContext
  <2>4. d \in CliContext
    <3> HIDE DEF m, d
    <3>1. d1 \in CliContext
      BY <2>2 DEF CliContext
    <3>2. d2 \in CliContext
      <4> HIDE DEF d1
      <4> QED BY <2>2, <3>1 DEF CliContext
    <3>3. d = [d2 EXCEPT !.args = a]
      BY <2>3 DEF CliContext
    <3> HIDE DEF d1, d2
    <3>4. [d2 EXCEPT !.args = a] \in CliContext
      BY <3>2 DEF CliContext
    <3> QED BY <3>3, <3>4
  <2>5. /\ d.bitmap = c.bitmap \cup ({b} \ {NoBuf}) /\ d.arg_buf = b
        /\ d.chain_buf = c.chain_buf /\ d.sub_chain_buf = c.sub_chain_buf
        /\ d.env_buf = c.env_buf /\ d.next_state = c.next_state
        /\ d.dyn_value = c.dyn_value
    BY <2>1 DEF CliContext, Marked
  <2> HIDE DEF d
  <2> QED BY <1>1, <1>3, <2>4, <2>5 DEF d
<1>4. CASE o # "ready"
  <2>1. PICK f \in BOOLEAN : d = [c EXCEPT !.failed = f]
    BY <1>4, HelpGivesBack DEF cmd_parse_prepare
  <2> HIDE DEF b, d
  <2>2. d \in CliContext
    BY <2>1 DEF CliContext
  <2>3. /\ d.bitmap = c.bitmap /\ d.arg_buf = c.arg_buf /\ d.cmd_def = c.cmd_def
        /\ d.chain_buf = c.chain_buf /\ d.sub_chain_buf = c.sub_chain_buf
        /\ d.env_buf = c.env_buf /\ d.next_state = c.next_state
        /\ d.dyn_value = c.dyn_value
    BY <2>1 DEF CliContext
  <2> QED BY <1>4, <2>2, <2>3 DEF d
<1> QED BY <1>3, <1>4

LEMMA PreparedGood ==
  ASSUME NEW c, Good(c), c.arg_buf = NoBuf, NEW w \in Words,
         NEW a \in Blocks \cup {NoBuf, Origin}, NEW o \in Outcomes(c, w)
  PROVE  Good(cmd_parse_prepare(c, w, o, a))
<1> DEFINE d == cmd_parse_prepare(c, w, o, a)
<1>1. /\ d \in CliContext
      /\ d.chain_buf = c.chain_buf /\ d.sub_chain_buf = c.sub_chain_buf
      /\ d.env_buf = c.env_buf /\ d.dyn_value = c.dyn_value
      /\ \E b \in (Blocks \ c.bitmap) \cup {NoBuf} :
           d.arg_buf = b /\ d.bitmap = c.bitmap \cup ({b} \ {NoBuf})
  <2>1. c \in CliContext
    BY DEF Good
  <2> QED BY <2>1, Prepared
<1> HIDE DEF d
<1>2. PICK b \in (Blocks \ c.bitmap) \cup {NoBuf} :
           d.arg_buf = b /\ d.bitmap = c.bitmap \cup ({b} \ {NoBuf})
  BY <1>1
<1>3. OwnedBy(d)
  BY <1>1, <1>2 DEF Good, OwnedBy
<1> QED BY <1>1, <1>3 DEF Good, d

-----------------------------------------------------------------------------
\* The line in hand

\* should_dispose_exit takes a block for the line when there is none.
LEMMA OpenedGood ==
  ASSUME CliInv, RunsTask(eng, "dispose")
  PROVE  /\ Good(Opened) /\ Idle(Opened)
         /\ Opened.chain_buf = NoBuf => Opened.sub_chain_buf = NoBuf
<1> DEFINE b == cli_mpool_alloc(ctx)
<1>1. Good(ctx) /\ Idle(ctx) /\ (ctx.chain_buf = NoBuf => ctx.sub_chain_buf = NoBuf)
  BY DEF CliInv, CliTypeOK, Good, Held, RunsTask
<1>2. CASE ctx.chain_buf # NoBuf \/ line = <<>> \/ b = NoBuf
  BY <1>1, <1>2 DEF Opened
<1>3. CASE ~(ctx.chain_buf # NoBuf \/ line = <<>> \/ b = NoBuf)
  <2>1. b \in Blocks \ ctx.bitmap
    BY <1>3, Allocated
  <2>2. Opened = [Marked(ctx, b) EXCEPT !.chain_buf = b, !.chain = line, !.failed = FALSE]
    BY <1>3, Zenon DEF Opened
  <2>3. line \in Seq(Words)
    BY DEF CliInv, CliTypeOK
  <2> HIDE DEF b
  <2>4. Opened \in CliContext
    BY <1>1, <2>1, <2>2, <2>3 DEF Good, CliContext, Marked
  <2>5. /\ Opened.bitmap = ctx.bitmap \cup {b} /\ Opened.chain_buf = b
        /\ Opened.sub_chain_buf = ctx.sub_chain_buf /\ Opened.cmd_def = ctx.cmd_def
        /\ Opened.env_buf = ctx.env_buf /\ Opened.arg_buf = ctx.arg_buf
        /\ Opened.dyn_value = ctx.dyn_value
    BY <1>1, <2>1, <2>2, BlockFacts DEF Good, CliContext, Marked
  <2>6. OwnedBy(Opened)
    BY <1>1, <1>3, <2>1, <2>5 DEF Good, OwnedBy
  <2> QED BY <1>1, <1>3, <2>4, <2>5, <2>6 DEF Good, Idle
<1> QED BY <1>2, <1>3

\* extract_next_cmd, with a finished sub-chain freed before.
LEMMA ExtractedGood ==
  ASSUME CliInv, HasCommand
  PROVE  /\ Good(Extracted) /\ Idle(Extracted)
         /\ Extracted.chain_buf # NoBuf
         /\ Word \in Words /\ Source \in Blocks
<1>1. /\ Good(Opened) /\ Idle(Opened) /\ Opened.chain_buf # NoBuf
  BY OpenedGood DEF HasCommand, NoLine
<1>2. /\ Good(Extracting) /\ Idle(Extracting) /\ Extracting.chain_buf = Opened.chain_buf
      /\ InSubChain => ~Spent(Extracting.sub_chain)
  BY <1>1, FreeSubChainGood DEF Extracting, InSubChain
<1>3. ~InSubChain => ~Spent(Extracting.chain)
  BY DEF HasCommand, LineOver
<1> DEFINE e == Extracting
<1> HIDE DEF e
<1>4. /\ e.chain \in Seq(Words) /\ e.sub_chain \in Seq(Words)
      /\ e.chain_buf \in Blocks \cup {NoBuf} /\ e.sub_chain_buf \in Blocks \cup {NoBuf}
  BY <1>2 DEF Good, CliContext, e
<1>5. ASSUME NEW s \in Seq(Words), ~Spent(s)
      PROVE  Head(s) \in Words /\ Tail(s) \in Seq(Words)
  BY <1>5, HeadTailProperties DEF Spent
<1>6. Word \in Words /\ Source \in Blocks
  BY <1>1, <1>2, <1>3, <1>4, <1>5 DEF Word, Source, InSubChain, e
<1>7. CASE InSubChain
  <2>1. Extracted = [e EXCEPT !.sub_chain = Tail(e.sub_chain)] /\ Tail(e.sub_chain) \in Seq(Words)
    BY <1>2, <1>4, <1>5, <1>7 DEF Extracted, e
  <2> DEFINE s == Tail(e.sub_chain)
  <2> HIDE DEF s
  <2>2. /\ Extracted \in CliContext
        /\ Extracted.bitmap = e.bitmap /\ Extracted.arg_buf = e.arg_buf
        /\ Extracted.cmd_def = e.cmd_def /\ Extracted.dyn_value = e.dyn_value
        /\ Extracted.chain_buf = e.chain_buf /\ Extracted.sub_chain_buf = e.sub_chain_buf
        /\ Extracted.env_buf = e.env_buf
    <3>1. Extracted = [e EXCEPT !.sub_chain = s] /\ s \in Seq(Words)
      BY <2>1 DEF s
    <3> QED BY <1>2, <3>1 DEF Good, CliContext, e
  <2> QED BY <1>1, <1>2, <1>6, <2>2 DEF Good, OwnedBy, Idle, e
<1>8. CASE ~InSubChain
  <2>1. Extracted = [e EXCEPT !.chain = Tail(e.chain)] /\ Tail(e.chain) \in Seq(Words)
    BY <1>3, <1>4, <1>5, <1>8 DEF Extracted, e
  <2> DEFINE s == Tail(e.chain)
  <2> HIDE DEF s
  <2>2. /\ Extracted \in CliContext
        /\ Extracted.bitmap = e.bitmap /\ Extracted.arg_buf = e.arg_buf
        /\ Extracted.cmd_def = e.cmd_def /\ Extracted.dyn_value = e.dyn_value
        /\ Extracted.chain_buf = e.chain_buf /\ Extracted.sub_chain_buf = e.sub_chain_buf
        /\ Extracted.env_buf = e.env_buf
    <3>1. Extracted = [e EXCEPT !.chain = s] /\ s \in Seq(Words)
      BY <2>1 DEF s
    <3> QED BY <1>2, <3>1 DEF Good, CliContext, e
  <2> QED BY <1>1, <1>2, <1>6, <2>2 DEF Good, OwnedBy, Idle, e
<1> QED BY <1>7, <1>8

\* Extracting a command leaves the variables alone.
LEMMA ExtractedVariables ==
  ASSUME CliInv, HasCommand
  PROVE  Extracted.dyn_value = ctx.dyn_value
<1>1. ctx \in CliContext /\ Good(Opened)
  BY OpenedGood DEF CliInv, CliTypeOK, HasCommand
<1>2. Opened.dyn_value = ctx.dyn_value
  BY <1>1 DEF Opened, Marked, CliContext
<1>3. Extracting \in CliContext /\ Extracting.dyn_value = Opened.dyn_value
  <2> DEFINE c == Opened
  <2> HIDE DEF c
  <2>1. FreeSubChain(c) \in CliContext /\ FreeSubChain(c).dyn_value = c.dyn_value
    <3>1. Good(c)
      BY <1>1 DEF c
    <3>2. FreeSubChain(c) \in CliContext
      BY <3>1, FreeSubChainGood DEF Good
    <3> QED BY <3>1, <3>2 DEF Good, CliContext, FreeSubChain, cli_mpool_free
  <2> QED BY <1>1, <2>1 DEF Extracting, Good, c
<1> DEFINE e == Extracting
<1> HIDE DEF e
<1>4. e \in CliContext
  BY <1>3 DEF e
<1>5. Extracted = IF InSubChain THEN [e EXCEPT !.sub_chain = Tail(@)] ELSE [e EXCEPT !.chain = Tail(@)]
  BY Zenon DEF Extracted, e
<1>6. Extracted.dyn_value = e.dyn_value
  BY <1>4, <1>5 DEF CliContext
<1> QED BY <1>2, <1>3, <1>6 DEF e

-----------------------------------------------------------------------------
\* The steps

LEMMA InitHolds == CliInit => CliInv
<1> SUFFICES ASSUME CliInit PROVE CliInv
  OBVIOUS
<1>1. CliTypeOK
  <2>1. ctx \in CliContext
    <3>1. 0 \in 0 .. Len(AutoCmds)
      BY TextAssumption, LenProperties
    <3> QED BY <3>1, EmptyText DEF CliInit, CliContext
  <2>2. env \in [Vars -> Seq(Terms)]
    <3>1. \A v \in Vars : env[v] \in Seq(Terms)
      BY TextAssumption DEF CliInit
    <3> QED BY <3>1 DEF CliInit
  <2>3. line \in Seq(Words)
    BY EmptyText DEF CliInit
  <2> QED BY <2>1, <2>2, <2>3 DEF CliInit, CliTypeOK, engine_init
<1>2. OwnedBy(ctx)
  BY DEF CliInit, OwnedBy
<1>3. Held
  BY DEF CliInit, Held, Idle, NoChain
<1> QED BY <1>1, <1>2, <1>3 DEF CliInv

\* What a step owes to the invariant: a state of the engine, and a context that goes with it.
LEMMA StepHolds ==
  ASSUME eng' \in [from : {NoState, "start", "auto_run", "get_char", "dispose", "cmd_run"},
                   to : {"start", "auto_run", "get_char", "dispose", "cmd_run"}],
         line' \in Seq(Words), env' \in [Vars -> Seq(Terms)],
         Good(ctx'), Held'
  PROVE  CliInv'
BY DEF CliInv, CliTypeOK, Good, OwnedBy

LEMMA GotoEngine ==
  ASSUME CliTypeOK, NEW s \in {"start", "auto_run", "get_char", "dispose", "cmd_run"}, Goto(s)
  PROVE  /\ eng' \in [from : {NoState, "start", "auto_run", "get_char", "dispose", "cmd_run"},
                      to : {"start", "auto_run", "get_char", "dispose", "cmd_run"}]
         /\ eng'.from = eng.from
         /\ eng.from = eng.to => eng'.to = s
BY DEF CliTypeOK, Goto, state_switch

LEMMA SwitchHolds == CliInv /\ SwitchState => CliInv'
<1> SUFFICES ASSUME CliInv, SwitchState PROVE CliInv'
  OBVIOUS
<1>1. /\ eng' \in [from : {NoState, "start", "auto_run", "get_char", "dispose", "cmd_run"},
                   to : {"start", "auto_run", "get_char", "dispose", "cmd_run"}]
      /\ eng'.from = eng.to /\ eng'.to = eng.to /\ eng.from # eng.to
  BY DEF SwitchState, Switched, MustSwitch, CliInv, CliTypeOK
<1>2. line' \in Seq(Words) /\ env' \in [Vars -> Seq(Terms)] /\ Good(ctx)
  BY DEF SwitchState, CliInv, CliTypeOK, Good
<1>3. CASE eng.from = "cmd_run"
  <2> DEFINE d == scheduler_cmd_run_exit(ctx)
  <2>1. ctx' = d
    BY <1>3 DEF SwitchState
  <2>2. /\ Good(d) /\ Idle(d)
        /\ d.chain_buf = ctx.chain_buf /\ d.sub_chain_buf = ctx.sub_chain_buf
    BY <1>2, RunExitGood
  <2> HIDE DEF d
  <2>3. Held'
    BY <1>1, <1>3, <2>1, <2>2 DEF Held, Idle, NoChain, CliInv
  <2> QED BY <1>1, <1>2, <2>1, <2>2, <2>3, StepHolds
<1>4. CASE eng.from # "cmd_run"
  <2>1. ctx' = ctx
    BY <1>4 DEF SwitchState
  <2>2. Held'
    BY <1>1, <1>4, <2>1 DEF Held, Idle, NoChain, CliInv
  <2> QED BY <1>1, <1>2, <2>1, <2>2, StepHolds
<1> QED BY <1>3, <1>4

\* scheduler_auto_run_task and the start.
LEMMA AutoRunHolds == CliInv /\ (Start \/ AutoRunExit \/ AutoRunCommand) => CliInv'
<1> SUFFICES ASSUME CliInv, Start \/ AutoRunExit \/ AutoRunCommand PROVE CliInv'
  OBVIOUS
<1>1. /\ CliTypeOK /\ Good(ctx) /\ Held
      /\ line' = line /\ env' = env
      /\ line' \in Seq(Words) /\ env' \in [Vars -> Seq(Terms)]
  BY DEF Start, AutoRunExit, AutoRunCommand, CliInv, CliTypeOK, Good
<1>2. CASE Start
  <2>1. Held'
    BY <1>1, <1>2, GotoEngine DEF Start, RunsTask, Held, Idle, NoChain
  <2> QED BY <1>1, <1>2, <2>1, GotoEngine, StepHolds DEF Start
<1>3. CASE AutoRunExit
  <2>1. /\ Good(ctx') /\ ctx'.chain_buf = ctx.chain_buf /\ ctx'.sub_chain_buf = ctx.sub_chain_buf
        /\ ctx'.env_buf = ctx.env_buf /\ ctx'.arg_buf = ctx.arg_buf /\ ctx'.cmd_def = ctx.cmd_def
    <3>1. 0 \in 0 .. Len(AutoCmds)
      BY TextAssumption, LenProperties
    <3>2. ctx' = [ctx EXCEPT !.auto_run_idx = 0]
      BY <1>3 DEF AutoRunExit
    <3>3. /\ ctx' \in CliContext /\ ctx'.bitmap = ctx.bitmap /\ ctx'.dyn_value = ctx.dyn_value
          /\ ctx'.chain_buf = ctx.chain_buf /\ ctx'.sub_chain_buf = ctx.sub_chain_buf
          /\ ctx'.env_buf = ctx.env_buf /\ ctx'.arg_buf = ctx.arg_buf /\ ctx'.cmd_def = ctx.cmd_def
      BY <1>1, <3>1, <3>2 DEF Good, CliContext
    <3> QED BY <1>1, <3>3 DEF Good, OwnedBy
  <2>2. Held'
    BY <1>1, <1>3, <2>1, GotoEngine DEF AutoRunExit, RunsTask, Held, Idle, NoChain
  <2> QED BY <1>1, <1>3, <2>1, <2>2, GotoEngine, StepHolds DEF AutoRunExit
<1>4. CASE AutoRunCommand
  <2> DEFINE cmd == AutoCmds[ctx.auto_run_idx + 1]
             c == [ctx EXCEPT !.auto_run_idx = @ + 1]
  <2>1. ctx.auto_run_idx \in Nat /\ Len(AutoCmds) \in Nat /\ ctx.auto_run_idx < Len(AutoCmds)
    BY <1>1, <1>4, TextAssumption, LenProperties DEF AutoRunCommand, AutoRunOver, Good, CliContext
  <2>2. /\ c \in CliContext /\ c.bitmap = ctx.bitmap /\ c.dyn_value = ctx.dyn_value
        /\ c.chain_buf = ctx.chain_buf /\ c.sub_chain_buf = ctx.sub_chain_buf
        /\ c.env_buf = ctx.env_buf /\ c.arg_buf = ctx.arg_buf /\ c.cmd_def = ctx.cmd_def
        /\ c.next_state = ctx.next_state
    <3> DEFINE n == ctx.auto_run_idx + 1
    <3>1. n \in 0 .. Len(AutoCmds)
      BY <2>1
    <3>2. c = [ctx EXCEPT !.auto_run_idx = n]
      BY <1>1 DEF Good, CliContext
    <3> HIDE DEF n, c
    <3> QED BY <1>1, <3>1, <3>2 DEF Good, CliContext
  <2>3. cmd \in Words \cup {NoCmd}
    <3> DEFINE i == ctx.auto_run_idx + 1
    <3>1. i \in 1 .. Len(AutoCmds)
      BY <2>1
    <3> HIDE DEF i
    <3> QED BY <3>1, TextAssumption, ElementOfSeq DEF i
  <2>4. /\ RunsTask(eng, "auto_run")
        /\ \/ cmd = NoCmd /\ ctx' = c /\ UNCHANGED eng
           \/ /\ cmd # NoCmd
              /\ \E w \in AutoRunReadings(cmd) : \E o \in Outcomes(c, w) :
                   /\ ctx' = [cmd_parse_prepare(c, w, o, Origin) EXCEPT
                                !.next_state = IF o = "ready" THEN "auto_run" ELSE @]
                   /\ IF o = "ready" THEN Goto("cmd_run") ELSE UNCHANGED eng
    BY <1>4 DEF AutoRunCommand
  <2> HIDE DEF c, cmd
  <2>5. Good(c)
    BY <1>1, <2>2 DEF Good, OwnedBy
  <2>6. Idle(c) /\ NoChain(c)
    BY <1>1, <2>2, <2>4 DEF Held, Idle, NoChain, RunsTask
  <2>7. CASE cmd = NoCmd
    <3>1. ctx' = c /\ UNCHANGED eng
      BY <2>4, <2>7
    <3>2. Held'
      BY <2>4, <2>6, <3>1 DEF RunsTask, Held, Idle, NoChain
    <3>3. eng' \in [from : {NoState, "start", "auto_run", "get_char", "dispose", "cmd_run"},
                    to : {"start", "auto_run", "get_char", "dispose", "cmd_run"}]
      BY <1>1, <3>1 DEF CliTypeOK
    <3> QED BY <1>1, <2>5, <3>1, <3>2, <3>3, StepHolds
  <2>8. CASE cmd # NoCmd
    <3>1. PICK w \in AutoRunReadings(cmd) : \E o \in Outcomes(c, w) :
                   /\ ctx' = [cmd_parse_prepare(c, w, o, Origin) EXCEPT
                                !.next_state = IF o = "ready" THEN "auto_run" ELSE @]
                   /\ IF o = "ready" THEN Goto("cmd_run") ELSE UNCHANGED eng
      BY <2>4, <2>8
    <3>2. PICK o \in Outcomes(c, w) :
                   /\ ctx' = [cmd_parse_prepare(c, w, o, Origin) EXCEPT
                                !.next_state = IF o = "ready" THEN "auto_run" ELSE @]
                   /\ IF o = "ready" THEN Goto("cmd_run") ELSE UNCHANGED eng
      BY <3>1
    <3>3. w \in Words
      <4>1. \A v \in Vars : env[v] # <<>> => Head(env[v]) \in Words
        BY <1>1, HeadTailProperties DEF CliTypeOK, Words
      <4>2. cmd \in Words /\ Blank \in Words
        BY <2>3, <2>8 DEF Words
      <4> QED BY <3>1, <4>1, <4>2, NameIsWord DEF AutoRunReadings
    <3> DEFINE p == cmd_parse_prepare(c, w, o, Origin)
    <3>4. /\ Good(p) /\ NoChain(p) /\ p.env_buf = NoBuf
          /\ o # "ready" => p.arg_buf = NoBuf /\ p.cmd_def = NoCmd
      <4>1. c \in CliContext
        BY <2>5 DEF Good
      <4>2. /\ p.chain_buf = c.chain_buf /\ p.sub_chain_buf = c.sub_chain_buf
            /\ p.env_buf = c.env_buf
            /\ o # "ready" => p.arg_buf = c.arg_buf /\ p.cmd_def = c.cmd_def
        BY <3>3, <4>1, Prepared
      <4>3. Good(p)
        BY <2>5, <2>6, <3>3, PreparedGood DEF Idle
      <4> HIDE DEF p
      <4> QED BY <2>6, <4>2, <4>3 DEF Idle, NoChain
    <3> DEFINE n == IF o = "ready" THEN "auto_run" ELSE p.next_state
    <3>5. ctx' = [p EXCEPT !.next_state = n]
      BY <3>2
    <3> HIDE DEF p
    <3>6. n \in {"auto_run", "dispose"} /\ (o = "ready" => n = "auto_run")
      BY <3>4 DEF Good, CliContext
    <3> HIDE DEF n
    <3>7. /\ ctx' \in CliContext
          /\ ctx'.bitmap = p.bitmap /\ ctx'.dyn_value = p.dyn_value
          /\ ctx'.chain_buf = p.chain_buf /\ ctx'.sub_chain_buf = p.sub_chain_buf
          /\ ctx'.env_buf = p.env_buf /\ ctx'.arg_buf = p.arg_buf /\ ctx'.cmd_def = p.cmd_def
          /\ ctx'.next_state = n
      BY <3>4, <3>5, <3>6 DEF Good, CliContext
    <3>8. Good(ctx')
      BY <3>4, <3>7 DEF Good, OwnedBy
    <3>9. CASE o = "ready"
      <4>1. Held'
        BY <1>1, <2>4, <3>2, <3>4, <3>6, <3>7, <3>9, GotoEngine DEF RunsTask, Held, NoChain
      <4> QED BY <1>1, <3>2, <3>8, <3>9, <4>1, GotoEngine, StepHolds
    <3>10. CASE o # "ready"
      <4>1. Held'
        BY <1>1, <2>4, <3>2, <3>4, <3>7, <3>10 DEF RunsTask, Held, NoChain, Idle
      <4>2. eng' \in [from : {NoState, "start", "auto_run", "get_char", "dispose", "cmd_run"},
                      to : {"start", "auto_run", "get_char", "dispose", "cmd_run"}]
        BY <1>1, <3>2, <3>10 DEF CliTypeOK
      <4> QED BY <1>1, <3>8, <4>1, <4>2, StepHolds
    <3> QED BY <3>9, <3>10
  <2> QED BY <2>7, <2>8
<1> QED BY <1>2, <1>3, <1>4

\* The line ends: dispose_exit and dispose_fail.
LEMMA LeaveHolds ==
  ASSUME CliInv, RunsTask(eng, "dispose"), NEW c, Good(c), Idle(c), NoChain(c), LeaveLine(c)
  PROVE  CliInv'
<1>1. /\ CliTypeOK /\ ctx' = c /\ line' = <<>> /\ env' = env /\ Goto("get_char")
  BY DEF CliInv, LeaveLine
<1>2. eng'.to = "get_char" /\ eng'.from = "dispose"
  BY <1>1, GotoEngine DEF RunsTask
<1>3. Held'
  BY <1>1, <1>2 DEF Held, Idle, NoChain
<1>4. line' \in Seq(Words) /\ env' \in [Vars -> Seq(Terms)]
  BY <1>1, EmptyText DEF CliTypeOK
<1> QED BY <1>1, <1>3, <1>4, GotoEngine, StepHolds

LEMMA DisposeExitHolds == CliInv /\ (DisposeExit \/ DisposeNoMemory) => CliInv'
<1> SUFFICES ASSUME CliInv, DisposeExit \/ DisposeNoMemory PROVE CliInv'
  OBVIOUS
<1>1. CASE DisposeExit
  <2>1. RunsTask(eng, "dispose") /\ Good(Opened) /\ Idle(Opened)
    BY <1>1, OpenedGood DEF DisposeExit
  <2>2. CASE NoLine /\ LeaveLine(Opened)
    <3>1. NoChain(Opened)
      BY <2>1, <2>2, OpenedGood DEF NoLine, NoChain
    <3> QED BY <2>1, <2>2, <3>1, LeaveHolds
  <2>3. CASE LeaveLine(scheduler_cleanup(Opened))
    BY <2>1, <2>3, CleanupGood, LeaveHolds
  <2> QED BY <1>1, <2>2, <2>3 DEF DisposeExit
<1>2. CASE DisposeNoMemory
  <2>1. Good(Extracted) /\ Idle(Extracted)
    BY <1>2, ExtractedGood DEF DisposeNoMemory
  <2>2. RunsTask(eng, "dispose") /\ LeaveLine(scheduler_cleanup(Extracted))
    BY <1>2 DEF DisposeNoMemory, HasCommand, DisposeFail
  <2> QED BY <2>1, <2>2, CleanupGood, LeaveHolds
<1> QED BY <1>1, <1>2

\* A text is replaced only in a word that is not blank.
LEMMA ExpandsTerm ==
  ASSUME CliInv, HasCommand, Len(Replacement) > 1 \/ Word # Blank
  PROVE  Word \in Terms /\ Replacement \in Seq(Terms)
<1>1. Word \in Words
  BY ExtractedGood
<1>2. Word # Blank
  <2>1. ASSUME Word = Blank PROVE Len(Replacement) = 1
    <3>1. Word \notin Vars /\ Word \notin Calls
      BY <2>1, CommandAssumption DEF Terms
    <3>2. Replacement = <<Word>>
      BY <3>1, Zenon DEF Replacement, Meaning
    <3>3. \A w : Len(<<w>>) = 1
      OBVIOUS
    <3> QED BY <3>2, <3>3
  <2>2. ~(1 > 1)
    OBVIOUS
  <2> QED BY <2>1, <2>2, Zenon
<1>3. env \in [Vars -> Seq(Terms)]
  BY DEF CliInv, CliTypeOK
<1> QED BY <1>1, <1>2, <1>3, MeaningIsText DEF Replacement, Words

\* try_sub_chain: the block of the replaced text becomes the sub-chain's.
LEMMA DisposeExpandHolds == CliInv /\ DisposeExpand => CliInv'
<1> SUFFICES ASSUME CliInv, DisposeExpand PROVE CliInv'
  OBVIOUS
<1> DEFINE e == Extracted
           b == EnvBuf
           text == Replacement
<1>1. Good(e) /\ Idle(e) /\ e.chain_buf # NoBuf
  BY ExtractedGood DEF DisposeExpand
<1>2. b \in Blocks \ e.bitmap
  BY Allocated DEF DisposeExpand, EnvBuf
<1>3. text \in Seq(Words)
  BY ExpandsTerm DEF DisposeExpand, Words
<1>4. ctx' = [FreeSubChain(Marked(e, b)) EXCEPT !.sub_chain_buf = b, !.sub_chain = text]
  BY Zenon DEF DisposeExpand, Replaced
<1>5. /\ UNCHANGED <<eng, line, env>> /\ RunsTask(eng, "dispose")
  BY DEF DisposeExpand, HasCommand
<1> HIDE DEF e, b, text
<1> DEFINE m == (e.bitmap \cup {b}) \ {e.sub_chain_buf}
<1>6. ctx' = [e EXCEPT !.bitmap = m, !.sub_chain_buf = b, !.sub_chain = text]
  <2>1. b # NoBuf
    BY <1>2, BlockFacts
  <2> QED BY ZenonT(60), <1>1, <1>4, <2>1 DEF Good, CliContext, FreeSubChain, Marked, cli_mpool_free
<1>7. m \in SUBSET Blocks
  BY <1>1, <1>2 DEF Good, CliContext
<1>8. /\ ctx' \in CliContext
      /\ ctx'.bitmap = m /\ ctx'.sub_chain_buf = b
      /\ ctx'.chain_buf = e.chain_buf /\ ctx'.env_buf = e.env_buf /\ ctx'.arg_buf = e.arg_buf
      /\ ctx'.cmd_def = e.cmd_def /\ ctx'.dyn_value = e.dyn_value
  <2> HIDE DEF m
  <2> QED BY <1>1, <1>2, <1>3, <1>6, <1>7 DEF Good, CliContext
<1>9. OwnedBy(ctx')
  BY <1>1, <1>2, <1>8, BlockFacts DEF Good, OwnedBy
<1>10. Held'
  BY <1>1, <1>5, <1>8 DEF Held, RunsTask, Idle, NoChain
<1>11. CliTypeOK'
  BY <1>5, <1>8 DEF CliInv, CliTypeOK
<1> QED BY <1>9, <1>10, <1>11 DEF CliInv, OwnedBy

\* The command is prepared in env_buf or where it stands; the buffer is given back when it
\* is not ready, and, as CLI_OK is 0, when it is.
LEMMA DisposeDispatchHolds == CliInv /\ DisposeDispatch => CliInv'
<1> SUFFICES ASSUME CliInv, DisposeDispatch PROVE CliInv'
  OBVIOUS
<1>1. /\ Good(Extracted) /\ Idle(Extracted) /\ Extracted.chain_buf # NoBuf
      /\ Word \in Words /\ Source \in Blocks
  BY ExtractedGood DEF DisposeDispatch
<1>2. EnvBuf \in Blocks \ Extracted.bitmap
  BY Allocated DEF DisposeDispatch, EnvBuf
<1>3. RunsTask(eng, "dispose") /\ CliTypeOK
  BY DEF DisposeDispatch, HasCommand, CliInv
<1>4. PICK inEnv \in InEnvBuf :
       LET held == IF inEnv THEN EnvBuf ELSE NoBuf
           c    == IF inEnv THEN Replaced ELSE Extracted
       IN \E o \in Outcomes(c, Dispatched(inEnv)) :
            LET p == cmd_parse_prepare(c, Dispatched(inEnv), o, IF inEnv THEN EnvBuf ELSE Source)
                d == handle_dispatch_result(p, dispatch_ret(o), held)
            IN CASE o = "misread" -> DisposeFail(d)
                 [] o = "ready"   -> /\ Goto("cmd_run")
                                     /\ ctx' = [d EXCEPT !.next_state = "dispose"]
                                     /\ UNCHANGED <<line, env>>
                 [] OTHER         -> ctx' = d /\ UNCHANGED <<eng, line, env>>
  BY DEF DisposeDispatch
<1> DEFINE held == IF inEnv THEN EnvBuf ELSE NoBuf
           c    == IF inEnv THEN Replaced ELSE Extracted
           w    == Dispatched(inEnv)
           a    == IF inEnv THEN EnvBuf ELSE Source
<1>5. PICK o \in Outcomes(c, w) :
            LET p == cmd_parse_prepare(c, w, o, a)
                d == handle_dispatch_result(p, dispatch_ret(o), held)
            IN CASE o = "misread" -> DisposeFail(d)
                 [] o = "ready"   -> /\ Goto("cmd_run")
                                     /\ ctx' = [d EXCEPT !.next_state = "dispose"]
                                     /\ UNCHANGED <<line, env>>
                 [] OTHER         -> ctx' = d /\ UNCHANGED <<eng, line, env>>
  BY <1>4
<1> DEFINE p == cmd_parse_prepare(c, w, o, a)
           d == handle_dispatch_result(p, dispatch_ret(o), held)
<1>6. w \in Words
  <2>1. CASE inEnv
    <3>1. Word # Blank /\ Len(Replacement) = 1
      BY <2>1 DEF InEnvBuf
    <3>2. Replacement \in Seq(Terms)
      BY <3>1, ExpandsTerm DEF DisposeDispatch
    <3>3. Head(Replacement) \in Words
      <4> DEFINE r == Replacement
      <4> HIDE DEF r
      <4>1. r \in Seq(Terms) /\ Len(r) = 1 /\ Len(<<>>) = 0
        BY <3>1, <3>2, EmptySeq DEF r
      <4>2. r # <<>>
        <5>1. 0 # 1
          OBVIOUS
        <5> QED BY <4>1, <5>1, Zenon
      <4>3. Head(r) \in Terms
        BY <4>1, <4>2, HeadTailProperties
      <4> QED BY <4>3 DEF r, Words
    <3> QED BY <2>1, <3>3, NameIsWord DEF Dispatched
  <2>2. CASE ~inEnv
    BY <1>1, <2>2, NameIsWord DEF Dispatched
  <2> QED BY <2>1, <2>2
<1>7. a \in Blocks \cup {NoBuf, Origin}
  BY <1>1, <1>2
<1>8. /\ c \in CliContext
      /\ c.bitmap = Extracted.bitmap \cup ({held} \ {NoBuf})
      /\ c.chain_buf = Extracted.chain_buf /\ c.sub_chain_buf = Extracted.sub_chain_buf
      /\ c.env_buf = NoBuf /\ c.arg_buf = NoBuf /\ c.cmd_def = NoCmd
      /\ c.dyn_value = Extracted.dyn_value
  <2> DEFINE e == Extracted
  <2>1. Good(e) /\ Idle(e)
    BY <1>1
  <2> HIDE DEF e
  <2>2. c = IF inEnv THEN [e EXCEPT !.bitmap = e.bitmap \cup ({EnvBuf} \ {NoBuf})] ELSE e
    BY <2>1 DEF Replaced, Marked, Good, CliContext, e
  <2>3. EnvBuf \in Blocks \ e.bitmap
    BY <1>2 DEF e
  <2> HIDE DEF c
  <2>4. CASE inEnv
    BY <2>1, <2>2, <2>3, <2>4 DEF Good, CliContext, Idle, e
  <2>5. CASE ~inEnv
    BY <2>1, <2>2, <2>5 DEF Good, Idle, e
  <2> QED BY <2>4, <2>5
<1>9. held \in (Blocks \ Extracted.bitmap) \cup {NoBuf}
  BY <1>2
<1> HIDE DEF held, c, w, a
<1>10. /\ p \in CliContext
       /\ p.chain_buf = c.chain_buf /\ p.sub_chain_buf = c.sub_chain_buf
       /\ p.env_buf = c.env_buf /\ p.dyn_value = c.dyn_value
       /\ o = "ready" => \E b \in (Blocks \ c.bitmap) \cup {NoBuf} :
                           p.arg_buf = b /\ p.bitmap = c.bitmap \cup ({b} \ {NoBuf})
       /\ o # "ready" => /\ p.arg_buf = c.arg_buf /\ p.cmd_def = c.cmd_def
                         /\ p.bitmap = c.bitmap
  BY <1>6, <1>7, <1>8, Prepared
<1> HIDE DEF p
<1>11. d = [p EXCEPT !.bitmap = p.bitmap \ {held}]
  BY <1>10 DEF handle_dispatch_result, dispatch_ret, CLI_OK, cli_mpool_free, CliContext
<1> HIDE DEF d
<1>12. /\ d \in CliContext /\ d.bitmap = p.bitmap \ {held}
       /\ d.chain_buf = p.chain_buf /\ d.sub_chain_buf = p.sub_chain_buf
       /\ d.env_buf = p.env_buf /\ d.arg_buf = p.arg_buf /\ d.cmd_def = p.cmd_def
       /\ d.dyn_value = p.dyn_value
  BY <1>10, <1>11 DEF CliContext
<1>13. PICK b \in (Blocks \ c.bitmap) \cup {NoBuf} :
         d.arg_buf = b /\ d.bitmap = (c.bitmap \cup ({b} \ {NoBuf})) \ {held}
  <2>1. CASE o = "ready"
    BY <1>10, <1>12, <2>1
  <2>2. CASE o # "ready"
    BY <1>8, <1>10, <1>12, <2>2
  <2> QED BY <2>1, <2>2
<1>14. d.bitmap = Extracted.bitmap \cup ({b} \ {NoBuf}) /\ b \notin Extracted.bitmap
  <2>1. NoBuf \notin Extracted.bitmap
    BY <1>1, BlockFacts DEF Good, CliContext
  <2> QED BY <1>8, <1>9, <1>13, <2>1
<1>15. Good(d)
  <2>1. OwnedBy(Extracted) /\ Idle(Extracted)
    BY <1>1 DEF Good
  <2> DEFINE e == Extracted
  <2> HIDE DEF e
  <2>2. /\ OwnedBy(e) /\ Idle(e) /\ d.bitmap = e.bitmap \cup ({b} \ {NoBuf}) /\ b \notin e.bitmap
        /\ d.chain_buf = e.chain_buf /\ d.sub_chain_buf = e.sub_chain_buf
        /\ d.env_buf = NoBuf /\ d.arg_buf = b /\ d.dyn_value = e.dyn_value
    BY <1>8, <1>10, <1>12, <1>13, <1>14, <2>1 DEF e
  <2>3. OwnedBy(d)
    BY <2>2 DEF OwnedBy, Idle
  <2> QED BY <1>12, <2>3 DEF Good
<1>16. CASE o = "misread"
  <2>1. Idle(d)
    BY <1>8, <1>10, <1>12, <1>16 DEF Idle
  <2>2. LeaveLine(scheduler_cleanup(d))
    BY <1>5, <1>16 DEF DisposeFail, d, p
  <2> QED BY <1>3, <1>15, <2>1, <2>2, CleanupGood, LeaveHolds
<1>17. CASE o = "ready"
  <2>1. Goto("cmd_run") /\ ctx' = [d EXCEPT !.next_state = "dispose"] /\ UNCHANGED <<line, env>>
    BY <1>5, <1>17 DEF d, p
  <2>2. /\ ctx' \in CliContext /\ ctx'.next_state = "dispose"
        /\ ctx'.bitmap = d.bitmap /\ ctx'.dyn_value = d.dyn_value
        /\ ctx'.chain_buf = d.chain_buf /\ ctx'.sub_chain_buf = d.sub_chain_buf
        /\ ctx'.env_buf = d.env_buf /\ ctx'.arg_buf = d.arg_buf
    BY <1>15, <2>1 DEF Good, CliContext
  <2>3. Good(ctx')
    BY <1>15, <2>2 DEF Good, OwnedBy
  <2>4. eng'.from = "dispose" /\ eng'.to = "cmd_run"
    BY <1>3, <2>1, GotoEngine DEF RunsTask
  <2>5. Held'
    BY <1>1, <1>8, <1>10, <1>12, <2>2, <2>4 DEF Held
  <2>6. line' \in Seq(Words) /\ env' \in [Vars -> Seq(Terms)]
    BY <1>3, <2>1 DEF CliTypeOK
  <2> QED BY <1>3, <2>1, <2>3, <2>5, <2>6, GotoEngine, StepHolds
<1>18. CASE o # "misread" /\ o # "ready"
  <2>1. ctx' = d /\ UNCHANGED <<eng, line, env>>
    BY <1>5, <1>18 DEF d, p
  <2>2. Idle(d) /\ d.chain_buf # NoBuf
    BY <1>1, <1>8, <1>10, <1>12, <1>18 DEF Idle
  <2>3. Held'
    BY <1>3, <2>1, <2>2 DEF Held, Idle, RunsTask
  <2>4. /\ line' \in Seq(Words) /\ env' \in [Vars -> Seq(Terms)]
        /\ eng' \in [from : {NoState, "start", "auto_run", "get_char", "dispose", "cmd_run"},
                     to : {"start", "auto_run", "get_char", "dispose", "cmd_run"}]
    BY <1>3, <2>1 DEF CliTypeOK
  <2> QED BY <1>15, <2>1, <2>3, <2>4, StepHolds
<1> QED BY <1>16, <1>17, <1>18

\* The command leaves, or stays, as cmd_ret says.
LEMMA RunHolds ==
  ASSUME CliInv, RunsTask(eng, "cmd_run"), UNCHANGED eng \/ Goto(ctx.next_state),
         line' \in Seq(Words), env' \in [Vars -> Seq(Terms)], Good(ctx'),
         ctx'.next_state = ctx.next_state,
         ctx'.chain_buf = ctx.chain_buf, ctx'.sub_chain_buf = ctx.sub_chain_buf
  PROVE  CliInv'
<1>1. CliTypeOK /\ ctx.next_state \in {"auto_run", "dispose"} /\ Held
  BY DEF CliInv, CliTypeOK, CliContext
<1>2. CASE UNCHANGED eng
  <2>1. Held'
    BY <1>1, <1>2 DEF Held, RunsTask, NoChain
  <2> QED BY <1>1, <1>2, <2>1, StepHolds DEF CliTypeOK
<1>3. CASE Goto(ctx.next_state)
  <2>1. eng'.from = "cmd_run" /\ eng'.to = ctx.next_state
    BY <1>1, <1>3, GotoEngine DEF RunsTask
  <2>2. Held'
    BY <1>1, <2>1 DEF Held, RunsTask, NoChain
  <2> QED BY <1>1, <1>3, <2>2, GotoEngine, StepHolds
<1> QED BY <1>2, <1>3

LEMMA CallHolds ==
  ASSUME CliInv, NEW result, CallCommand(result)
  PROVE  CliInv'
<1>1. CliTypeOK /\ Good(ctx)
  BY DEF CliInv, CliTypeOK, Good
<1>2. RunsTask(eng, "cmd_run") /\ (UNCHANGED eng \/ Goto(ctx.next_state)) /\ line' \in Seq(Words)
  BY <1>1 DEF CallCommand, CliTypeOK
<1> DEFINE b == cli_mpool_alloc(ctx)
           f == result = "fail"
           c == [ctx EXCEPT !.failed = f]
<1>3. \/ ctx' = c /\ UNCHANGED env
      \/ /\ b # NoBuf
         /\ \E v \in Vars : \E s \in Values[v] :
              /\ env' = [env EXCEPT ![v] = s]
              /\ ctx' = [cli_mpool_free(Marked(c, b), c.dyn_value[v]) EXCEPT !.dyn_value[v] = b]
  BY DEF CallCommand
<1>4. b # NoBuf => b \in Blocks \ ctx.bitmap
  BY Allocated
<1>5. f \in BOOLEAN
  OBVIOUS
<1> HIDE DEF b, f
<1>6. /\ c \in CliContext /\ c.bitmap = ctx.bitmap /\ c.dyn_value = ctx.dyn_value
      /\ c.chain_buf = ctx.chain_buf /\ c.sub_chain_buf = ctx.sub_chain_buf
      /\ c.env_buf = ctx.env_buf /\ c.arg_buf = ctx.arg_buf /\ c.next_state = ctx.next_state
  BY <1>1, <1>5 DEF Good, CliContext
<1> HIDE DEF c
<1>7. OwnedBy(c)
  BY <1>1, <1>6 DEF Good, OwnedBy
<1>8. CASE ctx' = c /\ UNCHANGED env
  <2>1. Good(ctx') /\ env' \in [Vars -> Seq(Terms)]
    BY <1>1, <1>6, <1>7, <1>8 DEF Good, CliTypeOK
  <2> QED BY <1>2, <1>6, <1>8, <2>1, RunHolds
<1>9. CASE /\ b # NoBuf
           /\ \E v \in Vars : \E s \in Values[v] :
                /\ env' = [env EXCEPT ![v] = s]
                /\ ctx' = [cli_mpool_free(Marked(c, b), c.dyn_value[v]) EXCEPT !.dyn_value[v] = b]
  <2>0. PICK v \in Vars : \E s \in Values[v] :
                /\ env' = [env EXCEPT ![v] = s]
                /\ ctx' = [cli_mpool_free(Marked(c, b), c.dyn_value[v]) EXCEPT !.dyn_value[v] = b]
    BY <1>9
  <2>1. PICK s \in Values[v] :
                /\ env' = [env EXCEPT ![v] = s]
                /\ ctx' = [cli_mpool_free(Marked(c, b), c.dyn_value[v]) EXCEPT !.dyn_value[v] = b]
    BY <2>0
  <2>2. b \in Blocks \ c.bitmap
    BY <1>4, <1>6, <1>9
  <2>3. env' \in [Vars -> Seq(Terms)]
    BY <1>1, <2>1, TextAssumption DEF CliTypeOK
  <2> DEFINE m == (c.bitmap \cup {b}) \ {c.dyn_value[v]}
             n == [c.dyn_value EXCEPT ![v] = b]
  <2>4. ctx' = [c EXCEPT !.bitmap = m, !.dyn_value = n]
    <3>1. b # NoBuf
      BY <2>2, BlockFacts
    <3> DEFINE x == cli_mpool_free(Marked(c, b), c.dyn_value[v])
    <3>2. x = [c EXCEPT !.bitmap = m]
      BY <1>6, <3>1 DEF CliContext, Marked, cli_mpool_free
    <3>3. ctx' = [x EXCEPT !.dyn_value[v] = b]
      BY <2>1
    <3> HIDE DEF x, m
    <3>4. x \in CliContext /\ x.dyn_value = c.dyn_value
      <4>1. m \in SUBSET Blocks
        BY <1>6, <2>2 DEF CliContext, m
      <4> QED BY <1>6, <3>2, <4>1 DEF CliContext
    <3>5. ctx' = [x EXCEPT !.dyn_value = n]
      BY <3>3, <3>4 DEF CliContext
    <3> HIDE DEF n
    <3> QED BY <1>6, <3>2, <3>5 DEF CliContext
  <2>5. m \in SUBSET Blocks /\ n \in [Vars -> Blocks \cup {NoBuf}]
    BY <1>6, <2>2 DEF CliContext
  <2>6. n[v] = b /\ \A w \in Vars : w # v => n[w] = c.dyn_value[w]
    BY <1>6 DEF CliContext
  <2> HIDE DEF n
  <2>7. /\ ctx' \in CliContext /\ ctx'.bitmap = m /\ ctx'.dyn_value = n
        /\ ctx'.chain_buf = c.chain_buf /\ ctx'.sub_chain_buf = c.sub_chain_buf
        /\ ctx'.env_buf = c.env_buf /\ ctx'.arg_buf = c.arg_buf /\ ctx'.next_state = c.next_state
    <3> HIDE DEF m
    <3> QED BY <1>6, <2>4, <2>5 DEF CliContext
  <2>8. ctx'.bitmap = ({ctx'.chain_buf, ctx'.sub_chain_buf, ctx'.env_buf, ctx'.arg_buf}
                       \cup {ctx'.dyn_value[w] : w \in Vars}) \ {NoBuf}
    BY <1>7, <2>2, <2>6, <2>7, BlockFacts DEF OwnedBy
  <2>9. OwnedBy(ctx')
    <3>1. \A w, x \in Vars : n[w] = n[x] /\ n[w] # NoBuf => w = x
      BY <1>7, <2>2, <2>6 DEF OwnedBy
    <3>2. \A w \in Vars : n[w] \in {c.chain_buf, c.sub_chain_buf, c.env_buf, c.arg_buf}
                            => n[w] = NoBuf
      BY <1>7, <2>2, <2>6, BlockFacts DEF OwnedBy
    <3> QED BY <1>7, <2>7, <2>8, <3>1, <3>2 DEF OwnedBy
  <2> QED BY <1>2, <1>6, <2>3, <2>7, <2>9, RunHolds DEF Good
<1> QED BY <1>3, <1>8, <1>9

LEMMA CliStep == CliInv /\ [CliNext]_cliVars => CliInv'
<1> SUFFICES ASSUME CliInv, [CliNext]_cliVars PROVE CliInv'
  OBVIOUS
<1>1. CASE Enter
  <2>1. /\ CliTypeOK /\ Good(ctx) /\ Held /\ ctx' = ctx /\ RunsTask(eng, "get_char")
        /\ Goto("dispose") /\ line' \in Seq(Words) /\ env' \in [Vars -> Seq(Terms)]
    BY <1>1, TextAssumption DEF CliInv, CliTypeOK, Good, Enter
  <2>2. Held'
    BY <2>1, GotoEngine DEF RunsTask, Held, Idle, NoChain
  <2> QED BY <2>1, <2>2, GotoEngine, StepHolds
<1>2. CASE CallBare
  <2>1. /\ Good(ctx') /\ ctx' = ctx /\ RunsTask(eng, "cmd_run") /\ Goto(ctx.next_state)
        /\ line' \in Seq(Words) /\ env' \in [Vars -> Seq(Terms)]
    BY <1>2 DEF CliInv, CliTypeOK, Good, CallBare
  <2> QED BY <2>1, RunHolds
<1>3. CASE FinishCommand \/ CallCommand("continue")
  BY <1>3, CallHolds DEF FinishCommand
<1>4. CASE UNCHANGED cliVars
  BY <1>4 DEF cliVars, CliInv, CliTypeOK, OwnedBy, Held, Idle, NoChain
<1> QED BY <1>1, <1>2, <1>3, <1>4, SwitchHolds, AutoRunHolds, DisposeExitHolds,
           DisposeExpandHolds, DisposeDispatchHolds DEF CliNext, SchedulerRun

\* Held makes ownership inductive: a block is taken only for a place that is empty.
THEOREM CliInvariant == CliSpec => []CliInv
BY InitHolds, CliStep, PTL DEF CliSpec

\* No block of the pool leaks and none is held twice, whatever commands run, fail, go on and
\* set variables (scheduler.c, cmd_dispose.c, cli_env.c, cli_mpool.c).
THEOREM BlocksOwned == CliSpec => []BlocksAreOwned
<1>1. CliInv => BlocksAreOwned
  <2> SUFFICES ASSUME CliInv PROVE BlocksAreOwned
    OBVIOUS
  <2> DEFINE h == Holders(ctx)
  <2>1. /\ h[1] = ctx.chain_buf /\ h[2] = ctx.sub_chain_buf
        /\ h[3] = ctx.env_buf /\ h[4] = ctx.arg_buf
    BY DEF Holders
  <2> HIDE DEF h
  <2>2. 1..4 = {1, 2, 3, 4}
    OBVIOUS
  <2>3. {h[i] : i \in 1..4} = {ctx.chain_buf, ctx.sub_chain_buf, ctx.env_buf, ctx.arg_buf}
    BY <2>1, <2>2
  <2>4. \A i, j \in 1..4 : h[i] = h[j] /\ h[i] # NoBuf => i = j
    BY <2>1, <2>2 DEF CliInv, OwnedBy
  <2>5. \A i \in 1..4, v \in Vars : h[i] = ctx.dyn_value[v] => ctx.dyn_value[v] = NoBuf
    BY <2>1, <2>2 DEF CliInv, OwnedBy
  <2> QED BY <2>3, <2>4, <2>5 DEF CliInv, OwnedBy, BlocksAreOwned, h
<1> QED BY <1>1, CliInvariant, PTL

\* At the prompt a line has left nothing behind, for every line and every pool.
THEOREM PromptIsClean == CliSpec => []PromptHoldsNothing
<1>1. CliInv => PromptHoldsNothing
  <2> SUFFICES ASSUME CliInv, RunsTask(eng, "get_char")
               PROVE  /\ ctx.cmd_def = NoCmd
                      /\ \A i \in 1..4 : Holders(ctx)[i] = NoBuf
                      /\ ctx.bitmap = {ctx.dyn_value[v] : v \in Vars} \ {NoBuf}
    BY DEF PromptHoldsNothing
  <2>1. Idle(ctx) /\ NoChain(ctx)
    BY DEF CliInv, Held, RunsTask
  <2>2. 1..4 = {1, 2, 3, 4}
    OBVIOUS
  <2> QED BY <2>1, <2>2 DEF CliInv, OwnedBy, Idle, NoChain, Holders
<1> QED BY <1>1, CliInvariant, PTL

LEMMA OneMore ==
  ASSUME NEW S, IsFiniteSet(S), NEW x
  PROVE  /\ IsFiniteSet(S \cup {x}) /\ Cardinality(S \cup {x}) \in Nat
         /\ Cardinality(S \cup {x}) <= Cardinality(S) + 1
<1>1. IsFiniteSet(S \cup {x})
  BY FS_AddElement
<1>2. Cardinality(S \cup {x}) \in Nat /\ Cardinality(S) \in Nat
  BY <1>1, FS_CardinalityType
<1>3. Cardinality(S \cup {x}) = IF x \in S THEN Cardinality(S) ELSE Cardinality(S) + 1
  BY FS_AddElement
<1> QED BY <1>1, <1>2, <1>3

\* With four blocks left by a set, three more holders leave one free; with five, two.
LEMMA FreeBlock ==
  ASSUME NEW S \in SUBSET Blocks, NEW x, NEW y, NEW z, NEW c, c.bitmap \subseteq S \cup {x, y, z},
         NEW n \in {4, 5}, Cardinality(S) + n <= CLI_MPOOL_COUNT
  PROVE  /\ cli_mpool_alloc(c) # NoBuf
         /\ n = 5 => \A b : ~(Blocks \subseteq c.bitmap \cup {b})
<1>1. IsFiniteSet(Blocks) /\ Cardinality(Blocks) = CLI_MPOOL_COUNT
  <2>1. CLI_MPOOL_COUNT - 1 \in Int /\ 0 <= CLI_MPOOL_COUNT - 1
    BY PoolAssumption
  <2> QED BY SMTT(40), <2>1, PoolAssumption, FS_Interval DEF Blocks
<1>2. IsFiniteSet(S) /\ Cardinality(S) \in Nat
  BY <1>1, FS_Subset, FS_CardinalityType
<1> DEFINE T1 == S \cup {x}
           T2 == T1 \cup {y}
           T3 == T2 \cup {z}
<1>3. IsFiniteSet(T1) /\ Cardinality(T1) \in Nat /\ Cardinality(T1) <= Cardinality(S) + 1
  BY <1>2, OneMore
<1> HIDE DEF T1
<1>4. IsFiniteSet(T2) /\ Cardinality(T2) \in Nat /\ Cardinality(T2) <= Cardinality(T1) + 1
  BY <1>3, OneMore
<1> HIDE DEF T2
<1>5. IsFiniteSet(T3) /\ Cardinality(T3) \in Nat /\ Cardinality(T3) <= Cardinality(T2) + 1
  BY <1>4, OneMore
<1> HIDE DEF T3
<1>6. ~(Blocks \subseteq T3)
  <2>1. Cardinality(T3) < CLI_MPOOL_COUNT
    BY <1>2, <1>3, <1>4, <1>5, PoolAssumption
  <2> QED BY <1>1, <1>5, <2>1, FS_Subset, PoolAssumption
<1>7. ASSUME n = 5, NEW b PROVE ~(Blocks \subseteq T3 \cup {b})
  <2> DEFINE T4 == T3 \cup {b}
  <2>1. IsFiniteSet(T4) /\ Cardinality(T4) \in Nat /\ Cardinality(T4) <= Cardinality(T3) + 1
    BY <1>5, OneMore
  <2> HIDE DEF T4
  <2>2. Cardinality(T4) < CLI_MPOOL_COUNT
    BY <1>2, <1>3, <1>4, <1>5, <1>7, <2>1, PoolAssumption
  <2>3. ~(Blocks \subseteq T4)
    BY <1>1, <2>1, <2>2, FS_Subset, PoolAssumption
  <2> QED BY <2>3 DEF T4
<1>8. c.bitmap \subseteq T3
  BY DEF T1, T2, T3
<1>9. Blocks \ c.bitmap # {}
  BY <1>6, <1>8
<1> QED BY <1>7, <1>8, <1>9, Allocated

\* A block that is free beside another one makes two for the marks of help.
LEMMA MarksFree ==
  ASSUME NEW c \in CliContext, \A b : ~(Blocks \subseteq c.bitmap \cup {b})
  PROVE  alloc_help_marks(c) # NoMarks
<1> DEFINE r == cli_mpool_alloc(c)
           d == cli_mpool_alloc(Marked(c, r))
<1>1. r # NoBuf
  BY Allocated
<1>2. Marked(c, r).bitmap \subseteq c.bitmap \cup {r}
  BY DEF Marked, CliContext
<1>3. d # NoBuf
  BY <1>2, Allocated
<1>4. alloc_help_marks(c) = <<r, d>>
  BY <1>1, <1>3, Zenon DEF alloc_help_marks
<1> HIDE DEF r, d
<1> QED BY <1>1, <1>4 DEF NoMarks

\* Four blocks beside those of the variables are enough for every line, whatever it expands
\* to: the chain, the sub-chain, the replaced text and the arguments hold no more.  A request
\* for help wants a fifth, or it is not answered (scheduler.c, cmd_dispose.c, cli_env.c).
THEOREM BlocksSuffice == CliSpec => []NeverOutOfBlocks
<1>1. CliInv => NeverOutOfBlocks
  <2> DEFINE S == {ctx.dyn_value[v] : v \in Vars} \ {NoBuf}
             Enough(n) == Cardinality(S) + n <= CLI_MPOOL_COUNT
  <2> SUFFICES ASSUME CliInv
               PROVE  /\ Enough(4) =>
                           /\ HasCommand => cli_mpool_alloc(Replaced) # NoBuf
                           /\ RunsTask(eng, "cmd_run") => cli_mpool_alloc(ctx) # NoBuf
                           /\ RunsTask(eng, "auto_run") => alloc_help_marks(ctx) # NoMarks
                      /\ Enough(5) /\ HasCommand => alloc_help_marks(Replaced) # NoMarks
    BY DEF NeverOutOfBlocks, Spare
  <2>1. S \in SUBSET Blocks
    BY DEF CliInv, CliTypeOK, CliContext
  <2> HIDE DEF S
  <2>2. ASSUME Enough(4) PROVE cli_mpool_alloc(ctx) # NoBuf
    <3>1. ctx.bitmap \subseteq S \cup {ctx.chain_buf, ctx.sub_chain_buf, ctx.arg_buf}
      BY DEF CliInv, OwnedBy, S
    <3> QED BY <2>1, <2>2, <3>1, FreeBlock
  <2>3. ASSUME Enough(4), RunsTask(eng, "auto_run") PROVE alloc_help_marks(ctx) # NoMarks
    <3>1. ctx \in CliContext /\ ctx.bitmap = S
      BY <2>3 DEF CliInv, CliTypeOK, OwnedBy, Held, Idle, NoChain, RunsTask, S
    <3>2. \A b : ~(Blocks \subseteq S \cup {b})
      <4> SUFFICES ASSUME NEW b, Blocks \subseteq S \cup {b} PROVE FALSE
        OBVIOUS
      <4> DEFINE c == [bitmap |-> S \cup {b}]
      <4>1. c.bitmap \subseteq S \cup {b, b, b}
        OBVIOUS
      <4>2. Blocks \ c.bitmap = {}
        OBVIOUS
      <4> HIDE DEF c
      <4>3. cli_mpool_alloc(c) # NoBuf
        BY <2>1, <2>3, <4>1, FreeBlock
      <4> QED BY <4>2, <4>3, Allocated
    <3> QED BY <3>1, <3>2, MarksFree
  <2>4. ASSUME HasCommand
        PROVE  /\ Replaced \in CliContext
               /\ \E x, y, z : Replaced.bitmap \subseteq S \cup {x, y, z}
    <3> DEFINE e == Extracted
    <3>1. Good(e) /\ Idle(e) /\ e.dyn_value = ctx.dyn_value
      BY <2>4, ExtractedGood, ExtractedVariables
    <3>2. Replaced = Marked(e, EnvBuf) /\ EnvBuf \in Blocks \cup {NoBuf}
      BY Allocated DEF Replaced, EnvBuf
    <3> HIDE DEF e
    <3>3. e.bitmap \subseteq S \cup {e.chain_buf, e.sub_chain_buf}
      BY <3>1 DEF Good, OwnedBy, Idle, S
    <3>4. Replaced.bitmap \subseteq S \cup {e.chain_buf, e.sub_chain_buf, EnvBuf}
      BY <3>1, <3>2, <3>3 DEF Good, CliContext, Marked
    <3>5. Replaced \in CliContext
      BY <3>1, <3>2 DEF Good, CliContext, Marked
    <3> QED BY <3>4, <3>5
  <2>5. ASSUME HasCommand, Enough(4) PROVE cli_mpool_alloc(Replaced) # NoBuf
    BY <2>1, <2>4, <2>5, FreeBlock
  <2>6. ASSUME HasCommand, Enough(5) PROVE alloc_help_marks(Replaced) # NoMarks
    <3>1. \A b : ~(Blocks \subseteq Replaced.bitmap \cup {b})
      BY <2>1, <2>4, <2>6, FreeBlock
    <3> QED BY <2>4, <2>6, <3>1, MarksFree
  <2> QED BY <2>2, <2>3, <2>5, <2>6
<1> QED BY <1>1, CliInvariant, PTL

-----------------------------------------------------------------------------
(***************************************************************************)
(* The scheduler of the command line implements CommandLine, for any       *)
(* command table, start-up table, lines, variables and number of blocks.   *)
(*                                                                         *)
(* Tracks says how the engine, cmd_ret and the chains go together; with    *)
(* CliInv it makes every step of the scheduler a step of CommandLine or a  *)
(* stutter.                                                                *)
(***************************************************************************)

Tracks ==
  /\ ctx.sub_chain_buf = NoBuf => ctx.sub_chain = <<>>
  /\ eng.to \in {"start", "auto_run"} /\ ctx.auto_run_idx = 0 => ~ctx.failed
  /\ eng.to = "cmd_run" =>
       /\ ~ctx.failed
       /\ ctx.next_state = "auto_run" => ctx.auto_run_idx > 0
       /\ ctx.next_state = "dispose" => ctx.chain_buf # NoBuf
  /\ "cmd_run" \in {eng.from, eng.to} => ctx.cmd_def \in Commands
  /\ eng.from = "cmd_run" =>
       /\ eng.to \in {"cmd_run", ctx.next_state}
       /\ eng.to = "auto_run" => ctx.auto_run_idx > 0
       /\ eng.to = "dispose" => ctx.chain_buf # NoBuf

-----------------------------------------------------------------------------
\* Texts

LEMMA LeftOfText ==
  ASSUME NEW s \in Seq(Words)
  PROVE  /\ Left(s) = <<>> <=> Spent(s)
         /\ ~Spent(s) => Head(Left(s)) = Head(s) /\ Left(Tail(s)) = Tail(Left(s))
<1> DEFINE n == Len(s)
           t == Tail(s)
<1>1. n \in Nat /\ (s # <<>> => n \in Nat \ {0}) /\ (s = <<>> => n = 0)
  BY EmptySeq, LenProperties
<1>0. Len(<<>>) = 0
  BY EmptySeq
<1>2. CASE s = <<>>
  BY <1>2 DEF Left, Spent
<1>3. CASE s # <<>>
  <2>1. n \in Nat \ {0}
    BY <1>1, <1>3
  <2>2. /\ t \in Seq(Words) /\ Len(t) = n - 1 /\ Head(s) = s[1] /\ t = SubSeq(s, 2, n)
        /\ \A i \in 1 .. Len(t) : t[i] = s[i + 1]
    BY <1>3, HeadTailProperties, TailIsSubSeq
  <2>3. CASE n = 1
    <3>1. t = <<>> /\ Left(t) = <<>>
      BY <2>2, <2>3, SubSeqEmpty DEF Left
    <3>2. CASE s[1] = Blank
      <4>1. Left(s) = <<>>
        BY <1>3, <2>3, <3>2, SubSeqEmpty DEF Left
      <4>2. s = <<Blank>>
        <5>1. <<Blank>> \in Seq(Words) /\ Len(<<Blank>>) = 1 /\ <<Blank>>[1] = Blank
          BY DEF Words
        <5> HIDE DEF n
        <5>2. \A i \in 1 .. Len(s) : s[i] = <<Blank>>[i]
          BY <2>3, <3>2, <5>1 DEF n
        <5> QED BY <2>3, <5>1, <5>2, SeqEqual DEF n
      <4> QED BY <4>1, <4>2 DEF Spent
    <3>3. CASE s[1] # Blank
      <4>1. Left(s) = s
        BY <2>3, <3>3 DEF Left
      <4>2. s # <<Blank>>
        BY <3>3
      <4> QED BY <1>3, <3>1, <4>1, <4>2 DEF Spent
    <3> QED BY <3>2, <3>3
  <2>4. CASE n > 1
    <3>1. ~Spent(s)
      <4>1. Len(<<Blank>>) = 1
        OBVIOUS
      <4>2. n # 1
        <5> HIDE DEF n
        <5> QED BY <2>1, <2>4
      <4> QED BY <1>3, <4>1, <4>2, Zenon DEF Spent
    <3>2. t # <<>> /\ t[Len(t)] = s[n]
      <4>1. Len(t) \in 1 .. Len(t) /\ n = Len(t) + 1
        BY <2>1, <2>2, <2>4
      <4>2. t[Len(t)] = s[n]
        BY <2>2, <4>1
      <4>3. Len(t) # 0
        <5> DEFINE k == Len(t)
        <5>1. k \in 1 .. k
          BY <4>1
        <5> HIDE DEF k
        <5>2. k # 0
          BY <5>1
        <5> QED BY <5>2 DEF k
      <4> QED BY <1>0, <4>2, <4>3, Zenon
    <3>3. CASE s[n] = Blank
      <4> DEFINE f == SubSeq(s, 1, n - 1)
      <4>1. Left(s) = f /\ Left(t) = SubSeq(t, 1, n - 2)
        BY <1>3, <2>2, <3>2, <3>3 DEF Left
      <4>2. Head(f) = s[1] /\ Tail(f) = SubSeq(s, 2, n - 1)
        <5>1. n - 1 \in 1 .. Len(s) /\ 1 \in 1 .. Len(s)
          BY <2>1, <2>4
        <5> QED BY <5>1, HeadTailOfSubSeq
      <4>3. f # <<>>
        <5>1. Len(f) = n - 1
          <6>1. \A i \in 1 .. n - 1 : s[i] \in Words
            BY <2>1, ElementOfSeq
          <6> QED BY <2>1, <2>4, <6>1, SubSeqProperties
        <5>2. Len(f) # 0
          BY <2>1, <2>4, <5>1
        <5> QED BY <1>0, <5>2, Zenon
      <4>4. SubSeq(t, 1, n - 2) = SubSeq(s, 2, n - 1)
        <5>1. CASE n = 2
          BY <5>1, SubSeqEmpty
        <5>2. CASE n > 2
          <6>1. /\ 2 \in 1 .. Len(s) /\ n \in 1 .. Len(s)
                /\ 1 \in 1 .. n - 2 + 1 /\ n - 2 \in 1 .. n - 2 + 1
            BY <2>1, <5>2
          <6>2. SubSeq(SubSeq(s, 2, n), 1, n - 2) = SubSeq(s, 2 + 1 - 1, 2 + (n - 2) - 1)
            BY <6>1, SubSeqOfSubSeq
          <6>3. 2 + 1 - 1 = 2 /\ 2 + (n - 2) - 1 = n - 1
            BY <2>1
          <6> QED BY <2>2, <6>2, <6>3
        <5> QED BY <2>1, <2>4, <5>1, <5>2
      <4> QED BY <2>2, <3>1, <4>1, <4>2, <4>3, <4>4
    <3>4. CASE s[n] # Blank
      BY <1>3, <3>1, <3>2, <3>4 DEF Left
    <3> QED BY <3>3, <3>4
  <2>5. n = 1 \/ n > 1
    <3> HIDE DEF n
    <3> QED BY <2>1
  <2> QED BY <2>3, <2>4, <2>5
<1> QED BY <1>2, <1>3

\* CommandLine reads a text as the scheduler does.
LEMMA ShellText ==
  /\ \A t : Shell!Name(t) = Name(t)
  /\ \A t : Shell!Meaning(t, env) = Meaning(t, env)
  BY Zenon DEF Shell!Name, Name, Shell!Calls, Calls, Shell!Meaning, Meaning,
               Shell!AsArgument, AsArgument

\* The value of a variable ends in no blank.
LEMMA LeftOfValue ==
  ASSUME NEW s \in Seq(Terms)
  PROVE  Left(s) = s
<1>1. s # <<>> => s[Len(s)] \in Terms
  <2>1. s # <<>> => Len(s) \in 1 .. Len(s)
    BY EmptySeq
  <2> QED BY <2>1, ElementOfSeq
<1> QED BY <1>1, CommandAssumption DEF Left

-----------------------------------------------------------------------------
\* The line in hand

LEMMA DisposeMode ==
  ASSUME CliInv, RunsTask(eng, "dispose")
  PROVE  /\ CliTypeOK /\ ctx \in CliContext /\ Mode = "line" /\ ~Called /\ Boot = <<>>
         /\ ctx.cmd_def = NoCmd
         /\ ctx.chain_buf = NoBuf => ctx.sub_chain_buf = NoBuf
BY DEF CliInv, CliTypeOK, RunsTask, Mode, Called, Boot, Held, Idle

\* Moving the line to its block leaves what is left of it as it is.
LEMMA OpenedView ==
  ASSUME CliInv, Tracks, RunsTask(eng, "dispose")
  PROVE  /\ Opened.sub_chain_buf = NoBuf => Opened.sub_chain = <<>>
         /\ Alias = IF Opened.failed THEN <<>> ELSE Left(Opened.sub_chain)
         /\ Opened.chain_buf # NoBuf =>
              Todo = IF Opened.failed THEN <<>> ELSE Left(Opened.chain)
<1> DEFINE b == cli_mpool_alloc(ctx)
<1>1. /\ ctx \in CliContext /\ Mode = "line"
      /\ ctx.chain_buf = NoBuf => ctx.sub_chain_buf = NoBuf
      /\ ctx.sub_chain_buf = NoBuf => ctx.sub_chain = <<>>
  BY DisposeMode DEF Tracks
<1>2. Left(<<>>) = <<>>
  BY DEF Left
<1>3. CASE ctx.chain_buf # NoBuf \/ line = <<>> \/ b = NoBuf
  <2>1. Opened = ctx
    BY <1>3 DEF Opened
  <2> HIDE DEF b
  <2> QED BY <1>1, <2>1 DEF Todo, Alias
<1>4. CASE ~(ctx.chain_buf # NoBuf \/ line = <<>> \/ b = NoBuf)
  <2>1. Opened = [Marked(ctx, b) EXCEPT !.chain_buf = b, !.chain = line, !.failed = FALSE]
    BY <1>4, Zenon DEF Opened
  <2> HIDE DEF b
  <2>2. /\ Opened.sub_chain_buf = ctx.sub_chain_buf /\ Opened.sub_chain = ctx.sub_chain
        /\ Opened.failed = FALSE /\ Opened.chain = line
    BY <1>1, <2>1 DEF CliContext, Marked
  <2>3. Todo = Left(line) /\ ctx.sub_chain = <<>>
    BY <1>1, <1>4 DEF Todo
  <2>4. Alias = <<>>
    BY <1>2, <2>3 DEF Alias
  <2> QED BY <1>2, <2>2, <2>3, <2>4
<1> QED BY <1>3, <1>4

\* The command that is extracted is the one that CommandLine takes.
LEMMA ExtractedView ==
  ASSUME CliInv, Tracks, HasCommand
  PROVE  /\ ~Extracted.failed
         /\ Extracted.sub_chain_buf = NoBuf => Extracted.sub_chain = <<>>
         /\ Shell!MayTake /\ Head(Shell!Reached) = Word
         /\ Left(Extracted.chain) = IF Alias = <<>> THEN Tail(Todo) ELSE Todo
         /\ Left(Extracted.sub_chain) = IF Alias = <<>> THEN Alias ELSE Tail(Alias)
<1> DEFINE o == Opened
           x == Extracting
<1>1. /\ o \in CliContext /\ ~o.failed /\ o.chain_buf # NoBuf
      /\ Todo = Left(o.chain) /\ Alias = Left(o.sub_chain)
      /\ o.sub_chain_buf = NoBuf => o.sub_chain = <<>>
      /\ Mode = "line" /\ ctx.cmd_def = NoCmd
  <2>1. RunsTask(eng, "dispose") /\ Opened.chain_buf # NoBuf /\ ~Opened.failed
    BY Zenon DEF HasCommand, NoLine, LineOver
  <2>2. Opened \in CliContext
    BY <2>1, OpenedGood DEF Good
  <2> QED BY <2>1, <2>2, OpenedView, DisposeMode
<1>2. /\ Shell!Reached = IF Alias # <<>> THEN Alias ELSE Todo
      /\ Shell!MayTake <=> Shell!Reached # <<>>
  BY <1>1 DEF Shell!Reached, Shell!MayTake
<1>3. x = IF o.sub_chain_buf # NoBuf /\ Spent(o.sub_chain) THEN FreeSubChain(o) ELSE o
  BY Zenon DEF Extracting
<1>4. /\ InSubChain <=> x.sub_chain_buf # NoBuf
      /\ Word = IF InSubChain THEN Head(x.sub_chain) ELSE Head(x.chain)
      /\ Extracted = IF InSubChain THEN [x EXCEPT !.sub_chain = Tail(x.sub_chain)]
                                   ELSE [x EXCEPT !.chain = Tail(x.chain)]
  BY Zenon DEF InSubChain, Word, Extracted
<1>5. ~InSubChain => ~Spent(x.chain)
  BY DEF HasCommand, LineOver
<1> HIDE DEF o, x
<1>6. o.chain \in Seq(Words) /\ o.sub_chain \in Seq(Words)
  BY <1>1 DEF CliContext
<1>7. CASE o.sub_chain_buf # NoBuf /\ ~Spent(o.sub_chain)
  <2>1. x = o /\ InSubChain /\ Extracted = [o EXCEPT !.sub_chain = Tail(o.sub_chain)]
    BY <1>3, <1>4, <1>7
  <2>2. /\ Extracted.failed = o.failed /\ Extracted.chain = o.chain
        /\ Extracted.sub_chain = Tail(o.sub_chain)
        /\ Extracted.sub_chain_buf = o.sub_chain_buf
    BY <1>1, <2>1 DEF CliContext
  <2>3. /\ Alias # <<>> /\ Head(Alias) = Head(o.sub_chain)
        /\ Left(Tail(o.sub_chain)) = Tail(Alias)
    BY <1>1, <1>6, <1>7, LeftOfText
  <2> QED BY <1>1, <1>2, <1>4, <1>7, <2>1, <2>2, <2>3
<1>8. CASE ~(o.sub_chain_buf # NoBuf /\ ~Spent(o.sub_chain))
  <2>1. /\ x.sub_chain_buf = NoBuf /\ x.sub_chain = <<>> /\ x.chain = o.chain
        /\ x.failed = o.failed /\ x \in CliContext
    <3>1. CASE o.sub_chain_buf = NoBuf
      BY <1>1, <1>3, <3>1
    <3>2. CASE o.sub_chain_buf # NoBuf
      <4>1. x = FreeSubChain(o)
        BY <1>3, <1>8, <3>2
      <4>2. Good(o)
        BY OpenedGood DEF HasCommand, o
      <4>3. x \in CliContext
        BY <4>1, <4>2, FreeSubChainGood DEF Good
      <4> QED BY <1>1, <4>1, <4>3 DEF CliContext, FreeSubChain, cli_mpool_free
    <3> QED BY <3>1, <3>2
  <2>2. Extracted = [x EXCEPT !.chain = Tail(x.chain)] /\ Word = Head(x.chain) /\ ~Spent(x.chain)
    BY <1>4, <1>5, <2>1
  <2>3. /\ Extracted.failed = o.failed /\ Extracted.chain = Tail(o.chain)
        /\ Extracted.sub_chain = <<>>
    BY <2>1, <2>2 DEF CliContext
  <2>4. Alias = <<>> /\ Left(<<>>) = <<>>
    <3>1. Spent(o.sub_chain)
      BY <1>1, <1>8 DEF Spent
    <3> QED BY <1>1, <1>6, <3>1, LeftOfText DEF Left
  <2>5. /\ Todo # <<>> /\ Head(Todo) = Head(o.chain)
        /\ Left(Tail(o.chain)) = Tail(Todo)
    BY <1>1, <1>6, <2>1, <2>2, LeftOfText
  <2> QED BY <1>1, <1>2, <2>1, <2>2, <2>3, <2>4, <2>5
<1> QED BY <1>7, <1>8

-----------------------------------------------------------------------------
\* The steps

Mapped == Tracks' /\ [Shell!Next]_(Shell!shell)

LEMMA InitMapped == CliInit => Shell!Init /\ Tracks
<1> SUFFICES ASSUME CliInit PROVE Shell!Init /\ Tracks
  OBVIOUS
<1>0. /\ eng.from # "cmd_run" /\ eng.to = "start"
      /\ ctx.sub_chain = <<>> /\ ctx.failed = FALSE /\ ctx.auto_run_idx = 0
      /\ ctx.cmd_def = NoCmd
  BY StateAssumption DEF CliInit, engine_init
<1>1. Tracks
  BY <1>0 DEF Tracks
<1>2. Mode = "boot" /\ Todo = <<>> /\ Alias = <<>> /\ Called = FALSE
  BY <1>0 DEF Mode, Todo, Alias, Called, Left
<1>3. Boot = AutoCmds
  <2>1. Boot = SubSeq(AutoCmds, 1, Len(AutoCmds))
    BY <1>0, <1>2 DEF Boot, AutoRunAborts
  <2> QED BY <2>1, TextAssumption, SubSeqFull
<1> QED BY <1>1, <1>2, <1>3 DEF Shell!Init, CliInit

\* The change of state ends a command that is done and is nothing else.
LEMMA SwitchMapped ==
  ASSUME CliInv, Tracks, SwitchState
  PROVE  Mapped
<1>1. /\ eng' = Switched(eng) /\ eng.from # eng.to /\ UNCHANGED <<line, env>>
      /\ CliTypeOK /\ ctx \in CliContext
  BY DEF SwitchState, MustSwitch, CliInv, CliTypeOK
<1>2. eng'.from = eng.to /\ eng'.to = eng.to
  BY <1>1 DEF Switched, CliTypeOK
<1>3. CASE eng.from = "cmd_run"
  <2>1. ctx' = scheduler_cmd_run_exit(ctx)
    BY <1>3 DEF SwitchState
  <2>2. /\ ctx'.chain_buf = ctx.chain_buf /\ ctx'.chain = ctx.chain
        /\ ctx'.sub_chain_buf = ctx.sub_chain_buf /\ ctx'.sub_chain = ctx.sub_chain
        /\ ctx'.failed = ctx.failed /\ ctx'.auto_run_idx = ctx.auto_run_idx
        /\ ctx'.next_state = ctx.next_state /\ ctx'.cmd_def = NoCmd
    BY <1>1, <2>1 DEF CliContext, scheduler_cmd_run_exit, cmd_parse_cleanup, cli_mpool_free
  <2>3. Mode' = Mode /\ Boot' = Boot /\ Todo' = Todo /\ Alias' = Alias
    BY <1>1, <1>2, <2>2 DEF Mode, Boot, AutoRunAborts, Todo, Alias
  <2>4. Called = TRUE /\ Called' = FALSE /\ ctx.cmd_def # NoCmd
    BY <1>1, <1>2, <1>3, CommandAssumption DEF Called, Tracks, Words, Terms
  <2>5. Shell!End
    BY <1>1, <2>2, <2>3, <2>4 DEF Shell!End
  <2>6. Tracks'
    BY <1>1, <1>2, <1>3, <2>2 DEF Tracks
  <2> QED BY <2>5, <2>6 DEF Mapped, Shell!Next
<1>4. CASE eng.from # "cmd_run"
  <2>1. ctx' = ctx
    BY <1>4 DEF SwitchState
  <2>2. Mode' = Mode /\ Boot' = Boot /\ Todo' = Todo /\ Alias' = Alias
    BY <1>1, <1>2, <2>1 DEF Mode, Boot, AutoRunAborts, Todo, Alias
  <2>3. Called' = Called
    BY <1>2, <1>4 DEF Called
  <2>4. Tracks'
    BY <1>1, <1>2, <1>4, <2>1 DEF Tracks
  <2> QED BY <1>1, <2>1, <2>2, <2>3, <2>4 DEF Mapped, Shell!shell
<1> QED BY <1>3, <1>4

LEMMA StartMapped ==
  ASSUME CliInv, Tracks, Start
  PROVE  Mapped
<1>1. CliTypeOK /\ RunsTask(eng, "start") /\ Goto("auto_run") /\ UNCHANGED <<line, env, ctx>>
  BY DEF Start, CliInv
<1>2. eng'.from = "start" /\ eng'.to = "auto_run" /\ eng.from = "start" /\ eng.to = "start"
  BY <1>1, GotoEngine DEF RunsTask
<1>3. /\ Mode' = Mode /\ Boot' = Boot /\ Todo' = Todo /\ Alias' = Alias
      /\ Called' = Called
  BY <1>1, <1>2 DEF Mode, Boot, AutoRunAborts, Todo, Alias, Called
<1>4. Tracks'
  BY <1>1, <1>2 DEF Tracks
<1> QED BY <1>1, <1>3, <1>4 DEF Mapped, Shell!shell

LEMMA EnterMapped ==
  ASSUME CliInv, Tracks, Enter
  PROVE  Mapped
<1>1. CliTypeOK /\ RunsTask(eng, "get_char") /\ Goto("dispose") /\ UNCHANGED <<env, ctx>>
  BY DEF Enter, CliInv
<1>2. /\ eng'.from = "get_char" /\ eng'.to = "dispose"
      /\ eng.from = "get_char" /\ eng.to = "get_char"
  BY <1>1, GotoEngine DEF RunsTask
<1>3. PICK l \in Lines : line' = l
  BY DEF Enter
<1>4. ctx.chain_buf = NoBuf
  BY <1>2 DEF CliInv, Held, NoChain
<1>5. /\ Mode = "prompt" /\ Mode' = "line" /\ Boot' = Boot /\ Alias' = Alias
      /\ Called' = Called /\ Todo' = Left(l)
  BY <1>1, <1>2, <1>3, <1>4 DEF Mode, Boot, Todo, Alias, Called
<1>6. Shell!Enter
  BY <1>1, <1>5 DEF Shell!Enter
<1>7. Tracks'
  BY <1>1, <1>2, <1>4 DEF Tracks
<1> QED BY <1>6, <1>7 DEF Mapped, Shell!Next

\* The line ends: nothing of it is left.
LEMMA LeaveMapped ==
  ASSUME CliInv, RunsTask(eng, "dispose"), NEW c, c.cmd_def = NoCmd, c.sub_chain = <<>>,
         LeaveLine(c)
  PROVE  Mapped
<1>1. CliTypeOK /\ ctx' = c /\ line' = <<>> /\ env' = env /\ Goto("get_char")
  BY DEF CliInv, LeaveLine
<1>2. eng'.from = "dispose" /\ eng'.to = "get_char"
  BY <1>1, GotoEngine DEF RunsTask
<1>3. Mode = "line" /\ ctx.cmd_def = NoCmd /\ Called = FALSE
  BY DisposeMode
<1>4. /\ Mode' = "prompt" /\ Boot' = <<>> /\ Todo' = <<>> /\ Alias' = <<>>
      /\ Called' = FALSE /\ ctx'.cmd_def = NoCmd
  BY <1>1, <1>2 DEF Mode, Boot, Todo, Alias, Called, Left
<1>5. Shell!Refuse
  BY <1>1, <1>3, <1>4 DEF Shell!Refuse, Shell!Drop
<1>6. Tracks'
  BY <1>1, <1>2 DEF Tracks
<1> QED BY <1>5, <1>6 DEF Mapped, Shell!Next

\* cmd_task is called, and leaves cmd_run or is called again.
LEMMA CallMapped ==
  ASSUME CliInv, Tracks, RunsTask(eng, "cmd_run"), UNCHANGED eng \/ Goto(ctx.next_state),
         UNCHANGED line,
         env' \in {env} \cup UNION {{[env EXCEPT ![v] = s] : s \in Values[v]} : v \in Vars},
         ctx'.chain_buf = ctx.chain_buf, ctx'.chain = ctx.chain,
         ctx'.sub_chain_buf = ctx.sub_chain_buf, ctx'.sub_chain = ctx.sub_chain,
         ctx'.auto_run_idx = ctx.auto_run_idx, ctx'.next_state = ctx.next_state,
         ctx'.cmd_def = ctx.cmd_def,
         UNCHANGED eng => ~ctx'.failed
  PROVE  Mapped
<1>1. /\ CliTypeOK /\ ctx.next_state \in {"auto_run", "dispose"}
      /\ eng.from = "cmd_run" /\ eng.to = "cmd_run"
      /\ ctx.auto_run_idx \in Nat
  <2>1. 0 .. Len(AutoCmds) \subseteq Nat
    BY TextAssumption, LenProperties
  <2> QED BY <2>1 DEF CliInv, CliTypeOK, CliContext, RunsTask
<1>2. /\ ~ctx.failed /\ ctx.cmd_def \in Commands
      /\ ctx.next_state = "auto_run" => ctx.auto_run_idx > 0
      /\ ctx.next_state = "dispose" => ctx.chain_buf # NoBuf
  BY <1>1 DEF Tracks
<1>3. eng'.from = "cmd_run" /\ eng'.to \in {"cmd_run", ctx.next_state}
  BY <1>1, GotoEngine
<1>4. eng'.to = "cmd_run" => ~ctx'.failed
  BY <1>1, GotoEngine
<1>5. ctx.cmd_def # NoCmd /\ Called = FALSE
  BY <1>1, <1>2, CommandAssumption DEF Words, Terms, Called
<1>6. Called' = (eng'.to # "cmd_run") /\ Mode' = Mode
  BY <1>1, <1>3 DEF Called, Mode
<1>7. Mode = IF ctx.next_state = "auto_run" THEN "boot" ELSE "line"
  BY <1>1 DEF Mode
<1>0. Tracks'
  BY <1>1, <1>2, <1>3, <1>4 DEF Tracks
<1>8. CASE ~ctx'.failed
  <2>1. Boot' = Boot /\ Todo' = Todo /\ Alias' = Alias
    BY <1>2, <1>6, <1>8 DEF Boot, AutoRunAborts, Todo, Alias
  <2>2. Shell!Work
    BY <1>5, <1>6, <2>1 DEF Shell!Work
  <2> QED BY <1>0, <2>2 DEF Mapped, Shell!Next
<1>9. CASE ctx'.failed
  <2>1. Called' = TRUE
    BY <1>4, <1>6, <1>9
  <2>2. Boot' = <<>> /\ Todo' = <<>> /\ Alias' = <<>>
    BY <1>1, <1>2, <1>6, <1>7, <1>9 DEF Boot, AutoRunAborts, Todo, Alias
  <2>3. Shell!Work
    BY <1>5, <1>6, <2>1, <2>2 DEF Shell!Work, Shell!Drop
  <2> QED BY <1>0, <2>3 DEF Mapped, Shell!Next
<1> QED BY <1>8, <1>9

LEMMA CommandMapped ==
  ASSUME CliInv, Tracks, CallBare \/ (\E result \in {"fail", "ok", "continue"} : CallCommand(result))
  PROVE  Mapped
<1>1. ctx \in CliContext /\ CliTypeOK
  BY DEF CliInv, CliTypeOK
<1>2. CASE CallBare
  <2>1. RunsTask(eng, "cmd_run") /\ Goto(ctx.next_state) /\ UNCHANGED <<line, env, ctx>>
    BY <1>2 DEF CallBare
  <2>2. ~ctx.failed /\ ctx.next_state # "cmd_run"
    BY <1>1, <2>1 DEF CliContext, Tracks, RunsTask
  <2> QED BY <2>1, <2>2, CallMapped
<1>3. ASSUME NEW result \in {"fail", "ok", "continue"}, CallCommand(result)
      PROVE  Mapped
  <2> DEFINE b == cli_mpool_alloc(ctx)
             f == result = "fail"
             c == [ctx EXCEPT !.failed = f]
  <2>1. /\ RunsTask(eng, "cmd_run") /\ UNCHANGED line
        /\ IF result = "continue" /\ ctx.cmd_def \notin Legacy
           THEN UNCHANGED eng ELSE Goto(ctx.next_state)
        /\ \/ ctx' = c /\ UNCHANGED env
           \/ /\ b # NoBuf
              /\ \E v \in Vars : \E s \in Values[v] :
                   /\ env' = [env EXCEPT ![v] = s]
                   /\ ctx' = [cli_mpool_free(Marked(c, b), c.dyn_value[v]) EXCEPT !.dyn_value[v] = b]
    BY <1>3 DEF CallCommand
  <2>2. f \in BOOLEAN
    OBVIOUS
  <2>3. UNCHANGED eng => ~f
    <3>1. CASE result = "continue"
      BY <3>1
    <3>2. CASE result # "continue"
      <4>1. Goto(ctx.next_state) /\ ctx.next_state \in {"auto_run", "dispose"} /\ eng.to = "cmd_run"
        BY <1>1, <2>1, <3>2 DEF CliContext, RunsTask
      <4> QED BY <1>1, <2>1, <4>1, GotoEngine DEF RunsTask
    <3> QED BY <3>1, <3>2
  <2>4. UNCHANGED eng \/ Goto(ctx.next_state)
    BY <2>1
  <2> HIDE DEF b, f
  <2>5. /\ ctx'.failed = f
        /\ ctx'.chain_buf = ctx.chain_buf /\ ctx'.chain = ctx.chain
        /\ ctx'.sub_chain_buf = ctx.sub_chain_buf /\ ctx'.sub_chain = ctx.sub_chain
        /\ ctx'.auto_run_idx = ctx.auto_run_idx /\ ctx'.next_state = ctx.next_state
        /\ ctx'.cmd_def = ctx.cmd_def
    <3>1. /\ c \in CliContext /\ c.failed = f
          /\ c.chain_buf = ctx.chain_buf /\ c.chain = ctx.chain
          /\ c.sub_chain_buf = ctx.sub_chain_buf /\ c.sub_chain = ctx.sub_chain
          /\ c.auto_run_idx = ctx.auto_run_idx /\ c.next_state = ctx.next_state
          /\ c.cmd_def = ctx.cmd_def
      BY <1>1, <2>2 DEF CliContext
    <3> HIDE DEF c
    <3>2. ASSUME NEW v \in Vars,
                 ctx' = [cli_mpool_free(Marked(c, b), c.dyn_value[v]) EXCEPT !.dyn_value[v] = b]
          PROVE  /\ ctx'.failed = c.failed
                 /\ ctx'.chain_buf = c.chain_buf /\ ctx'.chain = c.chain
                 /\ ctx'.sub_chain_buf = c.sub_chain_buf /\ ctx'.sub_chain = c.sub_chain
                 /\ ctx'.auto_run_idx = c.auto_run_idx /\ ctx'.next_state = c.next_state
                 /\ ctx'.cmd_def = c.cmd_def
      <4> DEFINE x == cli_mpool_free(Marked(c, b), c.dyn_value[v])
                 m == (c.bitmap \cup ({b} \ {NoBuf})) \ {c.dyn_value[v]}
      <4>1. x = [c EXCEPT !.bitmap = m]
        BY <3>1 DEF CliContext, Marked, cli_mpool_free
      <4> HIDE DEF m, x
      <4>2. /\ x.failed = c.failed /\ x.chain_buf = c.chain_buf /\ x.chain = c.chain
            /\ x.sub_chain_buf = c.sub_chain_buf /\ x.sub_chain = c.sub_chain
            /\ x.auto_run_idx = c.auto_run_idx /\ x.next_state = c.next_state
            /\ x.cmd_def = c.cmd_def /\ DOMAIN x = DOMAIN c
        BY <3>1, <4>1 DEF CliContext
      <4>3. ctx' = [x EXCEPT !.dyn_value[v] = b]
        BY <3>2 DEF x
      <4> QED BY <3>1, <4>2, <4>3 DEF CliContext
    <3> QED BY <2>1, <3>1, <3>2
  <2>6. env' \in {env} \cup UNION {{[env EXCEPT ![v] = s] : s \in Values[v]} : v \in Vars}
    BY <2>1
  <2> QED BY SMTT(40), <2>1, <2>3, <2>4, <2>5, <2>6, CallMapped
<1> QED BY <1>2, <1>3

-----------------------------------------------------------------------------
\* The start-up table

\* The outcomes that leave cmd_ret at zero and nothing to run.
CmdRetZero == {"nothing", "helped", "silent"}

\* A preparation leaves the chains alone and sets cmd_ret.
LEMMA PreparedView ==
  ASSUME NEW c \in CliContext, NEW w, NEW a, NEW o
  PROVE  LET d == cmd_parse_prepare(c, w, o, a)
         IN /\ d.chain_buf = c.chain_buf /\ d.chain = c.chain
            /\ d.sub_chain_buf = c.sub_chain_buf /\ d.sub_chain = c.sub_chain
            /\ d.auto_run_idx = c.auto_run_idx /\ d.next_state = c.next_state
            /\ d.cmd_def = IF o = "ready" THEN w ELSE c.cmd_def
            /\ d.failed = (IF o = "ready" THEN c.failed ELSE o \notin CmdRetZero)
            /\ DOMAIN d = DOMAIN c
<1> DEFINE b == IF w \in OwnBuffer THEN NoBuf ELSE cli_mpool_alloc(c)
           m == c.bitmap \cup ({b} \ {NoBuf})
           d == cmd_parse_prepare(c, w, o, a)
<1>1. CASE o = "ready"
  <2>1. d = [c EXCEPT !.bitmap = m, !.cmd_def = w, !.arg_buf = b, !.args = a]
    BY <1>1 DEF cmd_parse_prepare, Marked, CliContext
  <2> HIDE DEF b, m, d
  <2> QED BY <1>1, <2>1 DEF CliContext, d
<1>2. CASE o # "ready"
  <2>1. d = [c EXCEPT !.failed = (o \notin CmdRetZero)]
    BY <1>2, HelpGivesBack DEF cmd_parse_prepare, CmdRetZero
  <2> HIDE DEF b, m, d
  <2> QED BY <1>2, <2>1 DEF CliContext, d
<1> QED BY <1>1, <1>2

\* Only a command of the table is ever ready to run.
LEMMA ReadyIsCommand ==
  ASSUME NEW c, NEW w, NEW o \in Outcomes(c, w), o = "ready"
  PROVE  w \in Commands
BY DEF Outcomes

LEMMA RestOfText ==
  ASSUME NEW S, NEW s \in Seq(S), NEW i \in Nat, i < Len(s)
  PROVE  LET r == SubSeq(s, i + 1, Len(s))
         IN r # <<>> /\ Head(r) = s[i + 1] /\ Tail(r) = SubSeq(s, i + 2, Len(s))
<1> DEFINE n == Len(s)
           k == i + 1
           r == SubSeq(s, k, n)
<1>1. n \in Nat
  BY LenProperties
<1>2. k \in 1 .. n /\ n \in k .. n /\ k + 1 = i + 2 /\ n - k + 1 # 0
  BY <1>1
<1>3. Head(r) = s[k] /\ Tail(r) = SubSeq(s, k + 1, n)
  <2> HIDE DEF k
  <2> QED BY <1>2, HeadTailOfSubSeq
<1>4. Len(r) = n - k + 1
  <2>1. \A j \in k .. n : s[j] \in S
    BY <1>1, <1>2, ElementOfSeq
  <2> HIDE DEF k
  <2> QED BY <1>1, <1>2, <2>1, SubSeqProperties
<1>5. Len(<<>>) = 0
  BY EmptySeq
<1>6. Len(r) # 0
  BY <1>2, <1>4, Zenon
<1>7. r # <<>>
  BY <1>5, <1>6, Zenon
<1> QED BY <1>2, <1>3, <1>7

LEMMA AutoRunMode ==
  ASSUME CliInv, Tracks, RunsTask(eng, "auto_run")
  PROVE  /\ CliTypeOK /\ ctx \in CliContext /\ Mode = "boot" /\ Called = FALSE
         /\ ctx.cmd_def = NoCmd /\ Todo = <<>> /\ Alias = <<>>
         /\ ctx.sub_chain_buf = NoBuf /\ ctx.sub_chain = <<>>
         /\ ctx.auto_run_idx \in Nat /\ Len(AutoCmds) \in Nat
         /\ ctx.auto_run_idx = 0 => ~ctx.failed
<1>1. CliTypeOK /\ ctx \in CliContext /\ eng.from = "auto_run" /\ eng.to = "auto_run"
  BY DEF CliInv, CliTypeOK, RunsTask
<1>2. ctx.auto_run_idx \in Nat /\ Len(AutoCmds) \in Nat
  BY <1>1, TextAssumption, LenProperties DEF CliContext
<1>3. Mode = "boot" /\ Called = FALSE /\ ctx.cmd_def = NoCmd /\ ctx.sub_chain_buf = NoBuf
  BY <1>1 DEF Mode, Called, CliInv, Held, Idle, NoChain
<1>4. ctx.sub_chain = <<>> /\ (ctx.auto_run_idx = 0 => ~ctx.failed)
  BY <1>1, <1>3 DEF Tracks
<1>5. Todo = <<>> /\ Alias = <<>>
  BY <1>3, <1>4 DEF Todo, Alias, Left
<1> QED BY <1>1, <1>2, <1>3, <1>4, <1>5

LEMMA AutoRunExitMapped ==
  ASSUME CliInv, Tracks, AutoRunExit
  PROVE  Mapped
<1>1. /\ RunsTask(eng, "auto_run") /\ AutoRunOver /\ Goto("get_char")
      /\ ctx' = [ctx EXCEPT !.auto_run_idx = 0] /\ UNCHANGED <<line, env>>
  BY DEF AutoRunExit
<1>2. /\ CliTypeOK /\ ctx \in CliContext /\ Mode = "boot" /\ Called = FALSE
      /\ ctx.cmd_def = NoCmd /\ Todo = <<>> /\ Alias = <<>>
      /\ ctx.sub_chain_buf = NoBuf /\ ctx.sub_chain = <<>>
      /\ ctx.auto_run_idx \in Nat /\ Len(AutoCmds) \in Nat
  BY <1>1, AutoRunMode
<1>3. eng'.from = "auto_run" /\ eng'.to = "get_char"
  BY <1>1, <1>2, GotoEngine DEF RunsTask
<1>4. Boot = <<>>
  <2>1. CASE AutoRunAborts
    BY <2>1 DEF Boot
  <2>2. CASE ctx.auto_run_idx >= Len(AutoCmds)
    <3>1. SubSeq(AutoCmds, ctx.auto_run_idx + 1, Len(AutoCmds)) = <<>>
      BY <1>2, <2>2, SubSeqEmpty
    <3> QED BY <3>1 DEF Boot
  <2> QED BY <1>1, <2>1, <2>2 DEF AutoRunOver
<1>5. ctx'.sub_chain = <<>> /\ ctx'.cmd_def = NoCmd
  BY <1>1, <1>2 DEF CliContext
<1>6. Mode' = "prompt" /\ Boot' = <<>> /\ Todo' = <<>> /\ Alias' = <<>> /\ Called' = FALSE
  BY <1>3, <1>5 DEF Mode, Boot, Todo, Alias, Called, Left
<1>7. Shell!Prompt
  BY <1>1, <1>2, <1>4, <1>5, <1>6 DEF Shell!Prompt
<1>8. Tracks'
  BY <1>3, <1>5 DEF Tracks
<1> QED BY <1>7, <1>8 DEF Mapped, Shell!Next

LEMMA AutoRunCommandMapped ==
  ASSUME CliInv, Tracks, AutoRunCommand
  PROVE  Mapped
<1> DEFINE i   == ctx.auto_run_idx
           n   == Len(AutoCmds)
           cmd == AutoCmds[i + 1]
           c   == [ctx EXCEPT !.auto_run_idx = @ + 1]
<1>1. /\ RunsTask(eng, "auto_run") /\ ~AutoRunOver /\ UNCHANGED <<line, env>>
      /\ \/ cmd = NoCmd /\ ctx' = c /\ UNCHANGED eng
         \/ /\ cmd # NoCmd
            /\ \E w \in AutoRunReadings(cmd) : \E o \in Outcomes(c, w) :
                 /\ ctx' = [cmd_parse_prepare(c, w, o, Origin) EXCEPT
                              !.next_state = IF o = "ready" THEN "auto_run" ELSE @]
                 /\ IF o = "ready" THEN Goto("cmd_run") ELSE UNCHANGED eng
  BY DEF AutoRunCommand
<1>2. /\ CliTypeOK /\ ctx \in CliContext /\ Mode = "boot" /\ Called = FALSE
      /\ ctx.cmd_def = NoCmd /\ Todo = <<>> /\ Alias = <<>>
      /\ ctx.sub_chain_buf = NoBuf /\ ctx.sub_chain = <<>>
      /\ i \in Nat /\ n \in Nat /\ (i = 0 => ~ctx.failed)
  BY <1>1, AutoRunMode
<1>3. i < n /\ ~ctx.failed /\ ~AutoRunAborts
  BY <1>1, <1>2 DEF AutoRunOver, AutoRunAborts
<1>4. /\ Boot = SubSeq(AutoCmds, i + 1, n) /\ Boot # <<>> /\ Head(Boot) = cmd
      /\ Tail(Boot) = SubSeq(AutoCmds, i + 2, n)
  <2>1. Boot = SubSeq(AutoCmds, i + 1, n)
    BY <1>2, <1>3 DEF Boot
  <2>2. AutoCmds \in Seq(Words \cup {NoCmd})
    BY TextAssumption
  <2> QED BY <1>2, <1>3, <2>1, <2>2, RestOfText
<1>5. /\ c \in CliContext /\ c.auto_run_idx = i + 1 /\ c.failed = FALSE /\ c.cmd_def = NoCmd
      /\ c.sub_chain_buf = NoBuf /\ c.sub_chain = <<>> /\ c.next_state = ctx.next_state
  <2> DEFINE k == i + 1
  <2>1. k \in 0 .. Len(AutoCmds)
    BY <1>2, <1>3
  <2>2. c = [ctx EXCEPT !.auto_run_idx = k]
    BY <1>2 DEF CliContext
  <2>3. ctx.failed = FALSE
    BY <1>2, <1>3 DEF CliContext
  <2> HIDE DEF k, c
  <2>4. /\ c \in CliContext /\ c.auto_run_idx = k /\ c.failed = FALSE /\ c.cmd_def = NoCmd
        /\ c.sub_chain_buf = NoBuf /\ c.sub_chain = <<>> /\ c.next_state = ctx.next_state
    BY <1>2, <2>1, <2>2, <2>3 DEF CliContext
  <2> QED BY <2>4 DEF k
<1>6. Shell!MayTake /\ Shell!Reached = Boot
  BY <1>2, <1>4 DEF Shell!MayTake, Shell!Reached
<1> HIDE DEF c
\* What a step from here comes to, unless it fails.
<1>7. ASSUME Mode' = "boot", ctx'.failed = FALSE, ctx'.auto_run_idx = i + 1,
             ctx'.sub_chain = <<>>
      PROVE  Shell!Take
  <2>1. Boot' = Tail(Boot)
    <3>1. ~AutoRunAborts'
      BY <1>7 DEF AutoRunAborts
    <3>2. Boot' = SubSeq(AutoCmds, ctx'.auto_run_idx + 1, n)
      BY <1>7, <3>1 DEF Boot
    <3>3. ctx'.auto_run_idx + 1 = i + 2
      BY <1>2, <1>7
    <3> QED BY <1>4, <3>2, <3>3
  <2>2. Todo' = <<>> /\ Alias' = <<>>
    BY <1>7 DEF Todo, Alias, Left
  <2> QED BY <1>2, <2>1, <2>2 DEF Shell!Take
<1>8. CASE cmd = NoCmd
  <2>1. ctx' = c /\ UNCHANGED eng
    BY <1>1, <1>8
  <2>2. Mode' = "boot" /\ Called' = FALSE
    BY <1>1, <2>1 DEF Mode, Called, RunsTask
  <2>3. Shell!Skip
    BY <1>1, <1>2, <1>5, <1>6, <1>7, <2>1, <2>2 DEF Shell!Skip
  <2>4. Tracks'
    BY <1>1, <1>2, <1>5, <2>1 DEF Tracks, RunsTask
  <2> QED BY <2>3, <2>4 DEF Mapped, Shell!Next
<1>9. CASE cmd # NoCmd
  <2>1. PICK w \in AutoRunReadings(cmd) : \E o \in Outcomes(c, w) :
                 /\ ctx' = [cmd_parse_prepare(c, w, o, Origin) EXCEPT
                              !.next_state = IF o = "ready" THEN "auto_run" ELSE @]
                 /\ IF o = "ready" THEN Goto("cmd_run") ELSE UNCHANGED eng
    BY <1>1, <1>9
  <2>2. PICK o \in Outcomes(c, w) :
                 /\ ctx' = [cmd_parse_prepare(c, w, o, Origin) EXCEPT
                              !.next_state = IF o = "ready" THEN "auto_run" ELSE @]
                 /\ IF o = "ready" THEN Goto("cmd_run") ELSE UNCHANGED eng
    BY <2>1
  <2> DEFINE p == cmd_parse_prepare(c, w, o, Origin)
  <2>3. /\ ctx'.auto_run_idx = i + 1 /\ ctx'.sub_chain = <<>>
        /\ ctx'.cmd_def = (IF o = "ready" THEN w ELSE NoCmd)
        /\ ctx'.failed = (IF o = "ready" THEN FALSE ELSE o \notin CmdRetZero)
        /\ ctx'.next_state = IF o = "ready" THEN "auto_run" ELSE ctx.next_state
    <3>1. /\ p.auto_run_idx = c.auto_run_idx /\ p.sub_chain = c.sub_chain
          /\ p.cmd_def = (IF o = "ready" THEN w ELSE c.cmd_def)
          /\ p.failed = (IF o = "ready" THEN c.failed ELSE o \notin CmdRetZero)
          /\ p.next_state = c.next_state /\ DOMAIN p = DOMAIN c
      BY <1>5, PreparedView
    <3> DEFINE s == IF o = "ready" THEN "auto_run" ELSE p.next_state
    <3>2. ctx' = [p EXCEPT !.next_state = s]
      BY <2>2
    <3> HIDE DEF p, s
    <3>3. /\ ctx'.auto_run_idx = p.auto_run_idx /\ ctx'.sub_chain = p.sub_chain
          /\ ctx'.cmd_def = p.cmd_def /\ ctx'.failed = p.failed /\ ctx'.next_state = s
      BY <1>5, <3>1, <3>2 DEF CliContext
    <3> QED BY <1>5, <3>1, <3>3 DEF s
  <2>4. CASE o = "ready"
    <3>1. w \in Commands
      BY <2>2, <2>4, ReadyIsCommand
    <3>2. eng'.from = "auto_run" /\ eng'.to = "cmd_run"
      BY <1>1, <1>2, <2>2, <2>4, GotoEngine DEF RunsTask
    <3>3. Mode' = "boot" /\ Called' = FALSE
      BY <2>3, <2>4, <3>2 DEF Mode, Called
    <3>4. w \in Shell!Runnable(cmd)
      <4>1. CASE w = Name(cmd)
        BY <3>1, <4>1, ShellText DEF Shell!Runnable
      <4>2. CASE w # Name(cmd)
        <5>1. cmd \in Vars /\ w = IF env[cmd] = <<>> THEN Blank ELSE Name(Head(env[cmd]))
          BY <2>1, <4>2 DEF AutoRunReadings
        <5>2. env[cmd] # <<>> /\ Meaning(cmd, env) = env[cmd]
          BY <3>1, <5>1, CommandAssumption DEF Terms, Meaning
        <5> QED BY <1>2, <3>1, <5>1, <5>2, ShellText DEF Shell!Runnable
      <4> QED BY <4>1, <4>2
    <3>5. Shell!Take
      BY <1>7, <2>3, <2>4, <3>3
    <3>6. Shell!Run
      BY <1>1, <1>2, <1>4, <1>6, <2>3, <2>4, <3>1, <3>3, <3>4, <3>5 DEF Shell!Run
    <3>7. Tracks'
      BY <1>2, <2>3, <2>4, <3>1, <3>2 DEF Tracks
    <3> QED BY <3>6, <3>7 DEF Mapped, Shell!Next
  <2>5. CASE o # "ready"
    <3>1. UNCHANGED eng /\ ctx'.cmd_def = NoCmd
      BY <2>2, <2>3, <2>5
    <3>2. Mode' = "boot" /\ Called' = FALSE
      BY <1>1, <3>1 DEF Mode, Called, RunsTask
    <3>3. Tracks'
      BY <1>1, <1>2, <2>3, <3>1 DEF Tracks, RunsTask
    <3>4. CASE o \in CmdRetZero
      <4>1. Shell!Take
        BY <1>7, <2>3, <3>2, <3>4
      <4>2. Shell!Skip
        BY <1>1, <1>2, <1>6, <3>1, <3>2, <4>1 DEF Shell!Skip
      <4> QED BY <3>3, <4>2 DEF Mapped, Shell!Next
    <3>5. CASE o \notin CmdRetZero
      <4>1. ctx'.failed = TRUE
        BY <2>3, <2>5, <3>5
      <4>2. Boot' = <<>> /\ Todo' = <<>> /\ Alias' = <<>>
        BY <1>2, <2>3, <3>2, <4>1 DEF Boot, AutoRunAborts, Todo, Alias
      <4>3. Shell!Refuse
        BY <1>1, <1>2, <3>1, <3>2, <4>2 DEF Shell!Refuse, Shell!Drop
      <4> QED BY <3>3, <4>3 DEF Mapped, Shell!Next
    <3> QED BY <3>4, <3>5
  <2> QED BY <2>4, <2>5
<1> QED BY <1>8, <1>9

-----------------------------------------------------------------------------
\* The line

LEMMA CleanupMapped ==
  ASSUME CliInv, RunsTask(eng, "dispose"), NEW c, Good(c), Idle(c),
         LeaveLine(scheduler_cleanup(c))
  PROVE  Mapped
<1>1. scheduler_cleanup(c).cmd_def = NoCmd
  BY CleanupGood DEF Idle
<1>2. scheduler_cleanup(c).sub_chain = <<>>
  BY DEF Good, CliContext, scheduler_cleanup
<1> QED BY <1>1, <1>2, LeaveMapped

LEMMA DisposeExitMapped ==
  ASSUME CliInv, Tracks, DisposeExit \/ DisposeNoMemory
  PROVE  Mapped
<1>1. CASE DisposeExit
  <2>1. RunsTask(eng, "dispose")
    BY <1>1 DEF DisposeExit
  <2>2. Good(Opened) /\ Idle(Opened) /\ (Opened.chain_buf = NoBuf => Opened.sub_chain_buf = NoBuf)
    BY <2>1, OpenedGood
  <2>3. CASE NoLine /\ LeaveLine(Opened)
    <3>1. Opened.sub_chain = <<>> /\ Opened.cmd_def = NoCmd
      BY <2>1, <2>2, <2>3, OpenedView DEF NoLine, Idle
    <3> QED BY <2>1, <2>2, <2>3, <3>1, LeaveMapped
  <2>4. CASE LeaveLine(scheduler_cleanup(Opened))
    BY <2>1, <2>2, <2>4, CleanupMapped
  <2> QED BY <1>1, <2>3, <2>4 DEF DisposeExit
<1>2. CASE DisposeNoMemory
  <2>1. HasCommand /\ RunsTask(eng, "dispose") /\ LeaveLine(scheduler_cleanup(Extracted))
    BY <1>2 DEF DisposeNoMemory, HasCommand, DisposeFail
  <2> QED BY <2>1, ExtractedGood, CleanupMapped
<1> QED BY <1>1, <1>2

\* A step that goes on with the line as Extracted leaves it takes the command.
LEMMA ExtractedTakes ==
  ASSUME CliInv, Tracks, HasCommand, NEW c, ctx' = c, Mode' = "line",
         ~c.failed, c.chain_buf # NoBuf,
         c.chain = Extracted.chain, c.sub_chain = Extracted.sub_chain
  PROVE  Shell!Take
<1>1. Mode = "line" /\ Boot = <<>>
  BY DisposeMode DEF HasCommand
<1>2. Boot' = <<>> /\ Todo' = Left(Extracted.chain) /\ Alias' = Left(Extracted.sub_chain)
  BY DEF Boot, Todo, Alias
<1> QED BY <1>1, <1>2, ExtractedView DEF Shell!Take

LEMMA DisposeExpandMapped ==
  ASSUME CliInv, Tracks, DisposeExpand
  PROVE  Mapped
<1> DEFINE e == Extracted
           b == EnvBuf
           text == Replacement
<1>1. /\ HasCommand /\ b # NoBuf /\ Len(text) > 1
      /\ UNCHANGED <<eng, line, env>>
      /\ ctx' = [FreeSubChain(Marked(e, b)) EXCEPT !.sub_chain_buf = b, !.sub_chain = text]
  BY Zenon DEF DisposeExpand, Replaced
<1>2. RunsTask(eng, "dispose")
  BY <1>1 DEF HasCommand
<1>3. e \in CliContext /\ e.cmd_def = NoCmd /\ e.chain_buf # NoBuf
  BY <1>1, ExtractedGood DEF Good, Idle
<1>4. /\ ~e.failed /\ Shell!MayTake /\ Head(Shell!Reached) = Word
      /\ Left(e.chain) = IF Alias = <<>> THEN Tail(Todo) ELSE Todo
  BY <1>1, ExtractedView
<1>5. text \in Seq(Terms)
  BY <1>1, ExpandsTerm
<1>6. Left(text) = text
  BY <1>5, LeftOfValue
<1> HIDE DEF e, b, text
<1>7. /\ ctx'.chain_buf = e.chain_buf /\ ctx'.chain = e.chain /\ ctx'.failed = e.failed
      /\ ctx'.cmd_def = NoCmd /\ ctx'.sub_chain_buf = b /\ ctx'.sub_chain = text
  BY <1>1, <1>3 DEF CliContext, FreeSubChain, Marked, cli_mpool_free
<1>8. Mode = "line" /\ Boot = <<>> /\ Called = FALSE /\ ctx.cmd_def = NoCmd
  BY <1>2, DisposeMode
<1>9. Mode' = "line" /\ Called' = FALSE
  BY <1>1, <1>2 DEF Mode, Called, RunsTask
<1>10. Boot' = <<>> /\ Todo' = Left(e.chain) /\ Alias' = text
  BY <1>3, <1>4, <1>6, <1>7, <1>9 DEF Boot, Todo, Alias
<1>11. Shell!Meaning(Word, env) = text
  BY ShellText DEF text, Replacement
<1>12. Shell!Expand
  BY <1>1, <1>4, <1>7, <1>8, <1>9, <1>10, <1>11 DEF Shell!Expand
<1>13. Tracks'
  BY <1>1, <1>2, <1>7 DEF Tracks, RunsTask
<1> QED BY <1>12, <1>13 DEF Mapped, Shell!Next

LEMMA DisposeDispatchMapped ==
  ASSUME CliInv, Tracks, DisposeDispatch
  PROVE  Mapped
<1>1. HasCommand /\ RunsTask(eng, "dispose") /\ EnvBuf # NoBuf
  BY DEF DisposeDispatch, HasCommand
<1>2. PICK inEnv \in InEnvBuf :
       LET held == IF inEnv THEN EnvBuf ELSE NoBuf
           c    == IF inEnv THEN Replaced ELSE Extracted
       IN \E o \in Outcomes(c, Dispatched(inEnv)) :
            LET p == cmd_parse_prepare(c, Dispatched(inEnv), o, IF inEnv THEN EnvBuf ELSE Source)
                d == handle_dispatch_result(p, dispatch_ret(o), held)
            IN CASE o = "misread" -> DisposeFail(d)
                 [] o = "ready"   -> /\ Goto("cmd_run")
                                     /\ ctx' = [d EXCEPT !.next_state = "dispose"]
                                     /\ UNCHANGED <<line, env>>
                 [] OTHER         -> ctx' = d /\ UNCHANGED <<eng, line, env>>
  BY DEF DisposeDispatch
<1> DEFINE held == IF inEnv THEN EnvBuf ELSE NoBuf
           c    == IF inEnv THEN Replaced ELSE Extracted
           w    == Dispatched(inEnv)
           a    == IF inEnv THEN EnvBuf ELSE Source
<1>3. PICK o \in Outcomes(c, w) :
            LET p == cmd_parse_prepare(c, w, o, a)
                d == handle_dispatch_result(p, dispatch_ret(o), held)
            IN CASE o = "misread" -> DisposeFail(d)
                 [] o = "ready"   -> /\ Goto("cmd_run")
                                     /\ ctx' = [d EXCEPT !.next_state = "dispose"]
                                     /\ UNCHANGED <<line, env>>
                 [] OTHER         -> ctx' = d /\ UNCHANGED <<eng, line, env>>
  BY <1>2
<1> DEFINE p == cmd_parse_prepare(c, w, o, a)
           d == handle_dispatch_result(p, dispatch_ret(o), held)
           e == Extracted
<1>4. /\ e \in CliContext /\ e.cmd_def = NoCmd /\ e.chain_buf # NoBuf
      /\ ~e.failed /\ (e.sub_chain_buf = NoBuf => e.sub_chain = <<>>)
  BY <1>1, ExtractedGood, ExtractedView DEF Good, Idle
<1>5. Shell!MayTake /\ Head(Shell!Reached) = Word
  BY <1>1, ExtractedView
<1>6. Mode = "line" /\ Boot = <<>> /\ Called = FALSE /\ ctx.cmd_def = NoCmd /\ CliTypeOK
  BY <1>1, DisposeMode
<1>7. c \in CliContext /\ c = [e EXCEPT !.bitmap = c.bitmap]
  <2>1. EnvBuf \in Blocks
    BY <1>1, Allocated DEF EnvBuf
  <2> DEFINE m == e.bitmap \cup ({EnvBuf} \ {NoBuf})
  <2>2. c = IF inEnv THEN [e EXCEPT !.bitmap = m] ELSE e
    BY Zenon DEF Replaced, Marked
  <2>3. m \in SUBSET Blocks
    BY <1>4, <2>1 DEF CliContext
  <2> HIDE DEF c, e, m
  <2>4. CASE inEnv
    BY <1>4, <2>2, <2>3, <2>4 DEF CliContext
  <2>5. CASE ~inEnv
    BY <1>4, <2>2, <2>5 DEF CliContext
  <2> QED BY <2>4, <2>5
<1> HIDE DEF e
<1>8. /\ c.chain_buf = e.chain_buf /\ c.chain = e.chain
      /\ c.sub_chain_buf = e.sub_chain_buf /\ c.sub_chain = e.sub_chain
      /\ c.cmd_def = NoCmd /\ c.failed = FALSE
  <2> HIDE DEF c
  <2> QED BY <1>4, <1>7 DEF CliContext
<1> HIDE DEF c
<1>9. /\ p.chain_buf = c.chain_buf /\ p.chain = c.chain
      /\ p.sub_chain_buf = c.sub_chain_buf /\ p.sub_chain = c.sub_chain
      /\ p.cmd_def = (IF o = "ready" THEN w ELSE c.cmd_def)
      /\ p.failed = (IF o = "ready" THEN c.failed ELSE o \notin CmdRetZero)
      /\ DOMAIN p = DOMAIN c
  BY <1>7, PreparedView
<1> HIDE DEF p, w, a, held
<1>10. /\ d.chain_buf = e.chain_buf /\ d.chain = e.chain
       /\ d.sub_chain_buf = e.sub_chain_buf /\ d.sub_chain = e.sub_chain
       /\ d.cmd_def = (IF o = "ready" THEN w ELSE NoCmd)
       /\ d.failed = (IF o = "ready" THEN FALSE ELSE o \notin CmdRetZero)
       /\ DOMAIN d = DOMAIN c
  <2>1. d = [p EXCEPT !.bitmap = p.bitmap \ {held}]
    BY DEF handle_dispatch_result, dispatch_ret, CLI_OK, cli_mpool_free
  <2> HIDE DEF d
  <2> QED BY <1>7, <1>8, <1>9, <2>1 DEF CliContext
<1>11. CASE o = "misread"
  <2>1. LeaveLine(scheduler_cleanup(d))
    BY <1>3, <1>11 DEF DisposeFail, p, w, a, held
  <2> HIDE DEF d
  <2> DEFINE z == scheduler_cleanup(d)
  <2>2. z.sub_chain = <<>> /\ z.cmd_def = NoCmd
    BY <1>7, <1>10, <1>11 DEF scheduler_cleanup, CliContext
  <2> QED BY <1>1, <2>1, <2>2, LeaveMapped
<1>12. CASE o = "ready"
  <2>1. Goto("cmd_run") /\ ctx' = [d EXCEPT !.next_state = "dispose"] /\ UNCHANGED <<line, env>>
    BY <1>3, <1>12 DEF p, w, a, held
  <2> HIDE DEF d
  <2>2. /\ ctx'.chain_buf = e.chain_buf /\ ctx'.chain = e.chain
        /\ ctx'.sub_chain_buf = e.sub_chain_buf /\ ctx'.sub_chain = e.sub_chain
        /\ ctx'.cmd_def = w /\ ctx'.failed = FALSE /\ ctx'.next_state = "dispose"
    BY <1>7, <1>10, <1>12, <2>1 DEF CliContext
  <2>3. eng'.from = "dispose" /\ eng'.to = "cmd_run"
    BY <1>1, <1>6, <2>1, GotoEngine DEF RunsTask
  <2>4. w \in Commands
    BY <1>12, ReadyIsCommand
  <2>5. Mode' = "line" /\ Called' = FALSE
    BY <2>2, <2>3 DEF Mode, Called
  <2>6. w \in Shell!Runnable(Word)
    <3>1. CASE inEnv
      <4>1. Len(Replacement) = 1
        BY <3>1 DEF InEnvBuf
      <4>2. w = Name(Head(Replacement))
        BY <3>1 DEF Dispatched, w
      <4> QED BY <2>4, <4>1, <4>2, ShellText DEF Shell!Runnable, Replacement
    <3>2. CASE ~inEnv
      BY <2>4, <3>2, ShellText DEF Dispatched, Shell!Runnable, w
    <3> QED BY <3>1, <3>2
  <2>7. Shell!Take
    BY <1>1, <1>4, <2>2, <2>5, ExtractedTakes DEF e
  <2>8. Shell!Run
    BY <1>5, <1>6, <2>1, <2>2, <2>5, <2>6, <2>7 DEF Shell!Run
  <2>9. Tracks'
    BY <1>4, <2>2, <2>3, <2>4 DEF Tracks
  <2> QED BY <2>8, <2>9 DEF Mapped, Shell!Next
<1>13. CASE o # "misread" /\ o # "ready"
  <2>1. ctx' = d /\ UNCHANGED <<eng, line, env>>
    BY <1>3, <1>13 DEF p, w, a, held
  <2> HIDE DEF d
  <2>2. ctx'.cmd_def = NoCmd /\ Mode' = "line" /\ Called' = FALSE
    BY <1>1, <1>10, <1>13, <2>1 DEF Mode, Called, RunsTask
  <2>3. Tracks'
    BY <1>1, <1>4, <1>10, <2>1, <2>2 DEF Tracks, RunsTask
  <2>4. CASE o \in CmdRetZero
    <3>1. Shell!Take
      BY <1>1, <1>4, <1>10, <2>1, <2>2, <2>4, ExtractedTakes DEF e
    <3>2. Shell!Skip
      BY <1>5, <1>6, <2>1, <2>2, <3>1 DEF Shell!Skip
    <3> QED BY <2>3, <3>2 DEF Mapped, Shell!Next
  <2>5. CASE o \notin CmdRetZero
    <3>1. ctx'.failed /\ ctx'.chain_buf # NoBuf
      BY <1>4, <1>10, <1>13, <2>1, <2>5
    <3>2. Boot' = <<>> /\ Todo' = <<>> /\ Alias' = <<>>
      BY <2>2, <3>1 DEF Boot, Todo, Alias
    <3>3. Shell!Refuse
      BY <1>6, <2>1, <2>2, <3>2 DEF Shell!Refuse, Shell!Drop
    <3> QED BY <2>3, <3>3 DEF Mapped, Shell!Next
  <2> QED BY <2>4, <2>5
<1> QED BY <1>11, <1>12, <1>13

-----------------------------------------------------------------------------

LEMMA StepMapped == CliInv /\ Tracks /\ [CliNext]_cliVars => Mapped
<1> SUFFICES ASSUME CliInv, Tracks, [CliNext]_cliVars PROVE Mapped
  OBVIOUS
<1>1. CASE UNCHANGED cliVars
  <2>1. UNCHANGED <<eng, line, env, ctx>>
    BY <1>1 DEF cliVars
  <2>2. Tracks'
    BY <2>1 DEF Tracks
  <2>3. UNCHANGED Shell!shell
    BY <2>1 DEF Shell!shell, Mode, Boot, AutoRunAborts, Todo, Alias, Called
  <2> QED BY <2>2, <2>3 DEF Mapped
<1>2. CASE FinishCommand \/ CallCommand("continue")
  BY <1>2, CommandMapped DEF FinishCommand
<1> QED BY <1>1, <1>2, SwitchMapped, StartMapped, EnterMapped, CommandMapped, AutoRunExitMapped,
           AutoRunCommandMapped, DisposeExitMapped, DisposeExpandMapped, DisposeDispatchMapped
           DEF CliNext, SchedulerRun

\* The scheduler implements CommandLine: commands run one at a time, in the order in which
\* the line or the start-up table gives them, none after its last call and none behind a
\* failure, whatever the lines and the variables are (scheduler.c, cmd_dispose.c).
THEOREM SchedulerIsCommandLine == CliSpec => RunsTheCommandLine
<1>1. CliInit => Shell!Init /\ Tracks
  BY InitMapped
<1>2. CliInv /\ Tracks /\ [CliNext]_cliVars => Tracks' /\ [Shell!Next]_(Shell!shell)
  BY StepMapped DEF Mapped
<1> QED BY <1>1, <1>2, CliInvariant, PTL DEF CliSpec, RunsTheCommandLine, Shell!Spec
=============================================================================
