-------------------------------- MODULE CliInput --------------------------------
(***************************************************************************)
(* The input of the command line: the receive interrupt puts bursts of     *)
(* bytes into a lock-free FIFO (cli_io.c, kfifo.c), and the get_char state *)
(* of the scheduler (scheduler.c) takes them out one by one and runs the   *)
(* engine that tells the keys apart (cli_cmd_line.c).  What a key does to  *)
(* the line is in LineEditor.                                              *)
(*                                                                         *)
(* The interrupt may come between any two steps.  cli_in_pop is two steps: *)
(* the byte is copied, then out moves on.                                  *)
(***************************************************************************)
EXTENDS StateEngine, Integers, Sequences, FiniteSets

CONSTANTS
  Bytes,      \* the bytes received; "esc", "[", "A", .. are the bytes of escape sequences
  Letters,    \* those of them that are typed as they are
  Typed,      \* what the terminal sends in one go
  CLI_IO_SIZE,
  Wrap        \* 2^32 in the code: in and out are free-running uint32_t

Slots   == 0 .. CLI_IO_SIZE - 1
NoByte  == "nobyte"     \* no byte yet; a slot that is written before it is read again
Arrow   == [A |-> "history_up", B |-> "history_down", C |-> "cursor_right", D |-> "cursor_left"]

\* The bytes that are no characters (is_valid_char); "control" is any other one of
\* them.  TAB, with the states of the completion, is left out.
Control == {"esc", "bs", "enter", "ctrl-l", "control"}
EditStates == {"history_up", "history_down", "cursor_right", "cursor_left",
               "delete", "backspace", "clear"}

ASSUME BytesAssumption == Letters \subseteq Bytes /\ Typed \subseteq Seq(Bytes) \ {<<>>} /\ NoByte \notin Bytes
ASSUME FifoAssumption  ==
  /\ CLI_IO_SIZE \in Nat \ {0} /\ Wrap \in Nat
  /\ Wrap > CLI_IO_SIZE /\ Wrap % CLI_IO_SIZE = 0

VARIABLES
  buffer, in, out,   \* _cli_io.in
  cut,               \* what the interrupt has not passed on yet of what was sent
  lock,              \* cli_in_push_lock
  early,             \* the slots whose byte came in away from the prompt
  at,                \* where the scheduler is: see Places
  mec,               \* cmd_line_mec
  pops,              \* the bytes of this key that have been popped
  copied,            \* the byte that cli_in_pop has copied before it moves out
  lost,              \* has a byte been lost, or a sequence cut, so far?
  opened             \* has a command opened the input (su_entry)?

fifo      == <<buffer, in, out, early>>
inputVars == <<fifo, cut, lock, at, mec, pops, copied, lost, opened>>

\* away: a command line is being run; entry: in scheduler_get_char_entry, the
\* input has been cleared; prompt: get_char is the state and waits for a byte;
\* key: in cli_cmd_line_task; leaving: ENTER has been handled, the exit is next.
Places == {"away", "entry", "prompt", "key", "leaving"}

Length  == (in - out) % Wrap
Slot(n) == n % CLI_IO_SIZE

InputInit ==
  /\ buffer = [s \in Slots |-> NoByte] /\ in = 0 /\ out = 0
  /\ early = {}
  /\ cut = <<>>
  /\ lock = TRUE
  /\ at = "away"
  /\ mec = engine_init("start")
  /\ pops = <<>> /\ copied = NoByte
  /\ lost = FALSE /\ opened = FALSE

(***************************************************************************)
(* The receive interrupt (cli_in_push, kfifo_put).                         *)
(***************************************************************************)

\* Mutant: one byte more than there is room for.
AcceptedOneMore(burst) ==
  IF Len(burst) <= CLI_IO_SIZE - Length THEN Len(burst) ELSE CLI_IO_SIZE - Length + 1

Accepted(burst) ==
  IF Len(burst) < CLI_IO_SIZE - Length THEN Len(burst) ELSE CLI_IO_SIZE - Length

cli_in_push(burst) ==
  IF lock THEN lost' = TRUE /\ UNCHANGED fifo
  ELSE LET n     == Accepted(burst)
           off(s) == (s - in) % CLI_IO_SIZE        \* of slot s in what is put
           new   == {s \in Slots : off(s) < n}
       IN /\ buffer' = [s \in Slots |-> IF s \in new THEN burst[off(s) + 1] ELSE buffer[s]]
          /\ early' = IF at \in {"prompt", "key"} THEN early \ new ELSE early \cup new
          /\ in' = (in + n) % Wrap
          /\ lost' = (lost \/ n < Len(burst))
          /\ UNCHANGED out

\* What is sent comes in at once or, when the line pauses, in two bursts.
Receive ==
  /\ \/ /\ cut = <<>>
        /\ \E t \in Typed : \E n \in 1 .. Len(t) :
             cli_in_push(SubSeq(t, 1, n)) /\ cut' = SubSeq(t, n + 1, Len(t))
     \/ /\ cut # <<>>
        /\ cli_in_push(cut) /\ cut' = <<>>
  /\ UNCHANGED <<lock, at, mec, pops, copied, opened>>

(***************************************************************************)
(* The scheduler around the prompt.                                        *)
(***************************************************************************)

\* scheduler_get_char_entry up to the prompt: cli_cmd_line_init, cli_in_clear
\* (kfifo_reset); and the end of it.
EnterPrompt ==
  /\ at = "away" /\ copied = NoByte
  /\ at' = "entry"
  /\ mec' = engine_init("start")
  /\ in' = out /\ buffer' = [s \in Slots |-> NoByte] /\ early' = {}
  /\ lost' = (lost \/ Length # 0)
  /\ UNCHANGED <<out, cut, lock, pops, copied, opened>>

OpenPrompt ==
  /\ at = "entry"
  /\ at' = "prompt"
  /\ lock' = FALSE
  /\ UNCHANGED <<fifo, cut, mec, pops, copied, lost, opened>>

\* Mutant: scheduler_get_char_exit does not set the lock.
LeavePromptUnlocked ==
  /\ at = "leaving"
  /\ at' = "away"
  /\ opened' = FALSE
  /\ UNCHANGED <<fifo, cut, lock, mec, pops, copied, lost>>

LeavePrompt ==
  /\ at = "leaving"
  /\ at' = "away"
  /\ lock' = TRUE /\ opened' = FALSE
  /\ UNCHANGED <<fifo, cut, mec, pops, copied, lost>>

\* su_entry: the command reads the input itself (su_read_input).
OpenInput ==
  /\ at = "away"
  /\ lock' = FALSE /\ opened' = TRUE
  /\ UNCHANGED <<fifo, cut, at, mec, pops, copied, lost>>

(***************************************************************************)
(* A byte is popped.                                                       *)
(***************************************************************************)

\* How many bytes the handling of the key needs so far: one, three for an
\* escape sequence, four for one that goes on with 3.
InEscape == mec.to = "ESC"
\* Mutant: the byte behind 3 is left in the FIFO.
NeededThree == IF InEscape THEN 3 ELSE 1

Needed ==
  CASE ~InEscape                                     -> 1
    [] InEscape /\ Len(pops) >= 3 /\ pops[3] = "3"   -> 4
    [] OTHER                                         -> 3

Popping == (at = "prompt" \/ (at = "key" /\ InEscape)) /\ Len(pops) < Needed

CommandReads == at = "away" /\ opened

CopyByte ==
  /\ Popping \/ CommandReads
  /\ copied = NoByte /\ Length # 0
  /\ copied' = buffer[Slot(out)]
  /\ UNCHANGED <<fifo, cut, lock, at, mec, pops, lost, opened>>

AdvanceOut ==
  /\ copied # NoByte
  /\ out' = (out + 1) % Wrap
  /\ buffer' = [buffer EXCEPT ![Slot(out)] = NoByte]
  /\ early' = early \ {Slot(out)}
  /\ copied' = NoByte
  /\ IF CommandReads THEN lost' = TRUE /\ UNCHANGED <<pops, at>>
     ELSE pops' = Append(pops, copied) /\ at' = "key" /\ UNCHANGED lost
  /\ UNCHANGED <<in, cut, lock, mec, opened>>

(***************************************************************************)
(* The engine of the line (cli_cmd_line_task), one stateEngineRun a step.  *)
(***************************************************************************)

Runs(s) == at = "key" /\ mec.to = s

\* The task of state s switches to state t.
GoesTo(t) ==
  /\ mec' = state_switch(Switched(mec), t)
  /\ UNCHANGED <<fifo, cut, lock, at, copied, lost, opened>>

StartKey ==
  /\ Runs("start")
  /\ GoesTo(IF Head(pops) \in Control THEN "invalid_char" ELSE "valid_char")
  /\ UNCHANGED pops

ValidChar ==
  /\ Runs("valid_char")
  /\ GoesTo("exit_handler") /\ UNCHANGED pops

InvalidChar ==
  /\ Runs("invalid_char")
  /\ GoesTo(CASE Head(pops) = "esc"    -> "ESC"
              [] Head(pops) = "bs"     -> "backspace"
              [] Head(pops) = "enter"  -> "enter"
              [] Head(pops) = "ctrl-l" -> "clear"
              [] OTHER                 -> "exit_handler")
  /\ UNCHANGED pops

\* The first of the two bytes behind ESC is not looked at.
EscapeSequence ==
  /\ Runs("ESC") /\ Len(pops) = Needed
  /\ GoesTo(CASE pops[3] \in DOMAIN Arrow            -> Arrow[pops[3]]
              [] pops[3] = "3" /\ pops[Len(pops)] = "~"      -> "delete"
              [] OTHER                               -> "exit_handler")
  /\ UNCHANGED pops

\* Mutant: the handler waits for the rest of the sequence.
EscapeWaits ==
  /\ Popping /\ InEscape /\ copied = NoByte /\ Length = 0
  /\ UNCHANGED inputVars

\* CLI_ERR_FIFO_EMPTY: cli_cmd_line_task gives up the key.
EscapeCut ==
  /\ Popping /\ InEscape /\ copied = NoByte /\ Length = 0
  /\ mec' = state_switch(Switched(mec), "start")
  /\ at' = "prompt" /\ pops' = <<>> /\ lost' = TRUE
  /\ UNCHANGED <<fifo, cut, lock, copied, opened>>

EditingKey ==
  /\ at = "key" /\ mec.to \in EditStates
  /\ GoesTo("exit_handler") /\ UNCHANGED pops

ExitHandler ==
  /\ Runs("exit_handler")
  /\ mec' = state_switch(Switched(mec), "start")
  /\ lock' = FALSE
  /\ at' = "prompt" /\ pops' = <<>>
  /\ UNCHANGED <<fifo, cut, copied, lost, opened>>

\* The engine stays in enter: it is initialised again at the next prompt.
EnterKey ==
  /\ Runs("enter")
  /\ mec' = Switched(mec)
  /\ at' = "leaving" /\ pops' = <<>>
  /\ UNCHANGED <<fifo, cut, lock, copied, lost, opened>>

(***************************************************************************)
(* The specification.  The lincli task goes on with what it does.          *)
(***************************************************************************)

Lincli ==
  \/ OpenPrompt \/ LeavePrompt
  \/ CopyByte \/ AdvanceOut
  \/ StartKey \/ ValidChar \/ InvalidChar \/ EscapeSequence \/ EscapeCut
  \/ EditingKey \/ ExitHandler \/ EnterKey

InputNext == Receive \/ EnterPrompt \/ OpenInput \/ Lincli

InputSpec     == InputInit /\ [][InputNext]_inputVars
InputFairSpec == InputSpec /\ WF_inputVars(Lincli)

(***************************************************************************)
(* Properties.                                                             *)
(***************************************************************************)

InputTypeOK ==
  /\ buffer \in [Slots -> Bytes \cup {NoByte}] /\ early \subseteq Slots
  /\ in \in 0 .. Wrap - 1 /\ out \in 0 .. Wrap - 1
  /\ Length <= CLI_IO_SIZE
  /\ cut \in Seq(Bytes)
  /\ lock \in BOOLEAN /\ lost \in BOOLEAN /\ opened \in BOOLEAN
  /\ at \in Places
  /\ {mec.from, mec.to} \subseteq {NoState, "start", "valid_char", "invalid_char", "ESC",
                                  "enter", "exit_handler"} \cup EditStates
  /\ pops \in Seq(Bytes) /\ Len(pops) <= 4
  /\ copied \in Bytes \cup {NoByte}

\* The bytes of an escape sequence reach the line as characters only after the
\* input has lost a byte or has run dry in the middle of a sequence.
NoStrayCharacters ==
  /\ InputTypeOK
  /\ Runs("valid_char") => Head(pops) \in Letters \/ lost

\* No key comes from a byte that was received while a command line ran (the
\* lock and cli_in_clear together), unless a command had opened the input.
TypedAheadIsDropped == at \in {"prompt", "key"} /\ early # {} => opened

\* A byte that waits at the prompt is taken, and a key whose handling has begun
\* is done with at last, the cut ones too.
InputGoesOn ==
  /\ at = "prompt" /\ Length # 0 ~> at = "key"
  /\ at = "key" ~> at # "key"

\* The FIFO is a stream of bytes, whatever the interrupt comes between.
Parts  == UNION {{SubSeq(t, i, j) : i, j \in 1 .. Len(t)} : t \in Typed}
Unread == [i \in 1 .. Length |-> buffer[Slot(out + i - 1)]]

Stream == INSTANCE ByteStream WITH
  Bursts <- Parts, Capacity <- CLI_IO_SIZE, taken <- copied, waiting <- Unread

InputIsAStream == Stream!Spec
=============================================================================
