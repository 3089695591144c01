------------------------------- MODULE LineEditor -------------------------------
(***************************************************************************)
(* What the keys that CliInput tells apart do to the line, to its history  *)
(* and to the terminal (cli_edit.c, cli_history.c, the tasks of            *)
(* cli_cmd_line.c).  One action is one key: the lincli task handles it     *)
(* from its first byte to exit_handler with nobody else near this state.   *)
(*                                                                         *)
(* The terminal is external: it is what the characters and the escape      *)
(* sequences that are pushed make of it, behind the prompt and in one row. *)
(* No candidates of a completion are shown (TAB is not modelled).          *)
(***************************************************************************)
EXTENDS Integers, Sequences, FiniteSets

CONSTANTS
  Chars,              \* the characters typed
  Null, Blank,        \* '\0' and ' '
  CMD_LINE_BUF_SIZE,
  HISTORY_MAX,
  MaxLine             \* assumed of who types, see LineAssumption

Cells   == 0 .. CMD_LINE_BUF_SIZE - 1
Columns == 0 .. CMD_LINE_BUF_SIZE
Rows    == 0 .. HISTORY_MAX - 1
Empty   == [i \in Cells |-> Null]

\* Nobody types into a line of MaxLine characters.  The code does not see to this:
\* it refuses a character in a line of CMD_LINE_BUF_SIZE only.  With one less
\* valid_char_insert shifts the last cell into cmd_line.size, past the buffer, and
\* a line of CMD_LINE_BUF_SIZE has no end in its row of the history.
ASSUME LineAssumption ==
  /\ HISTORY_MAX \in Nat \ {0} /\ CMD_LINE_BUF_SIZE \in Nat
  /\ MaxLine \in 1 .. CMD_LINE_BUF_SIZE - 1
  /\ Null \notin Chars /\ Null # Blank

VARIABLES
  cmd_line,     \* pos, buf, size
  history,      \* buf, count, index
  origin_cmd,   \* what ENTER hands over
  terminal      \* external: what is shown behind the prompt, and the column of the cursor

lineVars == <<cmd_line, history, origin_cmd, terminal>>

Text(row, from, n) == [i \in 1 .. n |-> row[from + i - 1]]
strlen(row) == CHOOSE n \in Cells : row[n] = Null /\ \A i \in 0 .. n - 1 : row[i] # Null

FreshLine     == [pos |-> 0, buf |-> Empty, size |-> 0]
FreshTerminal == [shown |-> [c \in Columns |-> Blank], column |-> 0]

LineInit ==
  /\ cmd_line = FreshLine
  /\ history = [buf |-> [r \in Rows |-> Empty], count |-> 0, index |-> 0]
  /\ origin_cmd = <<>>
  /\ terminal = FreshTerminal

(***************************************************************************)
(* What is pushed to the terminal.                                         *)
(***************************************************************************)

Pushed(t, s) ==
  [shown  |-> [c \in Columns |-> IF c - t.column \in 0 .. Len(s) - 1
                                 THEN s[c - t.column + 1] ELSE t.shown[c]],
   column |-> t.column + Len(s)]
Back(t, n)    == [t EXCEPT !.column = @ - n]
EraseToEnd(t) == [t EXCEPT !.shown = [c \in Columns |-> IF c >= t.column THEN Blank ELSE @[c]]]

\* cmd_line_redraw
Redrawn(line) == Back(Pushed(FreshTerminal, Text(line.buf, 0, line.size)), line.size - line.pos)

(***************************************************************************)
(* The keys.                                                               *)
(***************************************************************************)

valid_char_append(ch) ==
  /\ cmd_line' = [pos |-> cmd_line.pos + 1, size |-> cmd_line.size + 1,
                  buf |-> [cmd_line.buf EXCEPT ![cmd_line.pos] = ch]]
  /\ terminal' = Pushed(terminal, <<ch>>)

Shifted(line, ch) ==
  [i \in Cells |-> CASE i = line.pos                            -> ch
                     [] i \in line.pos + 1 .. line.size + 1     -> line.buf[i - 1]
                     [] OTHER                                   -> line.buf[i]]

valid_char_insert(ch) ==
  LET new == Shifted(cmd_line, ch)
      n   == cmd_line.size - cmd_line.pos
  IN /\ cmd_line' = [pos |-> cmd_line.pos + 1, size |-> cmd_line.size + 1, buf |-> new]
     /\ terminal' = Back(Pushed(terminal, Text(new, cmd_line.pos, n + 1)), n)

ValidChar ==
  /\ cmd_line.size # CMD_LINE_BUF_SIZE      \* the check of the code
  /\ cmd_line.size < MaxLine                \* the assumption
  /\ \E ch \in Chars : IF cmd_line.pos = cmd_line.size THEN valid_char_append(ch)
                                                       ELSE valid_char_insert(ch)
  /\ UNCHANGED <<history, origin_cmd>>

CursorLeft ==
  /\ cmd_line.pos > 0
  /\ cmd_line' = [cmd_line EXCEPT !.pos = @ - 1]
  /\ terminal' = Back(terminal, 1)
  /\ UNCHANGED <<history, origin_cmd>>

CursorRight ==
  /\ cmd_line.pos < cmd_line.size
  /\ cmd_line' = [cmd_line EXCEPT !.pos = @ + 1]
  /\ terminal' = Back(terminal, -1)
  /\ UNCHANGED <<history, origin_cmd>>

\* What do_delete pushes for the character at pos.
\* Mutant: the cursor goes back over what is printed again, and not over the
\* blank behind it.
ClosedUpShort(pos, new, t) ==
  LET n == cmd_line.size - 1 - pos
  IN IF n > 0 THEN Back(Pushed(Pushed(t, Text(new, pos, n)), <<Blank>>), n) ELSE EraseToEnd(t)

ClosedUp(pos, new, t) ==
  LET n == cmd_line.size - 1 - pos
  IN IF n > 0 THEN Back(Pushed(Pushed(t, Text(new, pos, n)), <<Blank>>), n + 1) ELSE EraseToEnd(t)

do_delete(is_backspace) ==
  LET pos  == IF is_backspace THEN cmd_line.pos - 1 ELSE cmd_line.pos
      last == cmd_line.size - 1
      new  == [i \in Cells |-> CASE i \in pos .. last - 1 -> cmd_line.buf[i + 1]
                                 [] i = last              -> Blank
                                 [] OTHER                 -> cmd_line.buf[i]]
  IN /\ pos \in 0 .. last
     /\ cmd_line' = [pos |-> pos, buf |-> new, size |-> last]
     /\ terminal' = ClosedUp(pos, new, IF is_backspace THEN Back(terminal, 1) ELSE terminal)
     /\ UNCHANGED <<history, origin_cmd>>

Delete    == do_delete(FALSE)
Backspace == do_delete(TRUE)

\* cmd_line_replace with row n of the history, the first being 1; 0 is "".
Replace(n) ==
  LET row  == IF n = 0 THEN Empty ELSE history.buf[n - 1]
      size == strlen(row)
      line == [pos |-> size, buf |-> [i \in Cells |-> IF i < size THEN row[i] ELSE Null], size |-> size]
  IN /\ history' = [history EXCEPT !.index = n]
     /\ cmd_line' = line
     /\ terminal' = Redrawn(line)
     /\ UNCHANGED origin_cmd

HistoryUp   == history.index < history.count /\ Replace(history.index + 1)
HistoryDown == history.index > 0 /\ Replace(history.index - 1)

\* The oldest and the newest end of the history, and CTRL-L (clear_handler).
Redraw ==
  /\ terminal' = Redrawn(cmd_line)
  /\ UNCHANGED <<cmd_line, history, origin_cmd>>

\* history_save
\* Mutant: a line that is there already does not reset the index.
SavedKeepsIndex(h, cmd, size) ==
  IF h.count > 0 /\ strlen(h.buf[0]) = size /\ Text(h.buf[0], 0, size) = Text(cmd, 0, size) THEN h
  ELSE [buf   |-> [r \in Rows |-> IF r > 0 THEN h.buf[r - 1]
                                  ELSE [i \in Cells |-> IF i < size THEN cmd[i] ELSE Null]],
        count |-> IF h.count < HISTORY_MAX THEN h.count + 1 ELSE h.count,
        index |-> 0]

history_save(h, cmd, size) ==
  IF h.count > 0 /\ strlen(h.buf[0]) = size /\ Text(h.buf[0], 0, size) = Text(cmd, 0, size)
  THEN [h EXCEPT !.index = 0]
  ELSE [buf   |-> [r \in Rows |-> IF r > 0 THEN h.buf[r - 1]
                                  ELSE [i \in Cells |-> IF i < size THEN cmd[i] ELSE Null]],
        count |-> IF h.count < HISTORY_MAX THEN h.count + 1 ELSE h.count,
        index |-> 0]

\* enter_press; the prompt that follows is on a row of its own.
Enter ==
  /\ origin_cmd' = Text(cmd_line.buf, 0, cmd_line.size)
  /\ history' = IF cmd_line.size > 0 THEN history_save(history, cmd_line.buf, cmd_line.size) ELSE history
  /\ cmd_line' = FreshLine
  /\ terminal' = FreshTerminal

LineNext ==
  \/ ValidChar \/ CursorLeft \/ CursorRight \/ Delete \/ Backspace
  \/ HistoryUp \/ HistoryDown \/ Redraw \/ Enter

LineSpec == LineInit /\ [][LineNext]_lineVars

(***************************************************************************)
(* Properties.                                                             *)
(***************************************************************************)

\* The cursor is in the line, whose length is that assumed, with a '\0' left over
\* in every row of the history, of which index is one, or 0.
LineTypeOK ==
  LET Buffers == [Cells -> Chars \cup {Null, Blank}]
  IN /\ cmd_line.size \in 0 .. MaxLine /\ cmd_line.pos \in 0 .. cmd_line.size
     /\ cmd_line.buf \in Buffers
     /\ history.count \in 0 .. HISTORY_MAX /\ history.index \in 0 .. history.count
     /\ \A r \in Rows : history.buf[r] \in Buffers /\ \E i \in Cells : history.buf[r][i] = Null
     /\ origin_cmd \in Seq(Chars)

\* The terminal, which is told of every change and never read, shows the line
\* and nothing behind it, with its cursor where the next key will act.
TerminalShowsLine ==
  /\ LineTypeOK
  /\ terminal.column = cmd_line.pos
  /\ \A c \in Columns : terminal.shown[c] = IF c < cmd_line.size THEN cmd_line.buf[c] ELSE Blank

\* Shifted buffers, counters and rows are an editor with a history.
Before == Text(cmd_line.buf, 0, cmd_line.pos)
After  == Text(cmd_line.buf, cmd_line.pos, cmd_line.size - cmd_line.pos)
Past   == [n \in 1 .. history.count |-> Text(history.buf[n - 1], 0, strlen(history.buf[n - 1]))]

Ed == INSTANCE Editor WITH
  Depth <- HISTORY_MAX, before <- Before, after <- After, past <- Past,
  age <- history.index, entered <- origin_cmd

LineIsAnEditor == Ed!Spec
=============================================================================
