--------------------------- MODULE LineEditorProofs ---------------------------
(***************************************************************************)
(* Theorems about LineEditor, for any characters, sizes of the buffer and  *)
(* of the history: the terminal shows the line, and buffers, counters and  *)
(* rows implement an editor with a history, as long as nobody types a line *)
(* that fills its buffer (MaxLine), which the code does not prevent.       *)
(***************************************************************************)
EXTENDS LineEditor, SequenceTheorems, TLAPS

Values  == Chars \cup {Null, Blank}
Buffers == [Cells -> Values]

\* row holds a text of n characters and '\0' behind it.
Holds(row, n) ==
  /\ row \in Buffers
  /\ \A i \in Cells : IF i < n THEN row[i] \in Chars ELSE row[i] = Null

\* What is behind size in the buffer of the line is of no account.
LineInv ==
  /\ cmd_line \in [pos : Nat, buf : Buffers, size : 0 .. MaxLine]
  /\ cmd_line.pos <= cmd_line.size
  /\ \A i \in Cells : i < cmd_line.size => cmd_line.buf[i] \in Chars
  /\ history \in [buf : [Rows -> Buffers], count : 0 .. HISTORY_MAX, index : Nat]
  /\ history.index <= history.count
  /\ \A r \in Rows : \E n \in 0 .. MaxLine : Holds(history.buf[r], n)
  /\ origin_cmd \in Seq(Chars)
  /\ terminal \in [shown : [Columns -> Values], column : Nat]

Shows ==
  /\ terminal.column = cmd_line.pos
  /\ \A c \in Columns : terminal.shown[c] = IF c < cmd_line.size THEN cmd_line.buf[c] ELSE Blank

-----------------------------------------------------------------------------
\* Texts

LEMMA Sizes ==
  /\ MaxLine \in Nat /\ CMD_LINE_BUF_SIZE \in Nat /\ MaxLine < CMD_LINE_BUF_SIZE
  /\ HISTORY_MAX \in Nat \ {0}
  /\ 0 .. MaxLine \subseteq Cells /\ Cells \subseteq Columns /\ Columns \subseteq Nat
  /\ Null \notin Chars /\ Null # Blank
BY LineAssumption DEF Cells, Columns

LEMMA TextProperties ==
  ASSUME NEW row, NEW from, NEW n \in Nat
  PROVE  /\ Len(Text(row, from, n)) = n /\ DOMAIN Text(row, from, n) = 1 .. n
         /\ \A i \in 1 .. n : Text(row, from, n)[i] = row[from + i - 1]
BY DEF Text

LEMMA TextType ==
  ASSUME NEW S, NEW row, NEW from, NEW n \in Nat, \A i \in 1 .. n : row[from + i - 1] \in S
  PROVE  Text(row, from, n) \in Seq(S)
BY DEF Text

\* strlen finds the end of the text.
LEMMA Strlen ==
  ASSUME NEW row, NEW n \in 0 .. MaxLine, Holds(row, n)
  PROVE  strlen(row) = n
<1>1. n \in Cells /\ row[n] = Null /\ \A i \in 0 .. n - 1 : row[i] # Null
  BY Sizes DEF Holds, Cells
<1>2. ASSUME NEW m \in Cells, row[m] = Null, \A i \in 0 .. m - 1 : row[i] # Null PROVE m = n
  BY <1>1, <1>2, Sizes DEF Holds, Cells
<1> QED BY <1>1, <1>2 DEF strlen

LEMMA EmptyHolds == Holds(Empty, 0)
BY Sizes DEF Holds, Empty, Buffers, Values, Cells

-----------------------------------------------------------------------------
\* The terminal

LEMMA PushedShows ==
  ASSUME NEW t \in [shown : [Columns -> Values], column : Nat], NEW row, NEW from \in Nat,
         NEW n \in Nat, from + n <= CMD_LINE_BUF_SIZE,
         \A i \in from .. from + n - 1 : row[i] \in Values, t.column = from
  PROVE  LET p == Pushed(t, Text(row, from, n))
         IN /\ p \in [shown : [Columns -> Values], column : Nat]
            /\ p.column = from + n
            /\ \A c \in Columns : p.shown[c] = IF c \in from .. from + n - 1 THEN row[c]
                                                                           ELSE t.shown[c]
<1> DEFINE s == Text(row, from, n)
           p == Pushed(t, s)
<1>1. Len(s) = n /\ \A i \in 1 .. n : s[i] = row[from + i - 1]
  BY TextProperties
<1> HIDE DEF s
<1>2. /\ p.column = from + n
      /\ p.shown = [c \in Columns |-> IF c - from \in 0 .. n - 1 THEN s[c - from + 1] ELSE t.shown[c]]
      /\ p = [shown |-> p.shown, column |-> p.column]
  BY <1>1 DEF Pushed
<1>3. \A c \in Columns : c - from \in 0 .. n - 1 <=> c \in from .. from + n - 1
  BY DEF Columns
<1>4. \A c \in Columns : c \in from .. from + n - 1 =>
        c - from + 1 \in 1 .. n /\ from + (c - from + 1) - 1 = c
  BY DEF Columns
<1> HIDE DEF p
<1>5. \A c \in Columns : p.shown[c] = IF c \in from .. from + n - 1 THEN row[c] ELSE t.shown[c]
  BY <1>1, <1>2, <1>3, <1>4
<1>6. \A c \in Columns : p.shown[c] \in Values
  BY <1>5
<1>7. p.shown \in [Columns -> Values]
  BY <1>2, <1>6
<1> QED BY <1>2, <1>5, <1>7 DEF p, s

LEMMA OneText ==
  ASSUME NEW row, NEW from \in Nat
  PROVE  <<row[from]>> = Text(row, from, 1)
<1>1. Text(row, from, 1) = [i \in 1 .. 1 |-> row[from + i - 1]]
  BY DEF Text
<1>2. \A i \in 1 .. 1 : from + i - 1 = from
  OBVIOUS
<1>3. \A i \in 1 .. 1 : row[from + i - 1] = row[from]
  BY <1>2
<1> QED BY <1>1, <1>3

LEMMA OnePushed ==
  ASSUME NEW t \in [shown : [Columns -> Values], column : Nat], NEW row, NEW from \in Nat,
         from < CMD_LINE_BUF_SIZE, row[from] \in Values, t.column = from
  PROVE  LET p == Pushed(t, <<row[from]>>)
         IN /\ p \in [shown : [Columns -> Values], column : Nat]
            /\ p.column = from + 1
            /\ \A c \in Columns : p.shown[c] = IF c = from THEN row[from] ELSE t.shown[c]
<1> DEFINE p == Pushed(t, Text(row, from, 1))
<1>1. from + 1 <= CMD_LINE_BUF_SIZE /\ \A i \in from .. from + 1 - 1 : row[i] \in Values
  <2>1. \A i \in from .. from + 1 - 1 : i = from
    OBVIOUS
  <2> QED BY <2>1, Sizes
<1>2. /\ p \in [shown : [Columns -> Values], column : Nat]
      /\ p.column = from + 1
      /\ \A c \in Columns : p.shown[c] = IF c \in from .. from + 1 - 1 THEN row[c] ELSE t.shown[c]
  BY SMTT(40), <1>1, PushedShows
<1> HIDE DEF p
<1>3. \A c \in Columns : p.shown[c] = IF c = from THEN row[from] ELSE t.shown[c]
  BY <1>2, Sizes
<1> QED BY <1>2, <1>3, OneText DEF p

\* cmd_line_redraw shows any line whose characters are in its buffer.
LEMMA RedrawnShows ==
  ASSUME NEW l \in [pos : Nat, buf : Buffers, size : 0 .. MaxLine], l.pos <= l.size
  PROVE  LET t == Redrawn(l)
         IN /\ t \in [shown : [Columns -> Values], column : Nat] /\ t.column = l.pos
            /\ \A c \in Columns : t.shown[c] = IF c < l.size THEN l.buf[c] ELSE Blank
<1> DEFINE p == Pushed(FreshTerminal, Text(l.buf, 0, l.size))
<1>1. FreshTerminal \in [shown : [Columns -> Values], column : Nat]
  BY DEF FreshTerminal, Values
<1>2. /\ l.size \in Nat /\ l.size <= CMD_LINE_BUF_SIZE
      /\ \A i \in 0 .. l.size - 1 : l.buf[i] \in Values
  BY Sizes DEF Buffers, Cells
<1>3. /\ p \in [shown : [Columns -> Values], column : Nat] /\ p.column = l.size
      /\ \A c \in Columns : p.shown[c] = IF c \in 0 .. l.size - 1 THEN l.buf[c]
                                                                  ELSE FreshTerminal.shown[c]
  <2>1. 0 + l.size = l.size /\ FreshTerminal.column = 0
    BY <1>2 DEF FreshTerminal
  <2> QED BY <1>1, <1>2, <2>1, PushedShows
<1> HIDE DEF p
<1>4. Redrawn(l) = [p EXCEPT !.column = p.column - (l.size - l.pos)]
  BY <1>3 DEF Redrawn, Back, p
<1>5. p.column - (l.size - l.pos) = l.pos
  BY <1>2, <1>3
<1>6. \A c \in Columns : c \in 0 .. l.size - 1 <=> c < l.size
  BY <1>2 DEF Columns
<1>7. \A c \in Columns : FreshTerminal.shown[c] = Blank
  BY DEF FreshTerminal
<1> QED BY <1>3, <1>4, <1>5, <1>6, <1>7

-----------------------------------------------------------------------------
\* The keys

LEMMA InitShows == LineInit => LineInv /\ Shows
<1> SUFFICES ASSUME LineInit PROVE LineInv /\ Shows
  OBVIOUS
<1>1. Empty \in Buffers
  BY EmptyHolds DEF Holds
<1>2. /\ cmd_line = [pos |-> 0, buf |-> Empty, size |-> 0] /\ origin_cmd = <<>>
      /\ history = [buf |-> [r \in Rows |-> Empty], count |-> 0, index |-> 0]
      /\ terminal = [shown |-> [c \in Columns |-> Blank], column |-> 0]
  BY DEF LineInit, FreshLine, FreshTerminal
<1>3. cmd_line \in [pos : Nat, buf : Buffers, size : 0 .. MaxLine]
  BY <1>1, <1>2, Sizes
<1>4. /\ history \in [buf : [Rows -> Buffers], count : 0 .. HISTORY_MAX, index : Nat]
      /\ \A r \in Rows : Holds(history.buf[r], 0)
  BY <1>1, <1>2, Sizes, EmptyHolds
<1>5. terminal \in [shown : [Columns -> Values], column : Nat]
  BY <1>2 DEF Values
<1>6. 0 \in 0 .. MaxLine
  BY Sizes
<1>7. LineInv
  BY <1>2, <1>3, <1>4, <1>5, <1>6 DEF LineInv, Cells
<1>8. Shows
  BY <1>2 DEF Shows, Columns
<1> QED BY <1>7, <1>8

\* What a key that only edits the line owes to the invariant.
LEMMA Edited ==
  ASSUME LineInv, UNCHANGED <<history, origin_cmd>>,
         cmd_line' \in [pos : Nat, buf : Buffers, size : 0 .. MaxLine],
         cmd_line'.pos <= cmd_line'.size,
         \A i \in Cells : i < cmd_line'.size => cmd_line'.buf[i] \in Chars,
         terminal' \in [shown : [Columns -> Values], column : Nat], Shows'
  PROVE  LineInv' /\ Shows'
BY DEF LineInv

LEMMA ValidCharShows == LineInv /\ Shows /\ ValidChar => LineInv' /\ Shows'
<1> SUFFICES ASSUME LineInv, Shows, ValidChar PROVE LineInv' /\ Shows'
  OBVIOUS
<1> DEFINE p == cmd_line.pos
           n == cmd_line.size
           b == cmd_line.buf
<1>1. /\ p \in Nat /\ n \in Nat /\ p <= n /\ n < MaxLine /\ b \in Buffers
      /\ terminal \in [shown : [Columns -> Values], column : Nat] /\ terminal.column = p
      /\ \A c \in Columns : terminal.shown[c] = IF c < n THEN b[c] ELSE Blank
      /\ \A i \in Cells : i < n => b[i] \in Chars
  BY DEF LineInv, Shows, ValidChar
<1>2. PICK ch \in Chars : IF p = n THEN valid_char_append(ch) ELSE valid_char_insert(ch)
  BY DEF ValidChar
<1>3. UNCHANGED <<history, origin_cmd>>
  BY DEF ValidChar
<1>4. CASE p = n
  <2> DEFINE nb == [b EXCEPT ![p] = ch]
  <2>1. cmd_line' = [pos |-> p + 1, size |-> n + 1, buf |-> nb]
    BY <1>2, <1>4 DEF valid_char_append
  <2>2. terminal' = Pushed(terminal, <<ch>>)
    BY <1>2, <1>4 DEF valid_char_append
  <2>3. p \in Cells /\ n + 1 \in 0 .. MaxLine
    BY <1>1, <1>4, Sizes
  <2>4. nb \in Buffers /\ nb[p] = ch /\ \A i \in Cells : i # p => nb[i] = b[i]
    BY <1>1, <2>3 DEF Buffers, Values
  <2> HIDE DEF nb, p, n, b
  <2>6. /\ terminal' \in [shown : [Columns -> Values], column : Nat]
        /\ terminal'.column = p + 1
        /\ \A c \in Columns : terminal'.shown[c] = IF c = p THEN nb[p] ELSE terminal.shown[c]
    <3>1. p < CMD_LINE_BUF_SIZE /\ nb[p] \in Values /\ terminal' = Pushed(terminal, <<nb[p]>>)
      BY <1>1, <2>2, <2>3, <2>4, Sizes DEF Values
    <3> QED BY <1>1, <3>1, OnePushed
  <2>7. \A c \in Columns : terminal'.shown[c] = IF c < n + 1 THEN nb[c] ELSE Blank
    <3> TAKE c \in Columns
    <3>1. c \in Nat
      BY Sizes
    <3>2. CASE c = p
      BY <1>1, <1>4, <2>6, <3>1, <3>2
    <3>3. CASE c # p
      <4>1. terminal'.shown[c] = IF c < n THEN b[c] ELSE Blank
        BY <1>1, <2>6, <3>1, <3>3
      <4>2. c < n => c \in Cells
        BY <1>1, <3>1, Sizes DEF Cells
      <4> QED BY <1>1, <1>4, <2>4, <3>1, <3>3, <4>1, <4>2
    <3> QED BY <3>2, <3>3
  <2>8. Shows'
    BY <2>1, <2>6, <2>7 DEF Shows
  <2>9. \A i \in Cells : i < n + 1 => nb[i] \in Chars
    BY <1>1, <1>4, <2>4 DEF Cells
  <2> QED BY <1>1, <1>3, <1>4, <2>1, <2>3, <2>4, <2>6, <2>8, <2>9, Edited
<1>5. CASE p # n
  <2> DEFINE nb == Shifted(cmd_line, ch)
             s  == Text(nb, p, n - p + 1)
  <2>1. /\ cmd_line' = [pos |-> p + 1, size |-> n + 1, buf |-> nb]
        /\ terminal' = Back(Pushed(terminal, s), n - p)
    BY <1>2, <1>5 DEF valid_char_insert
  <2>2. p < n /\ n - p + 1 \in Nat /\ n + 1 \in 0 .. MaxLine /\ p + (n - p + 1) = n + 1
    BY <1>1, <1>5, Sizes
  <2>3. \A i \in Cells : nb[i] = CASE i = p                -> ch
                                   [] i \in p + 1 .. n + 1 -> b[i - 1]
                                   [] OTHER                -> b[i]
    BY DEF Shifted
  <2> HIDE DEF p, n, b
  <2>4. nb \in Buffers
    <3>1. \A i \in Cells : nb[i] \in Values
      <4> TAKE i \in Cells
      <4>1. CASE i = p
        BY <2>3, <4>1 DEF Values
      <4>2. CASE i # p /\ i \in p + 1 .. n + 1
        <5>1. i - 1 \in Cells
          BY <1>1, <4>2, Sizes DEF Cells
        <5> HIDE DEF nb
        <5> QED BY <1>1, <2>3, <4>2, <5>1 DEF Buffers
      <4>3. CASE i # p /\ i \notin p + 1 .. n + 1
        <5> HIDE DEF nb
        <5> QED BY <1>1, <2>3, <4>3 DEF Buffers
      <4> QED BY <4>1, <4>2, <4>3
    <3>2. nb = [i \in Cells |-> nb[i]]
      BY DEF Shifted
    <3> HIDE DEF nb
    <3> QED BY <3>1, <3>2 DEF Buffers
  <2> HIDE DEF nb, p, n, b
  <2>5. \A i \in Cells : i < n + 1 => nb[i] \in Chars
    <3> TAKE i \in Cells
    <3> HAVE i < n + 1
    <3>1. i \in Nat
      BY DEF Cells
    <3>2. CASE i = p
      BY <2>3, <3>2
    <3>3. CASE i < p
      <4>1. nb[i] = b[i]
        BY <1>1, <2>2, <2>3, <3>1, <3>3
      <4> QED BY <1>1, <2>2, <3>1, <3>3, <4>1
    <3>4. CASE i > p
      <4>1. nb[i] = b[i - 1] /\ i - 1 \in Cells /\ i - 1 < n
        <5>1. i # p /\ i \in p + 1 .. n + 1
          BY <1>1, <3>1, <3>4
        <5>2. i - 1 \in Cells /\ i - 1 < n
          BY <1>1, <3>1, <3>4, Sizes DEF Cells
        <5> QED BY <2>3, <5>1, <5>2
      <4> QED BY <1>1, <4>1
    <3> QED BY <1>1, <3>1, <3>2, <3>3, <3>4
  <2> DEFINE q == Pushed(terminal, s)
  <2>6. /\ q \in [shown : [Columns -> Values], column : Nat]
        /\ q.column = n + 1
        /\ \A c \in Columns : q.shown[c] = IF c \in p .. n THEN nb[c] ELSE terminal.shown[c]
    <3>1. n + 1 <= CMD_LINE_BUF_SIZE /\ \A i \in p .. n : nb[i] \in Values
      <4>1. \A i \in p .. n : i \in Cells
        BY <1>1, <2>2, Sizes DEF Cells
      <4> QED BY <1>1, <2>2, <2>4, <4>1, Sizes DEF Buffers
    <3>2. p + (n - p + 1) - 1 = n
      BY <1>1
    <3>3. p + (n - p + 1) <= CMD_LINE_BUF_SIZE
          /\ \A i \in p .. p + (n - p + 1) - 1 : nb[i] \in Values
      BY <2>2, <3>1, <3>2
    <3> DEFINE w == n - p + 1
               u == Pushed(terminal, Text(nb, p, w))
    <3>4. /\ terminal \in [shown : [Columns -> Values], column : Nat] /\ terminal.column = p
          /\ p \in Nat /\ w \in Nat
      BY <1>1, <2>2
    <3>5. p + w <= CMD_LINE_BUF_SIZE /\ \A i \in p .. p + w - 1 : nb[i] \in Values
      BY <3>3
    <3>6. q = u
      OBVIOUS
    <3> HIDE DEF w, q
    <3>7. /\ u \in [shown : [Columns -> Values], column : Nat]
          /\ u.column = p + w
          /\ \A c \in Columns : u.shown[c] = IF c \in p .. p + w - 1 THEN nb[c]
                                                                 ELSE terminal.shown[c]
      BY ONLY <3>4, <3>5, PushedShows
    <3>8. p + w = n + 1 /\ p + w - 1 = n
      BY <1>1 DEF w
    <3> HIDE DEF u
    <3> QED BY <3>6, <3>7, <3>8
  <2> HIDE DEF q
  <2>7. terminal' = [q EXCEPT !.column = q.column - (n - p)]
    BY <2>1, <2>6 DEF Back, q
  <2>8. /\ terminal'.column = p + 1 /\ terminal'.shown = q.shown
        /\ terminal' \in [shown : [Columns -> Values], column : Nat]
    <3>1. n + 1 - (n - p) = p + 1
      BY <1>1
    <3> QED BY <1>1, <2>6, <2>7, <3>1
  <2>9. \A c \in Columns : q.shown[c] = IF c < n + 1 THEN nb[c] ELSE Blank
    <3> TAKE c \in Columns
    <3>1. c \in Nat
      BY Sizes
    <3>2. CASE c \in p .. n
      BY <1>1, <2>6, <3>1, <3>2
    <3>3. CASE c > n
      BY <1>1, <2>6, <3>1, <3>3
    <3>4. CASE c < p
      <4>1. c \in Cells /\ c # p /\ c \notin p + 1 .. n + 1
        BY <1>1, <2>2, <3>1, <3>4, Sizes DEF Cells
      <4>2. nb[c] = b[c]
        BY <2>3, <4>1
      <4> QED BY <1>1, <2>2, <2>6, <3>1, <3>4, <4>2
    <3> QED BY <1>1, <3>1, <3>2, <3>3, <3>4
  <2>10. Shows'
    BY <2>1, <2>8, <2>9 DEF Shows
  <2> QED BY <1>1, <1>3, <2>1, <2>2, <2>4, <2>5, <2>8, <2>10, Edited
<1> QED BY <1>4, <1>5

LEMMA CursorShows == LineInv /\ Shows /\ (CursorLeft \/ CursorRight) => LineInv' /\ Shows'
<1> SUFFICES ASSUME LineInv, Shows, CursorLeft \/ CursorRight PROVE LineInv' /\ Shows'
  OBVIOUS
<1>1. PICK d \in {-1, 1} :
        /\ cmd_line.pos + d \in 0 .. cmd_line.size
        /\ cmd_line' = [cmd_line EXCEPT !.pos = cmd_line.pos + d]
        /\ terminal' = [terminal EXCEPT !.column = terminal.column + d]
        /\ UNCHANGED <<history, origin_cmd>>
  <2>1. /\ cmd_line.pos \in Nat /\ cmd_line.size \in Nat /\ cmd_line.pos <= cmd_line.size
        /\ terminal.column = cmd_line.pos
        /\ cmd_line \in [pos : Nat, buf : Buffers, size : 0 .. MaxLine]
        /\ terminal \in [shown : [Columns -> Values], column : Nat]
    BY DEF LineInv, Shows
  <2>2. CASE CursorLeft
    <3>1. cmd_line.pos + (-1) = cmd_line.pos - 1 /\ terminal.column + (-1) = terminal.column - 1
      BY <2>1
    <3> QED BY <2>1, <2>2, <3>1 DEF CursorLeft, Back
  <2>3. CASE CursorRight
    <3>1. terminal.column + 1 = terminal.column - (-1)
      BY <2>1
    <3> QED BY <2>1, <2>3, <3>1 DEF CursorRight, Back
  <2> QED BY <2>2, <2>3
<1>2. /\ cmd_line' \in [pos : Nat, buf : Buffers, size : 0 .. MaxLine]
      /\ cmd_line'.pos = cmd_line.pos + d /\ cmd_line'.pos <= cmd_line'.size
      /\ cmd_line'.size = cmd_line.size /\ cmd_line'.buf = cmd_line.buf
  <2> DEFINE p == cmd_line.pos + d
  <2>1. p \in 0 .. cmd_line.size /\ cmd_line' = [cmd_line EXCEPT !.pos = p]
    BY <1>1
  <2>2. cmd_line \in [pos : Nat, buf : Buffers, size : 0 .. MaxLine]
    BY DEF LineInv
  <2> HIDE DEF p
  <2>3. /\ cmd_line' \in [pos : Nat, buf : Buffers, size : 0 .. MaxLine]
        /\ cmd_line'.pos = p /\ p <= cmd_line.size
        /\ cmd_line'.size = cmd_line.size /\ cmd_line'.buf = cmd_line.buf
    BY <2>1, <2>2, Sizes
  <2> QED BY <2>3 DEF p
<1>3. /\ terminal' \in [shown : [Columns -> Values], column : Nat]
      /\ terminal'.column = cmd_line.pos + d /\ terminal'.shown = terminal.shown
  BY <1>1 DEF LineInv, Shows
<1>4. Shows'
  BY <1>2, <1>3 DEF Shows
<1>5. \A i \in Cells : i < cmd_line'.size => cmd_line'.buf[i] \in Chars
  BY <1>2 DEF LineInv
<1> QED BY <1>1, <1>2, <1>3, <1>4, <1>5, Edited

\* What do_delete pushes shows the line without the character.
LEMMA ClosedUpShows ==
  ASSUME NEW t \in [shown : [Columns -> Values], column : Nat],
         NEW pos \in Nat, NEW size \in 1 .. MaxLine, pos < size, cmd_line.size = size,
         NEW b, NEW new \in Buffers, t.column = pos,
         \A c \in Columns : t.shown[c] = IF c < size THEN b[c] ELSE Blank,
         \A i \in Cells : i < pos => new[i] = b[i],
         new[size - 1] = Blank
  PROVE  LET r == ClosedUp(pos, new, t)
         IN /\ r \in [shown : [Columns -> Values], column : Nat] /\ r.column = pos
            /\ \A c \in Columns : r.shown[c] = IF c < size - 1 THEN new[c] ELSE Blank
<1> DEFINE n == size - 1 - pos
           last == size - 1
<1>1. /\ size \in Nat /\ last \in Nat /\ n \in Nat /\ pos + n = last /\ last + 1 = size
      /\ last + 1 <= CMD_LINE_BUF_SIZE
  BY Sizes
<1>2. \A i \in Cells : new[i] \in Values
  BY DEF Buffers
<1>3. \A c \in Columns : c \in Nat /\ (c < size => c \in Cells)
  BY <1>1, Sizes DEF Cells, Columns
<1> DEFINE r == ClosedUp(pos, new, t)
<1>4. CASE n > 0
  <2> DEFINE q == Pushed(t, Text(new, pos, n))
             e == Pushed(q, <<Blank>>)
  <2>1. r = Back(e, n + 1)
    BY <1>4 DEF ClosedUp
  <2> HIDE DEF n, last, r
  <2>2. pos + n <= CMD_LINE_BUF_SIZE /\ \A i \in pos .. pos + n - 1 : new[i] \in Values
    <3>1. \A i \in pos .. pos + n - 1 : i \in Cells
      BY <1>1, Sizes DEF Cells
    <3> QED BY <1>1, <1>2, <3>1, Sizes
  <2>3. /\ q \in [shown : [Columns -> Values], column : Nat]
        /\ q.column = pos + n
        /\ \A c \in Columns : q.shown[c] = IF c \in pos .. pos + n - 1 THEN new[c] ELSE t.shown[c]
    BY <1>1, <2>2, PushedShows
  <2> HIDE DEF q
  <2>4. /\ q \in [shown : [Columns -> Values], column : Nat] /\ q.column = last
        /\ last \in Nat /\ last < CMD_LINE_BUF_SIZE /\ new[last] \in Values /\ new[last] = Blank
    <3>1. new[last] = Blank
      BY DEF last
    <3>2. Blank \in Values
      BY DEF Values
    <3> QED BY <1>1, <2>3, <3>1, <3>2, Sizes
  <2>5. e = Pushed(q, <<new[last]>>)
    BY <2>4
  <2> HIDE DEF e
  <2>6. /\ e \in [shown : [Columns -> Values], column : Nat]
        /\ e.column = last + 1
        /\ \A c \in Columns : e.shown[c] = IF c = last THEN new[last] ELSE q.shown[c]
    BY <2>4, <2>5, OnePushed
  <2>9. r = [e EXCEPT !.column = e.column - (n + 1)]
    BY <2>1 DEF Back
  <2>10. e.column - (n + 1) = pos
    BY <1>1, <2>6
  <2>11. /\ r \in [shown : [Columns -> Values], column : Nat] /\ r.column = pos
         /\ r.shown = e.shown
    BY <2>6, <2>9, <2>10
  <2>12. \A c \in Columns : e.shown[c] = IF c < last THEN new[c] ELSE Blank
    <3> TAKE c \in Columns
    <3>1. c \in Nat /\ (c < size => c \in Cells)
      BY <1>3
    <3>2. CASE c = last
      BY <1>1, <2>4, <2>6, <3>2
    <3>3. CASE c \in pos .. last - 1
      BY <1>1, <2>3, <2>6, <3>1, <3>3
    <3>4. CASE c > last
      BY <1>1, <2>3, <2>6, <3>1, <3>4
    <3>5. CASE c < pos
      <4>1. e.shown[c] = t.shown[c] /\ c < size /\ c < last
        BY <1>1, <2>3, <2>6, <3>1, <3>5
      <4> QED BY <3>1, <3>5, <4>1
    <3> QED BY <1>1, <3>1, <3>2, <3>3, <3>4, <3>5
  <2> QED BY <2>11, <2>12 DEF r, last
<1>5. CASE ~(n > 0)
  <2>1. r = EraseToEnd(t) /\ last = pos
    BY <1>1, <1>5 DEF ClosedUp
  <2> HIDE DEF n, last, r
  <2>2. r = [t EXCEPT !.shown = [c \in Columns |-> IF c >= t.column THEN Blank ELSE t.shown[c]]]
    BY <2>1 DEF EraseToEnd
  <2>3. r.column = pos /\ \A c \in Columns : r.shown[c] = IF c >= pos THEN Blank ELSE t.shown[c]
    BY <2>2
  <2>4. r \in [shown : [Columns -> Values], column : Nat]
    BY <2>2 DEF Values
  <2>5. \A c \in Columns : r.shown[c] = IF c < last THEN new[c] ELSE Blank
    <3> TAKE c \in Columns
    <3>1. c \in Nat /\ (c < size => c \in Cells)
      BY <1>3
    <3> QED BY <1>1, <2>1, <2>3, <3>1
  <2> QED BY <2>3, <2>4, <2>5 DEF r, last
<1> QED BY <1>4, <1>5

LEMMA DeleteShows ==
  ASSUME LineInv, Shows, NEW bs \in BOOLEAN, do_delete(bs)
  PROVE  LineInv' /\ Shows'
<1> DEFINE pos  == IF bs THEN cmd_line.pos - 1 ELSE cmd_line.pos
           size == cmd_line.size
           b    == cmd_line.buf
           last == cmd_line.size - 1
           new  == [i \in Cells |-> CASE i \in pos .. last - 1 -> cmd_line.buf[i + 1]
                                      [] i = last              -> Blank
                                      [] OTHER                 -> cmd_line.buf[i]]
           t    == IF bs THEN Back(terminal, 1) ELSE terminal
<1>1. /\ pos \in 0 .. last
      /\ cmd_line' = [pos |-> pos, buf |-> new, size |-> last]
      /\ terminal' = ClosedUp(pos, new, t)
      /\ UNCHANGED <<history, origin_cmd>>
  BY DEF do_delete
<1>2. /\ cmd_line \in [pos : Nat, buf : Buffers, size : 0 .. MaxLine]
      /\ terminal \in [shown : [Columns -> Values], column : Nat] /\ terminal.column = cmd_line.pos
      /\ \A c \in Columns : terminal.shown[c] = IF c < size THEN b[c] ELSE Blank
      /\ \A i \in Cells : i < size => b[i] \in Chars
  BY DEF LineInv, Shows
<1>3. /\ size \in 1 .. MaxLine /\ last \in 0 .. MaxLine /\ pos \in Nat /\ pos < size /\ b \in Buffers
      /\ pos <= last
  BY <1>1, <1>2, Sizes
<1>4. t \in [shown : [Columns -> Values], column : Nat] /\ t.column = pos /\ t.shown = terminal.shown
  BY <1>2, <1>3 DEF Back
<1>5. \A i \in Cells : new[i] = CASE i \in pos .. last - 1 -> b[i + 1]
                                  [] i = last              -> Blank
                                  [] OTHER                 -> b[i]
  OBVIOUS
<1>6. new = [i \in Cells |-> new[i]]
  OBVIOUS
<1>7. last = size - 1 /\ cmd_line.size = size
  OBVIOUS
<1> HIDE DEF pos, size, b, last, new, t
<1>8. \A i \in Cells : i \in Nat /\ (i \in pos .. last - 1 => i + 1 \in Cells /\ i + 1 < size)
  BY <1>3, <1>7, Sizes DEF Cells
<1>9. new \in Buffers
  <2>1. \A i \in Cells : new[i] \in Values
    <3> TAKE i \in Cells
    <3>1. CASE i \in pos .. last - 1
      BY <1>3, <1>5, <1>8, <3>1 DEF Buffers
    <3>2. CASE i = last
      BY <1>3, <1>5, <3>2 DEF Values
    <3>3. CASE i \notin pos .. last - 1 /\ i # last
      BY <1>3, <1>5, <3>3 DEF Buffers
    <3> QED BY <3>1, <3>2, <3>3
  <2> QED BY <1>6, <2>1 DEF Buffers
<1>10. last \in Cells /\ new[last] = Blank
  <2>1. last \in Cells /\ last \notin pos .. last - 1
    BY <1>3, Sizes
  <2> QED BY <1>5, <2>1
<1>11. \A i \in Cells : i < pos => new[i] = b[i]
  <2> TAKE i \in Cells
  <2> HAVE i < pos
  <2>1. i \notin pos .. last - 1 /\ i # last
    BY <1>3, <1>8
  <2> QED BY <1>5, <2>1
<1>12. \A i \in Cells : i < last => new[i] \in Chars
  <2> TAKE i \in Cells
  <2> HAVE i < last
  <2>1. CASE i < pos
    BY <1>2, <1>3, <1>7, <1>8, <1>11, <2>1
  <2>2. CASE i >= pos
    <3>1. i \in pos .. last - 1
      BY <1>3, <1>8, <2>2
    <3>2. new[i] = b[i + 1] /\ i + 1 \in Cells /\ i + 1 < size
      BY <1>5, <1>8, <3>1
    <3> QED BY <1>2, <3>2
  <2> QED BY <1>3, <1>8, <2>1, <2>2
<1> DEFINE r == ClosedUp(pos, new, t)
<1>13. /\ r \in [shown : [Columns -> Values], column : Nat] /\ r.column = pos
       /\ \A c \in Columns : r.shown[c] = IF c < size - 1 THEN new[c] ELSE Blank
  <2>1. new[size - 1] = Blank /\ \A c \in Columns : t.shown[c] = IF c < size THEN b[c] ELSE Blank
    BY <1>2, <1>4, <1>7, <1>10
  <2> QED BY <1>3, <1>4, <1>7, <1>9, <1>11, <2>1, ClosedUpShows
<1> HIDE DEF r
<1>14. Shows'
  BY <1>1, <1>7, <1>13 DEF Shows, r
<1> QED BY <1>1, <1>3, <1>9, <1>12, <1>13, <1>14, Edited DEF r

\* A line of the history, or the empty one, takes the place of the line.
LEMMA ReplaceShows ==
  ASSUME LineInv, NEW m \in 0 .. history.count, Replace(m)
  PROVE  LineInv' /\ Shows'
<1> DEFINE row  == IF m = 0 THEN Empty ELSE history.buf[m - 1]
           size == strlen(row)
           nb   == [i \in Cells |-> IF i < size THEN row[i] ELSE Null]
           l    == [pos |-> size, buf |-> nb, size |-> size]
<1>1. /\ history' = [history EXCEPT !.index = m]
      /\ cmd_line' = l /\ terminal' = Redrawn(l) /\ UNCHANGED origin_cmd
  BY DEF Replace
<1>2. /\ history \in [buf : [Rows -> Buffers], count : 0 .. HISTORY_MAX, index : Nat]
      /\ \A r \in Rows : \E n \in 0 .. MaxLine : Holds(history.buf[r], n)
      /\ origin_cmd \in Seq(Chars)
  BY DEF LineInv
<1>3. PICK n \in 0 .. MaxLine : Holds(row, n)
  <2>1. CASE m = 0
    BY <2>1, EmptyHolds, Sizes
  <2>2. CASE m # 0
    <3>1. m - 1 \in Rows
      BY <1>2, <2>2, Sizes DEF Rows
    <3> QED BY <1>2, <2>2, <3>1
  <2> QED BY <2>1, <2>2
<1> HIDE DEF row
<1>4. size = n
  BY <1>3, Strlen
<1> HIDE DEF size
<1>5. nb \in Buffers /\ \A i \in Cells : i < n => nb[i] \in Chars
  <2>1. \A i \in Cells : IF i < n THEN nb[i] = row[i] /\ row[i] \in Chars ELSE nb[i] = Null
    BY <1>3, <1>4 DEF Holds
  <2>2. \A i \in Cells : nb[i] \in Values
    BY <2>1 DEF Values
  <2>3. nb = [i \in Cells |-> nb[i]]
    OBVIOUS
  <2> HIDE DEF nb
  <2> QED BY <2>1, <2>2, <2>3 DEF Buffers
<1> HIDE DEF nb
<1>6. l \in [pos : Nat, buf : Buffers, size : 0 .. MaxLine] /\ l.pos = n /\ l.size = n /\ l.buf = nb
  BY <1>3, <1>4, <1>5, Sizes
<1> HIDE DEF l
<1>7. /\ terminal' \in [shown : [Columns -> Values], column : Nat] /\ terminal'.column = l.pos
      /\ \A c \in Columns : terminal'.shown[c] = IF c < l.size THEN l.buf[c] ELSE Blank
  BY <1>1, <1>3, <1>6, RedrawnShows
<1>8. /\ history' \in [buf : [Rows -> Buffers], count : 0 .. HISTORY_MAX, index : Nat]
      /\ history'.buf = history.buf /\ history'.index = m /\ history'.count = history.count
  BY <1>1, <1>2
<1>9. m <= history.count
  BY <1>2
<1>10. LineInv'
  <2>1. /\ cmd_line' \in [pos : Nat, buf : Buffers, size : 0 .. MaxLine]
        /\ cmd_line'.pos <= cmd_line'.size
        /\ \A i \in Cells : i < cmd_line'.size => cmd_line'.buf[i] \in Chars
    BY <1>1, <1>5, <1>6, Sizes
  <2>2. history'.index <= history'.count
    BY <1>8, <1>9
  <2>3. \A r \in Rows : \E i \in 0 .. MaxLine : Holds(history'.buf[r], i)
    BY <1>2, <1>8
  <2>4. origin_cmd' \in Seq(Chars)
    BY <1>1, <1>2
  <2> QED BY <1>7, <1>8, <2>1, <2>2, <2>3, <2>4 DEF LineInv
<1> QED BY <1>1, <1>7, <1>10 DEF Shows

LEMMA HistoryShows == LineInv /\ (HistoryUp \/ HistoryDown) => LineInv' /\ Shows'
<1> SUFFICES ASSUME LineInv, HistoryUp \/ HistoryDown PROVE LineInv' /\ Shows'
  OBVIOUS
<1>1. history.index \in Nat /\ history.count \in Nat /\ history.index <= history.count
  BY Sizes DEF LineInv
<1>2. PICK m \in {history.index + 1, history.index - 1} : m \in 0 .. history.count /\ Replace(m)
  <2>1. CASE HistoryUp
    <3>1. history.index + 1 \in 0 .. history.count
      BY <1>1, <2>1 DEF HistoryUp
    <3> QED BY <2>1, <3>1 DEF HistoryUp
  <2>2. CASE HistoryDown
    <3>1. history.index - 1 \in 0 .. history.count
      BY <1>1, <2>2 DEF HistoryDown
    <3> QED BY <2>2, <3>1 DEF HistoryDown
  <2> QED BY <2>1, <2>2
<1> QED BY <1>2, ReplaceShows

LEMMA RedrawShows == LineInv /\ Redraw => LineInv' /\ Shows'
<1> SUFFICES ASSUME LineInv, Redraw PROVE LineInv' /\ Shows'
  OBVIOUS
<1>1. /\ cmd_line \in [pos : Nat, buf : Buffers, size : 0 .. MaxLine] /\ cmd_line.pos <= cmd_line.size
      /\ terminal' = Redrawn(cmd_line) /\ UNCHANGED <<cmd_line, history, origin_cmd>>
  BY DEF LineInv, Redraw
<1>2. /\ terminal' \in [shown : [Columns -> Values], column : Nat] /\ terminal'.column = cmd_line.pos
      /\ \A c \in Columns : terminal'.shown[c] = IF c < cmd_line.size THEN cmd_line.buf[c] ELSE Blank
  BY <1>1, RedrawnShows
<1> QED BY <1>1, <1>2 DEF LineInv, Shows

\* history_save keeps a text with its '\0' in every row.
LEMMA Saved ==
  ASSUME LineInv, cmd_line.size > 0
  PROVE  LET h == history_save(history, cmd_line.buf, cmd_line.size)
         IN /\ h \in [buf : [Rows -> Buffers], count : 0 .. HISTORY_MAX, index : Nat]
            /\ h.index <= h.count
            /\ \A r \in Rows : \E n \in 0 .. MaxLine : Holds(h.buf[r], n)
<1> DEFINE size == cmd_line.size
           b    == cmd_line.buf
           row  == [i \in Cells |-> IF i < size THEN b[i] ELSE Null]
           rows == [r \in Rows |-> IF r > 0 THEN history.buf[r - 1] ELSE row]
           cnt  == IF history.count < HISTORY_MAX THEN history.count + 1 ELSE history.count
           h    == history_save(history, b, size)
           Same == /\ history.count > 0 /\ strlen(history.buf[0]) = size
                   /\ Text(history.buf[0], 0, size) = Text(b, 0, size)
<1>1. /\ history \in [buf : [Rows -> Buffers], count : 0 .. HISTORY_MAX, index : Nat]
      /\ \A r \in Rows : \E n \in 0 .. MaxLine : Holds(history.buf[r], n)
      /\ size \in 0 .. MaxLine /\ \A i \in Cells : i < size => b[i] \in Chars
  BY DEF LineInv
<1>2. CASE Same
  <2>1. h = [history EXCEPT !.index = 0]
    BY <1>2 DEF history_save
  <2> HIDE DEF h
  <2> QED BY <1>1, <2>1 DEF h
<1>3. CASE ~Same
  <2>1. h = [buf |-> rows, count |-> cnt, index |-> 0]
    BY <1>3, Zenon DEF history_save
  <2> HIDE DEF h, Same, size, b
  <2>2. Holds(row, size)
    <3>1. \A i \in Cells : IF i < size THEN row[i] \in Chars ELSE row[i] = Null
      BY <1>1
    <3>2. row = [i \in Cells |-> row[i]] /\ \A i \in Cells : row[i] \in Values
      BY <3>1 DEF Values
    <3> HIDE DEF row
    <3> QED BY <3>1, <3>2 DEF Holds, Buffers
  <2> HIDE DEF row
  <2>3. ASSUME NEW r \in Rows PROVE \E n \in 0 .. MaxLine : Holds(rows[r], n)
    <3>1. CASE r > 0
      <4>1. r - 1 \in Rows
        BY <3>1, Sizes DEF Rows
      <4> QED BY <1>1, <3>1, <4>1
    <3>2. CASE ~(r > 0)
      BY <1>1, <2>2, <3>2
    <3> QED BY <3>1, <3>2
  <2>4. rows = [r \in Rows |-> rows[r]]
    OBVIOUS
  <2> HIDE DEF rows
  <2>5. rows \in [Rows -> Buffers]
    BY <2>3, <2>4 DEF Holds
  <2>6. cnt \in 0 .. HISTORY_MAX
    BY <1>1, Sizes
  <2> HIDE DEF cnt
  <2>7. /\ h \in [buf : [Rows -> Buffers], count : 0 .. HISTORY_MAX, index : Nat]
        /\ h.buf = rows /\ h.count = cnt /\ h.index = 0
    BY <2>1, <2>5, <2>6
  <2> QED BY <2>3, <2>6, <2>7 DEF h, size, b
<1> QED BY <1>2, <1>3

LEMMA EnterShows == LineInv /\ Enter => LineInv' /\ Shows'
<1> SUFFICES ASSUME LineInv, Enter PROVE LineInv' /\ Shows'
  OBVIOUS
<1>1. /\ origin_cmd' = Text(cmd_line.buf, 0, cmd_line.size)
      /\ history' = IF cmd_line.size > 0 THEN history_save(history, cmd_line.buf, cmd_line.size)
                                         ELSE history
      /\ cmd_line' = [pos |-> 0, buf |-> Empty, size |-> 0]
      /\ terminal' = [shown |-> [c \in Columns |-> Blank], column |-> 0]
  BY DEF Enter, FreshLine, FreshTerminal
<1>2. origin_cmd' \in Seq(Chars)
  <2>1. cmd_line.size \in Nat /\ \A i \in 1 .. cmd_line.size : cmd_line.buf[0 + i - 1] \in Chars
    <3>1. cmd_line.size \in 0 .. MaxLine /\ \A i \in Cells : i < cmd_line.size => cmd_line.buf[i] \in Chars
      BY DEF LineInv
    <3>2. \A i \in 1 .. cmd_line.size : 0 + i - 1 \in Cells /\ 0 + i - 1 < cmd_line.size
      BY <3>1, Sizes DEF Cells
    <3> QED BY <3>1, <3>2, Sizes
  <2> QED BY <1>1, <2>1, TextType
<1>3. /\ history' \in [buf : [Rows -> Buffers], count : 0 .. HISTORY_MAX, index : Nat]
      /\ history'.index <= history'.count
      /\ \A r \in Rows : \E n \in 0 .. MaxLine : Holds(history'.buf[r], n)
  <2>1. CASE cmd_line.size > 0
    BY <1>1, <2>1, Saved
  <2>2. CASE ~(cmd_line.size > 0)
    BY <1>1, <2>2 DEF LineInv
  <2> QED BY <2>1, <2>2
<1>4. Empty \in Buffers
  BY EmptyHolds DEF Holds
<1>5. cmd_line' \in [pos : Nat, buf : Buffers, size : 0 .. MaxLine]
  BY <1>1, <1>4, Sizes
<1>6. terminal' \in [shown : [Columns -> Values], column : Nat]
  BY <1>1 DEF Values
<1>7. LineInv'
  BY <1>1, <1>2, <1>3, <1>5, <1>6 DEF LineInv, Cells
<1>8. Shows'
  BY <1>1 DEF Shows, Columns
<1> QED BY <1>7, <1>8

-----------------------------------------------------------------------------

LEMMA LineStep == LineInv /\ Shows /\ [LineNext]_lineVars => LineInv' /\ Shows'
<1> SUFFICES ASSUME LineInv, Shows, [LineNext]_lineVars PROVE LineInv' /\ Shows'
  OBVIOUS
<1>1. CASE Delete \/ Backspace
  BY <1>1, DeleteShows DEF Delete, Backspace
<1>2. CASE UNCHANGED lineVars
  BY <1>2 DEF lineVars, LineInv, Shows
<1> QED BY <1>1, <1>2, ValidCharShows, CursorShows, HistoryShows, RedrawShows, EnterShows
        DEF LineNext

\* A text in the line and in every row of the history, with its '\0', is kept by every key.
THEOREM LineInvariant == LineSpec => [](LineInv /\ Shows)
BY InitShows, LineStep, PTL DEF LineSpec

\* The terminal, which is only ever told of changes, shows the line and nothing behind it,
\* with the cursor in its place (cli_edit.c, cli_history.c, cli_cmd_line.c).  That no key
\* leaves the buffers is not claimed: LineAssumption keeps lines below CMD_LINE_BUF_SIZE - 1
\* characters when one is inserted, where the code goes on (cli_edit.c:192).
THEOREM TerminalIsTheLine == LineSpec => []TerminalShowsLine
<1>1. LineInv /\ Shows => TerminalShowsLine
  <2> SUFFICES ASSUME LineInv, Shows PROVE TerminalShowsLine
    OBVIOUS
  <2>1. /\ cmd_line.size \in 0 .. MaxLine /\ cmd_line.pos \in 0 .. cmd_line.size
        /\ cmd_line.buf \in [Cells -> Chars \cup {Null, Blank}]
    BY Sizes DEF LineInv, Buffers, Values
  <2>2. history.count \in 0 .. HISTORY_MAX /\ history.index \in 0 .. history.count
    BY Sizes DEF LineInv
  <2>3. ASSUME NEW r \in Rows
        PROVE  /\ history.buf[r] \in [Cells -> Chars \cup {Null, Blank}]
               /\ \E i \in Cells : history.buf[r][i] = Null
    <3>1. PICK n \in 0 .. MaxLine : Holds(history.buf[r], n)
      BY DEF LineInv
    <3>2. n \in Cells /\ history.buf[r][n] = Null
      BY <3>1, Sizes DEF Holds
    <3> QED BY <3>1, <3>2 DEF Holds, Buffers, Values
  <2>4. origin_cmd \in Seq(Chars)
    BY DEF LineInv
  <2>5. LineTypeOK
    BY <2>1, <2>2, <2>3, <2>4 DEF LineTypeOK
  <2> QED BY <2>5 DEF TerminalShowsLine, Shows
<1> QED BY <1>1, LineInvariant, PTL

-----------------------------------------------------------------------------
\* The editor

\* A sequence is a text when its elements are those of the row.
LEMMA TextIs ==
  ASSUME NEW S, NEW row, NEW from \in Nat, NEW n \in Nat, NEW s \in Seq(S), Len(s) = n,
         \A i \in 1 .. n : s[i] = row[from + i - 1]
  PROVE  Text(row, from, n) = s
<1>1. \A i \in 1 .. n : row[from + i - 1] \in S
  <2>1. \A i \in 1 .. n : s[i] \in S
    BY ElementOfSeq
  <2> QED BY <2>1
<1> DEFINE t == Text(row, from, n)
<1>2. t \in Seq(S)
  BY <1>1, TextType
<1>3. Len(t) = n /\ \A i \in 1 .. n : t[i] = row[from + i - 1]
  BY TextProperties
<1> HIDE DEF t
<1>4. \A i \in 1 .. Len(t) : t[i] = s[i]
  BY <1>3
<1> QED BY <1>2, <1>3, <1>4, SeqEqual DEF t

\* Texts of two rows that agree, each from its own place.
LEMMA TextSame ==
  ASSUME NEW row, NEW from, NEW other, NEW at, NEW n,
         \A i \in 1 .. n : row[from + i - 1] = other[at + i - 1]
  PROVE  Text(row, from, n) = Text(other, at, n)
BY DEF Text

LEMMA TextNone ==
  ASSUME NEW row, NEW from
  PROVE  Text(row, from, 0) = <<>>
<1>1. Text(row, from, 0) = [i \in 1 .. 0 |-> row[from + i - 1]]
  BY DEF Text
<1>2. 1 .. 0 = {}
  OBVIOUS
<1> QED BY <1>1, <1>2

LEMMA TextSome ==
  ASSUME NEW row, NEW from, NEW n \in Nat \ {0}
  PROVE  Text(row, from, n) # <<>>
<1>1. Len(Text(row, from, n)) = n
  BY TextProperties
<1>2. Len(<<>>) = 0
  BY EmptySeq
<1>3. n # 0
  OBVIOUS
<1> QED BY <1>1, <1>2, <1>3, Zenon

\* A text and the character behind it.
LEMMA TextAppend ==
  ASSUME NEW row, NEW n \in Nat, \A j \in 0 .. n : row[j] \in Chars
  PROVE  /\ Text(row, 0, n + 1) = Append(Text(row, 0, n), row[n])
         /\ Text(row, 0, n + 1) # <<>>
         /\ Ed!Front(Text(row, 0, n + 1)) = Text(row, 0, n)
         /\ Ed!Last(Text(row, 0, n + 1)) = row[n]
<1> DEFINE s == Text(row, 0, n)
           t == Text(row, 0, n + 1)
           e == row[n]
<1>1. /\ Len(s) = n /\ \A i \in 1 .. n : s[i] = row[i - 1]
      /\ Len(t) = n + 1 /\ \A i \in 1 .. n + 1 : t[i] = row[i - 1]
  <2>1. /\ Len(s) = n /\ \A i \in 1 .. n : s[i] = row[0 + i - 1]
        /\ Len(t) = n + 1 /\ \A i \in 1 .. n + 1 : t[i] = row[0 + i - 1]
    BY TextProperties
  <2>2. \A i \in Int : 0 + i - 1 = i - 1
    OBVIOUS
  <2> HIDE DEF s, t
  <2> QED BY <2>1, <2>2
<1>2. s \in Seq(Chars) /\ t \in Seq(Chars) /\ e \in Chars
  <2>1. \A i \in 1 .. n + 1 : i - 1 \in 0 .. n /\ 0 + i - 1 = i - 1
    OBVIOUS
  <2>2. e \in Chars
    OBVIOUS
  <2>3. s \in Seq(Chars)
    <3>1. \A i \in 1 .. n : row[0 + i - 1] \in Chars
      BY <2>1
    <3> QED BY <3>1, TextType
  <2>4. t \in Seq(Chars)
    <3>1. n + 1 \in Nat /\ \A i \in 1 .. n + 1 : row[0 + i - 1] \in Chars
      BY <2>1
    <3> QED BY <3>1, TextType
  <2> QED BY <2>2, <2>3, <2>4
<1>3. \A i \in 1 .. n : t[i] = s[i]
  BY <1>1
<1>4. t[n + 1] = e
  BY <1>1
<1> HIDE DEF s, t, e
<1>5. t = Append(s, e)
  <2>1. Append(s, e) \in Seq(Chars) /\ Len(Append(s, e)) = n + 1
    BY <1>1, <1>2
  <2>2. \A i \in 1 .. n + 1 : Append(s, e)[i] = t[i]
    BY <1>1, <1>2, <1>3, <1>4
  <2> QED BY <1>1, <1>2, <2>1, <2>2, SeqEqual
<1>6. Ed!Front(t) = s
  <2> DEFINE f == SubSeq(t, 1, n)
  <2>1. \A i \in 1 .. n : t[i] \in Chars
    BY <1>1, <1>2, ElementOfSeq
  <2>2. f \in Seq(Chars) /\ Len(f) = n /\ \A i \in 1 .. n : f[i] = t[i]
    <3>1. /\ f \in Seq(Chars) /\ Len(f) = (IF 1 <= n THEN n - 1 + 1 ELSE 0)
          /\ \A i \in 1 .. n - 1 + 1 : f[i] = t[1 + i - 1]
      BY <2>1, SubSeqProperties
    <3> HIDE DEF f
    <3>2. n - 1 + 1 = n /\ (IF 1 <= n THEN n - 1 + 1 ELSE 0) = n
      OBVIOUS
    <3>3. \A i \in 1 .. n : 1 + i - 1 = i
      OBVIOUS
    <3> QED BY <3>1, <3>2, <3>3
  <2> HIDE DEF f
  <2>3. f = s
    BY <1>1, <1>2, <1>3, <2>2, SeqEqual
  <2>4. Ed!Front(t) = SubSeq(t, 1, Len(t) - 1) /\ Len(t) - 1 = n
    BY <1>1 DEF Ed!Front
  <2> QED BY <2>3, <2>4 DEF f
<1>7. Ed!Last(t) = e
  BY <1>1, <1>4 DEF Ed!Last
<1>8. t # <<>>
  BY TextSome DEF t
<1> QED BY <1>5, <1>6, <1>7, <1>8 DEF s, t, e

\* A text and the character before it.
LEMMA TextPrepend ==
  ASSUME NEW row, NEW from \in Nat, NEW n \in Nat, \A j \in from .. from + n : row[j] \in Chars
  PROVE  /\ Text(row, from, n + 1) = <<row[from]>> \o Text(row, from + 1, n)
         /\ Text(row, from, n + 1) # <<>>
         /\ Head(Text(row, from, n + 1)) = row[from]
         /\ Tail(Text(row, from, n + 1)) = Text(row, from + 1, n)
<1> DEFINE s == Text(row, from + 1, n)
           t == Text(row, from, n + 1)
           e == row[from]
<1>1. /\ Len(s) = n /\ \A i \in 1 .. n : s[i] = row[from + 1 + i - 1]
      /\ Len(t) = n + 1 /\ \A i \in 1 .. n + 1 : t[i] = row[from + i - 1]
  BY TextProperties
<1>2. s \in Seq(Chars) /\ t \in Seq(Chars) /\ e \in Chars
  <2>1. \A i \in 1 .. n + 1 : row[from + i - 1] \in Chars
    <3>1. \A i \in 1 .. n + 1 : from + i - 1 \in from .. from + n
      OBVIOUS
    <3> QED BY <3>1
  <2>2. e \in Chars
    BY from \in from .. from + n
  <2>3. \A i \in 1 .. n : i + 1 \in 1 .. n + 1 /\ from + 1 + i - 1 = from + (i + 1) - 1
    OBVIOUS
  <2>4. \A i \in 1 .. n : row[from + 1 + i - 1] \in Chars
    BY <2>1, <2>3
  <2>5. s \in Seq(Chars)
    <3>1. from + 1 \in Nat
      OBVIOUS
    <3> QED BY <2>4, <3>1, TextType
  <2>6. t \in Seq(Chars)
    <3>1. n + 1 \in Nat
      OBVIOUS
    <3> QED BY <2>1, <3>1, TextType
  <2> QED BY <2>2, <2>5, <2>6
<1>3. \A i \in 1 .. n : t[i + 1] = s[i]
  <2> SUFFICES ASSUME NEW i \in 1 .. n PROVE t[i + 1] = s[i]
    OBVIOUS
  <2>1. i + 1 \in 1 .. n + 1 /\ from + (i + 1) - 1 = from + 1 + i - 1
    OBVIOUS
  <2> QED BY <1>1, <2>1
<1>4. t[1] = e
  BY <1>1
<1>5. t # <<>>
  BY TextSome
<1> HIDE DEF s, t, e
<1>6. Head(t) = e
  BY <1>4
<1>7. Tail(t) = s
  <2>1. Tail(t) \in Seq(Chars) /\ Len(Tail(t)) = n /\ \A i \in 1 .. n : Tail(t)[i] = t[i + 1]
    BY <1>1, <1>2, <1>5, HeadTailProperties
  <2> QED BY <1>1, <1>2, <1>3, <2>1, SeqEqual
<1>8. t = <<e>> \o s
  <2>1. <<e>> \in Seq(Chars) /\ Len(<<e>>) = 1 /\ <<e>>[1] = e
    BY <1>2
  <2>2. /\ <<e>> \o s \in Seq(Chars) /\ Len(<<e>> \o s) = 1 + n
        /\ \A i \in 1 .. 1 + n : (<<e>> \o s)[i] = IF i <= 1 THEN <<e>>[i] ELSE s[i - 1]
    BY <1>1, <1>2, <2>1, ConcatProperties
  <2>3. \A i \in 1 .. n + 1 : (<<e>> \o s)[i] = t[i]
    <3> SUFFICES ASSUME NEW i \in 1 .. n + 1 PROVE (<<e>> \o s)[i] = t[i]
      OBVIOUS
    <3>1. CASE i = 1
      BY <1>4, <2>1, <2>2, <3>1
    <3>2. CASE i # 1
      <4>1. i - 1 \in 1 .. n /\ (i - 1) + 1 = i /\ ~(i <= 1)
        BY <3>2
      <4>2. t[i] = s[i - 1]
        BY <1>3, <4>1
      <4> QED BY <2>2, <4>1, <4>2
    <3> QED BY <3>1, <3>2
  <2> QED BY <1>1, <1>2, <2>2, <2>3, SeqEqual
<1> QED BY <1>5, <1>6, <1>7, <1>8 DEF s, t, e

LEMMA TextConcat ==
  ASSUME NEW row, NEW from \in Nat, NEW n \in Nat, NEW m \in Nat,
         \A i \in 1 .. n + m : row[from + i - 1] \in Chars
  PROVE  Text(row, from, n) \o Text(row, from + n, m) = Text(row, from, n + m)
<1> DEFINE s == Text(row, from, n)
           t == Text(row, from + n, m)
<1>1. /\ Len(s) = n /\ \A i \in 1 .. n : s[i] = row[from + i - 1]
      /\ Len(t) = m /\ \A i \in 1 .. m : t[i] = row[from + n + i - 1]
  BY TextProperties
<1>2. s \in Seq(Chars) /\ t \in Seq(Chars)
  <2>1. \A i \in 1 .. n : i \in 1 .. n + m
    OBVIOUS
  <2>2. \A i \in 1 .. m : n + i \in 1 .. n + m /\ from + n + i - 1 = from + (n + i) - 1
    OBVIOUS
  <2>3. \A i \in 1 .. m : row[from + n + i - 1] \in Chars
    BY <2>2
  <2> QED BY <2>1, <2>3, TextType
<1> HIDE DEF s, t
<1>3. /\ s \o t \in Seq(Chars) /\ Len(s \o t) = n + m
      /\ \A i \in 1 .. n + m : (s \o t)[i] = IF i <= n THEN s[i] ELSE t[i - n]
  BY ZenonT(60), <1>1, <1>2, ConcatProperties
<1>4. \A i \in 1 .. n + m : (s \o t)[i] = row[from + i - 1]
  <2> SUFFICES ASSUME NEW i \in 1 .. n + m PROVE (s \o t)[i] = row[from + i - 1]
    OBVIOUS
  <2>1. CASE i <= n
    BY <1>1, <1>3, <2>1
  <2>2. CASE ~(i <= n)
    <3>1. i - n \in 1 .. m /\ from + n + (i - n) - 1 = from + i - 1
      BY <2>2
    <3> QED BY <1>1, <1>3, <2>2, <3>1
  <2> QED BY <2>1, <2>2
<1>5. n + m \in Nat
  OBVIOUS
<1>6. Text(row, from, n + m) = s \o t
  BY ZenonT(60), <1>3, <1>4, <1>5, TextIs
<1> QED BY <1>6 DEF s, t

LEMMA LineFacts ==
  ASSUME LineInv
  PROVE  /\ cmd_line.pos \in Nat /\ cmd_line.size \in Nat /\ cmd_line.pos <= cmd_line.size
         /\ cmd_line.size <= MaxLine /\ cmd_line.buf \in Buffers
         /\ \A i \in 0 .. cmd_line.size - 1 : i \in Cells /\ cmd_line.buf[i] \in Chars
BY Sizes DEF LineInv, Cells

LEMMA InitEdits == LineInit => Ed!Init
<1> SUFFICES ASSUME LineInit PROVE Ed!Init
  OBVIOUS
<1>1. /\ cmd_line.pos = 0 /\ cmd_line.size - cmd_line.pos = 0 /\ origin_cmd = <<>>
      /\ history.count = 0 /\ history.index = 0
  BY DEF LineInit, FreshLine
<1>2. Before = <<>> /\ After = <<>>
  BY <1>1, TextNone DEF Before, After
<1>3. Past = <<>>
  <2>1. 1 .. history.count = {}
    BY <1>1
  <2> QED BY <2>1 DEF Past
<1> QED BY <1>1, <1>2, <1>3 DEF Ed!Init

\* A key that is about the line alone leaves the history as it was.
LEMMA Kept ==
  ASSUME UNCHANGED <<history, origin_cmd>>
  PROVE  UNCHANGED Ed!keeps
BY DEF Ed!keeps, Past

LEMMA ValidCharEdits == LineInv /\ ValidChar => Ed!Type
<1> SUFFICES ASSUME LineInv, ValidChar PROVE Ed!Type
  OBVIOUS
<1> DEFINE p == cmd_line.pos
           n == cmd_line.size
           b == cmd_line.buf
<1>1. /\ p \in Nat /\ n \in Nat /\ p <= n /\ b \in Buffers
      /\ \A i \in 0 .. n - 1 : b[i] \in Chars
  BY LineFacts
<1>2. n < MaxLine /\ UNCHANGED Ed!keeps
  BY Kept DEF ValidChar
<1>3. p \in Cells
  BY <1>1, <1>2, Sizes DEF Cells
<1>4. PICK ch \in Chars : IF p = n THEN valid_char_append(ch) ELSE valid_char_insert(ch)
  BY DEF ValidChar
<1> DEFINE q == cmd_line'.buf
<1>5. /\ cmd_line'.pos = p + 1 /\ cmd_line'.size = n + 1
      /\ q[p] = ch /\ \A i \in 0 .. p - 1 : q[i] = b[i]
      /\ \A i \in 1 .. n - p : q[p + i] = b[p + i - 1]
  <2>1. CASE p = n
    <3>1. cmd_line' = [pos |-> p + 1, size |-> n + 1, buf |-> [b EXCEPT ![p] = ch]]
      BY <1>4, <2>1 DEF valid_char_append
    <3>2. /\ cmd_line'.pos = p + 1 /\ cmd_line'.size = n + 1 /\ q = [b EXCEPT ![p] = ch]
      BY <3>1
    <3>3. q[p] = ch /\ \A i \in 0 .. p - 1 : q[i] = b[i]
      BY <1>1, <1>3, <3>2, Sizes DEF Buffers, Cells
    <3>4. 1 .. n - p = {}
      BY <1>1, <2>1
    <3> QED BY <3>2, <3>3, <3>4
  <2>2. CASE p # n
    <3>1. cmd_line' = [pos |-> p + 1, size |-> n + 1, buf |-> Shifted(cmd_line, ch)]
      BY <1>4, <2>2 DEF valid_char_insert
    <3>2. cmd_line'.pos = p + 1 /\ cmd_line'.size = n + 1 /\ q = Shifted(cmd_line, ch)
      BY <3>1
    <3>3. /\ q[p] = ch /\ \A i \in 0 .. p - 1 : q[i] = b[i]
          /\ \A i \in p + 1 .. n + 1 : i \in Cells => q[i] = b[i - 1]
      <4> HIDE DEF q
      <4> QED BY <1>1, <1>2, <1>3, <3>2, Sizes DEF Shifted, Cells
    <3>4. \A i \in 1 .. n - p : p + i \in Cells /\ p + i \in p + 1 .. n + 1
      BY <1>1, <1>2, Sizes DEF Cells
    <3> HIDE DEF q, n, p, b
    <3>5. \A i \in 1 .. n - p : (p + i) - 1 = p + i - 1
      BY <1>1
    <3>6. ASSUME NEW i \in 1 .. n - p PROVE q[p + i] = b[p + i - 1]
      BY <3>3, <3>4, <3>5, <3>6
    <3> QED BY <3>2, <3>3, <3>6
  <2> QED BY <2>1, <2>2
<1> HIDE DEF q, p, n, b
<1>6. After' = After
  <2>1. After' = Text(q, p + 1, (n + 1) - (p + 1)) /\ After = Text(b, p, n - p)
    BY <1>5 DEF After, p, n, b, q
  <2>2. (n + 1) - (p + 1) = n - p
    BY <1>1
  <2>3. Text(q, p + 1, n - p) = Text(b, p, n - p)
    <3>1. \A i \in 1 .. n - p : p + 1 + i - 1 = p + i
      BY <1>1
    <3>2. \A i \in 1 .. n - p : q[p + 1 + i - 1] = b[p + i - 1]
      BY <1>5, <3>1
    <3> QED BY <3>2, TextSame
  <2> QED BY <2>1, <2>2, <2>3
<1>7. Before' = Append(Before, ch)
  <2>1. Before' = Text(q, 0, p + 1) /\ Before = Text(b, 0, p)
    BY <1>5 DEF Before, p, b, q
  <2>2. Text(q, 0, p) = Text(b, 0, p)
    <3>1. \A i \in 1 .. p : q[0 + i - 1] = b[0 + i - 1]
      BY <1>1, <1>5
    <3> QED BY <3>1, TextSame
  <2>3. \A j \in 0 .. p : q[j] \in Chars
    <3> SUFFICES ASSUME NEW j \in 0 .. p PROVE q[j] \in Chars
      OBVIOUS
    <3>1. CASE j = p
      BY <1>5, <3>1
    <3>2. CASE j # p
      <4>1. j \in 0 .. p - 1 /\ j \in 0 .. n - 1
        BY <1>1, <3>2
      <4> QED BY <1>1, <1>5, <4>1
    <3> QED BY <3>1, <3>2
  <2>4. Text(q, 0, p + 1) = Append(Text(q, 0, p), q[p])
    BY <1>1, <2>3, TextAppend
  <2> QED BY <1>5, <2>1, <2>2, <2>4
<1> QED BY <1>2, <1>6, <1>7 DEF Ed!Type

LEMMA CursorEdits == LineInv /\ (CursorLeft \/ CursorRight) => Ed!Left \/ Ed!Right
<1> SUFFICES ASSUME LineInv, CursorLeft \/ CursorRight PROVE Ed!Left \/ Ed!Right
  OBVIOUS
<1> DEFINE p == cmd_line.pos
           n == cmd_line.size
           b == cmd_line.buf
<1>1. /\ p \in Nat /\ n \in Nat /\ p <= n
      /\ \A i \in 0 .. n - 1 : b[i] \in Chars
  BY LineFacts
<1>2. UNCHANGED Ed!keeps
  BY Kept DEF CursorLeft, CursorRight
<1>3. Before = Text(b, 0, p) /\ After = Text(b, p, n - p)
  BY DEF Before, After
<1>4. CASE CursorLeft
  <2>1. p > 0 /\ cmd_line' = [cmd_line EXCEPT !.pos = p - 1]
    BY <1>4 DEF CursorLeft
  <2>2. cmd_line'.pos = p - 1 /\ cmd_line'.size = n /\ cmd_line'.buf = b
    BY <2>1 DEF LineInv
  <2>3. Before' = Text(b, 0, p - 1) /\ After' = Text(b, p - 1, n - (p - 1))
    BY <2>2 DEF Before, After
  <2> HIDE DEF p, n, b
  <2>4. p - 1 \in Nat /\ (p - 1) + 1 = p /\ n - (p - 1) = (n - p) + 1 /\ n - p \in Nat
    BY <1>1, <2>1
  <2> DEFINE k == p - 1
             m == n - p
  <2>5. Before = Text(b, 0, k + 1) /\ Before' = Text(b, 0, k)
    BY <1>3, <2>3, <2>4
  <2>6. After = Text(b, k + 1, m) /\ After' = Text(b, k, m + 1)
    BY <1>3, <2>3, <2>4
  <2>7. \A j \in 0 .. k : b[j] \in Chars
    BY <1>1, <2>1
  <2>8. \A j \in k .. k + m : b[j] \in Chars
    BY <1>1, <2>1
  <2>9. k \in Nat /\ m \in Nat
    BY <2>4
  <2> HIDE DEF k, m
  <2>10. Before # <<>> /\ Ed!Front(Before) = Before' /\ Ed!Last(Before) = b[k]
    BY <2>5, <2>7, <2>9, TextAppend
  <2>11. After' = <<b[k]>> \o After
    BY <2>6, <2>8, <2>9, TextPrepend
  <2> QED BY <1>2, <2>10, <2>11 DEF Ed!Left
<1>5. CASE CursorRight
  <2>1. p < n /\ cmd_line' = [cmd_line EXCEPT !.pos = p + 1]
    BY <1>5 DEF CursorRight
  <2>2. cmd_line'.pos = p + 1 /\ cmd_line'.size = n /\ cmd_line'.buf = b
    BY <2>1 DEF LineInv
  <2>3. Before' = Text(b, 0, p + 1) /\ After' = Text(b, p + 1, n - (p + 1))
    BY <2>2 DEF Before, After
  <2> HIDE DEF p, n, b
  <2> DEFINE m == n - (p + 1)
  <2>4. m \in Nat /\ n - p = m + 1
    BY <1>1, <2>1
  <2>5. \A j \in 0 .. p : b[j] \in Chars
    BY <1>1, <2>1
  <2>6. \A j \in p .. p + m : b[j] \in Chars
    BY <1>1, <2>1
  <2> HIDE DEF m
  <2>7. Before' = Append(Before, b[p])
    BY <1>1, <1>3, <2>3, <2>5, TextAppend
  <2>8. After # <<>> /\ Head(After) = b[p] /\ Tail(After) = After'
    <3>1. After = Text(b, p, m + 1) /\ After' = Text(b, p + 1, m)
      BY <1>3, <2>3, <2>4 DEF m
    <3> QED BY <1>1, <2>4, <2>6, <3>1, TextPrepend
  <2> QED BY <1>2, <2>7, <2>8 DEF Ed!Right
<1> QED BY <1>4, <1>5

\* The line is closed up over the character at k.
LEMMA Removed ==
  ASSUME LineInv, NEW is_backspace \in BOOLEAN, do_delete(is_backspace),
         NEW k, k = IF is_backspace THEN cmd_line.pos - 1 ELSE cmd_line.pos
  PROVE  /\ k \in 0 .. cmd_line.size - 1
         /\ Before' = Text(cmd_line.buf, 0, k)
         /\ After' = Text(cmd_line.buf, k + 1, cmd_line.size - 1 - k)
         /\ UNCHANGED Ed!keeps
<1> DEFINE n == cmd_line.size
           b == cmd_line.buf
           q == [i \in Cells |-> CASE i \in k .. (n - 1) - 1 -> b[i + 1]
                                   [] i = n - 1              -> Blank
                                   [] OTHER                  -> b[i]]
<1>1. n \in Nat /\ n <= MaxLine
  BY LineFacts
<1>2. k \in 0 .. n - 1 /\ cmd_line' = [pos |-> k, buf |-> q, size |-> n - 1]
  BY DEF do_delete
<1>3. UNCHANGED <<history, origin_cmd>>
  BY DEF do_delete
<1>4. cmd_line'.pos = k /\ cmd_line'.buf = q /\ cmd_line'.size = n - 1
  BY <1>2
<1>5. Before' = Text(q, 0, k) /\ After' = Text(q, k, n - 1 - k)
  BY <1>4 DEF Before, After
<1> HIDE DEF n, b
<1>6. \A i \in 0 .. k - 1 : q[i] = b[i]
  BY <1>1, <1>2, Sizes DEF Cells
<1>7. \A i \in k .. n - 1 - 1 : q[i] = b[i + 1]
  BY <1>1, <1>2, Sizes DEF Cells
<1> HIDE DEF q
<1>8. Text(q, 0, k) = Text(b, 0, k)
  <2>1. \A i \in 1 .. k : 0 + i - 1 \in 0 .. k - 1
    BY <1>2
  <2>2. \A i \in 1 .. k : q[0 + i - 1] = b[0 + i - 1]
    BY <1>6, <2>1
  <2> QED BY <2>2, TextSame
<1>9. Text(q, k, n - 1 - k) = Text(b, k + 1, n - 1 - k)
  <2>1. \A i \in 1 .. n - 1 - k : /\ k + i - 1 \in k .. n - 1 - 1
                                  /\ (k + i - 1) + 1 = k + 1 + i - 1
    BY <1>1, <1>2
  <2>2. \A i \in 1 .. n - 1 - k : q[k + i - 1] = b[k + 1 + i - 1]
    BY <1>7, <2>1
  <2> QED BY <2>2, TextSame
<1>10. UNCHANGED Ed!keeps
  BY <1>3, Kept
<1> QED BY <1>2, <1>5, <1>8, <1>9, <1>10 DEF n, b

LEMMA DeleteEdits == LineInv /\ Delete => Ed!Delete
<1> SUFFICES ASSUME LineInv, Delete PROVE Ed!Delete
  OBVIOUS
<1> DEFINE k == cmd_line.pos
           n == cmd_line.size
           b == cmd_line.buf
           m == n - 1 - k
<1>1. k \in 0 .. n - 1 /\ Before' = Text(b, 0, k) /\ After' = Text(b, k + 1, m) /\ UNCHANGED Ed!keeps
  BY Removed DEF Delete
<1>2. n \in Nat /\ \A i \in 0 .. n - 1 : b[i] \in Chars
  BY LineFacts
<1>3. Before = Text(b, 0, k) /\ After = Text(b, k, n - k)
  BY DEF Before, After
<1> HIDE DEF k, n, b
<1>4. m \in Nat /\ k \in Nat /\ n - k = m + 1 /\ \A j \in k .. k + m : b[j] \in Chars
  BY <1>1, <1>2
<1> HIDE DEF m
<1>5. After = Text(b, k, m + 1)
  BY <1>3, <1>4
<1>6. Text(b, k, m + 1) # <<>> /\ Tail(Text(b, k, m + 1)) = Text(b, k + 1, m)
  BY <1>4, TextPrepend
<1>7. After' = Text(b, k + 1, m)
  BY <1>1 DEF m, k, n, b
<1>8. Before' = Before /\ UNCHANGED Ed!keeps
  BY <1>1, <1>3
<1> QED BY <1>5, <1>6, <1>7, <1>8 DEF Ed!Delete

LEMMA BackspaceEdits == LineInv /\ Backspace => Ed!Backspace
<1> SUFFICES ASSUME LineInv, Backspace PROVE Ed!Backspace
  OBVIOUS
<1> DEFINE p == cmd_line.pos
           n == cmd_line.size
           b == cmd_line.buf
           k == p - 1
<1>1. k \in 0 .. n - 1 /\ Before' = Text(b, 0, k) /\ After' = Text(b, k + 1, n - 1 - k) /\ UNCHANGED Ed!keeps
  BY Removed DEF Backspace
<1>2. n \in Nat /\ p \in Nat /\ \A i \in 0 .. n - 1 : b[i] \in Chars
  BY LineFacts
<1>3. Before = Text(b, 0, p) /\ After = Text(b, p, n - p)
  BY DEF Before, After
<1> HIDE DEF p, n, b
<1>4. /\ k \in Nat /\ p = k + 1 /\ n - 1 - k = n - p
      /\ \A j \in 0 .. k : b[j] \in Chars
  BY <1>1, <1>2
<1> HIDE DEF k
<1>5. After' = After
  BY <1>1, <1>3, <1>4
<1>6. Before # <<>> /\ Ed!Front(Before) = Before'
  BY <1>1, <1>3, <1>4, TextAppend
<1> QED BY <1>1, <1>5, <1>6 DEF Ed!Backspace

\* The line the history's row n holds, the first being 1; 0 is "".
LEMMA PastFacts ==
  ASSUME LineInv
  PROVE  /\ Past \in Seq(Seq(Chars)) /\ Len(Past) = history.count
         /\ \A n \in 1 .. history.count : Past[n] = Text(history.buf[n - 1], 0, strlen(history.buf[n - 1]))
<1>1. history.count \in Nat /\ history.count <= HISTORY_MAX
  BY Sizes DEF LineInv
<1>2. ASSUME NEW n \in 1 .. history.count
      PROVE  Text(history.buf[n - 1], 0, strlen(history.buf[n - 1])) \in Seq(Chars)
  <2>1. n - 1 \in Rows
    BY <1>1, Sizes DEF Rows
  <2>2. PICK m \in 0 .. MaxLine : Holds(history.buf[n - 1], m)
    BY <2>1 DEF LineInv
  <2>3. \A i \in 1 .. m : 0 + i - 1 \in Cells /\ 0 + i - 1 < m
    BY Sizes DEF Cells
  <2>4. \A i \in 1 .. m : history.buf[n - 1][0 + i - 1] \in Chars
    BY <2>2, <2>3 DEF Holds
  <2>5. m \in Nat /\ strlen(history.buf[n - 1]) = m
    BY <2>2, Strlen, Sizes
  <2> QED BY <2>4, <2>5, TextType
<1> DEFINE e == [n \in 1 .. history.count |-> Text(history.buf[n - 1], 0, strlen(history.buf[n - 1]))]
<1>3. \A n \in 1 .. history.count : e[n] \in Seq(Chars)
  BY <1>2
<1>4. DOMAIN e = 1 .. history.count /\ e = [n \in 1 .. history.count |-> e[n]]
  OBVIOUS
<1>5. Past = e
  BY DEF Past
<1> HIDE DEF e
<1>6. e \in Seq(Seq(Chars)) /\ Len(e) = history.count
  BY <1>1, <1>3, <1>4
<1>7. \A n \in 1 .. history.count : e[n] = Text(history.buf[n - 1], 0, strlen(history.buf[n - 1]))
  BY DEF e
<1> QED BY <1>5, <1>6, <1>7

LEMMA Recalls ==
  ASSUME LineInv, NEW n \in 0 .. history.count, Replace(n)
  PROVE  Ed!Recall(n)
<1> DEFINE row == IF n = 0 THEN Empty ELSE history.buf[n - 1]
           size == strlen(row)
           buf == [i \in Cells |-> IF i < size THEN row[i] ELSE Null]
<1>1. /\ history' = [history EXCEPT !.index = n] /\ origin_cmd' = origin_cmd
      /\ cmd_line' = [pos |-> size, buf |-> buf, size |-> size]
  BY DEF Replace
<1>2. PICK m \in 0 .. MaxLine : Holds(row, m)
  <2>1. CASE n = 0
    BY <2>1, EmptyHolds, Sizes
  <2>2. CASE n # 0
    <3>1. n - 1 \in Rows
      BY <2>2, Sizes DEF Rows, LineInv
    <3> QED BY <2>2, <3>1 DEF LineInv
  <2> QED BY <2>1, <2>2
<1>3. size = m
  BY <1>2, Strlen
<1>4. cmd_line'.pos = m /\ cmd_line'.size = m /\ cmd_line'.buf = buf
  BY <1>1, <1>3
<1> HIDE DEF row
<1>5. Text(buf, 0, m) = Text(row, 0, m)
  <2>1. \A i \in 1 .. m : 0 + i - 1 \in Cells /\ 0 + i - 1 < m
    BY Sizes DEF Cells
  <2>2. \A i \in 1 .. m : buf[0 + i - 1] = row[0 + i - 1]
    BY <1>3, <2>1
  <2> QED BY <2>2, TextSame
<1> HIDE DEF size, buf
<1>6. Before' = Text(row, 0, m) /\ After' = <<>>
  <2>1. Before' = Text(buf, 0, m) /\ After' = Text(buf, m, m - m)
    BY <1>4 DEF Before, After
  <2>2. m - m = 0
    OBVIOUS
  <2> QED BY <1>5, <2>1, <2>2, TextNone
<1>7. Before' = IF n = 0 THEN <<>> ELSE Past[n]
  <2>1. CASE n = 0
    <3>1. m = 0
      <4>1. size = 0
        BY <2>1, EmptyHolds, Strlen, Sizes DEF size, row
      <4> QED BY <1>3, <4>1
    <3> QED BY <1>6, <2>1, <3>1, TextNone
  <2>2. CASE n # 0
    <3>1. n \in 1 .. history.count
      BY <2>2
    <3>2. Past[n] = Text(history.buf[n - 1], 0, strlen(history.buf[n - 1]))
      BY <3>1, PastFacts
    <3> QED BY <1>3, <1>6, <2>2, <3>2 DEF size, row
  <2> QED BY <2>1, <2>2
<1>8. history'.index = n /\ history'.count = history.count /\ history'.buf = history.buf
  BY <1>1 DEF LineInv
<1>9. Past' = Past
  BY <1>8 DEF Past
<1>10. Len(Past) = history.count
  BY PastFacts
<1> QED BY <1>1, <1>6, <1>7, <1>8, <1>9, <1>10 DEF Ed!Recall

LEMMA HistoryEdits == LineInv /\ (HistoryUp \/ HistoryDown) => Ed!Older \/ Ed!Newer
<1> SUFFICES ASSUME LineInv, HistoryUp \/ HistoryDown PROVE Ed!Older \/ Ed!Newer
  OBVIOUS
<1>1. history.index \in Nat /\ history.count \in Nat /\ history.index <= history.count
  BY Sizes DEF LineInv
<1>2. CASE HistoryUp
  <2>1. history.index + 1 \in 0 .. history.count /\ Replace(history.index + 1)
    BY <1>1, <1>2 DEF HistoryUp
  <2> QED BY <2>1, Recalls DEF Ed!Older
<1>3. CASE HistoryDown
  <2>1. history.index - 1 \in 0 .. history.count /\ Replace(history.index - 1)
    BY <1>1, <1>3 DEF HistoryDown
  <2> QED BY <2>1, Recalls DEF Ed!Newer
<1> QED BY <1>2, <1>3

LEMMA RedrawEdits == Redraw => UNCHANGED <<Before, After, Ed!keeps>>
BY Kept DEF Redraw, Before, After

\* Shifting the rows and writing the line into the first keeps the line and
\* what was kept, up to the new count.
LEMMA SavedKeeps ==
  ASSUME LineInv, cmd_line.size > 0,
         history' = history_save(history, cmd_line.buf, cmd_line.size)
  PROVE  Past' = Ed!Kept(Text(cmd_line.buf, 0, cmd_line.size)) /\ history'.index = 0
<1> DEFINE size == cmd_line.size
           b    == cmd_line.buf
           line == Text(b, 0, size)
           row  == [i \in Cells |-> IF i < size THEN b[i] ELSE Null]
           rows == [r \in Rows |-> IF r > 0 THEN history.buf[r - 1] ELSE row]
           cnt  == IF history.count < HISTORY_MAX THEN history.count + 1 ELSE history.count
           Same == /\ history.count > 0 /\ strlen(history.buf[0]) = size
                   /\ Text(history.buf[0], 0, size) = Text(b, 0, size)
<1>1. /\ history \in [buf : [Rows -> Buffers], count : 0 .. HISTORY_MAX, index : Nat]
      /\ \A r \in Rows : \E n \in 0 .. MaxLine : Holds(history.buf[r], n)
      /\ size \in 0 .. MaxLine /\ \A i \in Cells : i < size => b[i] \in Chars
  BY DEF LineInv
<1>2. /\ size \in Nat /\ \A i \in 0 .. size - 1 : i \in Cells /\ b[i] \in Chars
  BY LineFacts
<1>3. line \in Seq(Chars) /\ Len(line) = size
  <2>1. \A i \in 1 .. size : 0 + i - 1 \in 0 .. size - 1
    BY <1>2
  <2>2. \A i \in 1 .. size : b[0 + i - 1] \in Chars
    BY <1>2, <2>1
  <2> QED BY <1>2, <2>2, TextType, TextProperties
<1>4. /\ Past \in Seq(Seq(Chars)) /\ Len(Past) = history.count
      /\ \A n \in 1 .. history.count : Past[n] = Text(history.buf[n - 1], 0, strlen(history.buf[n - 1]))
  BY PastFacts
<1>5. Same <=> Past # <<>> /\ Head(Past) = line
  <2>1. CASE history.count = 0
    <3>1. Past = <<>>
      BY <1>4, <2>1, EmptySeq
    <3> QED BY <2>1, <3>1
  <2>2. CASE history.count > 0
    <3> DEFINE m == strlen(history.buf[0])
    <3>1. 1 \in 1 .. history.count /\ 1 - 1 = 0 /\ 0 \in Rows
      BY <1>1, <2>2, Sizes DEF Rows
    <3>2. Past # <<>> /\ Head(Past) = Text(history.buf[0], 0, m)
      <4>1. Past # <<>>
        BY <1>4, <2>2, EmptySeq
      <4>2. Head(Past) = Past[1]
        BY <1>4, <4>1
      <4> QED BY <1>4, <3>1, <4>1, <4>2
    <3>3. m \in Nat
      <4>1. PICK n \in 0 .. MaxLine : Holds(history.buf[0], n)
        BY <1>1, <3>1
      <4> QED BY <4>1, Strlen, Sizes
    <3>4. Len(Text(history.buf[0], 0, m)) = m
      BY <3>3, TextProperties
    <3> HIDE DEF m, line
    <3>5. Head(Past) = line => m = size
      BY <1>3, <3>2, <3>4
    <3> QED BY <2>2, <3>2, <3>5 DEF m, line
  <2> QED BY <1>1, <2>1, <2>2
<1>6. CASE Same
  <2>1. history' = [history EXCEPT !.index = 0]
    BY <1>6 DEF history_save
  <2>2. history'.index = 0 /\ history'.count = history.count /\ history'.buf = history.buf
    BY <1>1, <2>1
  <2>3. Past' = Past
    BY <2>2 DEF Past
  <2> HIDE DEF Same, line
  <2> QED BY <1>5, <1>6, <2>2, <2>3 DEF Ed!Kept, line
<1>7. CASE ~Same
  <2>1. history' = [buf |-> rows, count |-> cnt, index |-> 0]
    BY <1>7, Zenon DEF history_save
  <2>2. history'.buf = rows /\ history'.count = cnt /\ history'.index = 0
    BY <2>1
  <2> DEFINE s == <<line>> \o Past
  <2>3. /\ cnt \in Nat /\ cnt <= HISTORY_MAX /\ cnt <= history.count + 1
        /\ cnt = IF Len(Past) < HISTORY_MAX THEN Len(Past) + 1 ELSE HISTORY_MAX
    BY <1>1, <1>4, Sizes
  <2>4. Holds(row, size)
    <3>1. \A i \in Cells : IF i < size THEN row[i] \in Chars ELSE row[i] = Null
      BY <1>1
    <3>2. row = [i \in Cells |-> row[i]] /\ \A i \in Cells : row[i] \in Values
      BY <3>1 DEF Values
    <3> HIDE DEF row
    <3> QED BY <3>1, <3>2 DEF Holds, Buffers
  <2>5. Text(row, 0, strlen(row)) = line
    <3>1. strlen(row) = size
      BY <1>1, <2>4, Strlen
    <3>2. \A i \in 1 .. size : 0 + i - 1 \in Cells /\ 0 + i - 1 < size
      BY <1>2
    <3>3. \A i \in 1 .. size : row[0 + i - 1] = b[0 + i - 1]
      BY <3>2
    <3> HIDE DEF row
    <3> QED BY <3>1, <3>3, TextSame
  <2>6. /\ s \in Seq(Seq(Chars)) /\ Len(s) = 1 + history.count
        /\ \A k \in 1 .. 1 + history.count : s[k] = IF k <= 1 THEN <<line>>[k] ELSE Past[k - 1]
    <3> HIDE DEF line
    <3>1. <<line>> \in Seq(Seq(Chars)) /\ Len(<<line>>) = 1
      BY <1>3
    <3> QED BY <1>4, <3>1, ConcatProperties
  <2>7. ASSUME NEW k \in 1 .. cnt PROVE Text(rows[k - 1], 0, strlen(rows[k - 1])) = s[1 + k - 1]
    <3>1. k - 1 \in Rows /\ 1 + k - 1 = k /\ k \in 1 .. 1 + history.count
      BY <1>1, <2>3, Sizes DEF Rows
    <3> HIDE DEF s, cnt, line, row
    <3>2. CASE k = 1
      <4>1. s[k] = line
        BY <2>6, <3>1, <3>2
      <4>2. rows[k - 1] = row
        BY <3>1, <3>2
      <4> HIDE DEF rows
      <4> QED BY <2>5, <3>1, <4>1, <4>2
    <3>3. CASE k # 1
      <4>1. k - 1 \in 1 .. history.count /\ k - 1 > 0 /\ ~(k <= 1)
        BY <1>1, <3>1, <3>3
      <4>2. rows[k - 1] = history.buf[(k - 1) - 1]
        BY <3>1, <4>1
      <4>3. s[k] = Past[k - 1]
        BY <2>6, <3>1, <4>1
      <4> HIDE DEF rows
      <4> QED BY <1>4, <3>1, <4>1, <4>2, <4>3
    <3> QED BY <3>2, <3>3
  <2>8. Past' = Text(s, 1, cnt)
    <3> HIDE DEF s, cnt, rows, line
    <3> QED BY <2>2, <2>7 DEF Past, Text
  <2>9. Text(s, 1, cnt) = SubSeq(s, 1, cnt)
    <3> HIDE DEF s, cnt, line
    <3>1. \A k \in 1 .. cnt : s[k] \in Seq(Chars)
      BY <1>1, <2>3, <2>6, ElementOfSeq
    <3>2. /\ SubSeq(s, 1, cnt) \in Seq(Seq(Chars))
          /\ Len(SubSeq(s, 1, cnt)) = IF 1 <= cnt THEN cnt - 1 + 1 ELSE 0
          /\ \A k \in 1 .. cnt - 1 + 1 : SubSeq(s, 1, cnt)[k] = s[1 + k - 1]
      BY <2>3, <3>1, SubSeqProperties
    <3>3. cnt - 1 + 1 = cnt /\ (IF 1 <= cnt THEN cnt - 1 + 1 ELSE 0) = cnt
      BY <2>3
    <3> DEFINE u == SubSeq(s, 1, cnt)
               t == Text(s, 1, cnt)
    <3>4. u \in Seq(Seq(Chars)) /\ Len(u) = cnt /\ \A k \in 1 .. cnt : u[k] = s[1 + k - 1]
      BY <3>2, <3>3
    <3>5. Len(t) = cnt /\ \A k \in 1 .. cnt : t[k] = s[1 + k - 1]
      BY <2>3, TextProperties
    <3>6. \A k \in 1 .. cnt : s[1 + k - 1] \in Seq(Chars)
      BY <3>1
    <3>7. t \in Seq(Seq(Chars))
      BY <2>3, <3>6, TextType
    <3> HIDE DEF u, t
    <3>8. \A k \in 1 .. Len(t) : t[k] = u[k]
      BY <3>4, <3>5
    <3>9. t = u
      BY <3>4, <3>5, <3>7, <3>8, SeqEqual
    <3> QED BY <3>9 DEF u, t
  <2> HIDE DEF Same, cnt, rows, line
  <2> QED BY <1>5, <1>7, <2>2, <2>3, <2>8, <2>9 DEF Ed!Kept, line
<1> QED BY <1>6, <1>7

LEMMA EnterEdits == LineInv /\ Enter => Ed!Enter
<1> SUFFICES ASSUME LineInv, Enter PROVE Ed!Enter
  OBVIOUS
<1> DEFINE n    == cmd_line.size
           p    == cmd_line.pos
           b    == cmd_line.buf
           line == Text(b, 0, n)
<1>1. /\ n \in Nat /\ p \in Nat /\ p <= n
      /\ \A i \in 0 .. n - 1 : b[i] \in Chars
  BY LineFacts
<1>2. /\ origin_cmd' = line
      /\ history' = IF n > 0 THEN history_save(history, b, n) ELSE history
      /\ cmd_line'.pos = 0 /\ cmd_line'.size - cmd_line'.pos = 0
  BY DEF Enter, FreshLine
<1>3. Before' = <<>> /\ After' = <<>>
  BY <1>2, TextNone DEF Before, After
<1>4. Before \o After = line
  <2> DEFINE m == n - p
  <2>1. m \in Nat /\ p + m = n /\ 0 + p = p
    BY <1>1
  <2>2. \A i \in 1 .. p + m : 0 + i - 1 \in 0 .. n - 1
    BY <1>1, <2>1
  <2>3. \A i \in 1 .. p + m : b[0 + i - 1] \in Chars
    BY <1>1, <2>2
  <2>4. Before = Text(b, 0, p) /\ After = Text(b, p, m)
    BY DEF Before, After
  <2> HIDE DEF n, p, b, m
  <2>5. Text(b, 0, p) \o Text(b, 0 + p, m) = Text(b, 0, p + m)
    BY <1>1, <2>1, <2>3, TextConcat
  <2> QED BY <2>1, <2>4, <2>5
<1>5. CASE n = 0
  <2>1. history' = history
    BY <1>2, <1>5
  <2>2. Past' = Past
    BY <2>1 DEF Past
  <2>3. line = <<>>
    BY <1>5, TextNone
  <2> HIDE DEF line
  <2> QED BY <1>2, <1>3, <1>4, <2>1, <2>2, <2>3 DEF Ed!Enter
<1>6. CASE n > 0
  <2>1. Past' = Ed!Kept(line) /\ history'.index = 0
    BY <1>2, <1>6, SavedKeeps
  <2>2. line # <<>>
    BY <1>1, <1>6, TextSome
  <2> HIDE DEF line
  <2> QED BY <1>2, <1>3, <1>4, <2>1, <2>2 DEF Ed!Enter
<1> QED BY <1>1, <1>5, <1>6

LEMMA StepEdits == LineInv /\ [LineNext]_lineVars => [Ed!Next]_<<Before, After, Ed!keeps>>
<1> SUFFICES ASSUME LineInv, [LineNext]_lineVars PROVE [Ed!Next]_<<Before, After, Ed!keeps>>
  OBVIOUS
<1>1. CASE UNCHANGED lineVars
  BY <1>1 DEF lineVars, Before, After, Past, Ed!keeps
<1>2. CASE ValidChar
  BY <1>2, ValidCharEdits DEF Ed!Next
<1>3. CASE CursorLeft \/ CursorRight
  BY <1>3, CursorEdits DEF Ed!Next
<1>4. CASE Delete
  BY <1>4, DeleteEdits DEF Ed!Next
<1>5. CASE Backspace
  BY <1>5, BackspaceEdits DEF Ed!Next
<1>6. CASE HistoryUp \/ HistoryDown
  BY <1>6, HistoryEdits DEF Ed!Next
<1>7. CASE Redraw
  BY <1>7, RedrawEdits
<1>8. CASE Enter
  BY <1>8, EnterEdits DEF Ed!Next
<1> QED BY <1>1, <1>2, <1>3, <1>4, <1>5, <1>6, <1>7, <1>8 DEF LineNext

\* cmd_line, its shifted buffer and the rows of the history implement an editor
\* with a history: every key does to the text on the two sides of the cursor,
\* and to the lines kept, what the editor promises of it, or nothing.
THEOREM EditorImplemented == LineSpec => LineIsAnEditor
<1>1. LineInit => Ed!Init
  BY InitEdits
<1>2. LineInv /\ Shows /\ [LineNext]_lineVars => [Ed!Next]_<<Before, After, Ed!keeps>>
  BY StepEdits
<1> QED BY <1>1, <1>2, LineInvariant, PTL DEF LineSpec, LineIsAnEditor, Ed!Spec
=============================================================================
