---------------------------- MODULE CliInputProofs ----------------------------
(***************************************************************************)
(* Theorems about CliInput, for any bytes, bursts and sizes of the FIFO:   *)
(* what comes in while a command line runs never becomes a key, the FIFO   *)
(* with its wrapping counters is a stream of bytes, and no byte of an      *)
(* escape sequence is taken for a character.                               *)
(***************************************************************************)
EXTENDS CliInput, ListLemmas

States == {"start", "valid_char", "invalid_char", "ESC", "enter", "exit_handler"} \cup EditStates

\* A byte is copied only while its popping goes on; away from the prompt the interrupt is
\* locked out, unless a command has opened the input; and so nothing early is behind it.
InputInv ==
  /\ mec \in [from : States \cup {NoState}, to : States]
  /\ copied # NoByte => Popping \/ CommandReads
  /\ at \in {"away", "entry"} => lock = TRUE \/ opened = TRUE
  /\ at \in {"entry", "prompt", "key"} => early = {} \/ opened = TRUE

LEMMA InitInput == InputInit => InputInv
BY DEF InputInit, InputInv, engine_init, States

LEMMA PushedInput ==
  ASSUME NEW burst, cli_in_push(burst)
  PROVE  /\ lock => early' = early
         /\ at \in {"prompt", "key"} => early' \subseteq early
<1>1. CASE lock
  BY <1>1, Zenon DEF cli_in_push, fifo
<1>2. CASE ~lock
  <2> DEFINE n      == Accepted(burst)
             off(s) == (s - in) % CLI_IO_SIZE
             new    == {s \in Slots : off(s) < n}
  <2>1. early' = IF at \in {"prompt", "key"} THEN early \ new ELSE early \cup new
    BY <1>2, Zenon DEF cli_in_push
  <2> HIDE DEF new
  <2> QED BY <1>2, <2>1
<1> QED BY <1>1, <1>2

LEMMA ReceiveInput == InputInv /\ Receive => InputInv'
<1> SUFFICES ASSUME InputInv, Receive PROVE InputInv'
  OBVIOUS
<1>1. /\ UNCHANGED <<lock, at, mec, pops, copied, opened>>
      /\ \E burst : cli_in_push(burst)
  BY Zenon DEF Receive
<1>2. (lock => early' = early) /\ (at \in {"prompt", "key"} => early' \subseteq early)
  BY <1>1, PushedInput
<1>3. mec' \in [from : States \cup {NoState}, to : States]
  BY <1>1 DEF InputInv
<1>4. copied' # NoByte => Popping' \/ CommandReads'
  BY <1>1 DEF InputInv, Popping, CommandReads, InEscape, Needed
<1>5. at' \in {"away", "entry"} => lock' = TRUE \/ opened' = TRUE
  BY <1>1 DEF InputInv
<1>6. at' \in {"entry", "prompt", "key"} => early' = {} \/ opened' = TRUE
  <2>1. CASE at = "entry"
    BY <1>1, <1>2, <2>1 DEF InputInv
  <2>2. CASE at \in {"prompt", "key"}
    BY <1>1, <1>2, <2>2 DEF InputInv
  <2> QED BY <1>1, <2>1, <2>2
<1> QED BY <1>3, <1>4, <1>5, <1>6 DEF InputInv

LEMMA PromptInput ==
  InputInv /\ (EnterPrompt \/ OpenPrompt \/ LeavePrompt \/ OpenInput) => InputInv'
<1> SUFFICES ASSUME InputInv, EnterPrompt \/ OpenPrompt \/ LeavePrompt \/ OpenInput
             PROVE  InputInv'
  OBVIOUS
<1>1. CASE EnterPrompt
  BY <1>1 DEF EnterPrompt, InputInv, engine_init, States, Popping, CommandReads
<1>2. CASE OpenPrompt
  BY <1>2 DEF OpenPrompt, InputInv, Popping, CommandReads, fifo
<1>3. CASE LeavePrompt
  BY <1>3 DEF LeavePrompt, InputInv, Popping, CommandReads, fifo
<1>4. CASE OpenInput
  BY <1>4 DEF OpenInput, InputInv, Popping, CommandReads, fifo
<1> QED BY <1>1, <1>2, <1>3, <1>4

LEMMA PopInput == InputInv /\ (CopyByte \/ AdvanceOut) => InputInv'
<1> SUFFICES ASSUME InputInv, CopyByte \/ AdvanceOut PROVE InputInv'
  OBVIOUS
<1>1. CASE CopyByte
  BY <1>1 DEF CopyByte, InputInv, Popping, CommandReads, InEscape, Needed, fifo
<1>2. CASE AdvanceOut
  <2>1. /\ copied' = NoByte /\ early' \subseteq early /\ UNCHANGED <<lock, mec, opened>>
        /\ IF CommandReads THEN at' = at ELSE at' = "key"
        /\ Popping \/ CommandReads
    BY <1>2 DEF AdvanceOut, InputInv
  <2>2. at = "prompt" \/ at = "key" \/ CommandReads
    BY <2>1 DEF Popping
  <2> QED BY <2>1, <2>2 DEF InputInv, CommandReads
<1> QED BY <1>1, <1>2

\* A step of the engine that goes on with the key, or ends it.
LEMMA EngineInput ==
  ASSUME InputInv, at = "key", NEW s \in States,
         mec' = state_switch(Switched(mec), s) \/ mec' = Switched(mec),
         UNCHANGED <<early, copied, opened>>, copied = NoByte,
         at' \in {"key", "prompt", "leaving"}
  PROVE  InputInv'
BY DEF InputInv, state_switch, Switched

LEMMA KeyInput ==
  InputInv /\ (\/ StartKey \/ ValidChar \/ InvalidChar \/ EscapeSequence \/ EscapeCut
               \/ EditingKey \/ ExitHandler \/ EnterKey) => InputInv'
<1> SUFFICES ASSUME InputInv,
                    \/ StartKey \/ ValidChar \/ InvalidChar \/ EscapeSequence \/ EscapeCut
                    \/ EditingKey \/ ExitHandler \/ EnterKey
             PROVE  InputInv'
  OBVIOUS
<1>1. at = "key" /\ ~(InEscape /\ Len(pops) < Needed) => copied = NoByte
  BY DEF InputInv, Popping, CommandReads
<1>2. CASE StartKey
  <2>1. /\ at = "key" /\ mec.to = "start" /\ UNCHANGED <<early, copied, opened, at>>
        /\ \E s \in States : mec' = state_switch(Switched(mec), s)
    BY <1>2 DEF StartKey, Runs, GoesTo, fifo, States, EditStates
  <2>2. copied = NoByte
    BY <1>1, <2>1 DEF InEscape
  <2> QED BY <2>1, <2>2, EngineInput
<1>3. CASE ValidChar
  <2>1. /\ at = "key" /\ mec.to = "valid_char" /\ UNCHANGED <<early, copied, opened, at>>
        /\ \E s \in States : mec' = state_switch(Switched(mec), s)
    BY <1>3 DEF ValidChar, Runs, GoesTo, fifo, States, EditStates
  <2>2. copied = NoByte
    BY <1>1, <2>1 DEF InEscape
  <2> QED BY <2>1, <2>2, EngineInput
<1>4. CASE InvalidChar
  <2>1. /\ at = "key" /\ mec.to = "invalid_char" /\ UNCHANGED <<early, copied, opened, at>>
        /\ \E s \in States : mec' = state_switch(Switched(mec), s)
    BY <1>4 DEF InvalidChar, Runs, GoesTo, fifo, States, EditStates
  <2>2. copied = NoByte
    BY <1>1, <2>1 DEF InEscape
  <2> QED BY <2>1, <2>2, EngineInput
<1>5. CASE EscapeSequence
  <2> DEFINE s == CASE pops[3] \in DOMAIN Arrow                   -> Arrow[pops[3]]
                    [] pops[3] = "3" /\ pops[Len(pops)] = "~"     -> "delete"
                    [] OTHER                                      -> "exit_handler"
  <2>1. /\ at = "key" /\ Len(pops) = Needed /\ UNCHANGED <<early, copied, opened, at>>
        /\ mec' = state_switch(Switched(mec), s)
    BY <1>5 DEF EscapeSequence, Runs, GoesTo, fifo
  <2>2. s \in States
    <3>1. \A x \in DOMAIN Arrow : Arrow[x] \in States
      BY DEF Arrow, States, EditStates
    <3>2. "delete" \in States /\ "exit_handler" \in States
      BY DEF States, EditStates
    <3> QED BY <3>1, <3>2
  <2>3. ~(Len(pops) < Needed)
    <3>1. Needed \in {1, 3, 4}
      BY DEF Needed
    <3> QED BY <2>1, <3>1
  <2> HIDE DEF s
  <2> QED BY <1>1, <2>1, <2>2, <2>3, EngineInput
<1>6. CASE EscapeCut
  <2>1. /\ at = "key" \/ at = "prompt"
        /\ copied = NoByte /\ at' = "prompt" /\ UNCHANGED <<early, copied, opened>>
        /\ mec' = state_switch(Switched(mec), "start")
    BY <1>6 DEF EscapeCut, Popping, fifo
  <2> QED BY <2>1 DEF InputInv, state_switch, Switched, States
<1>7. CASE EditingKey
  <2>1. /\ at = "key" /\ mec.to # "ESC" /\ UNCHANGED <<early, copied, opened, at>>
        /\ \E s \in States : mec' = state_switch(Switched(mec), s)
    BY <1>7 DEF EditingKey, EditStates, GoesTo, fifo, States
  <2>2. copied = NoByte
    BY <1>1, <2>1 DEF InEscape
  <2> QED BY <2>1, <2>2, EngineInput
<1>8. CASE ExitHandler
  <2>1. /\ at = "key" /\ mec.to = "exit_handler" /\ UNCHANGED <<early, copied, opened>>
        /\ mec' = state_switch(Switched(mec), "start") /\ at' = "prompt" /\ "start" \in States
    BY <1>8 DEF ExitHandler, Runs, fifo, States
  <2>2. copied = NoByte
    BY <1>1, <2>1 DEF InEscape
  <2> QED BY <2>1, <2>2, EngineInput
<1>9. CASE EnterKey
  <2>1. /\ at = "key" /\ mec.to = "enter" /\ "start" \in States /\ UNCHANGED <<early, copied, opened>>
        /\ mec' = Switched(mec) /\ at' = "leaving"
    BY <1>9 DEF EnterKey, Runs, fifo, States
  <2>2. copied = NoByte
    BY <1>1, <2>1 DEF InEscape
  <2> QED BY <2>1, <2>2, EngineInput
<1> QED BY <1>2, <1>3, <1>4, <1>5, <1>6, <1>7, <1>8, <1>9

LEMMA InputStep == InputInv /\ [InputNext]_inputVars => InputInv'
<1>1. InputInv /\ UNCHANGED inputVars => InputInv'
  BY DEF inputVars, fifo, InputInv, Popping, CommandReads, InEscape, Needed
<1> QED BY <1>1, ReceiveInput, PromptInput, PopInput, KeyInput DEF InputNext, Lincli

\* A byte that came in while a command line ran never becomes a key: the lock and
\* cli_in_clear together see to it, however the interrupt comes between the steps of
\* scheduler_get_char_entry, cli_in_pop and the engine (scheduler.c, cli_io.c).
THEOREM EarlyBytesDropped == InputSpec => []TypedAheadIsDropped
<1>1. InputInv => TypedAheadIsDropped
  BY DEF InputInv, TypedAheadIsDropped
<1> QED BY <1>1, InitInput, InputStep, PTL DEF InputSpec

-----------------------------------------------------------------------------
\* Remainders

LEMMA Multiples ==
  ASSUME NEW m \in Nat \ {0}, NEW a \in Int, NEW c \in Int, \E q \in Int : c = a + q * m
  PROVE  c % m = a % m
<1> DEFINE s == a % m
           p == a \div m
<1>1. s \in 0 .. m - 1 /\ p \in Int /\ a = p * m + s
  BY Division
<1>2. PICK q \in Int : c = a + q * m
  OBVIOUS
<1> HIDE DEF s, p
<1>3. c = (p + q) * m + s /\ p + q \in Int
  BY <1>1, <1>2
<1>4. c % m = s
  BY <1>1, <1>3, Remainder
<1> QED BY <1>4 DEF s

\* Taking remainders early makes no difference.
Mod(a, m) == a % m

LEMMA Early ==
  ASSUME NEW m \in Nat \ {0}, NEW a \in Int, NEW c \in Int, NEW d \in Int,
         c - Mod(a, m) = d - a \/ c + Mod(a, m) = d + a
  PROVE  Mod(c, m) = Mod(d, m)
<1> DEFINE p == a \div m
           r == a % m
<1>1. r \in 0 .. m - 1 /\ p \in Int /\ a = p * m + r /\ (c - r = d - a \/ c + r = d + a)
  BY Division DEF Mod
<1> HIDE DEF p, r
<1>2. -p \in Int /\ (-p) * m = r - a /\ p * m = a - r
  BY <1>1
<1>3. c = d + (-p) * m \/ c = d + p * m
  BY <1>1, <1>2
<1> QED BY <1>1, <1>2, <1>3, Multiples DEF Mod

-----------------------------------------------------------------------------
\* The FIFO

Items == Bytes \cup {NoByte}

LEMMA Sizes ==
  /\ CLI_IO_SIZE \in Nat \ {0} /\ Wrap \in Nat \ {0} /\ CLI_IO_SIZE < Wrap
  /\ \E q \in Int : Wrap = q * CLI_IO_SIZE
<1>1. CLI_IO_SIZE \in Nat \ {0} /\ Wrap \in Nat \ {0} /\ CLI_IO_SIZE < Wrap /\ Wrap % CLI_IO_SIZE = 0
  BY FifoAssumption
<1>2. /\ Wrap \div CLI_IO_SIZE \in Int
      /\ Wrap = (Wrap \div CLI_IO_SIZE) * CLI_IO_SIZE + (Wrap % CLI_IO_SIZE)
  BY <1>1, Division
<1> DEFINE q == Wrap \div CLI_IO_SIZE
<1> HIDE DEF q
<1>3. q \in Int /\ Wrap = q * CLI_IO_SIZE + 0
  BY <1>1, <1>2 DEF q
<1>4. Wrap = q * CLI_IO_SIZE
  BY <1>1, <1>3
<1> QED BY <1>1, <1>3, <1>4

\* A counter within its range.
Wrapped(a) == a % Wrap

LEMMA EarlyWrapped ==
  ASSUME NEW a \in Int, NEW c \in Int, NEW d \in Int,
         c - Wrapped(a) = d - a \/ c + Wrapped(a) = d + a
  PROVE  Wrapped(c) = Wrapped(d)
<1>1. Wrap \in Nat \ {0} /\ \A x : Wrapped(x) = Mod(x, Wrap)
  BY Sizes DEF Wrapped, Mod
<1> QED BY <1>1, Early

LEMMA EarlySlot ==
  ASSUME NEW a \in Int, NEW c \in Int, NEW d \in Int,
         c - Slot(a) = d - a \/ c + Slot(a) = d + a
  PROVE  Slot(c) = Slot(d)
<1>1. CLI_IO_SIZE \in Nat \ {0} /\ \A x : Slot(x) = Mod(x, CLI_IO_SIZE)
  BY Sizes DEF Slot, Mod
<1> QED BY <1>1, Early

LEMMA WrappedType == \A a \in Int : Wrapped(a) \in 0 .. Wrap - 1
BY Sizes, Division DEF Wrapped

\* The length after n have been put, and after one has been taken.
LEMMA Put ==
  ASSUME NEW i \in Int, NEW o \in Int, NEW n \in Int
  PROVE  Wrapped(Wrapped(i + n) - o) = Wrapped(Wrapped(i - o) + n)
<1> DEFINE a == i + n
           b == i - o
           c == Wrapped(a) - o
           d == a - o
           e == Wrapped(b) + n
<1>1. a \in Int /\ b \in Int /\ d \in Int
  OBVIOUS
<1>2. Wrapped(a) \in Int /\ Wrapped(b) \in Int
  BY <1>1, WrappedType, Sizes
<1>3. c \in Int /\ e \in Int
  BY <1>2
<1>4. c - Wrapped(a) = d - a
  BY <1>1, <1>2
<1>5. e - Wrapped(b) = d - b
  BY <1>1, <1>2
<1> HIDE DEF a, b, c, d, e
<1>6. Wrapped(c) = Wrapped(d) /\ Wrapped(e) = Wrapped(d)
  BY <1>1, <1>2, <1>3, <1>4, <1>5, EarlyWrapped
<1> QED BY <1>6 DEF a, b, c, e

LEMMA Taken ==
  ASSUME NEW i \in Int, NEW o \in Int
  PROVE  Wrapped(i - Wrapped(o + 1)) = Wrapped(Wrapped(i - o) - 1)
<1> DEFINE a == o + 1
           b == i - o
           c == i - Wrapped(a)
           d == b - 1
           e == Wrapped(b) - 1
<1>1. a \in Int /\ b \in Int /\ d \in Int
  OBVIOUS
<1>2. Wrapped(a) \in Int /\ Wrapped(b) \in Int
  BY <1>1, WrappedType, Sizes
<1>3. c \in Int /\ e \in Int
  BY <1>2
<1>4. c + Wrapped(a) = d + a
  BY <1>1, <1>2
<1>5. e - Wrapped(b) = d - b
  BY <1>1, <1>2
<1> HIDE DEF a, b, c, d, e
<1>6. Wrapped(c) = Wrapped(d)
  BY ZenonT(60), <1>1, <1>3, <1>4, EarlyWrapped
<1>7. Wrapped(e) = Wrapped(d)
  BY <1>1, <1>3, <1>5, EarlyWrapped
<1> QED BY <1>6, <1>7 DEF a, b, c, e

LEMMA SmallWrapped == \A a \in 0 .. Wrap - 1 : Wrapped(a) = a
BY Sizes, Small DEF Wrapped

LEMMA SmallSlot ==
  /\ \A a \in 0 .. CLI_IO_SIZE - 1 : Slot(a) = a
  /\ \A a \in -CLI_IO_SIZE .. -1 : Slot(a) = a + CLI_IO_SIZE
BY Sizes, Small DEF Slot

LEMMA SlotType == \A a \in Int : Slot(a) \in Slots
BY Sizes, Division DEF Slot, Slots

\* The counters may wrap: the size of the FIFO divides their range.
LEMMA SlotWraps ==
  ASSUME NEW a \in Int, NEW k \in Int
  PROVE  Slot(Wrapped(a) + k) = Slot(a + k)
<1> DEFINE s == a % Wrap
           p == a \div Wrap
<1>1. s \in Int /\ p \in Int /\ a = p * Wrap + s
  <2>1. Wrap \in Nat \ {0}
    BY Sizes
  <2>2. s \in 0 .. Wrap - 1 /\ p \in Int /\ a = p * Wrap + s
    BY <2>1, Division
  <2> HIDE DEF s, p
  <2> QED BY <2>1, <2>2
<1>2. PICK q \in Int : Wrap = q * CLI_IO_SIZE
  BY Sizes
<1> HIDE DEF s, p
<1>3. a = (p * q) * CLI_IO_SIZE + s /\ p * q \in Int
  <2>1. p * (q * CLI_IO_SIZE) = (p * q) * CLI_IO_SIZE
    BY <1>1, Sizes
  <2> QED BY <1>1, <1>2, <2>1
<1> DEFINE d == p * q
<1>4. d \in Int /\ a = d * CLI_IO_SIZE + s
  BY <1>3
<1> HIDE DEF d
<1> DEFINE x == a + k
           y == s + k
<1>5. x = y + d * CLI_IO_SIZE /\ x \in Int /\ y \in Int
  BY <1>1, <1>4, Sizes
<1> HIDE DEF x, y
<1>6. x % CLI_IO_SIZE = y % CLI_IO_SIZE
  BY <1>4, <1>5, Multiples, Sizes
<1> QED BY <1>6 DEF Slot, Wrapped, s, x, y

\* in and out are within the range of their type, and the byte that cli_in_pop has
\* copied is still the first.
FifoInv ==
  /\ buffer \in [Slots -> Items]
  /\ in \in 0 .. Wrap - 1 /\ out \in 0 .. Wrap - 1
  /\ Length <= CLI_IO_SIZE
  /\ copied # NoByte => Length # 0 /\ copied = buffer[Slot(out)]
  /\ cut = <<>> \/ cut \in Parts

LEMMA LengthFacts ==
  ASSUME FifoInv
  PROVE  /\ Length \in Nat /\ Length <= CLI_IO_SIZE
         /\ in \in Nat /\ out \in Nat
         /\ \A k \in Int : Slot(in + k) = Slot(out + Length + k)
<1>1. Length \in Nat /\ Length <= CLI_IO_SIZE /\ in \in Nat /\ out \in Nat
  BY Sizes, Division DEF FifoInv, Length
<1>2. Wrapped(Length + out) = in
  <2> DEFINE a == in - out
             c == Length + out
  <2>1. a \in Int /\ c \in Int /\ c - Length = in - a
    BY <1>1
  <2>2. Length = Wrapped(a)
    BY DEF Length, Wrapped
  <2>3. Wrapped(in) = in
    BY SmallWrapped DEF FifoInv
  <2> HIDE DEF a, c
  <2>4. Wrapped(c) = Wrapped(in)
    BY <1>1, <2>1, <2>2, EarlyWrapped
  <2> QED BY <2>3, <2>4 DEF c
<1>3. ASSUME NEW k \in Int PROVE Slot(in + k) = Slot(out + Length + k)
  <2>1. Slot(Wrapped(Length + out) + k) = Slot((Length + out) + k)
    BY <1>1, SlotWraps
  <2>2. (Length + out) + k = out + Length + k
    BY <1>1
  <2> QED BY <1>2, <2>1, <2>2
<1> QED BY <1>1, <1>3

LEMMA UnreadFacts ==
  ASSUME FifoInv
  PROVE  /\ Unread \in Seq(Items) /\ Len(Unread) = Length
         /\ \A i \in 1 .. Length : Unread[i] = buffer[Slot(out + i - 1)]
<1>1. Length \in Nat /\ out \in Nat
  BY LengthFacts
<1>2. \A i \in 1 .. Length : Slot(out + i - 1) \in Slots
  BY <1>1, SlotType
<1>3. \A i \in 1 .. Length : buffer[Slot(out + i - 1)] \in Items
  BY <1>2 DEF FifoInv
<1> HIDE DEF Length
<1> QED BY <1>1, <1>3 DEF Unread

LEMMA PartsAreBytes == Parts \subseteq Seq(Bytes)
<1>1. ASSUME NEW t \in Typed, NEW i \in 1 .. Len(t), NEW j \in 1 .. Len(t)
      PROVE  SubSeq(t, i, j) \in Seq(Bytes)
  <2>1. t \in Seq(Bytes) /\ Len(t) \in Nat
    BY BytesAssumption
  <2>2. \A k \in i .. j : t[k] \in Bytes
    BY <2>1, ElementOfSeq
  <2> QED BY <2>1, <2>2, SubSeqProperties
<1>2. ASSUME NEW p \in Parts PROVE p \in Seq(Bytes)
  <2>1. PICK t \in Typed : p \in {SubSeq(t, i, j) : i, j \in 1 .. Len(t)}
    BY <1>2 DEF Parts
  <2>2. PICK i \in 1 .. Len(t), j \in 1 .. Len(t) : p = SubSeq(t, i, j)
    BY <2>1
  <2> QED BY <1>1, <2>2
<1> QED BY <1>2

LEMMA PartOf ==
  ASSUME NEW t \in Typed, NEW i \in 1 .. Len(t), NEW j \in 1 .. Len(t)
  PROVE  SubSeq(t, i, j) \in Parts
BY DEF Parts

\* The interrupt appends what there is room for.
LEMMA PushStreams ==
  ASSUME FifoInv, NEW burst \in Seq(Bytes), cli_in_push(burst), copied' = copied
  PROVE  /\ buffer' \in [Slots -> Items]
         /\ in' \in 0 .. Wrap - 1 /\ out' \in 0 .. Wrap - 1
         /\ Length' <= CLI_IO_SIZE
         /\ copied # NoByte => Length' # 0 /\ copied = buffer'[Slot(out')]
         /\ \/ Unread' = Unread
            \/ \E n \in 0 .. Len(burst) :
                 /\ Unread' = Unread \o SubSeq(burst, 1, n)
                 /\ n = Len(burst) \/ Length + n = CLI_IO_SIZE
                 /\ Length + n <= CLI_IO_SIZE
         /\ lost' \/ (~lost /\ Unread' = Unread \o burst)
<1>1. /\ Length \in Nat /\ Length <= CLI_IO_SIZE /\ in \in Nat /\ out \in Nat
      /\ \A k \in Int : Slot(in + k) = Slot(out + Length + k)
  BY LengthFacts
<1>2. CASE lock
  <2>1. UNCHANGED fifo
    BY <1>2, Zenon DEF cli_in_push
  <2>2. buffer' = buffer /\ in' = in /\ out' = out /\ Length' = Length
    BY <2>1 DEF fifo, Length
  <2>3. lost'
    BY <1>2, Zenon DEF cli_in_push
  <2> QED BY <2>2, <2>3 DEF FifoInv, Unread
<1>3. CASE ~lock
  <2> DEFINE L      == Length
             n      == Accepted(burst)
             off(s) == Slot(s - in)
             new    == {s \in Slots : off(s) < n}
  <2>1. /\ buffer' = [s \in Slots |-> IF s \in new THEN burst[off(s) + 1] ELSE buffer[s]]
        /\ in' = Wrapped(in + n) /\ out' = out
    BY <1>3, Zenon DEF cli_in_push, Slot, Wrapped
  <2>2. /\ n \in 0 .. Len(burst) /\ (n = Len(burst) \/ L + n = CLI_IO_SIZE) /\ L + n <= CLI_IO_SIZE
    BY <1>1, Sizes DEF Accepted
  <2> HIDE DEF n
  <2>3. in' \in 0 .. Wrap - 1 /\ out' \in 0 .. Wrap - 1
    <3>1. in + n \in Int
      BY <1>1, <2>2
    <3> QED BY <2>1, <3>1, WrappedType DEF FifoInv
  <2>4. Length' = L + n
    <3>1. in \in Int /\ out \in Int /\ n \in Int
      BY <1>1, <2>2
    <3>2. Wrapped(Wrapped(in + n) - out) = Wrapped(Wrapped(in - out) + n)
      BY <3>1, Put, Zenon
    <3>3. Length' = Wrapped(Wrapped(in + n) - out) /\ L = Wrapped(in - out)
      BY <2>1 DEF Length, Wrapped
    <3>4. L + n \in 0 .. Wrap - 1
      BY <1>1, <2>2, Sizes
    <3> HIDE DEF L
    <3>5. Wrapped(L + n) = L + n
      BY <3>4, SmallWrapped
    <3> QED BY <3>2, <3>3, <3>5
  <2> HIDE DEF L
  <2>5. \A k \in Int : off(Slot(in + k)) = Slot(k)
    <3> SUFFICES ASSUME NEW k \in Int PROVE off(Slot(in + k)) = Slot(k)
      OBVIOUS
    <3> DEFINE a == in + k
               r == Slot(a)
               c == r - in
    <3>1. r = Slot(a) /\ a \in Int
      BY <1>1
    <3>2. r \in Int
      BY <3>1, SlotType, Sizes DEF Slots
    <3> HIDE DEF r
    <3>3. c \in Int /\ c - r = k - a
      BY <1>1, <3>2
    <3> HIDE DEF a, c
    <3>4. Slot(c) = Slot(k)
      BY <3>1, <3>3, EarlySlot
    <3> QED BY <3>4 DEF a, r, c
  <2>6. \A s \in Slots : off(s) \in 0 .. CLI_IO_SIZE - 1
    BY SMTT(40), <1>1, Sizes, SlotType DEF Slots
  <2>7. buffer' \in [Slots -> Items]
    <3>1. ASSUME NEW s \in new PROVE burst[off(s) + 1] \in Bytes
      <4>1. off(s) + 1 \in 1 .. Len(burst)
        BY <2>2, <2>6
      <4> HIDE DEF off
      <4> QED BY <4>1, ElementOfSeq
    <3> HIDE DEF new, off
    <3> QED BY <2>1, <3>1 DEF FifoInv, Items
  <2> HIDE DEF off
  \* What was there stays.
  <2>8. ASSUME NEW i \in 1 .. L PROVE buffer'[Slot(out + i - 1)] = buffer[Slot(out + i - 1)]
    <3> DEFINE k == i - 1 - L
               s == Slot(out + i - 1)
    <3>1. k \in Int /\ k \in -CLI_IO_SIZE .. -1
      BY <1>1, Sizes DEF L
    <3>2. Slot(in + k) = Slot(out + L + k) /\ out + L + k = out + i - 1
      BY <1>1, <3>1 DEF L
    <3>3. s \in Slots
      BY <1>1, SlotType DEF L
    <3> HIDE DEF k
    <3>4. off(s) = k + CLI_IO_SIZE
      BY <2>5, <3>1, <3>2, SmallSlot
    <3>5. ~(off(s) < n)
      BY <1>1, <2>2, <3>4, Sizes DEF k, L
    <3> HIDE DEF s
    <3> QED BY <2>1, <3>3, <3>5 DEF s
  \* What comes in is behind it.
  <2>9. ASSUME NEW j \in 1 .. n PROVE buffer'[Slot(out + (L + j) - 1)] = burst[j]
    <3> DEFINE k == j - 1
               s == Slot(out + (L + j) - 1)
    <3>1. k \in Int /\ k \in 0 .. CLI_IO_SIZE - 1
      BY <1>1, <2>2, Sizes DEF L
    <3>2. Slot(in + k) = Slot(out + L + k) /\ out + L + k = out + (L + j) - 1
      <4>1. out + L + k = out + (L + j) - 1
        BY <1>1, <2>2 DEF L
      <4>2. Slot(in + k) = Slot(out + L + k)
        <5> HIDE DEF k
        <5> QED BY <1>1, <3>1 DEF L
      <4> QED BY <4>1, <4>2
    <3>3. s \in Slots
      <4>1. out + (L + j) - 1 \in Int
        BY <1>1, <2>2 DEF L
      <4> QED BY <4>1, SlotType
    <3> HIDE DEF k
    <3>4. off(s) = k
      BY <2>5, <3>1, <3>2, SmallSlot
    <3>5. off(s) < n /\ off(s) + 1 = j
      BY <2>2, <3>4 DEF k
    <3> HIDE DEF s
    <3> QED BY <2>1, <3>3, <3>5 DEF s
  <2> DEFINE p == SubSeq(burst, 1, n)
  <2>10. p \in Seq(Bytes) /\ Len(p) = n /\ \A j \in 1 .. n : p[j] = burst[j]
    <3>1. \A j \in 1 .. n : burst[j] \in Bytes
      BY <2>2, ElementOfSeq
    <3>2. /\ p \in Seq(Bytes) /\ Len(p) = (IF 1 <= n THEN n - 1 + 1 ELSE 0)
          /\ \A j \in 1 .. n - 1 + 1 : p[j] = burst[1 + j - 1]
      BY <2>2, <3>1, SubSeqProperties
    <3> HIDE DEF p
    <3>3. n - 1 + 1 = n /\ (IF 1 <= n THEN n - 1 + 1 ELSE 0) = n
      BY <2>2
    <3>4. \A j \in 1 .. n : 1 + j - 1 = j
      BY <2>2
    <3> QED BY <3>2, <3>3, <3>4
  <2> HIDE DEF p
  <2>11. p \in Seq(Items)
    <3>1. Bytes \subseteq Items
      BY DEF Items
    <3> QED BY <2>10, <3>1, SeqMonotonic
  <2>12. /\ Unread \in Seq(Items) /\ Len(Unread) = L
         /\ \A i \in 1 .. L : Unread[i] = buffer[Slot(out + i - 1)]
    BY UnreadFacts DEF L
  <2>13. /\ Unread \o p \in Seq(Items) /\ Len(Unread \o p) = L + n
         /\ \A i \in 1 .. L + n : (Unread \o p)[i] = IF i <= L THEN Unread[i] ELSE p[i - L]
    BY <2>10, <2>11, <2>12, ConcatProperties
  <2>14. Unread' = [i \in 1 .. L + n |-> buffer'[Slot(out + i - 1)]]
    BY <2>1, <2>4 DEF Unread
  <2>15. \A i \in 1 .. L + n : buffer'[Slot(out + i - 1)] = (Unread \o p)[i]
    <3> SUFFICES ASSUME NEW i \in 1 .. L + n PROVE buffer'[Slot(out + i - 1)] = (Unread \o p)[i]
      OBVIOUS
    <3>1. CASE i <= L
      <4>1. i \in 1 .. L
        BY <1>1, <2>2, <3>1 DEF L
      <4> QED BY <2>8, <2>12, <2>13, <3>1, <4>1
    <3>2. CASE ~(i <= L)
      <4>1. i - L \in 1 .. n /\ L + (i - L) = i
        BY <1>1, <2>2, <3>2 DEF L
      <4>2. buffer'[Slot(out + i - 1)] = burst[i - L]
        BY <2>9, <4>1
      <4> QED BY <2>10, <2>13, <3>2, <4>1, <4>2
    <3> QED BY <3>1, <3>2
  <2>16. Unread' = Unread \o p
    <3> DEFINE u == Unread \o p
               v == [i \in 1 .. L + n |-> u[i]]
    <3>1. Unread' = v
      BY <2>14, <2>15
    <3>2. u = v
      <4>1. u \in Seq(Items) /\ Len(u) = L + n
        BY <2>13
      <4> HIDE DEF u
      <4> QED BY <4>1
    <3> QED BY <3>1, <3>2
  <2>17. copied # NoByte => Length' # 0 /\ copied = buffer'[Slot(out')]
    <3> SUFFICES ASSUME copied # NoByte PROVE Length' # 0 /\ copied = buffer'[Slot(out')]
      OBVIOUS
    <3>1. L # 0 /\ copied = buffer[Slot(out)]
      BY DEF FifoInv, L
    <3>2. 1 \in 1 .. L /\ out + 1 - 1 = out /\ L + n # 0
      BY <1>1, <2>2, <3>1 DEF L
    <3>3. buffer'[Slot(out)] = buffer[Slot(out)]
      BY <2>8, <3>2
    <3> QED BY <2>1, <2>4, <3>1, <3>2, <3>3
  <2>18. Length' <= CLI_IO_SIZE
    BY <2>2, <2>4
  <2>19. /\ Unread' = Unread \o SubSeq(burst, 1, n)
         /\ n = Len(burst) \/ Length + n = CLI_IO_SIZE
         /\ Length + n <= CLI_IO_SIZE
    BY <2>2, <2>16 DEF p, L
  <2>20. lost' \/ (~lost /\ Unread' = Unread \o burst)
    <3>1. lost' \/ (~lost /\ ~(n < Len(burst)))
      BY <1>3, Zenon DEF cli_in_push, n
    <3>2. SubSeq(burst, 1, Len(burst)) = burst
      BY SubSeqFull
    <3>3. ~(n < Len(burst)) => n = Len(burst)
      BY <2>2
    <3> QED BY <2>19, <3>1, <3>2, <3>3
  <2> HIDE DEF n, new
  <2> QED BY <2>2, <2>3, <2>7, <2>17, <2>18, <2>19, <2>20
<1> QED BY <1>2, <1>3

LEMMA ReceiveStreams == FifoInv /\ Receive => FifoInv' /\ [Stream!Next]_<<Unread, copied>>
<1> SUFFICES ASSUME FifoInv, Receive PROVE FifoInv' /\ [Stream!Next]_<<Unread, copied>>
  OBVIOUS
<1>1. copied' = copied
  BY DEF Receive
<1>2. PICK burst \in Parts : cli_in_push(burst) /\ (cut' = <<>> \/ cut' \in Parts)
  <2>1. CASE \E t \in Typed : \E n \in 1 .. Len(t) :
               cli_in_push(SubSeq(t, 1, n)) /\ cut' = SubSeq(t, n + 1, Len(t))
    <3>0. PICK t \in Typed : \E n \in 1 .. Len(t) :
            cli_in_push(SubSeq(t, 1, n)) /\ cut' = SubSeq(t, n + 1, Len(t))
      BY <2>1, Zenon
    <3>1. PICK n \in 1 .. Len(t) :
            cli_in_push(SubSeq(t, 1, n)) /\ cut' = SubSeq(t, n + 1, Len(t))
      BY <3>0, Zenon
    <3>2. t \in Seq(Bytes) /\ Len(t) \in Nat
      BY BytesAssumption
    <3>3. SubSeq(t, 1, n) \in Parts
      <4>1. 1 \in 1 .. Len(t)
        BY <3>2
      <4> QED BY <4>1, PartOf
    <3>4. cut' = <<>> \/ cut' \in Parts
      <4>1. CASE n = Len(t)
        <5>1. \A k \in n + 1 .. Len(t) : t[k] \in Bytes
          BY <3>2, <4>1
        <5>2. cut' \in Seq(Bytes) /\ Len(cut') = IF n + 1 <= Len(t) THEN Len(t) - (n + 1) + 1 ELSE 0
          BY <3>1, <3>2, <5>1, SubSeqProperties
        <5>3. Len(cut') = 0
          BY <3>2, <4>1, <5>2
        <5>4. cut' # <<>> => Len(cut') \in Nat \ {0}
          BY <5>2, EmptySeq
        <5> QED BY <5>3, <5>4
      <4>2. CASE n # Len(t)
        <5>1. n + 1 \in 1 .. Len(t) /\ Len(t) \in 1 .. Len(t)
          BY <3>2, <4>2
        <5> QED BY <3>1, <5>1, PartOf
      <4> QED BY <4>1, <4>2
    <3> QED BY <3>1, <3>3, <3>4
  <2>2. CASE cut # <<>> /\ cli_in_push(cut) /\ cut' = <<>>
    BY <2>2 DEF FifoInv
  <2> QED BY <2>1, <2>2 DEF Receive
<1>3. burst \in Seq(Bytes)
  BY PartsAreBytes
<1>4. /\ buffer' \in [Slots -> Items]
      /\ in' \in 0 .. Wrap - 1 /\ out' \in 0 .. Wrap - 1
      /\ Length' <= CLI_IO_SIZE
      /\ copied # NoByte => Length' # 0 /\ copied = buffer'[Slot(out')]
      /\ \/ Unread' = Unread
         \/ \E n \in 0 .. Len(burst) :
              /\ Unread' = Unread \o SubSeq(burst, 1, n)
              /\ n = Len(burst) \/ Length + n = CLI_IO_SIZE
              /\ Length + n <= CLI_IO_SIZE
  BY <1>1, <1>2, <1>3, PushStreams
<1>5. FifoInv'
  BY <1>1, <1>2, <1>4 DEF FifoInv
<1>6. CASE Unread' = Unread
  BY <1>1, <1>5, <1>6
<1>7. CASE \E n \in 0 .. Len(burst) :
             /\ Unread' = Unread \o SubSeq(burst, 1, n)
             /\ n = Len(burst) \/ Length + n = CLI_IO_SIZE
             /\ Length + n <= CLI_IO_SIZE
  <2>1. PICK n \in 0 .. Len(burst) :
             /\ Unread' = Unread \o SubSeq(burst, 1, n)
             /\ n = Len(burst) \/ Length + n = CLI_IO_SIZE
             /\ Length + n <= CLI_IO_SIZE
    BY <1>7
  <2> DEFINE p == SubSeq(burst, 1, n)
  <2>2. /\ p \in Seq(Bytes) /\ Len(p) = n
        /\ \A j \in 1 .. n : p[j] = burst[j]
    <3>1. \A j \in 1 .. n : burst[j] \in Bytes
      BY <1>3, ElementOfSeq
    <3>2. /\ p \in Seq(Bytes) /\ Len(p) = (IF 1 <= n THEN n - 1 + 1 ELSE 0)
          /\ \A j \in 1 .. n - 1 + 1 : p[j] = burst[1 + j - 1]
      BY <3>1, SubSeqProperties
    <3> HIDE DEF p
    <3>3. n - 1 + 1 = n /\ (IF 1 <= n THEN n - 1 + 1 ELSE 0) = n
      OBVIOUS
    <3>4. \A j \in 1 .. n : 1 + j - 1 = j
      OBVIOUS
    <3> QED BY <3>2, <3>3, <3>4
  <2>3. p \in Stream!Prefixes(burst)
    BY DEF Stream!Prefixes
  <2> HIDE DEF p
  <2>4. n = Len(burst) => p = burst
    BY <1>3, <2>2, SeqEqual
  <2>5. Len(Unread) = Length /\ Unread \in Seq(Items) /\ Length \in Nat
    BY UnreadFacts, LengthFacts
  <2>6. Unread' = Unread \o p
    BY <2>1 DEF p
  <2>7. Len(Unread') = Length + n
    <3>1. p \in Seq(Items)
      <4>1. Bytes \subseteq Items
        BY DEF Items
      <4> QED BY <2>2, <4>1, SeqMonotonic
    <3> QED BY <2>2, <2>5, <2>6, <3>1, ConcatProperties
  <2>8. p = burst \/ Len(Unread) + Len(p) = CLI_IO_SIZE
    BY <2>1, <2>2, <2>4, <2>5
  <2>9. Len(Unread') <= CLI_IO_SIZE
    BY <2>1, <2>7
  <2>10. Stream!Arrive
    BY <1>1, <1>2, <2>3, <2>6, <2>8, <2>9, Zenon DEF Stream!Arrive
  <2> QED BY <1>5, <2>10 DEF Stream!Next
<1> QED BY <1>4, <1>6, <1>7

LEMMA CopyStreams == FifoInv /\ CopyByte => FifoInv' /\ Unread' = Unread /\ Stream!HandOver
<1> SUFFICES ASSUME FifoInv, CopyByte PROVE FifoInv' /\ Unread' = Unread /\ Stream!HandOver
  OBVIOUS
<1>1. /\ copied = NoByte /\ Length # 0 /\ copied' = buffer[Slot(out)]
      /\ UNCHANGED <<buffer, in, out, cut>>
  BY DEF CopyByte, fifo
<1>2. Length' = Length /\ Unread' = Unread
  BY <1>1 DEF Length, Unread
<1>3. FifoInv'
  BY <1>1, <1>2 DEF FifoInv
<1>4. /\ Unread \in Seq(Items) /\ Len(Unread) = Length /\ Length \in Nat /\ out \in Nat
      /\ \A i \in 1 .. Length : Unread[i] = buffer[Slot(out + i - 1)]
  BY UnreadFacts, LengthFacts
<1>5. Unread # <<>>
  BY <1>1, <1>4, EmptySeq
<1>6. Head(Unread) = buffer[Slot(out)]
  <2>1. 1 \in 1 .. Length /\ out + 1 - 1 = out
    BY <1>1, <1>4
  <2>2. Unread[1] = buffer[Slot(out)]
    BY <1>4, <2>1
  <2>3. Head(Unread) = Unread[1]
    BY <1>4, <1>5
  <2> QED BY <2>2, <2>3
<1>7. Stream!HandOver
  BY <1>1, <1>2, <1>5, <1>6 DEF Stream!HandOver
<1> QED BY <1>2, <1>3, <1>7

LEMMA AdvanceStreams ==
  FifoInv /\ AdvanceOut =>
    /\ FifoInv' /\ Stream!Take
    /\ Unread # <<>> /\ Head(Unread) = copied /\ Unread' = Tail(Unread)
<1> SUFFICES ASSUME FifoInv, AdvanceOut
             PROVE  /\ FifoInv' /\ Stream!Take
                    /\ Unread # <<>> /\ Head(Unread) = copied /\ Unread' = Tail(Unread)
  OBVIOUS
<1>1. /\ copied # NoByte /\ copied' = NoByte /\ out' = Wrapped(out + 1)
      /\ buffer' = [buffer EXCEPT ![Slot(out)] = NoByte] /\ UNCHANGED <<in, cut>>
  BY DEF AdvanceOut, Wrapped
<1>2. /\ Length \in Nat /\ Length <= CLI_IO_SIZE /\ in \in Nat /\ out \in Nat
      /\ Length # 0 /\ copied = buffer[Slot(out)]
  BY <1>1, LengthFacts DEF FifoInv
<1> DEFINE L == Length
<1>3. Length' = L - 1
  <2>1. Wrapped(in - Wrapped(out + 1)) = Wrapped(Wrapped(in - out) - 1)
    <3>1. in \in Int /\ out \in Int
      BY <1>2
    <3> QED BY <3>1, Taken, Zenon
  <2>2. Length' = Wrapped(in - Wrapped(out + 1)) /\ L = Wrapped(in - out)
    BY <1>1 DEF Length, Wrapped
  <2>3. L - 1 \in 0 .. Wrap - 1
    BY <1>2, Sizes
  <2> HIDE DEF L
  <2>4. Wrapped(L - 1) = L - 1
    BY <2>3, SmallWrapped
  <2> QED BY <2>1, <2>2, <2>4
<1>4. /\ Unread \in Seq(Items) /\ Len(Unread) = L
      /\ \A i \in 1 .. L : Unread[i] = buffer[Slot(out + i - 1)]
  BY UnreadFacts
<1>5. L \in Nat /\ L <= CLI_IO_SIZE /\ L # 0
  BY <1>2
<1> HIDE DEF L
<1>6. out' \in 0 .. Wrap - 1
  BY <1>1, <1>2, WrappedType
<1>7. Slot(out) \in Slots /\ buffer' \in [Slots -> Items]
  BY <1>1, <1>2, SlotType DEF FifoInv, Items
<1>8. FifoInv'
  <2>1. Length' <= CLI_IO_SIZE
    BY <1>3, <1>5, Sizes
  <2> QED BY <1>1, <1>6, <1>7, <2>1 DEF FifoInv
<1>9. Unread # <<>> /\ Head(Unread) = copied
  <2>1. 1 \in 1 .. L /\ out + 1 - 1 = out
    BY <1>2, <1>5
  <2>2. Unread[1] = copied
    BY <1>2, <1>4, <2>1
  <2>3. Unread # <<>>
    BY <1>4, <1>5, EmptySeq
  <2>4. Head(Unread) = Unread[1]
    BY <1>4, <2>3
  <2> QED BY <2>2, <2>3, <2>4
\* The slot that is cleared is none of those that are left.
<1>10. ASSUME NEW i \in 1 .. L - 1
       PROVE  buffer'[Slot(out' + i - 1)] = Unread[i + 1]
  <2>1. Slot(out' + i - 1) = Slot(out + i)
    <3> DEFINE a == out + 1
               k == i - 1
    <3>1. a \in Int /\ k \in Int
      BY <1>2, <1>5
    <3>2. a + k = out + i /\ out' + i - 1 = Wrapped(a) + k
      BY <1>1, <1>2, <1>5, <1>6, Sizes
    <3> HIDE DEF a, k
    <3>3. Slot(Wrapped(a) + k) = Slot(a + k)
      BY <3>1, SlotWraps
    <3> QED BY <3>2, <3>3
  <2>2. Slot(out + i) # Slot(out)
    <3> DEFINE a == out + i
               b == out
               s == Slot(a)
               t == Slot(b)
               c == s - out
               d == t - out
    <3>1. a \in Int /\ b \in Int /\ out \in Int /\ i \in Int
      BY <1>2, <1>5
    <3>2. s \in Int /\ t \in Int
      BY <3>1, SlotType, Sizes DEF Slots
    <3>3. Slot(c) = Slot(i)
      <4>1. c \in Int /\ c - s = i - a
        BY <3>1, <3>2
      <4> HIDE DEF a, c
      <4> QED BY <3>1, <4>1, EarlySlot
    <3>4. Slot(d) = Slot(0)
      <4>1. d \in Int /\ d - t = 0 - b
        BY <3>1, <3>2
      <4> HIDE DEF b, d
      <4> QED BY <3>1, <4>1, EarlySlot
    <3>5. Slot(i) = i /\ Slot(0) = 0 /\ i # 0
      BY <1>5, SmallSlot, Sizes
    <3> QED BY <3>3, <3>4, <3>5
  <2>3. Slot(out + i) \in Slots
    BY <1>2, <1>5, SlotType
  <2>4. buffer'[Slot(out + i)] = buffer[Slot(out + i)]
    BY <1>1, <1>7, <2>2, <2>3 DEF FifoInv
  <2>5. i + 1 \in 1 .. L /\ out + (i + 1) - 1 = out + i
    BY <1>2, <1>5
  <2> QED BY <1>4, <2>1, <2>4, <2>5
<1>11. Unread' = Tail(Unread)
  <2>1. Tail(Unread) \in Seq(Items) /\ Len(Tail(Unread)) = L - 1 /\ \A i \in 1 .. L - 1 : Tail(Unread)[i] = Unread[i + 1]
    BY <1>4, <1>9, HeadTailProperties
  <2>2. Unread' = [i \in 1 .. L - 1 |-> buffer'[Slot(out' + i - 1)]]
    BY <1>3 DEF Unread
  <2> DEFINE u == Tail(Unread)
             v == [i \in 1 .. L - 1 |-> u[i]]
  <2>3. Unread' = v
    BY <1>10, <2>1, <2>2
  <2>4. u = v
    <3>1. u \in Seq(Items) /\ Len(u) = L - 1
      BY <2>1
    <3> HIDE DEF u
    <3> QED BY <3>1
  <2> QED BY <2>3, <2>4
<1>12. Stream!Take
  BY <1>1, <1>9, <1>11 DEF Stream!Take
<1> QED BY <1>8, <1>9, <1>11, <1>12

LEMMA ClearStreams == FifoInv /\ EnterPrompt => FifoInv' /\ Unread' = <<>> /\ Stream!Drop
<1> SUFFICES ASSUME FifoInv, EnterPrompt PROVE FifoInv' /\ Unread' = <<>> /\ Stream!Drop
  OBVIOUS
<1>1. /\ copied = NoByte /\ copied' = NoByte /\ in' = out /\ out' = out /\ cut' = cut
      /\ buffer' = [s \in Slots |-> NoByte]
  BY DEF EnterPrompt
<1>2. Length' = 0
  <2>1. out - out = 0 /\ 0 \in 0 .. Wrap - 1
    BY Sizes DEF FifoInv
  <2>2. Length' = Wrapped(out - out)
    BY <1>1 DEF Length, Wrapped
  <2>3. Wrapped(0) = 0
    BY <2>1, SmallWrapped
  <2> QED BY <2>1, <2>2, <2>3
<1>3. FifoInv'
  BY <1>1, <1>2, Sizes DEF FifoInv, Items
<1>4. Unread' = <<>>
  <2>1. 1 .. 0 = {}
    OBVIOUS
  <2>2. Unread' = [i \in 1 .. 0 |-> buffer'[Slot(out' + i - 1)]]
    BY <1>2 DEF Unread
  <2> QED BY <2>1, <2>2
<1>5. Stream!Drop
  BY <1>1, <1>4 DEF Stream!Drop
<1> QED BY <1>3, <1>4, <1>5

\* The other steps leave the FIFO alone.
LEMMA KeyStreams ==
  FifoInv /\ UNCHANGED <<fifo, cut, copied>> => FifoInv' /\ UNCHANGED <<Unread, copied>>
<1> SUFFICES ASSUME FifoInv, UNCHANGED <<fifo, cut, copied>>
             PROVE  FifoInv' /\ UNCHANGED <<Unread, copied>>
  OBVIOUS
<1>1. UNCHANGED <<buffer, in, out, cut, copied>>
  BY DEF fifo
<1>2. Length' = Length /\ Unread' = Unread
  BY <1>1 DEF Length, Unread
<1> QED BY <1>1, <1>2 DEF FifoInv

LEMMA StepStreams == FifoInv /\ [InputNext]_inputVars => FifoInv' /\ [Stream!Next]_<<Unread, copied>>
<1> SUFFICES ASSUME FifoInv, [InputNext]_inputVars
             PROVE  FifoInv' /\ [Stream!Next]_<<Unread, copied>>
  OBVIOUS
<1>1. CASE Receive
  BY <1>1, ReceiveStreams
<1>2. CASE EnterPrompt
  BY <1>2, ClearStreams DEF Stream!Next
<1>3. CASE CopyByte
  BY <1>3, CopyStreams DEF Stream!Next
<1>4. CASE AdvanceOut
  BY <1>4, AdvanceStreams DEF Stream!Next
<1>5. CASE UNCHANGED <<fifo, cut, copied>>
  BY <1>5, KeyStreams
<1>6. \/ OpenPrompt \/ LeavePrompt \/ OpenInput \/ StartKey \/ ValidChar \/ InvalidChar
      \/ EscapeSequence \/ EscapeCut \/ EditingKey \/ ExitHandler \/ EnterKey
      \/ UNCHANGED inputVars
      => UNCHANGED <<fifo, cut, copied>>
  BY DEF OpenPrompt, LeavePrompt, OpenInput, StartKey, ValidChar, InvalidChar, EscapeSequence,
         EscapeCut, EditingKey, ExitHandler, EnterKey, GoesTo, inputVars
<1> QED BY <1>1, <1>2, <1>3, <1>4, <1>5, <1>6 DEF InputNext, Lincli

LEMMA InitStreams == InputInit => FifoInv /\ Stream!Init
<1> SUFFICES ASSUME InputInit PROVE FifoInv /\ Stream!Init
  OBVIOUS
<1>1. /\ buffer = [s \in Slots |-> NoByte] /\ in = 0 /\ out = 0 /\ cut = <<>> /\ copied = NoByte
  BY DEF InputInit
<1>2. Length = 0
  <2>1. 0 - 0 = 0 /\ 0 \in 0 .. Wrap - 1
    BY Sizes
  <2>2. Length = Wrapped(0)
    BY <1>1, <2>1 DEF Length, Wrapped
  <2> QED BY <2>1, <2>2, SmallWrapped
<1>3. FifoInv
  BY <1>1, <1>2, Sizes DEF FifoInv, Items
<1>4. Unread = <<>>
  <2>1. 1 .. 0 = {}
    OBVIOUS
  <2>2. Unread = [i \in 1 .. 0 |-> buffer[Slot(out + i - 1)]]
    BY <1>2 DEF Unread
  <2> QED BY <2>1, <2>2
<1> QED BY <1>1, <1>3, <1>4 DEF Stream!Init

\* The FIFO is a stream of bytes: with the receive interrupt between any two steps of
\* the lincli task and its free-running counters wrapping, what kfifo_put accepts comes
\* out of kfifo_get once each and in order (kfifo.c, cli_io.c).
THEOREM FifoIsAStream == InputSpec => InputIsAStream
BY InitStreams, StepStreams, PTL DEF InputSpec, InputIsAStream, Stream!Spec

-----------------------------------------------------------------------------
\* Keys

\* The n bytes of w from place i on are a key: a letter, BS or ENTER; or an escape
\* sequence of three bytes, or of four if it goes on with 3.
KeyAt(w, i, n) ==
  \/ n = 1 /\ w[i] \in (Letters \cup Control) \ {"esc"}
  \/ n = 3 /\ w[i] = "esc" /\ w[i + 2] # "3"
  \/ n = 4 /\ w[i] = "esc" /\ w[i + 2] = "3"

\* The keys of w begin at the places S; the last one ends with w.
Divides(S, w) ==
  /\ S \subseteq 1 .. Len(w) + 1 /\ 1 \in S /\ Len(w) + 1 \in S
  /\ \A i \in S \ {Len(w) + 1} : \E n \in {1, 3, 4} : KeyAt(w, i, n) /\ i + n \in S

Keys(w) == \E S \in SUBSET Nat : Divides(S, w)

\* All that is sent are keys.
SendsKeys == \A t \in Typed : Keys(t)

\* The bytes of p are one key, if it is in a sequence of keys.
WholeKey(p) ==
  \/ Len(p) = 1 /\ p[1] # "esc"
  \/ Len(p) = 3 /\ p[1] = "esc" /\ p[3] # "3"
  \/ Len(p) = 4 /\ p[1] = "esc" /\ p[3] = "3"

LEMMA KeyMoves ==
  ASSUME NEW v, NEW w, NEW i \in Nat, NEW j \in Nat, NEW n \in {1, 3, 4},
         v[i] = w[j], n # 1 => v[i + 2] = w[j + 2], KeyAt(v, i, n)
  PROVE  KeyAt(w, j, n)
<1> DEFINE a == w[j]
           b == w[j + 2]
<1>1. v[i] = a /\ (n # 1 => v[i + 2] = b)
  OBVIOUS
<1> HIDE DEF a, b
<1>2. \/ n = 1 /\ a \in (Letters \cup Control) \ {"esc"}
      \/ n = 3 /\ a = "esc" /\ b # "3"
      \/ n = 4 /\ a = "esc" /\ b = "3"
  BY <1>1 DEF KeyAt
<1> QED BY <1>2 DEF KeyAt, a, b

\* Keys and then keys are keys.
LEMMA KeysJoin ==
  ASSUME NEW v \in Seq(Bytes), NEW w \in Seq(Bytes), Keys(v), Keys(w)
  PROVE  Keys(v \o w)
<1>1. PICK S \in SUBSET Nat : Divides(S, v)
  BY DEF Keys
<1>2. PICK T \in SUBSET Nat : Divides(T, w)
  BY DEF Keys
<1> DEFINE m == Len(v)
           l == Len(w)
           x == v \o w
           V == {i \in m + 1 .. m + l + 1 : i - m \in T}
           U == S \cup V
<1>3. /\ m \in Nat /\ l \in Nat /\ Len(x) = m + l
      /\ \A i \in 1 .. m + l : x[i] = IF i <= m THEN v[i] ELSE w[i - m]
  BY ConcatProperties, LenProperties
<1>4. /\ S \subseteq 1 .. m + 1 /\ 1 \in S /\ m + 1 \in S
      /\ \A i \in S \ {m + 1} : \E n \in {1, 3, 4} : KeyAt(v, i, n) /\ i + n \in S
  BY <1>1 DEF Divides
<1>5. /\ T \subseteq 1 .. l + 1 /\ 1 \in T /\ l + 1 \in T
      /\ \A i \in T \ {l + 1} : \E n \in {1, 3, 4} : KeyAt(w, i, n) /\ i + n \in T
  BY <1>2 DEF Divides
<1> HIDE DEF m, l, x
<1>6. U \subseteq 1 .. m + l + 1 /\ 1 \in U /\ m + l + 1 \in U
  <2>1. S \subseteq 1 .. m + l + 1
    BY <1>3, <1>4
  <2>2. V \subseteq 1 .. m + l + 1
    BY <1>3
  <2> DEFINE e == m + l + 1
  <2>3. e \in m + 1 .. e /\ e - m = l + 1
    BY <1>3
  <2> HIDE DEF e
  <2>4. V = {i \in m + 1 .. e : i - m \in T}
    BY DEF e
  <2>5. e - m \in T
    BY <1>5, <2>3
  <2> HIDE DEF V
  <2>6. e \in V
    BY <2>3, <2>4, <2>5
  <2> QED BY <1>4, <2>1, <2>2, <2>6 DEF e
<1>7. ASSUME NEW i \in S, i # m + 1
      PROVE  \E n \in {1, 3, 4} : KeyAt(x, i, n) /\ i + n \in U
  <2>1. PICK n \in {1, 3, 4} : KeyAt(v, i, n) /\ i + n \in S
    BY <1>4, <1>7
  <2>2. i \in 1 .. m /\ (n # 1 => i + 2 \in 1 .. m) /\ i \in Nat
    BY <1>3, <1>4, <2>1
  <2>3. x[i] = v[i] /\ (n # 1 => x[i + 2] = v[i + 2])
    BY <1>3, <2>2
  <2>4. KeyAt(x, i, n)
    BY <2>1, <2>2, <2>3, KeyMoves
  <2> QED BY <2>1, <2>4
<1>8. ASSUME NEW j \in T, j # l + 1
      PROVE  \E n \in {1, 3, 4} : KeyAt(x, m + j, n) /\ m + j + n \in U
  <2>1. PICK n \in {1, 3, 4} : KeyAt(w, j, n) /\ j + n \in T
    BY <1>5, <1>8
  <2>2. /\ j \in 1 .. l /\ j + n \in 1 .. l + 1 /\ (n # 1 => j + 2 \in 1 .. l) /\ j \in Nat
    BY <1>3, <1>5, <2>1
  <2> DEFINE i == m + j
  <2>3. i \in Nat /\ w[j] = x[i] /\ (n # 1 => w[j + 2] = x[i + 2])
    <3>1. i \in 1 .. m + l /\ ~(i <= m) /\ i - m = j
      BY <1>3, <2>2
    <3>2. n # 1 => i + 2 \in 1 .. m + l /\ ~(i + 2 <= m) /\ (i + 2) - m = j + 2
      BY <1>3, <2>2
    <3> HIDE DEF i
    <3> QED BY <1>3, <3>1, <3>2
  <2>4. i + n \in m + 1 .. m + l + 1 /\ i + n - m = j + n
    BY <1>3, <2>2
  <2> HIDE DEF i
  <2> DEFINE e == i + n
  <2>5. i + n \in V
    <3>1. e \in m + 1 .. m + l + 1 /\ e - m = j + n
      BY <1>3, <2>3, <2>4
    <3> HIDE DEF e
    <3>2. e - m \in T
      BY <2>1, <3>1
    <3>3. e \in V
      BY <3>1, <3>2
    <3> QED BY <3>3 DEF e
  <2> HIDE DEF V
  <2>6. KeyAt(x, i, n)
    BY <2>1, <2>2, <2>3, KeyMoves
  <2> QED BY <2>5, <2>6 DEF i
<1>9. ASSUME NEW i \in U, i # m + l + 1
      PROVE  \E n \in {1, 3, 4} : KeyAt(x, i, n) /\ i + n \in U
  <2>1. CASE i \in S /\ i # m + 1
    BY <1>7, <2>1
  <2>2. CASE ~(i \in S /\ i # m + 1)
    <3>1. i - m \in T /\ i - m # l + 1 /\ m + (i - m) = i
      BY <1>3, <1>4, <1>5, <1>6, <1>9, <2>2
    <3> QED BY <1>8, <3>1
  <2> QED BY <2>1, <2>2
<1>10. Divides(U, x) /\ U \in SUBSET Nat
  <2> HIDE DEF U
  <2> QED BY <1>3, <1>6, <1>9 DEF Divides
<1> QED BY <1>10 DEF Keys, x

\* Behind the first key there are keys.
LEMMA KeysRest ==
  ASSUME NEW p \in Seq(Bytes), NEW r \in Seq(Bytes), WholeKey(p), Keys(p \o r)
  PROVE  Keys(r)
<1> DEFINE m == Len(p)
           l == Len(r)
           x == p \o r
<1>1. PICK S \in SUBSET Nat : Divides(S, x)
  BY DEF Keys
<1>2. /\ m \in {1, 3, 4} /\ l \in Nat /\ Len(x) = m + l
      /\ \A i \in 1 .. m + l : x[i] = IF i <= m THEN p[i] ELSE r[i - m]
  BY ConcatProperties, LenProperties DEF WholeKey
<1>3. /\ S \subseteq 1 .. m + l + 1 /\ 1 \in S /\ m + l + 1 \in S
      /\ \A i \in S \ {m + l + 1} : \E n \in {1, 3, 4} : KeyAt(x, i, n) /\ i + n \in S
  BY <1>1, <1>2 DEF Divides
<1> DEFINE T == {i \in 1 .. l + 1 : m + i \in S}
<1> HIDE DEF x
<1>4. m + 1 \in S
  <2>1. 1 \in S \ {m + l + 1}
    BY <1>2, <1>3
  <2>2. PICK n \in {1, 3, 4} : KeyAt(x, 1, n) /\ 1 + n \in S
    BY <1>3, <2>1
  <2> DEFINE a == x[1]
             b == x[1 + 2]
  <2>3. \/ n = 1 /\ a # "esc"
        \/ n = 3 /\ a = "esc" /\ b # "3"
        \/ n = 4 /\ a = "esc" /\ b = "3"
    BY <2>2 DEF KeyAt
  <2>4. a = p[1] /\ (m # 1 => b = p[3])
    BY <1>2
  <2> HIDE DEF a, b
  <2>5. \/ m = 1 /\ a # "esc"
        \/ m = 3 /\ a = "esc" /\ b # "3"
        \/ m = 4 /\ a = "esc" /\ b = "3"
    BY <2>4 DEF WholeKey
  <2> HIDE DEF m
  <2>6. n = m
    BY <2>3, <2>5
  <2> QED BY <1>2, <2>2, <2>6
<1> HIDE DEF m, l
<1>5. T \subseteq 1 .. l + 1 /\ 1 \in T /\ l + 1 \in T
  BY <1>2, <1>3, <1>4
<1>6. ASSUME NEW i \in T, i # l + 1
      PROVE  \E n \in {1, 3, 4} : KeyAt(r, i, n) /\ i + n \in T
  <2>1. PICK n \in {1, 3, 4} : KeyAt(x, m + i, n) /\ m + i + n \in S
    BY <1>2, <1>3, <1>6
  <2>2. m + i + n <= m + l + 1
    BY <1>2, <1>3, <2>1
  <2>3. i \in 1 .. l /\ i + n \in 1 .. l + 1 /\ (n # 1 => i + 2 \in 1 .. l) /\ i \in Nat
    BY <1>2, <1>6, <2>2
  <2>4. x[m + i] = r[i] /\ (n # 1 => x[m + i + 2] = r[i + 2])
    BY <1>2, <2>3
  <2>5. KeyAt(r, i, n)
    BY <1>2, <2>1, <2>3, <2>4, KeyMoves
  <2>6. m + (i + n) = m + i + n
    BY <1>2, <2>3
  <2> QED BY <2>1, <2>3, <2>5, <2>6
<1>7. Divides(T, r) /\ T \in SUBSET Nat
  <2> HIDE DEF T
  <2> QED BY <1>2, <1>5, <1>6 DEF Divides, l
<1> QED BY <1>7 DEF Keys

LEMMA NoKeys == Keys(<<>>)
<1>1. Len(<<>>) = 0
  BY EmptySeq
<1>2. Divides({1}, <<>>)
  BY <1>1 DEF Divides
<1> QED BY <1>2 DEF Keys

\* The first byte of a key is a letter or a control character.
LEMMA FirstOfKey ==
  ASSUME NEW p \in Seq(Bytes), NEW r \in Seq(Bytes), Len(p) = 1, Keys(p \o r)
  PROVE  p[1] \in Letters \cup Control
<1> DEFINE x == p \o r
<1>1. PICK S \in SUBSET Nat : Divides(S, x)
  BY DEF Keys
<1>2. Len(r) \in Nat /\ Len(x) = 1 + Len(r) /\ x[1] = p[1]
  <2>1. Len(x) = Len(p) + Len(r) /\ Len(r) \in Nat
        /\ \A i \in 1 .. Len(p) + Len(r) : x[i] = IF i <= Len(p) THEN p[i] ELSE r[i - Len(p)]
    BY ConcatProperties, LenProperties
  <2> QED BY <2>1
<1> HIDE DEF x
<1>3. 1 \in S \ {Len(x) + 1}
  BY <1>1, <1>2 DEF Divides
<1>4. PICK n \in {1, 3, 4} : KeyAt(x, 1, n)
  BY <1>1, <1>3 DEF Divides
<1> QED BY <1>2, <1>4 DEF KeyAt, Control

-----------------------------------------------------------------------------
\* How the bytes that are left are put together

LEMMA JoinThree ==
  ASSUME NEW x \in Seq(Bytes), NEW a \in Seq(Bytes), NEW b \in Seq(Bytes)
  PROVE  (x \o a) \o b = x \o (a \o b)
BY ConcatAssociative

LEMMA KeysArrive ==
  ASSUME NEW p \in Seq(Bytes), NEW u \in Seq(Bytes), NEW t \in Seq(Bytes), NEW n \in 1 .. Len(t),
         Keys(p \o (u \o <<>>)), Keys(t)
  PROVE  Keys(p \o ((u \o SubSeq(t, 1, n)) \o SubSeq(t, n + 1, Len(t))))
<1> DEFINE a == SubSeq(t, 1, n)
           b == SubSeq(t, n + 1, Len(t))
<1>1. Len(t) \in Nat /\ \A i \in 1 .. Len(t) : t[i] \in Bytes
  BY LenProperties, ElementOfSeq
<1>2. a \in Seq(Bytes)
  <2>1. \A i \in 1 .. n : t[i] \in Bytes
    BY <1>1
  <2> QED BY <2>1, SubSeqProperties, SMTT(40)
<1>3. b \in Seq(Bytes)
  <2>1. n + 1 \in Int /\ Len(t) \in Int /\ \A i \in n + 1 .. Len(t) : t[i] \in Bytes
    BY <1>1
  <2> QED BY <2>1, SubSeqProperties, SMTT(40)
<1>4. a \o b = t
  <2>1. /\ 1 \in 1 .. Len(t) + 1 /\ n \in 1 - 1 .. Len(t) /\ Len(t) \in n .. Len(t)
    BY <1>1
  <2>2. a \o b = SubSeq(t, 1, Len(t))
    BY <2>1, ConcatAdjacentSubSeq
  <2>3. SubSeq(t, 1, Len(t)) = t
    BY SubSeqFull
  <2> QED BY <2>2, <2>3
<1> HIDE DEF a, b
<1>5. (u \o a) \o b = u \o t
  <2>1. u \in Seq(Bytes) /\ a \in Seq(Bytes) /\ b \in Seq(Bytes)
    BY <1>2, <1>3
  <2>2. (u \o a) \o b = u \o (a \o b)
    BY <2>1, JoinThree
  <2> QED BY <1>4, <2>2
<1>6. u \o <<>> = u
  BY ConcatEmptySeq
<1>7. p \o u \in Seq(Bytes)
  BY ConcatProperties
<1>8. Keys((p \o u) \o t)
  BY <1>6, <1>7, KeysJoin
<1>9. (p \o u) \o t = p \o (u \o t)
  <2>1. p \in Seq(Bytes) /\ u \in Seq(Bytes) /\ t \in Seq(Bytes)
    OBVIOUS
  <2> QED BY <2>1, JoinThree, SMTT(40)
<1>10. Keys(p \o ((u \o a) \o b))
  BY <1>5, <1>8, <1>9
<1> QED BY <1>10 DEF a, b

LEMMA KeysGoOn ==
  ASSUME NEW p \in Seq(Bytes), NEW u \in Seq(Bytes), NEW c \in Seq(Bytes), Keys(p \o (u \o c))
  PROVE  Keys(p \o ((u \o c) \o <<>>))
<1>1. u \o c \in Seq(Bytes)
  BY ConcatProperties
<1>2. (u \o c) \o <<>> = u \o c
  BY <1>1, ConcatEmptySeq
<1> QED BY <1>2

LEMMA PopMoves ==
  ASSUME NEW p \in Seq(Bytes), NEW u \in Seq(Bytes), NEW c \in Seq(Bytes), u # <<>>
  PROVE  Append(p, Head(u)) \o (Tail(u) \o c) = p \o (u \o c)
<1> DEFINE h == <<Head(u)>>
           r == Tail(u)
<1>1. Head(u) \in Bytes /\ r \in Seq(Bytes) /\ h \in Seq(Bytes)
  BY HeadTailProperties
<1>2. u = h \o r
  <2>1. /\ Len(u) \in Nat \ {0} /\ Head(u) = u[1] /\ Len(r) = Len(u) - 1
        /\ \A i \in 1 .. Len(r) : r[i] = u[i + 1]
    BY EmptySeq, HeadTailProperties
  <2>2. Len(h) = 1 /\ h[1] = u[1]
    BY <2>1
  <2>3. /\ h \o r \in Seq(Bytes) /\ Len(h \o r) = Len(h) + Len(r)
        /\ \A i \in 1 .. Len(h) + Len(r) : (h \o r)[i] = IF i <= Len(h) THEN h[i] ELSE r[i - Len(h)]
    BY <1>1, ConcatProperties
  <2> DEFINE x == h \o r
  <2> HIDE DEF h, r, x
  <2>4. x \in Seq(Bytes) /\ Len(x) = Len(u) /\ \A i \in 1 .. Len(u) : x[i] = u[i]
    BY <2>1, <2>2, <2>3 DEF x
  <2> QED BY <2>4, SeqEqual DEF x
<1>3. Append(p, Head(u)) = p \o h
  BY <1>1, AppendIsConcat
<1> HIDE DEF h, r
<1>4. r \o c \in Seq(Bytes)
  BY <1>1, ConcatProperties
<1> DEFINE v == r \o c
<1>5. (p \o h) \o v = p \o (h \o v)
  <2>1. p \in Seq(Bytes) /\ h \in Seq(Bytes) /\ v \in Seq(Bytes)
    BY <1>1, <1>4
  <2> HIDE DEF v
  <2> QED BY <2>1, JoinThree, SMTT(40)
<1>6. h \o v = (h \o r) \o c
  <2>1. h \in Seq(Bytes) /\ r \in Seq(Bytes) /\ c \in Seq(Bytes)
    BY <1>1
  <2> QED BY <2>1, JoinThree, SMTT(40)
<1>7. Append(p, Head(u)) \o (r \o c) = p \o (u \o c)
  BY <1>2, <1>3, <1>5, <1>6
<1> QED BY <1>7 DEF r

-----------------------------------------------------------------------------
\* What is left of what was sent is keys, as long as nothing of it is lost

\* What has been popped of a key fits the state of the engine.
PopsFit ==
  /\ at # "key" => pops = <<>>
  /\ at \in {"entry", "prompt"} => mec.to = "start"
  /\ at = "key" =>
       /\ mec.to \in {"start", "valid_char", "invalid_char"} => Len(pops) = 1
       /\ mec.to = "valid_char" => pops[1] \notin Control
       /\ mec.to = "invalid_char" => pops[1] \in Control
       /\ mec.to = "ESC" => /\ pops[1] = "esc"
                            /\ Len(pops) \in 1 .. 3 \/ (Len(pops) = 4 /\ pops[3] = "3")
       /\ mec.to \in EditStates \cup {"exit_handler", "enter"} => WholeKey(pops)

Line ==
  /\ PopsFit
  /\ at \in Places /\ lock \in BOOLEAN /\ lost \in BOOLEAN /\ opened \in BOOLEAN
  /\ early \subseteq Slots
  /\ Unread \in Seq(Bytes) /\ pops \in Seq(Bytes)
  /\ lost \/ Keys(pops \o (Unread \o cut))

LineInv == InputInv /\ FifoInv /\ Line

LEMMA CutType == FifoInv => cut \in Seq(Bytes)
BY PartsAreBytes, EmptySeq DEF FifoInv

LEMMA InitLine == InputInit => LineInv
<1> SUFFICES ASSUME InputInit PROVE LineInv
  OBVIOUS
<1>1. /\ early = {} /\ cut = <<>> /\ lock = TRUE /\ at = "away" /\ pops = <<>>
      /\ lost = FALSE /\ opened = FALSE
  BY DEF InputInit
<1>2. InputInv /\ FifoInv /\ Unread = <<>>
  BY InitInput, InitStreams DEF Stream!Init
<1>3. <<>> \in Seq(Bytes)
  BY EmptySeq
<1>4. pops \o (Unread \o cut) = <<>>
  <2>1. <<>> \o <<>> = <<>>
    BY <1>3, ConcatEmptySeq
  <2> QED BY <1>1, <1>2, <2>1
<1>5. Keys(pops \o (Unread \o cut))
  BY <1>4, NoKeys
<1>6. PopsFit
  BY <1>1 DEF PopsFit
<1> QED BY <1>1, <1>2, <1>3, <1>5, <1>6 DEF LineInv, Line, Places

LEMMA SameUnread ==
  ASSUME UNCHANGED fifo
  PROVE  UNCHANGED <<Unread, early, Length>>
BY DEF fifo, Unread, Length

\* The receive interrupt.
LEMMA ReceiveLine ==
  ASSUME SendsKeys, LineInv, Receive
  PROVE  Line'
<1>1. /\ UNCHANGED <<lock, at, mec, pops, copied, opened>>
      /\ pops \in Seq(Bytes) /\ Unread \in Seq(Bytes) /\ cut \in Seq(Bytes) /\ FifoInv
      /\ lost \/ Keys(pops \o (Unread \o cut))
  BY CutType DEF Receive, LineInv, Line
<1>2. PopsFit'
  BY <1>1 DEF LineInv, Line, PopsFit
<1>3. ASSUME NEW burst \in Parts, cli_in_push(burst)
      PROVE  /\ Unread' \in Seq(Bytes) /\ lost' \in BOOLEAN /\ early' \subseteq Slots
             /\ lost' \/ (~lost /\ Unread' = Unread \o burst)
  <2>1. burst \in Seq(Bytes)
    BY PartsAreBytes
  <2>2. /\ \/ Unread' = Unread
           \/ \E n \in 0 .. Len(burst) : Unread' = Unread \o SubSeq(burst, 1, n)
        /\ lost' \/ (~lost /\ Unread' = Unread \o burst)
    BY <1>1, <1>3, <2>1, PushStreams
  <2>3. Unread' \in Seq(Bytes)
    <3>1. ASSUME NEW n \in 0 .. Len(burst) PROVE Unread \o SubSeq(burst, 1, n) \in Seq(Bytes)
      <4>1. n \in Int /\ \A i \in 1 .. n : burst[i] \in Bytes
        BY <2>1, LenProperties, ElementOfSeq
      <4>2. SubSeq(burst, 1, n) \in Seq(Bytes)
        BY <4>1, SubSeqProperties
      <4> QED BY <1>1, <4>2, ConcatProperties
    <3> QED BY <1>1, <2>2, <3>1
  <2>4. lost' \in BOOLEAN
    BY <1>3, Zenon DEF cli_in_push, LineInv, Line
  <2>5. early' \subseteq Slots
    <3>1. early \subseteq Slots
      BY DEF LineInv, Line
    <3>2. CASE lock
      BY <1>3, <3>1, <3>2, Zenon DEF cli_in_push, fifo
    <3>3. CASE ~lock
      <4>1. \E new \in SUBSET Slots :
              early' = IF at \in {"prompt", "key"} THEN early \ new ELSE early \cup new
        <5> DEFINE new == {s \in Slots : (s - in) % CLI_IO_SIZE < Accepted(burst)}
        <5>1. early' = IF at \in {"prompt", "key"} THEN early \ new ELSE early \cup new
          BY <1>3, <3>3, Zenon DEF cli_in_push
        <5>2. new \in SUBSET Slots
          OBVIOUS
        <5> HIDE DEF new
        <5> QED BY <5>1, <5>2
      <4> QED BY <3>1, <4>1
    <3> QED BY <3>2, <3>3
  <2> QED BY <2>2, <2>3, <2>4, <2>5
<1>4. CASE cut = <<>> /\ \E t \in Typed : \E n \in 1 .. Len(t) :
             cli_in_push(SubSeq(t, 1, n)) /\ cut' = SubSeq(t, n + 1, Len(t))
  <2>1. PICK t \in Typed : \E n \in 1 .. Len(t) :
          cli_in_push(SubSeq(t, 1, n)) /\ cut' = SubSeq(t, n + 1, Len(t))
    BY <1>4, Zenon
  <2>2. PICK n \in 1 .. Len(t) : cli_in_push(SubSeq(t, 1, n)) /\ cut' = SubSeq(t, n + 1, Len(t))
    BY <2>1, Zenon
  <2>3. t \in Seq(Bytes) /\ Keys(t)
    BY BytesAssumption DEF SendsKeys
  <2>4. SubSeq(t, 1, n) \in Parts
    <3>1. 1 \in 1 .. Len(t)
      BY <2>3, LenProperties
    <3> QED BY <3>1, PartOf
  <2>5. /\ Unread' \in Seq(Bytes) /\ lost' \in BOOLEAN /\ early' \subseteq Slots
        /\ lost' \/ (~lost /\ Unread' = Unread \o SubSeq(t, 1, n))
    BY <1>3, <2>2, <2>4
  <2>6. ~lost => Keys(pops \o ((Unread \o SubSeq(t, 1, n)) \o SubSeq(t, n + 1, Len(t))))
    <3>1. ~lost => Keys(pops \o (Unread \o <<>>))
      BY <1>1, <1>4
    <3> QED BY <1>1, <2>3, <3>1, KeysArrive
  <2>7. lost' \/ Keys(pops' \o (Unread' \o cut'))
    BY <1>1, <2>2, <2>5, <2>6
  <2> QED BY <1>1, <1>2, <2>5, <2>7 DEF LineInv, Line
<1>5. CASE cut # <<>> /\ cli_in_push(cut) /\ cut' = <<>>
  <2>1. cut \in Parts
    BY <1>1, <1>5 DEF FifoInv
  <2>2. /\ Unread' \in Seq(Bytes) /\ lost' \in BOOLEAN /\ early' \subseteq Slots
        /\ lost' \/ (~lost /\ Unread' = Unread \o cut)
    BY <1>3, <1>5, <2>1
  <2>3. ~lost => Keys(pops \o ((Unread \o cut) \o <<>>))
    BY <1>1, KeysGoOn
  <2>4. lost' \/ Keys(pops' \o (Unread' \o cut'))
    BY <1>1, <1>5, <2>2, <2>3
  <2> QED BY <1>1, <1>2, <2>2, <2>4 DEF LineInv, Line
<1> QED BY <1>4, <1>5 DEF Receive

\* Around the prompt. What is cleared is lost.
LEMMA PromptLine ==
  ASSUME LineInv, EnterPrompt \/ OpenPrompt \/ LeavePrompt \/ OpenInput
  PROVE  Line'
<1>1. Line /\ FifoInv
  BY DEF LineInv
<1>2. CASE EnterPrompt
  <2>1. /\ at = "away" /\ at' = "entry" /\ mec' = engine_init("start") /\ early' = {}
        /\ lost' = (lost \/ Length # 0) /\ UNCHANGED <<cut, lock, pops, opened>>
    BY <1>2 DEF EnterPrompt
  <2>2. Unread' = <<>> /\ <<>> \in Seq(Bytes)
    BY <1>1, <1>2, ClearStreams, EmptySeq
  <2>3. Length = 0 => Unread = <<>>
    BY <1>1, UnreadFacts, EmptySeq
  <2>4. lost' \/ Keys(pops' \o (Unread' \o cut'))
    BY <1>1, <2>1, <2>2, <2>3 DEF Line
  <2>5. PopsFit'
    BY <1>1, <2>1 DEF Line, PopsFit, engine_init
  <2> QED BY <1>1, <2>1, <2>2, <2>4, <2>5 DEF Line, Places
<1>3. CASE OpenPrompt
  <2>1. UNCHANGED <<Unread, early>>
    BY <1>3, SameUnread DEF OpenPrompt
  <2>2. PopsFit'
    BY <1>1, <1>3 DEF OpenPrompt, Line, PopsFit
  <2> QED BY <1>1, <1>3, <2>1, <2>2 DEF OpenPrompt, Line, Places
<1>4. CASE LeavePrompt
  <2>1. UNCHANGED <<Unread, early>>
    BY <1>4, SameUnread DEF LeavePrompt
  <2>2. PopsFit'
    BY <1>1, <1>4 DEF LeavePrompt, Line, PopsFit
  <2> QED BY <1>1, <1>4, <2>1, <2>2 DEF LeavePrompt, Line, Places
<1>5. CASE OpenInput
  <2>1. UNCHANGED <<Unread, early>>
    BY <1>5, SameUnread DEF OpenInput
  <2>2. PopsFit'
    BY <1>1, <1>5 DEF OpenInput, Line, PopsFit
  <2> QED BY <1>1, <1>5, <2>1, <2>2 DEF OpenInput, Line, Places
<1> QED BY <1>2, <1>3, <1>4, <1>5

\* A byte that is popped for a key goes over to the bytes of the key.
LEMMA PopsNext ==
  ASSUME LineInv, NEW b \in Bytes, Popping, at' = "key", mec' = mec, pops' = Append(pops, b)
  PROVE  PopsFit'
<1>1. /\ pops \in Seq(Bytes) /\ Len(pops) \in Nat /\ PopsFit
  BY LenProperties DEF LineInv, Line
<1>2. /\ Len(pops') = Len(pops) + 1 /\ pops'[Len(pops) + 1] = b
      /\ \A i \in 1 .. Len(pops) : pops'[i] = pops[i]
  BY <1>1, AppendProperties
<1>3. CASE at = "prompt"
  <2>1. pops = <<>> /\ mec.to = "start"
    BY <1>1, <1>3 DEF PopsFit
  <2>2. Len(pops) = 0
    BY <2>1, EmptySeq
  <2>3. Len(pops') = 1
    BY <1>2, <2>2
  <2> QED BY <2>1, <2>3 DEF PopsFit, EditStates
<1>4. CASE at = "key" /\ mec.to = "ESC"
  <2>1. pops[1] = "esc" /\ (Len(pops) \in 1 .. 3 \/ (Len(pops) = 4 /\ pops[3] = "3"))
    BY <1>1, <1>4 DEF PopsFit
  <2>2. Len(pops) < IF Len(pops) >= 3 /\ pops[3] = "3" THEN 4 ELSE 3
    BY <1>4 DEF Popping, Needed, InEscape
  <2>3. Len(pops) \in 1 .. 2 \/ (Len(pops) = 3 /\ pops[3] = "3")
    BY <1>1, <2>1, <2>2
  <2>4. pops'[1] = "esc" /\ (Len(pops') \in 1 .. 3 \/ (Len(pops') = 4 /\ pops'[3] = "3"))
    <3>1. pops'[1] = "esc"
      BY <1>2, <2>1, <2>3
    <3>2. CASE Len(pops) \in 1 .. 2
      <4> DEFINE m == Len(pops)
      <4>0. Len(pops') = m + 1 /\ m \in 1 .. 2
        BY <1>2, <3>2
      <4> HIDE DEF m
      <4>1. Len(pops') \in 1 .. 3
        BY <4>0
      <4> QED BY <3>1, <4>1
    <3>3. CASE Len(pops) = 3 /\ pops[3] = "3"
      <4>1. Len(pops') = 4 /\ pops'[3] = pops[3]
        BY <1>2, <3>3
      <4> QED BY <3>1, <3>3, <4>1
    <3> QED BY <2>3, <3>2, <3>3
  <2> QED BY <1>4, <2>4 DEF PopsFit, EditStates
<1> QED BY <1>3, <1>4 DEF Popping, InEscape

LEMMA PopLine ==
  ASSUME LineInv, CopyByte \/ AdvanceOut
  PROVE  Line'
<1>1. Line /\ FifoInv /\ InputInv
  BY DEF LineInv
<1>2. CASE CopyByte
  <2>1. UNCHANGED <<Unread, early, at, mec, pops, lock, lost, opened, cut>>
    BY <1>1, <1>2, SameUnread DEF CopyByte
  <2>2. PopsFit'
    BY <1>1, <2>1 DEF Line, PopsFit
  <2> QED BY <1>1, <2>1, <2>2 DEF Line
<1>3. CASE AdvanceOut
  <2>1. /\ copied # NoByte /\ UNCHANGED <<cut, lock, mec, opened>>
        /\ early' \subseteq early
        /\ IF CommandReads THEN lost' = TRUE /\ pops' = pops /\ at' = at
           ELSE pops' = Append(pops, copied) /\ at' = "key" /\ lost' = lost
    BY <1>3 DEF AdvanceOut
  <2>2. Unread # <<>> /\ Head(Unread) = copied /\ Unread' = Tail(Unread)
    BY <1>1, <1>3, AdvanceStreams
  <2>3. copied \in Bytes /\ Unread' \in Seq(Bytes) /\ pops \in Seq(Bytes) /\ Unread \in Seq(Bytes)
    BY <1>1, <2>2, HeadTailProperties DEF Line
  <2>4. CASE CommandReads
    <3>1. PopsFit'
      BY <1>1, <2>1, <2>4 DEF Line, PopsFit
    <3> QED BY <1>1, <2>1, <2>3, <2>4, <3>1 DEF Line
  <2>5. CASE ~CommandReads
    <3>1. pops' = Append(pops, copied) /\ at' = "key" /\ lost' = lost /\ Popping
      BY <1>1, <2>1, <2>5 DEF InputInv
    <3>2. PopsFit'
      BY <2>1, <2>3, <3>1, PopsNext
    <3>3. pops' \in Seq(Bytes)
      BY <2>3, <3>1, AppendProperties
    <3>4. pops' \o (Unread' \o cut') = pops \o (Unread \o cut)
      <4>1. cut \in Seq(Bytes)
        BY <1>1, CutType
      <4>2. Append(pops, Head(Unread)) \o (Tail(Unread) \o cut) = pops \o (Unread \o cut)
        BY <2>2, <2>3, <4>1, PopMoves
      <4> QED BY <2>1, <2>2, <3>1, <4>2
    <3> QED BY <1>1, <2>1, <2>3, <3>1, <3>2, <3>3, <3>4 DEF Line, Places
  <2> QED BY <2>4, <2>5
<1> QED BY <1>2, <1>3

\* The engine goes on with the key ...
LEMMA EngineLine ==
  ASSUME LineInv, UNCHANGED <<fifo, cut, lock, at, lost, opened, pops>>, PopsFit'
  PROVE  Line'
<1>1. UNCHANGED <<Unread, early>>
  BY SameUnread
<1> QED BY <1>1 DEF LineInv, Line

\* ... or is done with it.
LEMMA DoneLine ==
  ASSUME LineInv, WholeKey(pops), pops' = <<>>, lock' \in BOOLEAN, at' \in Places, PopsFit',
         UNCHANGED <<fifo, cut, lost, opened>>
  PROVE  Line'
<1>1. UNCHANGED <<Unread, early>>
  BY SameUnread
<1>2. /\ pops \in Seq(Bytes) /\ Unread \in Seq(Bytes) /\ cut \in Seq(Bytes)
      /\ lost \/ Keys(pops \o (Unread \o cut))
  BY CutType DEF LineInv, Line
<1>3. Unread \o cut \in Seq(Bytes) /\ <<>> \in Seq(Bytes)
  BY <1>2, ConcatProperties, EmptySeq
<1>4. lost \/ Keys(Unread \o cut)
  BY <1>2, <1>3, KeysRest
<1>5. <<>> \o (Unread \o cut) = Unread \o cut
  BY <1>3, ConcatEmptySeq
<1>6. lost' \/ Keys(pops' \o (Unread' \o cut'))
  BY <1>1, <1>4, <1>5
<1> QED BY <1>1, <1>3, <1>6 DEF LineInv, Line

LEMMA Turns ==
  ASSUME InputInv, NEW s, mec' = state_switch(Switched(mec), s)
  PROVE  mec'.to = s
BY DEF InputInv, state_switch, Switched

LEMMA KeyLine ==
  ASSUME LineInv,
         \/ StartKey \/ ValidChar \/ InvalidChar \/ EscapeSequence \/ EscapeCut
         \/ EditingKey \/ ExitHandler \/ EnterKey
  PROVE  Line'
<1>1. Line /\ FifoInv /\ InputInv /\ PopsFit /\ pops \in Seq(Bytes)
  BY DEF LineInv, Line
<1>2. Len(pops) = 1 => Head(pops) = pops[1]
  <2>1. Len(pops) = 1 => pops # <<>>
    BY EmptySeq
  <2> QED BY <1>1, <2>1, HeadTailProperties
<1>3. CASE StartKey
  <2> DEFINE s == IF Head(pops) \in Control THEN "invalid_char" ELSE "valid_char"
  <2>1. /\ at = "key" /\ mec.to = "start" /\ UNCHANGED <<fifo, cut, lock, at, lost, opened, pops>>
        /\ mec' = state_switch(Switched(mec), s)
    BY <1>3 DEF StartKey, Runs, GoesTo
  <2>2. Len(pops) = 1
    BY <1>1, <2>1 DEF PopsFit
  <2>3. mec'.to = s
    BY <1>1, <2>1, Turns
  <2>4. PopsFit'
    BY <1>2, <2>1, <2>2, <2>3 DEF PopsFit, EditStates
  <2> QED BY <2>1, <2>4, EngineLine
<1>4. CASE ValidChar
  <2>1. /\ at = "key" /\ mec.to = "valid_char"
        /\ UNCHANGED <<fifo, cut, lock, at, lost, opened, pops>>
        /\ mec' = state_switch(Switched(mec), "exit_handler")
    BY <1>4 DEF ValidChar, Runs, GoesTo
  <2>2. Len(pops) = 1 /\ pops[1] # "esc"
    BY <1>1, <2>1 DEF PopsFit, Control
  <2>3. mec'.to = "exit_handler"
    BY <1>1, <2>1, Turns
  <2>4. PopsFit'
    BY <2>1, <2>2, <2>3 DEF PopsFit, WholeKey
  <2> QED BY <2>1, <2>4, EngineLine
<1>5. CASE InvalidChar
  <2> DEFINE s == CASE Head(pops) = "esc"    -> "ESC"
                    [] Head(pops) = "bs"     -> "backspace"
                    [] Head(pops) = "enter"  -> "enter"
                    [] Head(pops) = "ctrl-l" -> "clear"
                    [] OTHER                 -> "exit_handler"
  <2>1. /\ at = "key" /\ mec.to = "invalid_char"
        /\ UNCHANGED <<fifo, cut, lock, at, lost, opened, pops>>
        /\ mec' = state_switch(Switched(mec), s)
    BY <1>5 DEF InvalidChar, Runs, GoesTo
  <2>2. Len(pops) = 1
    BY <1>1, <2>1 DEF PopsFit
  <2>3. mec'.to = s
    BY <1>1, <2>1, Turns
  <2>4. CASE pops[1] = "esc"
    <3>1. mec'.to = "ESC"
      BY <1>2, <2>2, <2>3, <2>4
    <3> QED BY <2>1, <2>2, <2>4, <3>1, EngineLine DEF PopsFit, EditStates
  <2>5. CASE pops[1] # "esc"
    <3>1. mec'.to \in {"backspace", "enter", "clear", "exit_handler"}
      BY <1>2, <2>2, <2>3, <2>5
    <3>2. PopsFit'
      BY <2>1, <2>2, <2>5, <3>1 DEF PopsFit, WholeKey
    <3> QED BY <2>1, <3>2, EngineLine
  <2> QED BY <2>4, <2>5
<1>6. CASE EscapeSequence
  <2> DEFINE s == CASE pops[3] \in DOMAIN Arrow                   -> Arrow[pops[3]]
                    [] pops[3] = "3" /\ pops[Len(pops)] = "~"     -> "delete"
                    [] OTHER                                      -> "exit_handler"
  <2>1. /\ at = "key" /\ mec.to = "ESC" /\ Len(pops) = Needed
        /\ UNCHANGED <<fifo, cut, lock, at, lost, opened, pops>>
        /\ mec' = state_switch(Switched(mec), s)
    BY <1>6 DEF EscapeSequence, Runs, GoesTo
  <2>2. s \in EditStates \cup {"exit_handler"}
    <3>1. \A x \in DOMAIN Arrow : Arrow[x] \in EditStates
      BY DEF Arrow, EditStates
    <3>2. "delete" \in EditStates
      BY DEF EditStates
    <3> QED BY <3>1, <3>2
  <2> HIDE DEF s
  <2>3. mec'.to = s
    BY <1>1, <2>1, Turns
  <2>4. WholeKey(pops)
    <3>1. pops[1] = "esc"
      BY <1>1, <2>1 DEF PopsFit
    <3>2. \/ Len(pops) = 4 /\ pops[3] = "3"
          \/ Len(pops) = 3 /\ pops[3] # "3"
      BY <2>1 DEF Needed, InEscape
    <3> QED BY <3>1, <3>2 DEF WholeKey
  <2>5. PopsFit'
    <3>1. mec'.to \notin {"start", "valid_char", "invalid_char", "ESC"}
      BY <2>2, <2>3 DEF EditStates
    <3>2. WholeKey(pops')
      BY <2>1, <2>4
    <3> QED BY <2>1, <3>1, <3>2 DEF PopsFit
  <2> QED BY <2>1, <2>5, EngineLine
<1>7. CASE EscapeCut
  <2>1. /\ mec' = state_switch(Switched(mec), "start") /\ at' = "prompt" /\ pops' = <<>>
        /\ lost' = TRUE /\ UNCHANGED <<fifo, cut, lock, opened>>
    BY <1>7 DEF EscapeCut
  <2>2. mec'.to = "start"
    BY <1>1, <2>1, Turns
  <2>3. PopsFit'
    BY <2>1, <2>2 DEF PopsFit
  <2>4. UNCHANGED <<Unread, early>> /\ <<>> \in Seq(Bytes)
    BY <2>1, SameUnread, EmptySeq
  <2> QED BY <1>1, <2>1, <2>3, <2>4 DEF Line, Places
<1>8. CASE EditingKey
  <2>1. /\ at = "key" /\ mec.to \in EditStates
        /\ UNCHANGED <<fifo, cut, lock, at, lost, opened, pops>>
        /\ mec' = state_switch(Switched(mec), "exit_handler")
    BY <1>8 DEF EditingKey, GoesTo
  <2>2. WholeKey(pops)
    BY <1>1, <2>1 DEF PopsFit
  <2>3. mec'.to = "exit_handler" /\ WholeKey(pops')
    BY <1>1, <2>1, <2>2, Turns
  <2>4. PopsFit'
    BY <2>1, <2>3 DEF PopsFit
  <2> QED BY <2>1, <2>4, EngineLine
<1>9. CASE ExitHandler
  <2>1. /\ at = "key" /\ mec.to = "exit_handler" /\ at' = "prompt" /\ pops' = <<>>
        /\ lock' = FALSE /\ UNCHANGED <<fifo, cut, lost, opened>>
        /\ mec' = state_switch(Switched(mec), "start")
    BY <1>9 DEF ExitHandler, Runs
  <2>2. WholeKey(pops)
    BY <1>1, <2>1 DEF PopsFit
  <2>3. mec'.to = "start"
    BY <1>1, <2>1, Turns
  <2>4. PopsFit' /\ at' \in Places
    BY <2>1, <2>3 DEF PopsFit, Places
  <2> QED BY <2>1, <2>2, <2>4, DoneLine
<1>10. CASE EnterKey
  <2>1. /\ at = "key" /\ mec.to = "enter" /\ at' = "leaving" /\ pops' = <<>>
        /\ UNCHANGED <<fifo, cut, lock, lost, opened>>
    BY <1>10 DEF EnterKey, Runs
  <2>2. WholeKey(pops)
    BY <1>1, <2>1 DEF PopsFit
  <2>3. PopsFit' /\ at' \in Places /\ lock' \in BOOLEAN
    BY <1>1, <2>1 DEF PopsFit, Places, Line
  <2> QED BY <2>1, <2>2, <2>3, DoneLine
<1> QED BY <1>3, <1>4, <1>5, <1>6, <1>7, <1>8, <1>9, <1>10

LEMMA StepLine == SendsKeys /\ LineInv /\ [InputNext]_inputVars => LineInv'
<1> SUFFICES ASSUME SendsKeys, LineInv, [InputNext]_inputVars PROVE LineInv'
  OBVIOUS
<1>1. InputInv' /\ FifoInv'
  BY InputStep, StepStreams DEF LineInv
<1>2. CASE UNCHANGED inputVars
  <2>1. UNCHANGED <<fifo, cut, lock, at, lost, opened, pops, mec>>
    BY <1>2 DEF inputVars
  <2>2. PopsFit'
    BY <2>1 DEF LineInv, Line, PopsFit
  <2>3. Line'
    BY <2>1, <2>2, EngineLine
  <2> QED BY <1>1, <2>3 DEF LineInv
<1>3. CASE InputNext
  <2>1. Line'
    BY <1>3, ReceiveLine, PromptLine, PopLine, KeyLine DEF InputNext, Lincli
  <2> QED BY <1>1, <2>1 DEF LineInv
<1> QED BY <1>2, <1>3

LEMMA LineHasType == LineInv => InputTypeOK
<1> SUFFICES ASSUME LineInv PROVE InputTypeOK
  OBVIOUS
<1>1. Line /\ FifoInv /\ InputInv /\ PopsFit
  BY DEF LineInv, Line
<1>2. {mec.from, mec.to} \subseteq {NoState, "start", "valid_char", "invalid_char", "ESC",
                                   "enter", "exit_handler"} \cup EditStates
  BY <1>1 DEF InputInv, States
<1> DEFINE m == Len(pops)
<1>3. m <= 4
  <2>1. CASE at = "key"
    <3>1. mec.to \in States
      BY <1>1 DEF InputInv
    <3>2. WholeKey(pops) \/ m \in 1 .. 4
      BY <1>1, <2>1, <3>1 DEF PopsFit, States
    <3>3. WholeKey(pops) => m \in {1, 3, 4}
      BY DEF WholeKey
    <3> HIDE DEF m
    <3> QED BY <3>2, <3>3
  <2>2. CASE at # "key"
    <3>1. pops = <<>>
      BY <1>1, <2>2 DEF PopsFit
    <3>2. m = 0
      BY <3>1, EmptySeq
    <3> QED BY <3>2
  <2> QED BY <2>1, <2>2
<1>4. copied \in Bytes \cup {NoByte}
  <2>1. copied # NoByte => copied = buffer[Slot(out)] /\ Slot(out) \in Slots
    BY <1>1, SlotType, LengthFacts DEF FifoInv
  <2> QED BY <1>1, <2>1 DEF FifoInv, Items
<1>5. cut \in Seq(Bytes)
  BY <1>1, CutType
<1> QED BY <1>1, <1>2, <1>3, <1>4, <1>5 DEF InputTypeOK, Line, FifoInv, Items

\* A byte that the line takes as a character was typed as one: the bytes of an escape
\* sequence are taken together, whatever the interrupt cuts them into, unless a byte was
\* lost or a sequence ran dry (cli_cmd_line.c), as long as the terminal sends letters,
\* BS, ENTER and escape sequences of the lengths that the code expects.
THEOREM NoStrays == SendsKeys /\ InputSpec => []NoStrayCharacters
<1> SUFFICES ASSUME SendsKeys PROVE InputSpec => []NoStrayCharacters
  OBVIOUS
<1>1. SendsKeys /\ LineInv /\ [InputNext]_inputVars => LineInv'
  BY StepLine
<1>2. LineInv => NoStrayCharacters
  <2> SUFFICES ASSUME LineInv PROVE NoStrayCharacters
    OBVIOUS
  <2>1. ASSUME Runs("valid_char"), ~lost PROVE Head(pops) \in Letters
    <3>1. /\ pops \in Seq(Bytes) /\ Unread \in Seq(Bytes) /\ cut \in Seq(Bytes)
          /\ Keys(pops \o (Unread \o cut)) /\ Len(pops) = 1 /\ pops[1] \notin Control
      BY <2>1, CutType DEF LineInv, Line, PopsFit, Runs
    <3>2. Unread \o cut \in Seq(Bytes)
      BY <3>1, ConcatProperties
    <3>3. pops[1] \in Letters \cup Control
      BY <3>1, <3>2, FirstOfKey
    <3>4. Head(pops) = pops[1]
      <4>1. Len(<<>>) = 0
        BY EmptySeq
      <4>2. pops # <<>>
        BY <3>1, <4>1
      <4> QED BY <3>1, <4>2, HeadTailProperties
    <3> QED BY <3>1, <3>3, <3>4
  <2> QED BY <2>1, LineHasType DEF NoStrayCharacters
<1> QED BY <1>1, <1>2, InitLine, PTL DEF InputSpec
=============================================================================
