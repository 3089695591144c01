-------------------------------- MODULE MCInput --------------------------------
(***************************************************************************)
(* Instances of CliInput for TLC: a line of one letter; the delete key,    *)
(* which is the longest escape sequence; and a control character that does *)
(* nothing.  The first two may come in cut in two, and neither fits the    *)
(* FIFO with the other.                                                    *)
(***************************************************************************)
EXTENDS CliInput

MCBytes == {"a", "enter", "esc", "[", "3", "~", "ctrl-l", "control"}
MCTyped == {<<"a", "enter">>, <<"esc", "[", "3", "~">>, <<"control">>}
=============================================================================
