----------------------------- MODULE IntrusiveLists -----------------------------
(***************************************************************************)
(* The intrusive, circular, doubly linked lists of the kernel              *)
(* (rtos_list.h) and of the command line's work queues (list.h).  A list   *)
(* is the sequence of what is linked on it, head first.                    *)
(***************************************************************************)
EXTENDS Integers, SequencesExt

\* rtos_list_remove, list_del_init: a node that is on no list links to itself, and
\* removing it again changes nothing.
Unlink(s, t) == RemoveFirst(s, t)

Distinct(s) == IsInjective(s)

\* Link t before the i-th node of s, or at the tail if there is none (i = 0).
InsertBefore(s, t, i) == IF i = 0 THEN Append(s, t) ELSE InsertAt(s, i, t)
=============================================================================
