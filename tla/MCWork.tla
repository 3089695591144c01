--------------------------------- MODULE MCWork ---------------------------------
(***************************************************************************)
(* Instances of WorkQueue for TLC.                                         *)
(***************************************************************************)
EXTENDS WorkQueue

CONSTANTS d1, d2
=============================================================================
