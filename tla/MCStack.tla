------------------------------- MODULE MCStack -------------------------------
(* Stack for TLC: six cells, one of them in use and one slack, leave four     *)
(* to paint, to reach and to leave out.                                       *)
EXTENDS Stack
==============================================================================
