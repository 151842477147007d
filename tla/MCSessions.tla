------------------------------ MODULE MCSessions ------------------------------
(***************************************************************************)
(* A small instance of Sessions for TLC: two connections, so that the end  *)
(* of one can be seen from the other.                                      *)
(***************************************************************************)
EXTENDS Sessions

CONSTANTS c1, c2

Two == {c1, c2}
==============================================================================
