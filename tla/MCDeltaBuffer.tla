---------------------------- MODULE MCDeltaBuffer ----------------------------
(***************************************************************************)
(* A small instance of DeltaBuffer for TLC: the two threads that send, and *)
(* one key of each kind, because a flush takes all keys at once.           *)
(***************************************************************************)
EXTENDS DeltaBuffer

CONSTANTS reader, handler, k1, f1

TwoSenders  == {reader, handler}
OneTextKey  == {k1}
OneFileKey  == {f1}
==============================================================================
