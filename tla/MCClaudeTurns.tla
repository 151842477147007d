---------------------------- MODULE MCClaudeTurns ----------------------------
(***************************************************************************)
(* Small instances of ClaudeTurns for TLC.                                 *)
(***************************************************************************)
EXTENDS ClaudeTurns, TLC

CONSTANTS t1, t2, a, b, bash, edit

MCThreadOf == [t \in Turns |-> IF t = t1 THEN a ELSE b]
==============================================================================
