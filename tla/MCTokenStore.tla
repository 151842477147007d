---------------------------- MODULE MCTokenStore ----------------------------
(* Small instances of TokenStore: two processes that save, of two machines. *)
EXTENDS TokenStore, TLC

CONSTANTS p1, p2, m1, m2

Two == {p1, p2}
TwoMachines == {m1, m2}
==============================================================================
