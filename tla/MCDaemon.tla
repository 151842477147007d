------------------------------ MODULE MCDaemon ------------------------------
(***************************************************************************)
(* A small instance of Daemon for TLC: two commands, as many as can race,  *)
(* and fewer pids than processes, so that the system gives one away again. *)
(***************************************************************************)
EXTENDS Daemon

CONSTANTS c1, c2, p1, p2

TwoCommands == {c1, c2}
TwoPids     == {p1, p2}
==============================================================================
