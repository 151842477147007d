--------------------------- MODULE MCClaudeHistory ---------------------------
(***************************************************************************)
(* A small instance of ClaudeHistory for TLC.  Every session has a         *)
(* workspace of its own.                                                   *)
(***************************************************************************)
EXTENDS ClaudeHistory, TLC

CONSTANTS s1, s2, t1, t2, r1, r2

MCWorkspaceOf == [s \in Sessions |-> s]
MCContents    == {<<"text", "thinking", "text", "bash">>, <<"auth">>, <<"edit">>}
Symmetry      == Permutations(Sessions) \cup Permutations(Runs) \cup Permutations(Turns)
==============================================================================
