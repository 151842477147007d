---------------------------- MODULE MCInstallation ----------------------------
(***************************************************************************)
(* Small instances of Installation for TLC.                                *)
(***************************************************************************)
EXTENDS Installation, TLC

Symmetry == Permutations(Commands) \cup Permutations(Envs)
===============================================================================
