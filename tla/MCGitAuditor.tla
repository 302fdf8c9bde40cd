---------------------------- MODULE MCGitAuditor ----------------------------
(***************************************************************************)
(* Small instances of GitAuditor.                                          *)
(***************************************************************************)
EXTENDS GitAuditor, TLC

Symmetry == Permutations(Threads)
=============================================================================
