-------------------------- MODULE MCDropboxAuditor --------------------------
(***************************************************************************)
(* Small instances of DropboxAuditor.                                      *)
(***************************************************************************)
EXTENDS DropboxAuditor, TLC

Symmetry == Permutations(Threads) \cup Permutations(Hosts)
                \cup Permutations(Paths)
=============================================================================
