----------------------------- MODULE MCRestart -----------------------------
(***************************************************************************)
(* Small instances of Restart, with the tables of the Git auditing module. *)
(***************************************************************************)
EXTENDS Restart, TLC

GitScript == <<"updates", "advertisements", "branchmods">>
GitTables == <<"updates", "advertisements">>

Symmetry == Permutations(Refs)
=============================================================================
