----------------------------- MODULE MCLogpoint -----------------------------
(***************************************************************************)
(* Small instances of Logpoint: the rows of the git auditing module are of *)
(* two tables, updates and advertisements, the latter emptied by trimming. *)
(***************************************************************************)
EXTENDS Logpoint, TLC

CONSTANTS update, advertisement

MCRows      == {update, advertisement}
MCDiscarded == {advertisement}
MCTableLen  == [r \in Rows |-> IF r = update THEN 7 ELSE 14]
MCTupleLen  == [r \in Rows |-> IF r = update THEN 70 ELSE 60]

Symmetry == Permutations(Threads)
=============================================================================
