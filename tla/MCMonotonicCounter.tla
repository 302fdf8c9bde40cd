------------------------- MODULE MCMonotonicCounter -------------------------
(***************************************************************************)
(* Small instances of MonotonicCounter: client c1 runs all the threads but *)
(* the one that another client, c2, has.                                   *)
(***************************************************************************)
EXTENDS MonotonicCounter

CONSTANTS c1, c2, t1, t2, t3

OneOwner == [t \in Threads |-> c1]
TwoOwners == [t \in Threads |-> IF t = t3 THEN c2 ELSE c1]
=============================================================================
