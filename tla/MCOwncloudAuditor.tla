------------------------- MODULE MCOwncloudAuditor -------------------------
(***************************************************************************)
(* Small instances of OwncloudAuditor.  The first two members edit one     *)
(* document, a third one, if there is one, edits another.                  *)
(***************************************************************************)
EXTENDS OwncloudAuditor, TLC

CONSTANTS e1, e2, m1, m2, a, b

TwoDocuments ==
    [m \in Members |-> IF m \in {m1, m2} THEN {e1} ELSE {e2}]

CaseOnly == {<<a, b>>, <<b, a>>}

Symmetry == Permutations(Threads) \cup Permutations({m1, m2})
                \cup Permutations({a, b})
=============================================================================
