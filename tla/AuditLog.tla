------------------------------ MODULE AuditLog ------------------------------
(***************************************************************************)
(* What the secure log promises, without threads, locks or a database: the *)
(* rows handed to the logger form one sequence (the hash chain), and every *)
(* position of it is at any time outstanding, stored in the database, or   *)
(* gone for good (lost by a failed call, or trimmed).  Logpoint.tla is     *)
(* shown to implement this specification.                                  *)
(***************************************************************************)
EXTENDS Integers, Sequences

CONSTANT Rows       \* the rows an auditing module may insert

VARIABLES
    chain,          \* the rows in the order in which they were hashed
    stored,         \* positions of chain whose row is in the database
    gone            \* positions of chain whose row never will be again

vars == <<chain, stored, gone>>

Outstanding == (1..Len(chain)) \ (stored \cup gone)

Init ==
    /\ chain = <<>>
    /\ stored = {}
    /\ gone = {}

Issue(row) ==
    /\ chain' = Append(chain, row)
    /\ UNCHANGED <<stored, gone>>

Store(n) ==
    /\ n \in Outstanding
    /\ stored' = stored \cup {n}
    /\ UNCHANGED <<chain, gone>>

Lose(n) ==
    /\ n \in Outstanding
    /\ gone' = gone \cup {n}
    /\ UNCHANGED <<chain, stored>>

Trim(victims) ==
    /\ stored' = stored \ victims
    /\ gone' = gone \cup victims
    /\ UNCHANGED chain

Next ==
    \/ \E row \in Rows : Issue(row)
    \/ \E n \in Outstanding : Store(n) \/ Lose(n)
    \/ \E victims \in SUBSET stored : Trim(victims)

Spec == Init /\ [][Next]_vars

-----------------------------------------------------------------------------
(* A position handed out is not outstanding for ever.                      *)
Settles(n) == (n \in Outstanding) ~> (n \in stored \cup gone)

=============================================================================
