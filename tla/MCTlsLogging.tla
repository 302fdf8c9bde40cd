---------------------------- MODULE MCTlsLogging ----------------------------
(***************************************************************************)
(* Small instances of TlsLogging.  A request may still be going on when    *)
(* the connection is closed, and SSL addresses are fewer than connections. *)
(***************************************************************************)
EXTENDS TlsLogging, TLC

Symmetry == Permutations(Threads) \cup Permutations(Keys)
=============================================================================
