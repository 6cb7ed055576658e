--------------------------- MODULE MCBackendSession ---------------------------
(* Small instances of BackendSession for TLC. *)
EXTENDS BackendSession, TLC

CONSTANTS c1, c2

Symmetric == Permutations(Calls)
=============================================================================
