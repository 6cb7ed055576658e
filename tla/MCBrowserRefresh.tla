--------------------------- MODULE MCBrowserRefresh ---------------------------
(* Small instances of BrowserRefresh for TLC. *)
EXTENDS BrowserRefresh, TLC

CONSTANTS n1, n2, q1, q2

Symmetric == Permutations(Runs) \cup Permutations(Requests)
=============================================================================
