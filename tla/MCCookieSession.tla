--------------------------- MODULE MCCookieSession ---------------------------
(* Small instances of CookieSession for TLC. *)
EXTENDS CookieSession, TLC

CONSTANTS b1, b2, r1, r2, h1, h2, x1, x2, u1

OneSubject == [x \in Sids |-> u1]
Symmetric == Permutations(Browsers) \cup Permutations(Requests) \cup Permutations(Handlers)
               \cup Permutations(Sids)
=============================================================================
