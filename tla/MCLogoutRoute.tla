---------------------------- MODULE MCLogoutRoute ----------------------------
(* Small instances of LogoutRoute for TLC. *)
EXTENDS LogoutRoute, TLC

CONSTANTS b1, r1, h1, h2, x1, x2, u1

OneLogin == <<[sid |-> x1, gen |-> 1, at |-> 0]>>
OneSubject == [x \in Sids |-> u1]
=============================================================================
