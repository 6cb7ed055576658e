--------------------------- MODULE MCNodeSession ---------------------------
(* Small instances of NodeSession for TLC. *)
EXTENDS NodeSession, TLC

CONSTANTS r1, r2, r3, s1, s2, x1, x2, u1, u2

OneSubject  == [x \in Sids |-> u1]
TwoSubjects == x1 :> u1 @@ x2 :> u2
Symmetric == Permutations(Requests) \cup Permutations(SessionIds) \cup Permutations(Sids)
=============================================================================
