------------------------ MODULE MCAuthorizationRequest ------------------------
(* Small instances of AuthorizationRequest for TLC. *)
EXTENDS AuthorizationRequest, TLC

CONSTANTS a1, a2, a3, c1, c2, u1
=============================================================================
