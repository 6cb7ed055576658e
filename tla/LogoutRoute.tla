------------------------------ MODULE LogoutRoute ------------------------------
(***************************************************************************)
(* A logout token on its way through the route of the Next.js and Nuxt     *)
(* SDKs: its signature is verified with the server's keys (JwksCache),     *)
(* then it is handled and recorded (CookieSession).  The server posts it   *)
(* again after a 500, and not after a 400.                                 *)
(***************************************************************************)
EXTENDS CookieSession

CONSTANTS
  Users,                 \* the sign-ins there are
  KeysTtl, MinRefetch,   \* how long keys are cached, and the least time between two fetches
  MaxKids                \* bound: the keys the server has one after the other

ASSUME KeysAssumption ==
  /\ Users \in Seq([sid : Sids, gen : Nat, at : Nat])
  /\ {KeysTtl, MinRefetch, MaxKids} \subseteq Nat \ {0} /\ MinRefetch < KeysTtl

VARIABLES
  keys, age, fetch, since, lookup, published, signing, quiet, behind, missed,   \* JwksCache
  signed,      \* the key each logout token is signed with
  carried,     \* the logout token each handler verifies; 0: one nobody issued
  refused      \* logout tokens answered with 400 for their key

Jwks == INSTANCE JwksCache WITH Lookups <- Handlers, CacheTtl <- KeysTtl

jwks      == <<keys, age, fetch, since, lookup, published, signing, quiet, behind, missed>>
tokens    == <<signed, carried, refused>>
routeVars == <<vars, jwks, tokens>>

\* Handler h begins to verify a token: logout token j, or 0.
Carry(h, j) ==
  /\ PostAt(h, "idle")
  /\ Jwks!GetCachedJwk(h, IF j = 0 THEN Jwks!NoKid ELSE signed[j])
  /\ carried' = [carried EXCEPT ![h] = j] /\ UNCHANGED <<vars, signed, refused>>

\* The server posts a logout token.
Receive(h, j) == j \in DOMAIN notices \ refused /\ Carry(h, j)

\* Anyone may post one that names a key the server does not have.
Stray(h) == Carry(h, 0)

\* It is verified, or answered.
Finish(h, result) ==
  /\ lookup[h].is = result
  /\ Jwks!Return(h) /\ carried' = [carried EXCEPT ![h] = 0] /\ UNCHANGED signed

Verified(h) == Finish(h, "found") /\ Post(h, carried[h]) /\ UNCHANGED refused

\* The answer is 400, and the server does not post the token again.
Unknown(h) ==
  /\ Finish(h, "unknown")
  /\ refused' = refused \cup ({carried[h]} \ {0}) /\ UNCHANGED vars

\* There are no keys: the answer is 500.
Unavailable(h) == Finish(h, "unavailable") /\ UNCHANGED <<vars, refused>>

FetchFails ==
  /\ Jwks!FetchFails
  /\ faults < MaxFaults /\ faults' = faults + 1
  /\ UNCHANGED <<cookie, req, logout, server, now, history, tokens>>

Issue(k) ==
  /\ ServerLogout(k) /\ signed' = Append(signed, signing)
  /\ UNCHANGED <<jwks, carried, refused>>

-----------------------------------------------------------------------------
RouteInit ==
  /\ Started(Users) /\ Jwks!Init
  /\ signed = <<>> /\ carried = [h \in Handlers |-> 0] /\ refused = {}

Answered(h) == Verified(h) \/ Unknown(h) \/ Unavailable(h)
Keeps(h)   == Record(h) /\ UNCHANGED <<jwks, tokens>>
Loses(h)   == RecordFails(h) /\ UNCHANGED <<jwks, tokens>>
Fetching   == (Jwks!Serve \/ Jwks!FetchJwks) /\ UNCHANGED <<vars, tokens>>

Aging      == Jwks!Pass /\ UNCHANGED <<vars, tokens>>

RouteNext ==
  \/ \E h \in Handlers :
       \/ \E j \in 1..MaxNotices : Receive(h, j)
       \/ Stray(h) \/ Answered(h) \/ Keeps(h) \/ Loses(h)
  \/ \E k \in Keys : Issue(k)
  \/ Fetching \/ FetchFails \/ Aging
  \/ Jwks!Rotate /\ UNCHANGED <<vars, tokens>>

\* A handler, a fetch and time go on, and the server posts a logout token until it is answered.
RouteFairness ==
  /\ \A h \in Handlers : WF_routeVars(Answered(h)) /\ WF_routeVars(Keeps(h))
  /\ WF_routeVars(Fetching) /\ WF_routeVars(Aging)
  /\ \A j \in 1..MaxNotices : SF_routeVars(\E h \in Handlers : Receive(h, j))

RouteSpec == RouteInit /\ [][RouteNext]_routeVars /\ RouteFairness

-----------------------------------------------------------------------------
(* Properties *)

\* The types of the key cache, and whoever waits for its fetch waits for one under way.
KeysTypeOK == Jwks!TypeOK

\* Nobody can drive requests to the server by posting tokens (getCachedJwk).
FetchesSpaced == Jwks!FetchesSpaced

\* Only a key that is new, or withdrawn, is unknown (getCachedJwk).
UnknownIsNew == Jwks!UnknownIsNew

\* A logout token the server keeps posting is recorded in the end (backchannelLogout), whatever
\* tokens are posted beside it and which fetches fail, unless its key was unknown, or the store
\* failed after the token was remembered.
LogoutTakesEffect ==
  \A j \in 1..MaxNotices :
    (j \in DOMAIN notices) ~> (j \in refused \cup failed \/ (j \in DOMAIN notices /\ Recorded(j)))
=============================================================================
