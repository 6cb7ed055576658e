--------------------------- MODULE LogoutRoute_proofs ---------------------------
(***************************************************************************)
(* What the key cache promises the logout route holds for any number of    *)
(* logout tokens handled at once, of keys the server has one after the     *)
(* other, of logouts, and for any lifetime of the cache and any interval   *)
(* between two fetches.                                                    *)
(***************************************************************************)
EXTENDS LogoutRoute, TLAPS

-----------------------------------------------------------------------------
(* The invariant *)

KidsOrNone == Jwks!Kids \cup {Jwks!NoKid}

\* The types of the cache.
KeysInv ==
  /\ keys \subseteq Jwks!Kids /\ published \subseteq Jwks!Kids /\ behind \subseteq Jwks!Kids
  /\ signing \in published /\ missed \in BOOLEAN
  /\ age \in 0..KeysTtl /\ since \in 0..MinRefetch /\ quiet \in 0..MinRefetch
  /\ fetch \in [is : {"none", "sent", "served"}, keys : SUBSET Jwks!Kids]

LookupType == [kid : KidsOrNone, is : {"idle", "waiting", "found", "unknown", "unavailable"}]

LookupInv ==
  /\ lookup \in [Handlers -> LookupType]
  /\ \A h \in Handlers : lookup[h].is = "waiting" => fetch.is # "none"

\* Every logout token is signed with a key the server has had.
SignedInv ==
  signed \in Seq(Jwks!Kids) /\ Len(signed) = Len(notices) /\ \E S : notices \in Seq(S)

\* The time the cache counts is the time since a fetch was sent.
SinceInv == since = quiet

\* A key of the server's that the cache, or the answer on its way, lacks was published since the
\* fetch was sent; unless the cache has run out, or the last fetch failed.
BehindInv ==
  /\ fetch.is = "served" => published \subseteq fetch.keys \cup behind
  /\ fetch.is = "none" /\ Jwks!Fresh /\ ~missed => published \subseteq keys \cup behind

Inv == KeysInv /\ LookupInv /\ SignedInv /\ SinceInv /\ BehindInv

-----------------------------------------------------------------------------
(* What the steps do *)

\* How long things last.
LEMMA Times == KeysTtl \in Nat \ {0} /\ MinRefetch \in Nat \ {0} /\ MaxKids \in Nat \ {0}
BY KeysAssumption

\* The steps of the key cache.
KeysStep ==
  \/ \E h \in Handlers, kid \in KidsOrNone : Jwks!GetCachedJwk(h, kid)
  \/ \E h \in Handlers : Jwks!Return(h)
  \/ Jwks!Serve \/ Jwks!FetchJwks \/ Jwks!FetchFails \/ Jwks!Pass \/ Jwks!Rotate
  \/ UNCHANGED jwks

\* The key a logout token is signed with is one of the server's.
LEMMA SignedIs == ASSUME SignedInv PROVE \A j \in DOMAIN notices : signed[j] \in Jwks!Kids
BY DEF SignedInv

\* A step of the route is one of the key cache, or leaves it alone.
LEMMA RouteStep == ASSUME Inv, [RouteNext]_routeVars PROVE KeysStep
<1>1. ASSUME NEW h \in Handlers, NEW j, Carry(h, j), j = 0 \/ j \in DOMAIN notices PROVE KeysStep
  <2> DEFINE kid == IF j = 0 THEN Jwks!NoKid ELSE signed[j]
  <2>1. kid \in KidsOrNone
    BY <1>1, SignedIs DEF Inv, KidsOrNone
  <2>2. Jwks!GetCachedJwk(h, kid)
    BY <1>1 DEF Carry
  <2> QED BY <2>1, <2>2 DEF KeysStep
<1>2. ASSUME NEW h \in Handlers, Answered(h) PROVE KeysStep
  BY <1>2 DEF Answered, Verified, Unknown, Unavailable, Finish, KeysStep
<1>3. ASSUME NEW h \in Handlers, Keeps(h) \/ Loses(h) PROVE KeysStep
  BY <1>3 DEF Keeps, Loses, KeysStep
<1>4. ASSUME NEW k \in Keys, Issue(k) PROVE KeysStep
  BY <1>4 DEF Issue, KeysStep
<1>5. CASE Fetching \/ FetchFails \/ Aging \/ (Jwks!Rotate /\ UNCHANGED <<vars, tokens>>)
  BY <1>5 DEF Fetching, FetchFails, Aging, KeysStep
<1>6. CASE UNCHANGED routeVars
  BY <1>6 DEF routeVars, KeysStep
<1>7. ASSUME NEW h \in Handlers, Stray(h) \/ \E j \in 1..MaxNotices : Receive(h, j) PROVE KeysStep
  BY <1>1, <1>7 DEF Stray, Receive
<1> QED BY <1>2, <1>3, <1>4, <1>5, <1>6, <1>7 DEF RouteNext

\* A logout token that is issued is signed; the others keep their keys.
LEMMA SignedStep == ASSUME Inv, [RouteNext]_routeVars PROVE SignedInv'
<1>1. CASE UNCHANGED <<signed, notices>>
  BY <1>1 DEF Inv, SignedInv
<1>2. ASSUME NEW k \in Keys, Issue(k) PROVE SignedInv'
  <2>1. PICK S : notices \in Seq(S)
    BY DEF Inv, SignedInv
  <2>2. PICK n : notices' = Append(notices, n)
    BY <1>2 DEF Issue, ServerLogout
  <2>3. notices \in Seq(S \cup {n})
    BY <2>1
  <2>4. notices' \in Seq(S \cup {n}) /\ Len(notices') = Len(notices) + 1
    BY <2>2, <2>3
  <2>5. signed' = Append(signed, signing) /\ signing \in Jwks!Kids
    BY <1>2 DEF Issue, Inv, KeysInv
  <2>6. signed' \in Seq(Jwks!Kids) /\ Len(signed') = Len(signed) + 1
    BY <2>5 DEF Inv, SignedInv
  <2>7. Len(signed') = Len(notices')
    BY <2>4, <2>6 DEF Inv, SignedInv
  <2> QED BY <2>4, <2>6, <2>7 DEF SignedInv
<1>3. ASSUME NEW h \in Handlers, NEW j, Carry(h, j) PROVE UNCHANGED <<signed, notices>>
  BY <1>3 DEF Carry, vars, server
<1>4. ASSUME NEW h \in Handlers, Answered(h) PROVE UNCHANGED <<signed, notices>>
  BY <1>4 DEF Answered, Verified, Unknown, Unavailable, Finish, Post, vars, server
<1>5. ASSUME NEW h \in Handlers, Keeps(h) \/ Loses(h) PROVE UNCHANGED <<signed, notices>>
  BY <1>5 DEF Keeps, Loses, Record, Handle, Read, Write, RecordFails, tokens, server
<1>6. CASE Fetching \/ FetchFails \/ Aging \/ (Jwks!Rotate /\ UNCHANGED <<vars, tokens>>)
  BY <1>1, <1>6 DEF Fetching, FetchFails, Aging, vars, server, tokens
<1>7. CASE UNCHANGED routeVars
  BY <1>1, <1>7 DEF routeVars, vars, server, tokens
<1>8. ASSUME NEW h \in Handlers, Stray(h) \/ \E j \in 1..MaxNotices : Receive(h, j)
      PROVE  UNCHANGED <<signed, notices>>
  BY <1>3, <1>8 DEF Stray, Receive
<1> QED BY <1>1, <1>2, <1>4, <1>5, <1>6, <1>7, <1>8 DEF RouteNext

\* A fetch that begins.
LEMMA FetchBegins ==
  ASSUME Jwks!FetchJwksOnce
  PROVE  fetch.is = "none" /\ fetch' = [is |-> "sent", keys |-> {}] /\ since' = 0 /\ quiet' = 0 /\ behind' = {}
BY DEF Jwks!FetchJwksOnce

\* A lookup: it finds, waits for a fetch, or gives up.
LEMMA LookupEffect ==
  ASSUME Inv, NEW h \in Handlers, NEW kid \in KidsOrNone, Jwks!GetCachedJwk(h, kid)
  PROVE  /\ UNCHANGED <<keys, age, published, signing, missed>>
         /\ \E result \in {"found", "waiting", "unknown", "unavailable"} :
              /\ lookup' = [lookup EXCEPT ![h] = [kid |-> kid, is |-> result]]
              /\ result = "waiting" => fetch'.is # "none"
              /\ result = "unknown" => Jwks!Fresh /\ kid \notin keys /\ fetch.is = "none" /\ since < MinRefetch
              /\ \/ UNCHANGED <<fetch, since, quiet, behind>>
                 \/ since >= MinRefetch /\ Jwks!FetchJwksOnce
BY DEF Jwks!GetCachedJwk, Jwks!Found, Jwks!FetchJwksOnce, Jwks!server

\* The cache keeps to its types.
LEMMA KeysTyped == ASSUME Inv, KeysStep PROVE KeysInv'
<1>1. ASSUME NEW h \in Handlers, NEW kid \in KidsOrNone, Jwks!GetCachedJwk(h, kid) PROVE KeysInv'
  BY <1>1, Times, LookupEffect, FetchBegins DEF Inv, KeysInv
<1>2. ASSUME NEW h \in Handlers, Jwks!Return(h) PROVE KeysInv'
  BY <1>2 DEF Jwks!Return, Jwks!server, Inv, KeysInv
<1>3. CASE Jwks!Serve
  BY <1>3 DEF Jwks!Serve, Jwks!server, Inv, KeysInv
<1>4. CASE Jwks!FetchJwks
  <2>1. fetch.keys \subseteq Jwks!Kids /\ Jwks!NoFetch \in [is : {"none", "sent", "served"}, keys : SUBSET Jwks!Kids]
    BY DEF Inv, KeysInv, Jwks!NoFetch
  <2>2. /\ fetch' = Jwks!NoFetch /\ keys' = fetch.keys /\ age' = 0 /\ missed' = FALSE
        /\ UNCHANGED <<since, published, signing, quiet, behind>>
    BY <1>4 DEF Jwks!FetchJwks, Jwks!server
  <2>3. age' \in 0..KeysTtl
    BY <2>2, Times
  <2> QED BY <2>1, <2>2, <2>3 DEF Inv, KeysInv
<1>5. CASE Jwks!FetchFails
  BY <1>5 DEF Jwks!FetchFails, Jwks!NoFetch, Jwks!server, Inv, KeysInv
<1>6. CASE Jwks!Pass
  BY <1>6, Times DEF Jwks!Pass, Jwks!Older, Jwks!server, Inv, KeysInv
<1>7. CASE Jwks!Rotate
  <2>1. PICK k \in Jwks!Kids : Jwks!Publish(k) \/ Jwks!Sign(k) \/ Jwks!Withdraw(k)
    BY <1>7 DEF Jwks!Rotate
  <2>2. UNCHANGED <<keys, missed, age, since, quiet, fetch>>
    BY <2>1 DEF Jwks!Publish, Jwks!Sign, Jwks!Withdraw
  <2>3. published' \subseteq Jwks!Kids /\ behind' \subseteq Jwks!Kids
    BY <2>1 DEF Jwks!Publish, Jwks!Sign, Jwks!Withdraw, Inv, KeysInv
  <2>4. signing' \in published'
    <3>1. k \in Nat /\ signing \in Nat
      BY DEF Inv, KeysInv, Jwks!Kids
    <3> QED BY <2>1, <3>1 DEF Jwks!Publish, Jwks!Sign, Jwks!Withdraw, Inv, KeysInv
  <2> QED BY <2>2, <2>3, <2>4 DEF Inv, KeysInv
<1>8. CASE UNCHANGED jwks
  BY <1>8 DEF jwks, Inv, KeysInv
<1> QED BY <1>1, <1>2, <1>3, <1>4, <1>5, <1>6, <1>7, <1>8 DEF KeysStep

\* Whoever waits for a fetch waits for one under way.
LEMMA LookupStep == ASSUME Inv, KeysStep PROVE LookupInv'
<1>0. lookup \in [Handlers -> LookupType] /\ \A h \in Handlers : lookup[h].is = "waiting" => fetch.is # "none"
  BY DEF Inv, LookupInv
<1>1. ASSUME NEW h \in Handlers, NEW kid \in KidsOrNone, Jwks!GetCachedJwk(h, kid) PROVE LookupInv'
  <2>1. PICK result \in {"found", "waiting", "unknown", "unavailable"} :
          /\ lookup' = [lookup EXCEPT ![h] = [kid |-> kid, is |-> result]]
          /\ result = "waiting" => fetch'.is # "none"
          /\ fetch' = fetch \/ fetch'.is = "sent"
    BY <1>1, LookupEffect, FetchBegins
  <2>2. [kid |-> kid, is |-> result] \in LookupType
    BY DEF LookupType
  <2>3. lookup' \in [Handlers -> LookupType]
    BY <1>0, <2>1, <2>2
  <2>4. \A g \in Handlers : lookup'[g].is = "waiting" => fetch'.is # "none"
    BY <1>0, <2>1
  <2> QED BY <2>3, <2>4 DEF LookupInv
<1>2. ASSUME NEW h \in Handlers, Jwks!Return(h) PROVE LookupInv'
  <2>1. lookup' = [lookup EXCEPT ![h] = Jwks!NoLookup] /\ fetch' = fetch
    BY <1>2 DEF Jwks!Return
  <2>2. Jwks!NoLookup \in LookupType /\ Jwks!NoLookup.is = "idle"
    BY DEF Jwks!NoLookup, LookupType, KidsOrNone
  <2> QED BY <1>0, <2>1, <2>2 DEF LookupInv
<1>3. CASE Jwks!Serve \/ Jwks!Pass \/ Jwks!Rotate \/ UNCHANGED jwks
  <2>1. lookup' = lookup /\ (fetch' = fetch \/ fetch'.is = "served")
    BY <1>3 DEF Jwks!Serve, Jwks!Pass, Jwks!Rotate, Jwks!Publish, Jwks!Sign, Jwks!Withdraw, jwks
  <2> QED BY <1>0, <2>1 DEF LookupInv
<1>4. ASSUME NEW found, NEW otherwise \in {"unknown", "unavailable"}, Jwks!Settle(found, otherwise) PROVE LookupInv'
  <2>1. ASSUME NEW h \in Handlers PROVE lookup'[h] \in LookupType /\ lookup'[h].is # "waiting"
    <3> DEFINE r == [lookup[h] EXCEPT !.is = IF lookup[h].kid \in found THEN "found" ELSE otherwise]
    <3>1. lookup[h] \in LookupType
      BY <1>0
    <3>2. r \in LookupType /\ r.is # "waiting"
      BY <3>1 DEF LookupType
    <3>3. lookup'[h] = IF lookup[h].is = "waiting" THEN r ELSE lookup[h]
      BY <1>4 DEF Jwks!Settle
    <3> QED BY <3>1, <3>2, <3>3
  <2>2. lookup' \in [Handlers -> LookupType]
    BY <1>4, <2>1 DEF Jwks!Settle
  <2> QED BY <2>1, <2>2 DEF LookupInv
<1>5. CASE Jwks!FetchJwks \/ Jwks!FetchFails
  BY <1>4, <1>5 DEF Jwks!FetchJwks, Jwks!FetchFails
<1> QED BY <1>1, <1>2, <1>3, <1>5 DEF KeysStep

\* The two clocks go together.
LEMMA SinceStep == ASSUME Inv, KeysStep PROVE SinceInv'
<1>1. ASSUME NEW h \in Handlers, NEW kid \in KidsOrNone, Jwks!GetCachedJwk(h, kid) PROVE SinceInv'
  BY <1>1, LookupEffect, FetchBegins DEF Inv, SinceInv
<1> QED
  BY <1>1 DEF KeysStep, Jwks!Return, Jwks!Serve, Jwks!FetchJwks, Jwks!FetchFails, Jwks!Pass, Jwks!Rotate,
     Jwks!Publish, Jwks!Sign, Jwks!Withdraw, jwks, Inv, SinceInv

\* The keys the cache lacks are on record.
LEMMA BehindStep == ASSUME Inv, KeysStep PROVE BehindInv'
<1>0. /\ fetch.is = "served" => published \subseteq fetch.keys \cup behind
      /\ fetch.is = "none" /\ Jwks!Fresh /\ ~missed => published \subseteq keys \cup behind
      /\ age \in 0..KeysTtl
  BY DEF Inv, BehindInv, KeysInv
<1>1. ASSUME NEW h \in Handlers, NEW kid \in KidsOrNone, Jwks!GetCachedJwk(h, kid) PROVE BehindInv'
  BY <1>0, <1>1, LookupEffect, FetchBegins DEF BehindInv, Jwks!Fresh
<1>2. ASSUME NEW h \in Handlers, Jwks!Return(h) PROVE BehindInv'
  BY <1>0, <1>2 DEF Jwks!Return, Jwks!server, BehindInv, Jwks!Fresh
<1>3. CASE Jwks!Serve
  BY <1>0, <1>3 DEF Jwks!Serve, Jwks!server, BehindInv
<1>4. CASE Jwks!FetchJwks
  BY <1>0, <1>4 DEF Jwks!FetchJwks, Jwks!NoFetch, Jwks!server, BehindInv
<1>5. CASE Jwks!FetchFails
  BY <1>5 DEF Jwks!FetchFails, Jwks!NoFetch, BehindInv
<1>6. CASE Jwks!Pass
  <2>1. (Jwks!Fresh)' => Jwks!Fresh
    BY <1>0, <1>6 DEF Jwks!Pass, Jwks!Older, Jwks!Fresh
  <2>2. UNCHANGED <<fetch, published, behind, keys, missed>>
    BY <1>6 DEF Jwks!Pass, Jwks!server
  <2> QED BY <1>0, <2>1, <2>2 DEF BehindInv
<1>7. CASE Jwks!Rotate
  <2>1. PICK k \in Jwks!Kids : Jwks!Publish(k) \/ Jwks!Sign(k) \/ Jwks!Withdraw(k)
    BY <1>7 DEF Jwks!Rotate
  <2>2. /\ UNCHANGED <<fetch, keys, missed, age>>
        /\ \/ published' = published \cup {k} /\ behind' = behind \cup {k}
           \/ published' \subseteq published /\ behind' = behind
    BY <2>1 DEF Jwks!Publish, Jwks!Sign, Jwks!Withdraw
  <2> QED BY <1>0, <2>2 DEF BehindInv, Jwks!Fresh
<1>8. CASE UNCHANGED jwks
  BY <1>0, <1>8 DEF jwks, BehindInv, Jwks!Fresh
<1> QED BY <1>1, <1>2, <1>3, <1>4, <1>5, <1>6, <1>7, <1>8 DEF KeysStep

-----------------------------------------------------------------------------
(* The theorems *)

LEMMA InvInit == RouteInit => Inv
<1> SUFFICES ASSUME RouteInit PROVE Inv OBVIOUS
<1>1. KeysInv
  <2>1. /\ keys = {} /\ age = KeysTtl /\ fetch = Jwks!NoFetch /\ since = MinRefetch /\ quiet = MinRefetch
        /\ published = {1} /\ signing = 1 /\ behind = {} /\ missed = FALSE
    BY DEF RouteInit, Jwks!Init
  <2>2. 1 \in Jwks!Kids
    BY Times DEF Jwks!Kids
  <2>3. Jwks!NoFetch \in [is : {"none", "sent", "served"}, keys : SUBSET Jwks!Kids]
    BY DEF Jwks!NoFetch
  <2>4. age \in 0..KeysTtl /\ since \in 0..MinRefetch /\ quiet \in 0..MinRefetch
    BY <2>1, Times
  <2> QED BY <2>1, <2>2, <2>3, <2>4 DEF KeysInv
<1>2. LookupInv
  <2>1. Jwks!NoLookup \in LookupType /\ Jwks!NoLookup.is = "idle"
    BY DEF Jwks!NoLookup, LookupType, KidsOrNone
  <2> QED BY <2>1 DEF RouteInit, Jwks!Init, LookupInv
<1>3. SignedInv
  <2>1. signed = <<>> /\ notices = <<>>
    BY DEF RouteInit, Started
  <2>2. <<>> \in Seq(Jwks!Kids) /\ <<>> \in Seq({})
    OBVIOUS
  <2> QED BY <2>1, <2>2 DEF SignedInv
<1>4. SinceInv /\ BehindInv
  BY Times DEF RouteInit, Jwks!Init, SinceInv, BehindInv, Jwks!NoFetch, Jwks!Fresh
<1> QED BY <1>1, <1>2, <1>3, <1>4 DEF Inv

LEMMA InvStep == Inv /\ [RouteNext]_routeVars => Inv'
<1> SUFFICES ASSUME Inv, [RouteNext]_routeVars PROVE Inv' OBVIOUS
<1>1. KeysStep
  BY RouteStep
<1> QED BY <1>1, SignedStep, KeysTyped, LookupStep, SinceStep, BehindStep DEF Inv

LEMMA InvHolds == RouteSpec => []Inv
BY InvInit, InvStep, PTL DEF RouteSpec

\* The types of the key cache, and whoever waits for its fetch waits for one under way.
THEOREM KeysTypesHold == RouteSpec => []KeysTypeOK
<1>1. Inv => KeysTypeOK
  BY DEF Inv, KeysInv, LookupInv, LookupType, KidsOrNone, KeysTypeOK, Jwks!TypeOK
<1> QED BY <1>1, InvHolds, PTL

\* Nobody can drive requests to the server by posting tokens (getCachedJwk): two fetches are at
\* least the minimum interval apart, however many logout tokens are posted and fetches fail.
THEOREM FetchesAreSpaced == RouteSpec => FetchesSpaced
<1>1. Inv /\ [RouteNext]_routeVars
        => [fetch.is = "none" /\ fetch'.is = "sent" => quiet = MinRefetch]_(Jwks!vars)
  <2> SUFFICES ASSUME Inv, [RouteNext]_routeVars, fetch.is = "none", fetch'.is = "sent"
               PROVE  quiet = MinRefetch
    OBVIOUS
  <2>1. KeysStep
    BY RouteStep
  <2>2. PICK h \in Handlers, kid \in KidsOrNone : Jwks!GetCachedJwk(h, kid)
    BY <2>1 DEF KeysStep, Jwks!Return, Jwks!Serve, Jwks!FetchJwks, Jwks!FetchFails, Jwks!Pass, Jwks!Rotate,
       Jwks!Publish, Jwks!Sign, Jwks!Withdraw, Jwks!NoFetch, jwks
  <2>3. since >= MinRefetch
    BY <2>2, LookupEffect
  <2> QED BY <2>3, Times DEF Inv, KeysInv, SinceInv
<1> QED BY <1>1, InvHolds, PTL DEF RouteSpec, FetchesSpaced, Jwks!FetchesSpaced

\* Only a key that is new, or withdrawn, is unknown (getCachedJwk), unless the last fetch failed.
THEOREM OnlyNewKeysAreUnknown == RouteSpec => UnknownIsNew
<1> DEFINE New(h) ==
      \/ lookup'[h].kid \notin published
      \/ missed'
      \/ lookup'[h].kid \in behind /\ (fetch.is # "none" \/ quiet < MinRefetch)
<1>1. ASSUME Inv, [RouteNext]_routeVars, NEW h \in Handlers, lookup'[h].is = "unknown", lookup[h].is # "unknown"
      PROVE  New(h)
  <2>0. KeysStep /\ lookup \in [Handlers -> LookupType] /\ missed \in BOOLEAN
    BY <1>1, RouteStep DEF Inv, LookupInv, KeysInv
  <2>1. ASSUME NEW g \in Handlers, NEW kid \in KidsOrNone, Jwks!GetCachedJwk(g, kid) PROVE New(h)
    <3>1. PICK result \in {"found", "waiting", "unknown", "unavailable"} :
            /\ lookup' = [lookup EXCEPT ![g] = [kid |-> kid, is |-> result]]
            /\ result = "unknown" => Jwks!Fresh /\ kid \notin keys /\ fetch.is = "none" /\ since < MinRefetch
      BY <1>1, <2>1, LookupEffect
    <3>2. g = h /\ result = "unknown" /\ lookup'[h].kid = kid
      BY <1>1, <2>0, <3>1
    <3>3. missed' = missed
      BY <1>1, <2>1, LookupEffect
    <3> QED BY <1>1, <3>1, <3>2, <3>3 DEF Inv, BehindInv, SinceInv
  <2>2. CASE Jwks!FetchJwks
    <3>1. lookup'[h] = IF lookup[h].is = "waiting"
                       THEN [lookup[h] EXCEPT !.is = IF lookup[h].kid \in fetch.keys THEN "found" ELSE "unknown"]
                       ELSE lookup[h]
      BY <2>2 DEF Jwks!FetchJwks, Jwks!Settle
    <3>2. lookup[h] \in LookupType
      BY <2>0
    <3>3. lookup'[h].kid = lookup[h].kid /\ lookup[h].kid \notin fetch.keys
      BY <1>1, <3>1, <3>2 DEF LookupType
    <3> QED BY <1>1, <2>2, <3>3 DEF Jwks!FetchJwks, Inv, BehindInv
  <2>3. CASE Jwks!FetchFails
    BY <2>3 DEF Jwks!FetchFails
  <2>4. ASSUME NEW g \in Handlers, Jwks!Return(g) PROVE FALSE
    <3>1. lookup' = [lookup EXCEPT ![g] = Jwks!NoLookup] /\ Jwks!NoLookup.is = "idle"
      BY <2>4 DEF Jwks!Return, Jwks!NoLookup
    <3> QED BY <1>1, <2>0, <3>1
  <2>5. CASE lookup' = lookup
    BY <1>1, <2>5
  <2> HIDE DEF New
  <2> QED
    BY <2>0, <2>1, <2>2, <2>3, <2>4, <2>5 DEF KeysStep, Jwks!Serve, Jwks!Pass, Jwks!Rotate, Jwks!Publish,
       Jwks!Sign, Jwks!Withdraw, jwks
<1>2. Inv /\ [RouteNext]_routeVars
        => [\A l \in Handlers : lookup'[l].is = "unknown" /\ lookup[l].is # "unknown" =>
              \/ lookup'[l].kid \notin published
              \/ missed'
              \/ lookup'[l].kid \in behind /\ (fetch.is # "none" \/ quiet < MinRefetch)]_(Jwks!vars)
  BY <1>1
<1> QED BY <1>2, InvHolds, PTL DEF RouteSpec, UnknownIsNew, Jwks!UnknownIsNew

=============================================================================
