------------------------------- MODULE JwksCache -------------------------------
(***************************************************************************)
(* The server's keys as getCachedJwk sees them: a cached key set with its  *)
(* age, one fetch under way that every caller shares, and the time since   *)
(* the last one started.  Times are ages, which stop at the limit they are *)
(* compared with.                                                          *)
(***************************************************************************)
EXTENDS Naturals

CONSTANTS
  Lookups,     \* the callers of getCachedJwk at once
  MaxKids,     \* bound: the keys the server has one after the other
  CacheTtl,    \* JWKS_CACHE_TTL_MS
  MinRefetch   \* JWKS_MIN_REFETCH_INTERVAL_MS

VARIABLES
  keys,        \* jwksCache: the key identifiers
  age,         \* its age
  fetch,       \* jwksFetch: none, sent, or the answer on its way, with the key set in it
  since,       \* the age of jwksFetchStartedAt
  lookup,      \* the callers: the key identifier, and what came of it
  published,   \* the server: its key set
  signing,     \* the server: the key it signs with
  \* History, read by properties only:
  quiet,       \* the time since a fetch was sent
  behind,      \* keys published since a fetch was sent
  missed       \* the last fetch failed

server == <<published, signing>>
vars   == <<keys, age, fetch, since, lookup, server, quiet, behind, missed>>

\* Key identifiers, and one the server never has.
Kids  == 1..MaxKids
NoKid == 0

NoFetch  == [is |-> "none", keys |-> {}]
NoLookup == [kid |-> NoKid, is |-> "idle"]

Fresh == age < CacheTtl

\* A fetch is sent.
FetchJwksOnce ==
  /\ fetch.is = "none"
  /\ fetch' = [is |-> "sent", keys |-> {}] /\ since' = 0
  /\ quiet' = 0 /\ behind' = {}

Found(l, kid, result) == lookup' = [lookup EXCEPT ![l] = [kid |-> kid, is |-> result]]

\* A bug: a key that is not cached is unknown while the cached ones are fresh.
CachedOnly(l, kid) ==
  /\ lookup[l].is = "idle"
  /\ \/ /\ Fresh
        /\ Found(l, kid, IF kid \in keys THEN "found" ELSE "unknown")
        /\ UNCHANGED <<fetch, since, quiet, behind>>
     \/ /\ ~Fresh
        /\ \/ fetch.is # "none" /\ UNCHANGED <<fetch, since, quiet, behind>>
           \/ FetchJwksOnce
        /\ Found(l, kid, "waiting")
  /\ UNCHANGED <<keys, age, server, missed>>

\* A key that is cached is found.  Else a fetch is shared, or started where none was lately; or the
\* key is unknown, where the cached ones are fresh, and there are no keys, where they are not.
GetCachedJwk(l, kid) ==
  /\ lookup[l].is = "idle"
  /\ \/ /\ Fresh /\ kid \in keys
        /\ Found(l, kid, "found") /\ UNCHANGED <<fetch, since, quiet, behind>>
     \/ /\ ~(Fresh /\ kid \in keys)
        /\ \/ fetch.is # "none" /\ UNCHANGED <<fetch, since, quiet, behind>>
           \/ since >= MinRefetch /\ FetchJwksOnce
        /\ Found(l, kid, "waiting")
     \/ /\ ~(Fresh /\ kid \in keys) /\ fetch.is = "none" /\ since < MinRefetch
        /\ Found(l, kid, IF Fresh THEN "unknown" ELSE "unavailable")
        /\ UNCHANGED <<fetch, since, quiet, behind>>
  /\ UNCHANGED <<keys, age, server, missed>>

\* The server answers with the keys it has.
Serve ==
  /\ fetch.is = "sent" /\ fetch' = [is |-> "served", keys |-> published]
  /\ UNCHANGED <<keys, age, since, lookup, server, quiet, behind, missed>>

\* The fetch settles for every caller that shares it.
Settle(found, otherwise) ==
  lookup' = [l \in Lookups |->
    IF lookup[l].is = "waiting"
    THEN [lookup[l] EXCEPT !.is = IF lookup[l].kid \in found THEN "found" ELSE otherwise]
    ELSE lookup[l]]

\* The answer arrives, and is cached.
FetchJwks ==
  /\ fetch.is = "served" /\ fetch' = NoFetch
  /\ keys' = fetch.keys /\ age' = 0
  /\ Settle(fetch.keys, "unknown") /\ missed' = FALSE
  /\ UNCHANGED <<since, server, quiet, behind>>

\* A bug: a fetch that failed does not count.
FetchFailsUncounted ==
  /\ fetch.is # "none" /\ fetch' = NoFetch /\ since' = MinRefetch
  /\ Settle({}, "unavailable") /\ missed' = TRUE
  /\ UNCHANGED <<keys, age, server, quiet, behind>>

\* A bug: who shares a fetch that fails is not told.
FetchFailsSilently ==
  /\ fetch.is # "none" /\ fetch' = NoFetch /\ missed' = TRUE
  /\ UNCHANGED <<keys, age, since, lookup, server, quiet, behind>>

\* The fetch fails for every caller, and the cache stays as it is.
FetchFails ==
  /\ fetch.is # "none" /\ fetch' = NoFetch
  /\ Settle({}, "unavailable") /\ missed' = TRUE
  /\ UNCHANGED <<keys, age, since, server, quiet, behind>>

\* The caller goes on with the result.
Return(l) ==
  /\ lookup' = [lookup EXCEPT ![l] = NoLookup]
  /\ UNCHANGED <<keys, age, fetch, since, server, quiet, behind, missed>>

-----------------------------------------------------------------------------
(* The server's keys, and time *)

Publish(k) ==
  /\ k \in Kids /\ \A i \in published : i < k
  /\ published' = published \cup {k} /\ behind' = behind \cup {k}
  /\ UNCHANGED <<keys, age, fetch, since, lookup, signing, quiet, missed>>

\* A newer key signs from now on.
Sign(k) ==
  /\ k \in published /\ signing < k /\ signing' = k
  /\ UNCHANGED <<keys, age, fetch, since, lookup, published, quiet, behind, missed>>

Withdraw(k) ==
  /\ k \in published /\ k < signing /\ published' = published \ {k}
  /\ UNCHANGED <<keys, age, fetch, since, lookup, signing, quiet, behind, missed>>

Older(a, limit) == IF a < limit THEN a + 1 ELSE a

Pass ==
  /\ age' = Older(age, CacheTtl) /\ since' = Older(since, MinRefetch) /\ quiet' = Older(quiet, MinRefetch)
  /\ UNCHANGED <<keys, fetch, lookup, server, behind, missed>>

Rotate == \E k \in Kids : Publish(k) \/ Sign(k) \/ Withdraw(k)

Init ==
  /\ keys = {} /\ age = CacheTtl /\ fetch = NoFetch /\ since = MinRefetch
  /\ lookup = [l \in Lookups |-> NoLookup]
  /\ published = {1} /\ signing = 1
  /\ quiet = MinRefetch /\ behind = {} /\ missed = FALSE

-----------------------------------------------------------------------------
(* Properties *)

\* Every variable keeps to its type, and whoever waits for a fetch waits for one under way.
TypeOK ==
  /\ keys \subseteq Kids /\ age \in 0..CacheTtl /\ {since, quiet} \subseteq 0..MinRefetch
  /\ fetch \in [is : {"none", "sent", "served"}, keys : SUBSET Kids]
  /\ lookup \in [Lookups -> [kid : Kids \cup {NoKid},
                             is : {"idle", "waiting", "found", "unknown", "unavailable"}]]
  /\ \A l \in Lookups : lookup[l].is = "waiting" => fetch.is # "none"
  /\ published \subseteq Kids /\ signing \in published /\ behind \subseteq Kids /\ missed \in BOOLEAN

\* Nobody can drive requests to the server (getCachedJwk): a fetch is sent no sooner than the
\* minimum interval after the one before it, however that one went.
FetchesSpaced == [][fetch.is = "none" /\ fetch'.is = "sent" => quiet = MinRefetch]_vars

\* A key is unknown only where the server has withdrawn it, or has published it since the last
\* fetch was sent, and that is under way still, or younger than the minimum interval; or where the
\* last fetch failed, and the keys cached before it are still fresh.
UnknownIsNew ==
  [][\A l \in Lookups : lookup'[l].is = "unknown" /\ lookup[l].is # "unknown" =>
       \/ lookup'[l].kid \notin published
       \/ missed'
       \/ lookup'[l].kid \in behind /\ (fetch.is # "none" \/ quiet < MinRefetch)]_vars
=============================================================================
