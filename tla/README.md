# ThunderID JavaScript SDKs: a TLA+ model

This directory holds TLA+ specifications of the session handling in the ThunderID JavaScript
SDKs, the TLC configurations that check them on small instances, and theorems about them that
TLAPS proves. Paths below are relative to `packages/`.

## The system

The repository is a monorepo of SDKs for applications that sign users in with an OpenID Connect
server (ThunderID). What carries state is sessions: who is signed in, with which tokens, and when
that ends.

| Component | State | Operations | Talks to |
| --- | --- | --- | --- |
| Node session service (`node`, on `javascript`) | one store of `SessionData` per session id; an index from `sid` and `sub` to session ids; refreshes in flight; logout tokens handled | sign-in, `isSignedIn`, `refreshAccessToken`, `clearSession`, `revokeAccessToken`, `handleBackchannelLogout` | the server's token and revocation endpoints; the store, by `await` |
| Logout records (`node/src/utils/LoggedOutSessions.ts`) | a store of records by `sid` and by `sub`, with a lifetime | `record`, `isLoggedOut` | the store |
| Next.js session (`nextjs`) | a signed cookie in the browser, nothing on the server | proxy (verify, refresh, re-check, clear), `refreshToken` action, callback, `clearSession`, back-channel route | the browser, the token endpoint, the Node client, the logout records |
| Nuxt session (`nuxt`) | the same | `useServerSession`, `getValidAccessToken`, callback, sign-out, back-channel route | the same |
| Authorization request (`javascript`) | `state`, PKCE verifier and unit of each sign-in under way, by an index | `getSignInUrl`, `requestAccessToken` | browser storage, the token endpoint |
| Server key cache (`javascript`) | a key set with its age, one fetch in flight | `getCachedJwk` | the JWKS endpoint, the back-channel routes |
| Polling (`javascript`) | an interval, an abort signal | device and CIBA polling | the token endpoint |
| Browser refresh (`browser`) | a timer, two flags, the stored tokens | timer, 401 handlers, `refreshAccessToken`, `startAutoRefreshToken`, sign-in, sign-out, `revokeAccessToken` | the token endpoint, the application's requests |
| Backend-for-frontend client (`browser`) | the cached session, whether the user was signed in, one refresh in flight, an access token | `getSession`, `checkSession`, `refresh`, proxy requests, `requestAccessToken`, `signOut` | the backend |
| Cookie chunks (`node`, `nextjs`, `nuxt`) | cookies `name`, `name.0`, `name.1`, ... | set, get, delete | the browser |
| User interface, routers, management API, themes, i18n | none of the above | | |

What is hard about it:

- every `await` lets another request in, and the values read before it are used after it (refresh,
  sign-in, index rewriting, the logout handler);
- a refresh token is rotated by the server, so a request that is repeated, or sent by two callers,
  is refused and may end a good session;
- back-channel logout tokens arrive late, twice or out of order, are retried after a failure, and
  must not be accepted twice;
- a cookie cannot be deleted by the server, so a record must outlive every cookie it ends;
- stores fail, and a session write is started without being awaited;
- a page has several ways to refresh, each with a flag of its own or none, and a timer that is
  remembered in the very data a sign-out removes;
- all tabs and iframes of a browser share one slot for the state and the verifier of a sign-in.

Correctness, per component: a refresh token is never sent after its replacement arrived; one
refresh runs per session; everyone who awaits it is answered; a logout ends all it names and
nothing else, and is handled in the end; a session recorded as ended is not served, and no logout
takes back an earlier one; a cookie is deleted only when it is dead; keys are fetched no more often
than the interval, and a logout is not refused for a key the server publishes; what a page caches of
its session is current and watched; a page's refreshes go on, one at a time, and stop with the
sign-out; a code is sent once, with its own verifier, at its own unit. `PROJECT.json` lists the
hazards with their lines and the properties that cover them.

## Modules

### NodeSession

The Node session service. One *request* is one call of the client by the application, or one
logout token being handled; `req[r].pc` is the `await` it is suspended at, the other fields are
its local variables.

| State | Code |
| --- | --- |
| `store` | `SessionData` by session id (`StorageManager`), reduced to the sign-in it is of, its refresh token and whether its access token is current |
| `writes` | session writes that were started and have not landed: `setSessionData` does not await its write |
| `index` | `SessionIndex`, by `sid` and by `sub` |
| `inFlight` | `_refreshesInFlight`: which request runs the refresh of a session |
| `handled` | `_handledLogoutTokens` |
| `logins`, `ended`, `notices` | the authorization server, as far as the code depends on it |
| `spent`, `late`, `endedBy`, `loggedOut` | history, read by properties only |

Actions: `Check`, `CheckRead`, `CheckForget`, `CheckRemove` are `isSignedIn`; `Refresh`,
`RefreshSend`, `RefreshReceive`, `RefreshSettles` are `refreshAccessToken` and
`handleTokenResponse`, with `ServerRefresh` and `RefreshFails` for the fetch; `SwitchCallback`,
`ServerRedeem`, `RedeemFails`, `RedeemReceive`, `IndexSession` are `signIn`; `IndexRead`,
`IndexRemove`, `IndexSet` are the store calls of `SessionIndex.add` and `remove`; `Revoke`,
`Clear`, `Forget`, `RevokeSend`, `RevokeFails`, `ClearRemove` are `revokeAccessToken` and
`clearSession`; `LogoutFind`, `LogoutNext`, `LogoutClear`, `LogoutDone` are
`handleBackchannelLogout`; `WriteLands`, `IndexReadFails`, `StoreFails` are the store.

Abstractions, all of data or of steps nothing else can tell apart:

- A read of an index entry and the check that its sessions are alive (`dropEndedSessions`) are one
  step, and so are the two reads in the base class's `isSignedIn`.
- The base of a merge in a session write is the session when the write starts; of it only the old
  refresh token is kept, as in `handleTokenResponse`.
- `revokeAccessToken` starts the removal of the session without awaiting it; it lands with the return.
- ID tokens carry `sid` and `sub`; the answer of a refresh carries an ID token and may carry a
  refresh token, the answer of a sign-in always does.
- The signature and claims of a logout token are taken as checked; the record of a handled token
  does not expire.
- A sign-in's state and PKCE checks are `AuthorizationRequest`.

`LocalStore` says whether a session write lands before its own request goes on. It does with
`MemoryCacheStore`; with a store across a network the code gives no such order. `FreshIds` says
whether the application gives every sign-in a session id of its own, as the comments recommend.

### CookieSession

The Next.js and Nuxt sessions and the logout records. A *request* of a browser takes one of four
paths: `proxy` (thunderIDProxy) and `action` (refreshToken) on Next.js, `session`
(useServerSession) and `token` (getValidAccessToken) on Nuxt; a callback of a sign-in is a request
too, and so is a sign-out. A *handler* is one logout token in the back-channel route.

| State | Code |
| --- | --- |
| `cookie` | the session cookie of each browser: what the JWT says, and when the browser drops it |
| `req` | `check`: verifySessionToken; `verify`: verifySessionTokenForRefresh; `fetch`: the token request; `mint`: createSessionToken; `recheck`: the proxy's second verifySessionToken; `answer`: the response on its way |
| `post` | `handle`: handleBackchannelLogout; `read`: record; `write`: the store's set |
| `records` | `LoggedOutSessions` |
| `handled` | `_handledLogoutTokens` |
| `closed`, `revived`, `replayed`, `failed` | history |

`Arrive` is the browser sending its cookie, `Deliver` the browser applying what the response says
of the cookie; in between, `Check`, `Verify`, `ServerRefresh`, `RefreshFails`, `Mint` and
`Recheck` are the path. `Post`, `Handle`, `Read`, `Write`, `RecordFails` are the route. Time is in
seconds, and a record, a cookie, a JWT and an access token end at their own times. On Next.js the
JWT ends with the access token and its signature alone lets it be refreshed; on Nuxt the JWT lasts
as long as the cookie.

Abstractions: the two reads of `isLoggedOut` are one step; the configuration read is part of the
step before it; the cookie is one value, not its chunks; every sign-in has a refresh token; the
refresh action is a request by itself, without the proxy in front of it; responses are not lost;
`handleBackchannelLogout` itself (the in-memory sessions) is one step here, and `NodeSession`
takes it apart; the `onLogout` hook and the expiry of handled tokens are left out. No request
takes longer than `MaxDelay` seconds: the pass of `cookie_next` needs
`AccessTtl + MaxDelay <= CookieTtl` and `MaxDelay <= Tolerance`, which the defaults (an hour, a
day, a tolerance of 60 s) satisfy for any request shorter than a minute; `EndedIsRefused` is proved
from these two. `ClearedIsDead` asks for a logout token that names the cookie, not for a record that
still refuses it: the record may run out between the proxy's check and the browser's answer.

### LogoutLedger

What the records of ended sessions promise, without stores, keys, handlers or cookies: for each
server session and each time a session may have begun, until when it is refused. `Record` is a
logout that takes effect, for the sessions it reaches; it never shortens a refusal. `CookieSession`
implements it under the mapping `Ledger` (`refused` is what `isLoggedOut` answers about a session,
`RefusedUntil`; `issued` are the logout tokens): every step of a handler that stores a record is a
`Record` of the ledger, every other step is a stutter. With one handler this holds
(`LogoutsAreKept`); with two it does not, see "Runs".

### JwksCache and LogoutRoute

`JwksCache` is `getCachedJwk` with `fetchJwksOnce` and `fetchJwks`. Its callers are `Lookups`;
`keys` with their `age` are `jwksCache`, `fetch` is `jwksFetch` (none, sent, or the answer on its
way), `since` is the age of `jwksFetchStartedAt`, `published` and `signing` are the server's keys,
which change by `Publish`, `Sign` and `Withdraw`. `GetCachedJwk` is the code up to its `await`;
`FetchJwks` and `FetchFails` settle the fetch for everyone who shares it; `Pass` is time. A time is
kept as an age that stops at the limit it is compared with, so no bound on time is needed.

`LogoutRoute` composes it with `CookieSession`: a handler of the back-channel route verifies a
token (`Receive`, or `Stray` for a token nobody issued), and goes on to `Post` of `CookieSession`
when the key was found (`Verified`), answers 400 when it is unknown (`Unknown`: the server does not
post the token again) and 500 when there are no keys (`Unavailable`: it does). It starts with one
user signed in and leaves out browser requests and the clock of the cookies: keys live minutes, a
cookie a day. A failed fetch counts against the same `MaxFaults` as a failed store.

### BackendSession

A page whose sign-in runs on a backend.

| State | Code |
| --- | --- |
| `session` | `BackendClient.session`: no promise, the promise of a read under way, or a settled one |
| `hasLoadedSession` | the same name |
| `wasSignedIn` | the same name; it names the sign-in the page takes for current |
| `refreshing` | the shared refresh, its answer, or none |
| `call` | the page's requests: a read, a check, a proxied request, a token request, a sign-out; `refreshing` is the wait for the shared refresh |
| `token` | the access token `_getBackendAccessToken` stores, reduced to the sign-in it is of |
| `backend` | the backend's session |

`GetSession`, `CheckSession`, `Request`, `SignOut` and `Refresh` start calls; `Serve`,
`ServeRefresh`, `CallFails`, `RefreshFails`, `Expire`, `End`, `SignIn` are the backend and the
network; `AwaitRefresh`, `ReceiveRead`, `ReceiveCheck`, `ReceiveRequest`, `ReceiveSignOut` and
`ReceiveRefresh` are what the code does with an answer, up to its next `await`. The microtask that
defers `markSignedOut` runs before any other answer, so it is part of the step that queues it; it
replaces the cache then, whatever read is cached by that time.

Abstractions: the body of a read arrives with its status; the throttle of checks and a hidden page
are left out (a check may happen whenever a session is known); a page load, which starts a new
client, is not a step; a refresh answered with any error status signs the page out, as in the
code; the answer to a request that was sent again after a refresh is not looked at any further; the retry of a request that skips the proxy is left out.

### BrowserRefresh

A page that holds its tokens. A *run* is one refresh under way, by the timer, by the 401 handler of
`httpRequest`, by that of `httpRequestAll`, or by the application.

| State | Code |
| --- | --- |
| `store` | the session data: which sign-in, which refresh token, and whether the access token is *short* (lasts no longer than the 10 s buffer) |
| `timer`, `loose` | the timer whose number is stored, and the others that are set: a number that is overwritten, or removed by `clearSession`, leaves its timer on |
| `loading`, `refreshing` | `_isTokenRefreshLoading`, `_isTokenRefreshing` |
| `waiting` | requests in `retryFailedRequests` |
| `revoking` | `revokeAccessToken` under way, and where the timer is whose number it read |
| `erred` | the `REFRESH_ACCESS_TOKEN_ERROR` message on its way |
| `gens`, `ended` | the server: its current refresh token of each sign-in, and those it ended |

`Fire`, `StartAutoRefreshToken`, `RefreshNow`, `Reject` begin refreshes, `Receive` is
`refreshAccessToken` from the answer on (`Continue` is the nested
`refreshAccessTokenAutomatically`), `SignIn`, `SignOut`, `SignOutForError`, `Revoke`, `Revoked` are
the client's. `periodicTokenRefresh` is on. A sign-out stays in the page, as it does without an
`end_session_endpoint`; one that leaves the page ends the model's interest in it. The replay of a
custom grant after a refresh is left out.

### AuthorizationRequest

The authorization requests of one browser. `generatePkceStorageKey` looks for the indices in use in
the temporary data, while the verifiers are stored in the hybrid data: it finds none, so every
request gets index 0, and all requests share one `slot` (verifier, state, organization unit). Every
`await` of `getSignInUrl` (`Begin`, `StoreVerifier`, `StoreState`, `StoreUnit`, `Send`) and of
`requestAccessToken` (`Arrive`, `CheckState`, `RemoveState`, `ReadUnit`, `DropUnit`, `ReadVerifier`,
`DropVerifier`, then `Redeem` or `Lose`) is a step. A callback may be handled again. The server
redeems a code once, for its verifier, at the endpoint of its unit.

Abstractions: a state is its request, so states are distinct; hybrid data is read and written in
one step, as `localStorage` is (off a browser, a write is a read, an `await` and a write); the copy
of the verifier for `BrowserMemory`, the check that a completed switch is bound to its unit, and
callbacks that carry an error are left out.

## Runs

Bounds are in the cfg files. Two requests (callbacks, refreshes) at once suffice for each race
described here, one that reads and one that changes what was read; two sign-ins are the smallest
number where one can be taken for the other; the second server session tells "by sid" from "by sub".

| Run | Question | Outcome |
| --- | --- | --- |
| `node_refresh` | Is a session's refresh shared, and is a replaced refresh token never sent, beside a second sign-in under the id, expiry, clearing and a store fault? | holds, with a store in the process |
| `node_logout` | Does a logout by sid or sub end all it finds, and spare who signed in again, with a fault and a retry? | holds, with a new session id per sign-in |
| `node_beside` | Does it beside revocation and expiry of that session, whose id another sign-in may take over, and is that one left alone? | holds but for a refresh that was already under way, and for sessions the handler compared |
| `node_live` | Are those who joined a refresh answered, and is a logout token handled in the end, with a fault of every kind? | holds |
| `node_index` | Is every stored session in the index? | no: two sign-ins at once lose one |
| `cookie_next` | Next.js: after the route answered 200, is no later request served; is a token refused as a replay only when it was recorded; does a response delete only a dead cookie? | holds, up to a store that fails after the token was remembered, and a cookie that was replaced since the request |
| `cookie_records` | Nuxt: does a record refuse only sessions a logout token names, in any order and repeated; is a login served after its logout only through a cookie made by a request under way; do the records implement the ledger? | holds, with one handler at a time |
| `logout_route` | Are key fetches spaced, is a key unknown only when it is new, and is a logout recorded in the end, while keys change and fetches and the store fail? | holds, up to a key published since the last fetch, or since one that failed |
| `backend` | Is the cached session current and watched, are listeners told only of ended sessions, does a sign-out leave no token? | holds, up to the races each property names |
| `backend_live` | Is the end of a session noticed, and does every call return? | holds |
| `browser_refresh` | Do flags come down, does the chain of refreshes go on and stay single, does a session that was signed out stay out, are only dead sessions thrown out? | holds, up to the races each property names |
| `authorization` | Is a code sent once, with its own verifier, at its own unit, and does an undisturbed sign-in complete? | holds |

Where a property names an exception, the code does go wrong there, and a history variable records
that it happened. Without the exception, or with one constant changed, TLC finds the behaviour:

- `LogoutEndsNamed` without `late`: a refresh that was under way when the handler ended the session
  stores it again (`ThunderIDNodeClient.ts:333` promises the end of every session named).
- `ReplayedIsRecorded` without `\ failed`: the token is remembered as handled before its record is
  stored; when the store fails the route answers 500, and the server's retry is refused as a replay
  (`ThunderIDNodeClient.ts:477`, `nextjs/src/server/backchannelLogout.ts:115`).
- `ClearedIsDead` without the condition that the cookie is still the one the request carried: two
  requests refresh with one refresh token, and the one the server refuses deletes the cookie the
  other has renewed (`thunderIDProxy.ts:277`).
- `EndedUnlessRevived` with `AccessTtl > CookieTtl`: a cookie that was signed before the logout
  outlives the record (`nextjs/src/server/backchannelLogout.ts:117` says it cannot).
- `LogoutsAreKept` with two handlers: both read the record of a subject before either writes, and
  the earlier logout is written last (`LoggedOutSessions.ts:109` says a later one must not be
  replaced).
- `UnknownIsNew` without `missed'`: the comment in `getCachedJwk` explains why a failed fetch must
  lead to a 5xx, and the code ensures it when the cache has expired; when it has not, a token signed
  with a newly published key is answered 400 for half a minute after a failed fetch, and its logout
  is lost.
- `OwnUnit` without `inherited`: an abandoned sign-in leaves its organization unit in the slot, and
  the next one, bounded to none, is redeemed at that unit (`ThunderIDJavaScriptClient.ts:851`).
- In `BrowserRefresh`, each without its history variable: `KeptFresh` (`stalled`: a refresh that
  failed, or a short token met under the flag, leaves no timer; `raced`: a late answer brings a
  session back without one), `OneChain` (`twice`: a refresh by the application, or after a 401, sets
  a timer beside the stored one), `OnlyDeadThrownOut` (`excused`: of two refreshes the server refuses
  the later one, whose error signs out a live session) and `SignedOutStays` (`raced`: a refresh under
  way at the sign-out stores its answer).
- In `BackendSession`, `ToldIsEnded` without `doubted`, `OwnSignOutIsQuiet` and `NoTokenAfterSignOut`
  without `overtaken`: an answer that was under way at a sign-in or a sign-out is taken for one
  about the session there is now; and a session that has expired again by the time its read is
  retried is taken for ended (`BackendClient.ts:298`).
- `SentOnce` without `doubled`: two callbacks of one request pass the comparison before either
  removes the state.
- `SpentNeverSent` in `NodeSession_refresh.cfg` with `LocalStore = FALSE`: a write that is not
  awaited lands after the refresh has settled, and the next refresh sends the replaced token.
- `SignedInAgainStays` in `NodeSession_logout.cfg` with `FreshIds = FALSE` and one session id: a
  user who signs in again under the id while the handler waits is signed out.
- `LogoutEndsNamed` in `NodeSession_logout.cfg` with `MaxReadFaults = 1`: `SessionIndex.read` takes
  a fault for an empty entry, and the token is remembered as handled.
- `EndedIsRefused` in `CookieSession_records.cfg`: on Nuxt a cookie signed after the logout was
  recorded outlives the record, though the route's comment says no cookie can.

`node_index` ends in a violation of a sentence of the source, quoted under "findings" in
`PROJECT.json`.

Bounds: `MaxLogins`, `MaxGen` (rotations of a refresh token), `MaxNotices`, `MaxTime`, `MaxFaults`,
`MaxReadFaults`, `MaxCallbacks`, `MaxKids`. In `cookie_next` a cookie lasts 3 seconds and an access
token 2, in `cookie_records` 2 and 1; what matters is their order, and in `cookie_records`, where
records end during the run, `MaxTime > CookieTtl`. In `logout_route` keys live 3 ticks and fetches
are 2 apart: the order of the two is what the code relies on. `backend` has two sign-ins, three
refresh answers (the third is the smallest number where a session expires again after the refresh
of a read) and no faults, `backend_live` one of each. `browser_refresh` has two refreshes at once, two sign-ins and
one rotation each; a refresh, or its answer, may be lost at any time. `authorization` has two
requests, two callbacks of each and one lost token request. Symmetry is used in the safety runs
only, over sets whose members no constant tells apart (`LogoutsAreKept` is a safety property: the
ledger has no fairness).

The deadlock check is on for `NodeSession` and `BackendSession`; the bounds on sign-ins, tokens and
callbacks let the other models stop.

Fairness. `NodeSession`: weak, of the steps of a request, of the answer to its fetch (a fetch
settles, one way or the other), and of a write that was started; strong, of handing out a logout
token, because the server posts it again while it is refused or fails, and a process that serves
requests is idle again and again. `LogoutRoute`: weak, of the steps of a handler, of the fetch and
of time; strong, of posting, for the same reason, and not after a 400. `BackendSession`: weak, of
answers and what the page does with them; strong, of a check in some call of the model: the page's
number of calls is a bound of the model only, and the poll goes on while the page is visible.
`AuthorizationRequest`: weak, of the steps of a callback; strong, of its arrival, since the number
of handlers is a bound of the model. Nothing is assumed of when users call, of a user who signs in,
of key rotation, or of faults.

## Theorems

`NodeSession_proofs` proves, for every value of the constants that satisfies
`ConstantsAssumption`:

- `TypeCorrect`: `Spec => []TypeOK`. The inductive invariant `TypeInv` adds to the types that a
  request in a step of the index has a key to work on and a step to go on to, that sign-ins and
  logout tokens named in local variables were issued, and that a request in progress has a session.
- `RefreshIsShared`: `Spec => []OneRefreshPerSession`. `RunnerInv` says `inFlight[s] = r` exactly
  when `r` runs a refresh of `s`; it holds because the entry is set before the first `await` and
  deleted in the step in which the promise settles.
- `ReplacedTokenNotSent`: with `LocalStore`, `Spec => []SpentNeverSent`. That a replaced token is
  not sent depends on every place a token can be: `StoreInv` (no stored token was replaced unless
  the refresh that replaced it is about to write), `WriteInv` (what a started write holds),
  `SentInv` and `RedeemInv` (what an answer under way may hold), and `SpentOld` (a token the
  process has a replacement of is older than the server's). Actions that move no token are handled
  by one frame lemma (`Quiet`), the six that do by a lemma each. Without `LocalStore` the theorem
  is false (see above).

`NodeLogout_proofs` proves what a back-channel logout of the same model ends, over any store:

- `OthersAreLeft`: `Spec => []OnlyNamedEnded`. `ComparedInv` says that what a handler is on its way
  to end matched its token when it was compared; a handler gets to that point only by the
  comparison (`Carries`), and the server never changes whose a login is (`ServerGrows`).
- `NewcomersStay`: with `FreshIds`, `Spec => []SignedInAgainStays`. `BegunInv` says that the index
  gives a session a time by which a login of it had begun, also in entries read and not yet written
  back; so what a handler has to end is reached by its token (`ReachedInv`), and with one login a
  session (`FreshInv`) that is the login it ends. `PlaceInv`, that a login is stored, written and
  refreshed under its own session only, ties the two. Without `FreshIds` the
  theorem is false (see above).
- `NamedAreEnded`: `Spec => [](readFaults = 0 => LogoutEndsNamed)`. `NamedInv` says that of each login
  a handler found, or a handled token named, what is stored outside of the sessions the handler has
  left was written back by a refresh. For a step to break it the login would have to be stored by a
  sign-in after it was found; `NewInv` says that a login whose answer or write is under way is
  nowhere else, so nobody has found it. The hypothesis is that no read of the index has failed: a
  read that fails is taken for an empty entry, and the handler then answers that it ended all.

`AuthorizationRequest_proofs` proves, for any number of requests, callbacks and units:

- `TypeCorrect`: `Spec => []TypeOK`.
- `CodeSentOnce`: `Spec => []SentOnce`. The inductive invariant is `OnceInv`: a state that is stored
  is of a request no callback of which got past removing it (`StateInv`), at most one callback of a
  request is accepted and its code is not sent yet (`AcceptedInv`), and only answered requests have
  callbacks (`AnsweredInv`); requests of which two callbacks passed the comparison before either
  removed the state (`doubled`) are set aside throughout.
- `VerifierIsOwn`: `Spec => []OwnVerifier`. `VerifierInv` carries the verifier of an undisturbed
  request from the slot to the callback that sends it.
- `UnitIsOwn`: `Spec => []OwnUnit`. `UnitInv` says that a unit in the slot has an owner, a bounded
  request whose callback has not removed it yet; so an unbounded request that began when there was
  no owner finds no unit.

`CookieSession_proofs` proves, for any number of browsers, requests, handlers, sign-ins and logout
tokens, on Next.js, on Nuxt, and on a mixture of their paths:

- `TypesHold`: `Spec => []TypeOK`.
- `OnlyTheNamedAreRefused`: `Spec => []OnlyNamedRefused`, and `ReplaysAreRecorded`:
  `Spec => []ReplayedIsRecorded`. `LogInv` follows a logout token from the server to the record:
  what it names has ended, and no two name one server session (`NoteInv`); every record, stored or
  about to be, is what some logout token of its key said (`SaidInv`); a token that is remembered is
  recorded, in a handler's hands, or failed (`HandledInv`); a login is closed for a token
  (`ClosedInv`).
- `OnlyTheDeadAreCleared`: `Spec => ClearedIsDead`, an action property, where no request takes as
  long as an access token lasts (`Prompt`). `ClearInv` carries what the request saw, a refresh token
  that is good for nothing or a record that names the session, to the answer that deletes the cookie.
- `EndedAreRefusedUnlessRevived`: `Spec => []EndedUnlessRevived`, with one handler at a time
  (`OneByOne`) and, where there are Next.js paths, access tokens that last no longer than a cookie
  (`RecordsOutlive`).
- `EndedAreRefused`: `Spec => []EndedIsRefused`, with one handler at a time, on Next.js only, where a
  cookie lasts an access token and a request longer and a request is within the tolerance
  (`RecordsOutliveAll`). Both rest on `TokenInv`, which dates every token there is, in a cookie or a
  request, against every logout of its login (`Sound`: made before it, or by a request under way
  then), and on `RecordInv`: a logout answered with 200 is covered by the stored record, and by one
  about to be stored over it, until no cookie made before it can be left.
- `RecordsImplementTheLedger`: `Spec => LogoutsAreKept`, with one handler at a time. Storing a record
  is a `Record` of the ledger for the sessions the record reaches (or a stutter, where it has run
  out by then), issuing a logout token an `Issue`, a second a `Tick`, all else a stutter; `TermInv`
  bounds what is about to be stored by what is.

The hypotheses are the deployments for which the properties are true, and are needed: with two
handlers, or with an access token that outlives the cookie, TLC finds the violations listed above.

`LogoutRoute_proofs` proves of the key cache beside the route, for any number of handlers and keys
and any times with `MinRefetch < KeysTtl`:

- `KeysTypesHold`, `FetchesAreSpaced` and `OnlyNewKeysAreUnknown`: `RouteSpec` implies
  `[]KeysTypeOK`, `FetchesSpaced` and `UnknownIsNew` (the last two are action properties). `SinceInv`
  says that the time the cache counts is the time since a fetch was sent; `BehindInv`, that a
  published key the cache or the answer on its way lacks was published since then, unless the cache
  has run out or the last fetch failed. `SignedInv` says that a posted token was signed with a key
  the server has had.

`BackendSession_proofs` proves, for any number of calls, sign-ins, refreshes and faults:

- `TypesHold`, `CachedSessionIsWatched`, `CachedSessionIsFresh`, `OnlyTheEndedAreTold`,
  `OwnSignOutIsNoNews`, `SignOutLeavesNoToken`: the six invariants of the run `backend`. The
  invariant dates what is cached, or about to be, against the last refresh (`FreshInv`); puts every
  answer that may make the page signed out down to a session that has ended or is doubted
  (`ToldInv`); and puts down, for each sign-out under way, every request beside it (`SignOutInv`) and
  every session such a request found (`FoundInv`).

`BrowserRefresh_proofs` proves, for any number of refreshes at once, requests and sign-ins:

- `TypesHold`, `FlagsComeDown`, `TokenIsKeptFresh`, `ChainsDoNotMultiply`, `SignedOutStaysOut`: the
  invariants of the run `browser_refresh`; and `OnlyTheDeadAreThrownOut`, its action property.
  `FlagInv` gives each flag that is up one refresh that takes it down; `FreshInv` and `ChainInv` say
  whose session a refresh is of, and that refreshes of the timer are alone; `DeadInv` compares the
  refresh token of every refresh, and of the store, with the one the server expects, for each login
  nothing is put down to.

Every invariant and every action property of the passing runs is stated by a theorem. Only
model-checked: the liveness properties (`JoinersAnswered`, `LogoutHandled`, `LogoutTakesEffect`,
`EndIsNoticed`, `CallsEnd`, `SignInCompletes`), which are out of the prover's reach;
`IndexComplete` is false (`node_index`).

## Not modelled

User interface, routers, themes, i18n and the management API wrappers, which are most of the
repository's lines, hold no session state: a component renders what the clients report, a wrapper
sends one request. Cryptography and claim checks are functions of one token. The Express handlers
call the Node client and nothing else. The messages of the silent sign-in iframe, the embedded
flows and the configuration of the clients are left out; polling and cookie chunks are planned.

## Plan

1. `Polling`: device and CIBA polling, slowed down by the server and cancelled while a request is
   under way.
2. `CookieChunks`: a value split over cookies, and the chunks a shorter value must remove.
3. Theorems about both.

The order is by what goes wrong when it is wrong: sessions that should have ended first, then
sessions that end too early, then sign-ins that fail.
