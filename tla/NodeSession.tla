----------------------------- MODULE NodeSession -----------------------------
(***************************************************************************)
(* The life of the sessions a server process keeps through                 *)
(* ThunderIDNodeClient: sign-in, the signed-in check that refreshes an     *)
(* expired session, the shared refresh, revocation, clearing, and          *)
(* back-channel logout through the session index.  Every `await' of the    *)
(* source ends a step, so concurrent requests interleave there.            *)
(*                                                                         *)
(* One store holds the sessions and the index (Storage).  StorageManager   *)
(* starts a session write and does not await it; `writes' holds the writes *)
(* started and not yet landed.  With LocalStore (MemoryCacheStore) such a  *)
(* write lands before its own request goes on; a store across a network    *)
(* gives no such order.                                                    *)
(***************************************************************************)
EXTENDS Integers, Sequences, FiniteSets

CONSTANTS
  Requests,     \* the requests the process may serve at once
  SessionIds,   \* the ids sessions are stored under (`userId' in the source)
  Sids, Subs,   \* server sessions, and subjects
  SubOf,        \* the subject of each server session
  Operations,   \* the operations requests perform
  LocalStore,   \* TRUE when an unawaited write lands before its request goes on
  FreshIds,     \* TRUE when the application gives every sign-in a new session id
  Expiry,       \* TRUE when access tokens expire within the run
  Tolerance,    \* the clock tolerance, in seconds
  NoRequest, NoId,   \* no request, no session id
  MaxLogins, MaxGen, MaxNotices, MaxTime,   \* bounds
  MaxFaults, MaxReadFaults                  \* store faults a run may have

AllOperations ==
  {"signIn", "isSignedIn", "refresh", "logout", "revoke", "clear"}

ASSUME ConstantsAssumption ==
  /\ SubOf \in [Sids -> Subs]
  /\ Sids \cap Subs = {}
  /\ Operations \subseteq AllOperations
  /\ LocalStore \in BOOLEAN /\ FreshIds \in BOOLEAN /\ Expiry \in BOOLEAN
  /\ Tolerance \in Nat
  /\ NoRequest \notin Requests /\ NoId \notin SessionIds
  /\ {MaxLogins, MaxGen, MaxNotices, MaxTime, MaxFaults, MaxReadFaults} \subseteq Nat

VARIABLES
  store,     \* SessionData of each session id
  writes,    \* session writes started and not landed
  index,     \* SessionIndex: the sessions recorded under each sid and sub
  inFlight,  \* _refreshesInFlight: the request that runs a session's refresh
  handled,   \* _handledLogoutTokens: the logout tokens handled
  req,       \* where each request is, and its local variables
  logins,    \* the server: the codes it redeemed, in order
  ended,     \* the server: the server sessions that ended
  notices,   \* the server: the logout tokens it issued; the place is the `jti'
  now,       \* seconds
  faults, readFaults,
  \* History, read by properties only:
  spent,       \* refresh tokens the process received a replacement for
  late,        \* logins a refresh wrote back over a session no longer theirs
  endedBy,     \* which login each logout token ended
  loggedOut    \* logins named by the logout tokens that were handled

server  == <<logins, ended, notices>>
history == <<spent, late, endedBy, loggedOut>>
limits  == <<now, faults, readFaults>>
vars    == <<store, writes, index, inFlight, handled, req, server, limits, history>>

Keys     == Sids \cup Subs
Tokens   == [login : Nat, gen : Nat]
Sessions == [login : Nat, token : Tokens, fresh : BOOLEAN]
Entries  == [session : SessionIds, startedAt : Nat]
Logins   == [sid : Sids, session : SessionIds, gen : Nat, at : Nat]
LogoutTokens == [key : Keys, sub : Subs, at : Nat]

NoToken   == [login |-> 0, gen |-> 0]
NoSession == [login |-> 0, token |-> NoToken, fresh |-> FALSE]

Idle == [pc |-> "idle", op |-> "isSignedIn", session |-> NoId, snap |-> NoSession,
         sent |-> NoToken, reply |-> NoToken, login |-> 0, note |-> 0, todo |-> {},
         named |-> {}, keys |-> <<>>, entry |-> {}, began |-> 0, then |-> "idle"]

-----------------------------------------------------------------------------
(* Reading the stored data *)

\* readSessionBinding: the sid and the sub of the session's ID token.
BindingKeys(d) ==
  IF d.login = 0 THEN <<>>
  ELSE <<logins[d.login].sid, SubOf[logins[d.login].sid]>>

\* A logout token looks its sessions up by sid when it has one, else by sub.
BySid(n) == n.key \in Sids
NoticeKeys(n) == IF BySid(n) THEN <<n.key, n.sub>> ELSE <<n.sub>>

\* A bug: a session found through the index is taken for the one the token names.
NoMismatch(d, n) == FALSE

\* The session belongs to another server session or subject than the token names.
Mismatch(d, n) ==
  /\ d.login # 0
  /\ \/ BySid(n) /\ logins[d.login].sid # n.key
     \/ SubOf[logins[d.login].sid] # n.sub

\* A bug: the request goes on before the write it started has landed.
LandedAtOnce(r) == TRUE

\* The session write the request started has landed, where that is sure to happen first.
Landed(r) == LocalStore => \A w \in writes : w.by # r

\* A bug: only the temporary data goes.
RemoveTemporaryOnly(s) == UNCHANGED <<store, late>>

\* Removes the stored session (StorageManager.removeSessionData).
RemoveSession(s) ==
  /\ store' = [store EXCEPT ![s] = NoSession]
  /\ late' = late \ {store[s].login}

-----------------------------------------------------------------------------
(* Steps of a request *)

At(r, label) == req[r].pc = label
Goto(r, label) == req' = [req EXCEPT ![r].pc = label]
Return(r) == req' = [req EXCEPT ![r] = Idle]

Begin(r, o, s, label) ==
  /\ At(r, "idle") /\ o \in Operations
  /\ req' = [req EXCEPT ![r] = [Idle EXCEPT !.op = o, !.session = s, !.pc = label]]

\* What a request goes on to once its index entries are written.
Proceed(e) ==
  IF e.then = "idle" THEN Idle ELSE [e EXCEPT !.pc = e.then, !.keys = <<>>, !.entry = {}]

\* Rewrites the index entries under the keys, one at a time, then goes on to `back'.
Rewrite(e, ks, back) ==
  IF ks = <<>> THEN Proceed([e EXCEPT !.then = back])
  ELSE [e EXCEPT !.keys = ks, !.then = back, !.pc = "ix_read"]

NextKey(e) == Rewrite([e EXCEPT !.entry = {}], Tail(e.keys), e.then)

\* What isSignedIn answers to its caller: signIn goes on to redeem its code when it is FALSE.
Answer(e, signedIn) ==
  IF e.op = "signIn" /\ ~signedIn
  THEN [e EXCEPT !.pc = "redeem", !.snap = NoSession] ELSE Idle

\* What a refresh gives to whoever awaits it: a failed one makes isSignedIn remove the session.
Outcome(e, ok) ==
  CASE e.op = "refresh"               -> Idle
    [] e.op # "refresh" /\ ok         -> Answer(e, TRUE)
    [] OTHER -> [e EXCEPT !.pc = "ck_forget", !.sent = NoToken, !.reply = NoToken]

\* A bug: nobody looks for a refresh in progress.
NeverRefreshing(s) == FALSE

\* A refresh of the session is in progress (_refreshesInFlight).
Awaited(s) == inFlight[s] # NoRequest

\* The stored session holds a refresh token.
Refreshable(s) == store[s].token # NoToken

-----------------------------------------------------------------------------
(* isSignedIn *)

Check(r, s, o) ==
  /\ o \in {"isSignedIn", "signIn"}
  /\ FreshIds /\ o = "signIn" => \A l \in 1..Len(logins) : logins[l].session # s
  /\ At(r, "idle") /\ o \in Operations
  /\ LET e == [Idle EXCEPT !.op = o, !.session = s] IN
     req' = [req EXCEPT ![r] =
       CASE store[s] = NoSession -> Answer(e, FALSE)
         [] store[s].fresh       -> Answer(e, TRUE)
         [] OTHER                -> [e EXCEPT !.pc = "ck_read"]]
  /\ UNCHANGED <<store, writes, index, inFlight, handled, server, limits, history>>

\* The second read; refreshAccessToken runs up to its first await in the same step.
CheckRead(r) ==
  /\ At(r, "ck_read")
  /\ LET s == req[r].session
         e == [req[r] EXCEPT !.snap = store[s]] IN
     /\ req' = [req EXCEPT ![r] =
          CASE store[s] = NoSession                      -> Answer(e, FALSE)
            [] store[s] # NoSession /\ ~Refreshable(s)   -> [e EXCEPT !.pc = "ck_forget"]
            [] Refreshable(s) /\ Awaited(s)              -> [e EXCEPT !.pc = "join"]
            [] OTHER                                     -> [e EXCEPT !.pc = "rf_read"]]
     /\ inFlight' = IF Refreshable(s) /\ ~Awaited(s)
                    THEN [inFlight EXCEPT ![s] = r] ELSE inFlight
  /\ UNCHANGED <<store, writes, index, handled, server, limits, history>>

CheckForget(r) ==
  /\ At(r, "ck_forget")
  /\ req' = [req EXCEPT ![r] = Rewrite(@, BindingKeys(@.snap), "ck_remove")]
  /\ UNCHANGED <<store, writes, index, inFlight, handled, server, limits, history>>

CheckRemove(r) ==
  /\ At(r, "ck_remove")
  /\ RemoveSession(req[r].session)
  /\ req' = [req EXCEPT ![r] = Answer(req[r], FALSE)]
  /\ UNCHANGED <<writes, index, inFlight, handled, server, limits, spent, endedBy, loggedOut>>

-----------------------------------------------------------------------------
(* refreshAccessToken *)

Refresh(r, s) ==
  /\ Begin(r, "refresh", s, IF Awaited(s) THEN "join" ELSE "rf_read")
  /\ inFlight' = IF Awaited(s) THEN inFlight ELSE [inFlight EXCEPT ![s] = r]
  /\ UNCHANGED <<store, writes, index, handled, server, limits, history>>

RefreshSend(r) ==
  /\ At(r, "rf_read")
  /\ LET t == store[req[r].session].token IN
     req' = [req EXCEPT ![r] = [@ EXCEPT !.sent = t,
                                         !.pc = IF t = NoToken THEN "rf_failed" ELSE "rf_sent"]]
  /\ UNCHANGED <<store, writes, index, inFlight, handled, server, limits, history>>

\* The server's token endpoint: a refresh token is good until it is replaced or its session ends.
Valid(t) == logins[t.login].gen = t.gen /\ logins[t.login].sid \notin ended

\* The server answers.  It may hand out a new refresh token in place of the one sent.
ServerRefresh(r) ==
  /\ At(r, "rf_sent") /\ Valid(req[r].sent)
  /\ LET t == req[r].sent IN
     \/ /\ req' = [req EXCEPT ![r] = [@ EXCEPT !.pc = "rf_reply", !.reply = NoToken]]
        /\ UNCHANGED logins
     \/ /\ t.gen < MaxGen
        /\ logins' = [logins EXCEPT ![t.login].gen = @ + 1]
        /\ req' = [req EXCEPT ![r] = [@ EXCEPT !.pc = "rf_reply", !.reply = [t EXCEPT !.gen = @ + 1]]]
  /\ UNCHANGED <<store, writes, index, inFlight, handled, ended, notices, limits, history>>

\* The server refuses, or the request or its answer is lost.
RefreshFails(r) ==
  /\ At(r, "rf_sent") \/ At(r, "rf_reply")
  /\ Goto(r, "rf_failed")
  /\ UNCHANGED <<store, writes, index, inFlight, handled, server, limits, history>>

\* handleTokenResponse: starts the write of the answer merged into the stored session.
RefreshReceive(r) ==
  /\ At(r, "rf_reply")
  /\ LET e == req[r] IN
     /\ writes' = writes \cup
          {[by |-> r, session |-> e.session, refresh |-> TRUE,
            data |-> [login |-> e.sent.login, fresh |-> TRUE,
                      token |-> IF e.reply = NoToken THEN store[e.session].token ELSE e.reply]]}
     /\ spent' = IF e.reply = NoToken THEN spent ELSE spent \cup {e.sent}
     /\ Goto(r, "rf_store")
  /\ UNCHANGED <<store, index, inFlight, handled, server, limits, late, endedBy, loggedOut>>

\* A bug: those who joined the refresh are not told how it ended.
SettlesAlone(r) ==
  /\ At(r, "rf_failed") \/ (At(r, "rf_store") /\ Landed(r))
  /\ inFlight' = [inFlight EXCEPT ![req[r].session] = NoRequest]
  /\ req' = [req EXCEPT ![r] = Outcome(@, At(r, "rf_store"))]
  /\ UNCHANGED <<store, writes, index, handled, server, limits, history>>

\* The promise settles: the entry goes, and everyone who awaits it learns the outcome.
RefreshSettles(r) ==
  /\ At(r, "rf_failed") \/ (At(r, "rf_store") /\ Landed(r))
  /\ LET s == req[r].session IN
     /\ inFlight' = [inFlight EXCEPT ![s] = NoRequest]
     /\ req' = [q \in Requests |->
          IF q = r \/ (At(q, "join") /\ req[q].session = s)
          THEN Outcome(req[q], At(r, "rf_store")) ELSE req[q]]
  /\ UNCHANGED <<store, writes, index, handled, server, limits, history>>

-----------------------------------------------------------------------------
(* signIn with a code *)

\* The callback of a sign-in bounded to an organization unit replaces a session still signed in.
SwitchCallback(r, s) ==
  /\ ~FreshIds
  /\ Begin(r, "signIn", s, "redeem")
  /\ UNCHANGED <<store, writes, index, inFlight, handled, server, limits, history>>

ServerRedeem(r, x) ==
  /\ At(r, "redeem") /\ Len(logins) < MaxLogins /\ x \notin ended
  /\ FreshIds => \A l \in 1..Len(logins) : logins[l].session # req[r].session
  /\ logins' = Append(logins, [sid |-> x, session |-> req[r].session, gen |-> 1, at |-> now])
  /\ req' = [req EXCEPT ![r] = [@ EXCEPT !.pc = "rd_reply", !.login = Len(logins) + 1]]
  /\ UNCHANGED <<store, writes, index, inFlight, handled, ended, notices, limits, history>>

RedeemFails(r) ==
  /\ At(r, "redeem") \/ At(r, "rd_reply")
  /\ Return(r)
  /\ UNCHANGED <<store, writes, index, inFlight, handled, server, limits, history>>

RedeemReceive(r) ==
  /\ At(r, "rd_reply")
  /\ LET e == req[r] IN
     writes' = writes \cup {[by |-> r, session |-> e.session, refresh |-> FALSE,
                             data |-> [login |-> e.login, fresh |-> TRUE,
                                       token |-> [login |-> e.login, gen |-> 1]]]}
  /\ Goto(r, "rd_store")
  /\ UNCHANGED <<store, index, inFlight, handled, server, limits, history>>

\* Reads the stored session back and indexes what it finds as a session that begins now.
IndexSession(r) ==
  /\ At(r, "rd_store") /\ Landed(r)
  /\ req' = [req EXCEPT ![r] =
       Rewrite([@ EXCEPT !.began = now], BindingKeys(store[@.session]), "idle")]
  /\ UNCHANGED <<store, writes, index, inFlight, handled, server, limits, history>>

\* A write StorageManager started lands.
WriteLands(w) ==
  /\ w \in writes
  /\ writes' = writes \ {w}
  /\ store' = [store EXCEPT ![w.session] = w.data]
  /\ late' = IF w.refresh /\ store[w.session].login # w.data.login
             THEN late \cup {w.data.login} ELSE late
  /\ UNCHANGED <<index, inFlight, handled, req, server, limits, spent, endedBy, loggedOut>>

-----------------------------------------------------------------------------
(* SessionIndex.  A request that goes on to "idle" adds its session; the others remove theirs. *)

Live(entry) == {i \in entry : store[i.session] # NoSession}
Without(entry, s) == {i \in entry : i.session # s}

\* A bug: the time the session began is left out of its entry.
RecordedWithoutStart(e) == [session |-> e.session]

\* What the index records of the session a request began.
Recorded(e) == [session |-> e.session, startedAt |-> e.began]

\* Reads an entry, without the sessions that are gone when adding to it.
IndexRead(r) ==
  /\ At(r, "ix_read")
  /\ LET e == req[r]
         found == index[Head(e.keys)]
         adding == e.then = "idle" IN
     req' = [req EXCEPT ![r] =
       IF adding
       THEN [e EXCEPT !.pc = "ix_remove",
                      !.entry = Without(Live(found), e.session)
                                \cup {Recorded(e)}]
       ELSE IF \E i \in found : i.session = e.session
       THEN [e EXCEPT !.pc = "ix_remove", !.entry = Without(found, e.session)]
       ELSE NextKey(e)]
  /\ UNCHANGED <<store, writes, index, inFlight, handled, server, limits, history>>

\* removeCustomData, because setCustomData merges.
IndexRemove(r) ==
  /\ At(r, "ix_remove")
  /\ index' = [index EXCEPT ![Head(req[r].keys)] = {}]
  /\ req' = [req EXCEPT ![r] = IF req[r].entry = {} THEN NextKey(@) ELSE [@ EXCEPT !.pc = "ix_set"]]
  /\ UNCHANGED <<store, writes, inFlight, handled, server, limits, history>>

\* setCustomData merges into what another request may have written meanwhile.
IndexSet(r) ==
  /\ At(r, "ix_set")
  /\ LET k == Head(req[r].keys)
         mine == req[r].entry IN
     index' = [index EXCEPT ![k] = mine \cup {i \in @ : \A m \in mine : m.session # i.session}]
  /\ req' = [req EXCEPT ![r] = NextKey(@)]
  /\ UNCHANGED <<store, writes, inFlight, handled, server, limits, history>>

-----------------------------------------------------------------------------
(* revokeAccessToken and clearSession *)

Revoke(r, s) ==
  /\ Begin(r, "revoke", s, "forget")
  /\ UNCHANGED <<store, writes, index, inFlight, handled, server, limits, history>>

Clear(r, s) ==
  /\ Begin(r, "clear", s, "forget")
  /\ UNCHANGED <<store, writes, index, inFlight, handled, server, limits, history>>

AfterForget(o) == CASE o = "logout" -> "lo_clear" [] o = "revoke" -> "rv_send" [] OTHER -> "cl_clear"

\* forgetSession: the index entries of the stored session go first.
Forget(r) ==
  /\ At(r, "forget")
  /\ req' = [req EXCEPT ![r] = Rewrite(@, BindingKeys(store[@.session]), AfterForget(@.op))]
  /\ UNCHANGED <<store, writes, index, inFlight, handled, server, limits, history>>

RevokeSend(r) ==
  /\ At(r, "rv_send") /\ store[req[r].session] # NoSession
  /\ Goto(r, "rv_sent")
  /\ UNCHANGED <<store, writes, index, inFlight, handled, server, limits, history>>

\* No session to revoke, or the request fails: what is stored stays, its index entries are gone.
RevokeFails(r) ==
  /\ At(r, "rv_send") \/ At(r, "rv_sent")
  /\ Return(r)
  /\ UNCHANGED <<store, writes, index, inFlight, handled, server, limits, history>>

\* clearSession, and the clear after a revocation the server confirmed.
ClearRemove(r) ==
  /\ At(r, "cl_clear") \/ At(r, "rv_sent")
  /\ RemoveSession(req[r].session)
  /\ Return(r)
  /\ UNCHANGED <<writes, index, inFlight, handled, server, limits, spent, endedBy, loggedOut>>

-----------------------------------------------------------------------------
(* handleBackchannelLogout *)

\* A bug: a token with only a sub ends every session of the subject.
NamesAll(n, entry) == {i.session : i \in entry}

Names(n, entry) ==
  {i.session : i \in {i \in entry : BySid(n) \/ i.startedAt < n.at + 1 + Tolerance}}

\* Looks up the sessions the token names.  SessionIndex.read gives an empty entry when the store fails.
Find(r, j, entry) ==
  /\ At(r, "idle") /\ "logout" \in Operations
  /\ j \in DOMAIN notices \ handled
  /\ LET n == notices[j]
         held == {s \in Names(n, index[n.key]) : store[s].login # 0 /\ ~Mismatch(store[s], n)} IN
     req' = [req EXCEPT ![r] = [Idle EXCEPT !.op = "logout", !.note = j, !.pc = "lo_next",
                                            !.todo = Names(n, entry),
                                            !.named = {store[s].login : s \in held}]]
  /\ UNCHANGED <<store, writes, index, inFlight, handled, server, now, faults, history>>

LogoutFind(r, j) ==
  /\ j \in DOMAIN notices
  /\ Find(r, j, index[notices[j].key])
  /\ UNCHANGED readFaults

\* Takes the next session and compares its binding with the token.
LogoutNext(r, s) ==
  /\ At(r, "lo_next") /\ s \in req[r].todo
  /\ LET n == notices[req[r].note]
         e == [req[r] EXCEPT !.todo = @ \ {s}, !.session = s] IN
     req' = [req EXCEPT ![r] = IF Mismatch(store[s], n)
                               THEN Rewrite(e, NoticeKeys(n), "lo_next")
                               ELSE [e EXCEPT !.snap = store[s], !.pc = "forget"]]
  /\ UNCHANGED <<store, writes, index, inFlight, handled, server, limits, history>>

\* Removes the session, then what the index still says of it.
LogoutClear(r) ==
  /\ At(r, "lo_clear")
  /\ RemoveSession(req[r].session)
  /\ LET e == req[r]
         own == BindingKeys(e.snap) IN
     /\ req' = [req EXCEPT ![r] = Rewrite([e EXCEPT !.snap = NoSession],
                  IF own = <<>> THEN NoticeKeys(notices[e.note]) ELSE own, "lo_next")]
     /\ endedBy' = endedBy \cup
          {[login |-> l, note |-> e.note, checked |-> l = e.snap.login] : l \in {store[e.session].login} \ {0}}
  /\ UNCHANGED <<writes, index, inFlight, handled, server, limits, spent, loggedOut>>

\* A bug: the token counts as handled once its first session is looked at.
DoneEarly(r) ==
  /\ At(r, "lo_next")
  /\ handled' = handled \cup {req[r].note}
  /\ loggedOut' = loggedOut \cup req[r].named
  /\ Return(r)
  /\ UNCHANGED <<store, writes, index, inFlight, server, limits, spent, late, endedBy>>

\* A bug: the token is not remembered.
DoneUnremembered(r) ==
  /\ At(r, "lo_next") /\ req[r].todo = {}
  /\ loggedOut' = loggedOut \cup req[r].named
  /\ Return(r)
  /\ UNCHANGED <<store, writes, index, inFlight, handled, server, limits, spent, late, endedBy>>

\* rememberHandled, once the sessions are ended.
LogoutDone(r) ==
  /\ At(r, "lo_next") /\ req[r].todo = {}
  /\ handled' = handled \cup {req[r].note}
  /\ loggedOut' = loggedOut \cup req[r].named
  /\ Return(r)
  /\ UNCHANGED <<store, writes, index, inFlight, server, limits, spent, late, endedBy>>

-----------------------------------------------------------------------------
(* Failures of the store *)

\* A read of an index entry fails, and SessionIndex.read takes the entry for empty.
IndexReadFails(r) ==
  /\ readFaults < MaxReadFaults /\ readFaults' = readFaults + 1
  /\ \/ /\ At(r, "ix_read")
        /\ LET e == req[r] IN
           req' = [req EXCEPT ![r] = IF e.then = "idle"
             THEN [e EXCEPT !.pc = "ix_remove",
                            !.entry = {Recorded(e)}]
             ELSE NextKey(e)]
        /\ UNCHANGED <<store, writes, index, inFlight, handled, server, now, faults, history>>
     \/ \E j \in DOMAIN notices : Find(r, j, {})

\* Any other operation fails.  forgetSession and indexSession go on, isSignedIn answers FALSE,
\* and the logout handler and clearSession reject.
StoreFails(r) ==
  /\ faults < MaxFaults /\ faults' = faults + 1
  /\ \/ At(r, "forget") /\ req' = [req EXCEPT ![r] = Rewrite(@, <<>>, AfterForget(@.op))]
     \/ At(r, "ix_remove") /\ req' = [req EXCEPT ![r] = IF @.then = "lo_next" THEN Idle ELSE Proceed(@)]
     \/ At(r, "ck_remove") /\ req' = [req EXCEPT ![r] = Answer(@, FALSE)]
     \/ (At(r, "lo_next") \/ At(r, "lo_clear") \/ At(r, "cl_clear")) /\ Return(r)
  /\ UNCHANGED <<store, writes, index, inFlight, handled, server, now, readFaults, history>>

-----------------------------------------------------------------------------
(* The server and the clock *)

\* The access token of a stored session expires.
Expire(s) ==
  /\ Expiry /\ store[s].fresh
  /\ store' = [store EXCEPT ![s].fresh = FALSE]
  /\ UNCHANGED <<writes, index, inFlight, handled, req, server, limits, history>>

\* The server ends one server session, or those a subject has, and posts a logout token.
ServerLogout(k) ==
  /\ "logout" \in Operations /\ Len(notices) < MaxNotices
  /\ LET used == {logins[l].sid : l \in DOMAIN logins}
         gone == IF k \in Sids THEN {k} ELSE {x \in used : SubOf[x] = k} IN
     /\ gone \cap used # {} /\ gone \cap ended = {}
     /\ ended' = ended \cup gone
     /\ notices' = Append(notices, [key |-> k, at |-> now,
                                    sub |-> IF k \in Sids THEN SubOf[k] ELSE k])
  /\ UNCHANGED <<store, writes, index, inFlight, handled, req, logins, limits, history>>

Tick ==
  /\ now < MaxTime /\ now' = now + 1
  /\ UNCHANGED <<store, writes, index, inFlight, handled, req, server, faults, readFaults, history>>

-----------------------------------------------------------------------------
Init ==
  /\ store = [s \in SessionIds |-> NoSession] /\ writes = {}
  /\ index = [k \in Keys |-> {}]
  /\ inFlight = [s \in SessionIds |-> NoRequest]
  /\ handled = {}
  /\ req = [r \in Requests |-> Idle]
  /\ logins = <<>> /\ ended = {} /\ notices = <<>>
  /\ now = 0 /\ faults = 0 /\ readFaults = 0
  /\ spent = {} /\ late = {} /\ endedBy = {} /\ loggedOut = {}

\* What a caller, or the server, asks of an idle request.
Call(r) ==
  \E s \in SessionIds :
    \/ \E o \in Operations : Check(r, s, o)
    \/ SwitchCallback(r, s) \/ Refresh(r, s) \/ Revoke(r, s) \/ Clear(r, s)

\* What a request does by itself.
Step(r) ==
  \/ CheckRead(r) \/ CheckForget(r) \/ CheckRemove(r)
  \/ RefreshSend(r) \/ RefreshReceive(r) \/ RefreshSettles(r)
  \/ RedeemReceive(r) \/ IndexSession(r)
  \/ IndexRead(r) \/ IndexRemove(r) \/ IndexSet(r)
  \/ Forget(r) \/ RevokeSend(r) \/ ClearRemove(r)
  \/ (\E s \in SessionIds : LogoutNext(r, s)) \/ LogoutClear(r) \/ LogoutDone(r)

\* What the network and the server do to a request.
Reply(r) ==
  \/ ServerRefresh(r) \/ RefreshFails(r)
  \/ (\E x \in Sids : ServerRedeem(r, x)) \/ RedeemFails(r)
  \/ RevokeFails(r)

Environment ==
  \/ \E w \in writes : WriteLands(w)
  \/ \E s \in SessionIds : Expire(s)
  \/ \E k \in Keys : ServerLogout(k)
  \/ Tick

Next ==
  \/ \E r \in Requests :
       \/ Call(r) \/ Step(r) \/ Reply(r)
       \/ (\E j \in DOMAIN notices : LogoutFind(r, j))
       \/ IndexReadFails(r) \/ StoreFails(r)
  \/ Environment

Spec == Init /\ [][Next]_vars

\* A request goes on by itself, a fetch settles, and a write lands.
Fairness ==
  /\ \A r \in Requests : WF_vars(Step(r)) /\ WF_vars(Reply(r))
  /\ WF_vars(\E w \in writes : WriteLands(w))

\* The server posts a logout token again until it is handled.
Redelivery == \A j \in 1..MaxNotices : SF_vars(\E r \in Requests : LogoutFind(r, j))

FairSpec == Spec /\ Fairness /\ Redelivery

-----------------------------------------------------------------------------
(* Properties *)

Labels ==
  {"idle", "ck_read", "ck_forget", "ck_remove", "join", "rf_read", "rf_sent", "rf_reply",
   "rf_store", "rf_failed", "redeem", "rd_reply", "rd_store", "ix_read", "ix_remove", "ix_set",
   "forget", "rv_send", "rv_sent", "cl_clear", "lo_next", "lo_clear"}

Locals ==
  [pc : Labels, op : AllOperations, session : SessionIds \cup {NoId}, snap : Sessions, sent : Tokens,
   reply : Tokens, login : Nat, note : Nat, todo : SUBSET SessionIds, named : SUBSET Nat,
   keys : Seq(Keys), entry : SUBSET Entries, began : Nat, then : Labels]

\* Every variable keeps to its type; a login or a logout token that is named was issued.
TypeOK ==
  /\ store \in [SessionIds -> Sessions]
  /\ writes \subseteq [by : Requests, session : SessionIds, refresh : BOOLEAN, data : Sessions]
  /\ index \in [Keys -> SUBSET Entries]
  /\ inFlight \in [SessionIds -> Requests \cup {NoRequest}]
  /\ handled \subseteq Nat
  /\ req \in [Requests -> Locals]
  /\ logins \in Seq(Logins)
  /\ ended \subseteq Sids
  /\ notices \in Seq(LogoutTokens)
  /\ now \in Nat /\ faults \in Nat /\ readFaults \in Nat
  /\ spent \subseteq Tokens /\ late \subseteq Nat /\ loggedOut \subseteq Nat
  /\ endedBy \subseteq [login : Nat, note : Nat, checked : BOOLEAN]

Refreshing == {"rf_read", "rf_sent", "rf_reply", "rf_store", "rf_failed"}

\* Concurrent refreshes of one session share a single request (refreshAccessToken): two requests
\* never run one for the same session.
OneRefreshPerSession ==
  \A r, q \in Requests :
    req[r].pc \in Refreshing /\ req[q].pc \in Refreshing
      /\ req[r].session = req[q].session => r = q

\* A rotated refresh token is not sent twice (refreshAccessToken): no request sends a token the
\* process has already received the replacement of.
SpentNeverSent ==
  \A r \in Requests : req[r].pc = "rf_sent" => req[r].sent \notin spent

\* Back-channel logout ends every session it found for the token, whatever ran beside it, retried
\* or failed: such a session is stored afterwards only when a refresh that was already under way
\* wrote it back.
LogoutEndsNamed ==
  \A s \in SessionIds : store[s].login \in loggedOut => store[s].login \in late

\* An application may use a session id again: back-channel logout leaves a session of another server
\* session or subject alone (handleBackchannelLogout).  It ends one only when that one was stored
\* after the handler had compared the binding of the session before it.
OnlyNamedEnded ==
  \A e \in {e \in endedBy : e.checked} :
    /\ BySid(notices[e.note]) => logins[e.login].sid = notices[e.note].key
    /\ SubOf[logins[e.login].sid] = notices[e.note].sub

\* A token with only a sub ends no session that began after the token was issued, give or take the
\* tolerance: a user who has signed in again stays signed in (handleBackchannelLogout).
SignedInAgainStays ==
  \A e \in endedBy :
    BySid(notices[e.note]) \/ logins[e.login].at <= notices[e.note].at + Tolerance

\* A session is recorded in the index under its sid and its sub once no request is at work, so a
\* logout finds it (SessionIndex.add, indexSession).
IndexComplete ==
  (writes = {} /\ \A r \in Requests : req[r].pc = "idle") =>
    \A s \in SessionIds : store[s].login # 0 =>
      \A i \in 1..2 : \E e \in index[BindingKeys(store[s])[i]] : e.session = s

\* Whoever awaits another request's refresh is answered.
JoinersAnswered == \A r \in Requests : req[r].pc = "join" ~> req[r].pc # "join"

\* A logout token the server keeps posting is handled in the end, even when the store fails.
LogoutHandled == \A j \in 1..MaxNotices : (Len(notices) >= j) ~> (j \in handled)
=============================================================================
