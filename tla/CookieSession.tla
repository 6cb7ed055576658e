---------------------------- MODULE CookieSession ----------------------------
(***************************************************************************)
(* Sessions that live in a browser's cookie (the Next.js and Nuxt SDKs),   *)
(* and LoggedOutSessions, the records that end them: sign-in, the requests *)
(* that read and refresh the cookie, sign-out, and back-channel logout.    *)
(* Every `await' of the source ends a step, and a browser applies the      *)
(* cookies of its responses in the order they arrive.                      *)
(*                                                                         *)
(* Paths are the ways a request uses the cookie:                           *)
(*   "proxy"    thunderIDProxy (Next.js)                                   *)
(*   "action"   the server action refreshToken (Next.js)                   *)
(*   "session"  useServerSession (Nuxt)                                    *)
(*   "token"    getValidAccessToken (Nuxt)                                 *)
(***************************************************************************)
EXTENDS Integers, Sequences, FiniteSets

CONSTANTS
  Browsers,
  Requests,     \* the requests of browsers under way at once
  Handlers,     \* the logout tokens being handled at once
  Sids, Subs,   \* server sessions, and subjects
  SubOf,        \* the subject of each server session
  Paths,        \* the paths requests take
  CookieTtl,    \* how long a session cookie lasts, and the JWT in it on Nuxt
  AccessTtl,    \* how long an access token lasts, and the JWT in the cookie on Next.js
  Buffer,       \* how long before its end an access token is refreshed
  Tolerance,    \* the clock tolerance; these four in seconds
  MaxDelay,     \* the longest a request takes
  NoBrowser,
  MaxLogins, MaxGen, MaxNotices, MaxTime, MaxFaults   \* bounds

AllPaths == {"proxy", "action", "session", "token"}
NextPaths == {"proxy", "action"}

ASSUME ConstantsAssumption ==
  /\ SubOf \in [Sids -> Subs] /\ Sids \cap Subs = {}
  /\ Paths \subseteq AllPaths /\ NoBrowser \notin Browsers
  /\ {CookieTtl, AccessTtl} \subseteq Nat \ {0}
  /\ {Buffer, Tolerance, MaxDelay, MaxLogins, MaxGen, MaxNotices, MaxTime, MaxFaults} \subseteq Nat

VARIABLES
  cookie,    \* the session cookie of each browser, with the time the browser drops it
  req,       \* where each request is, and its local variables
  post,      \* where each logout token being handled is
  records,   \* LoggedOutSessions: the record under each sid and sub
  handled,   \* _handledLogoutTokens: the logout tokens handled
  logins,    \* the server: the codes it redeemed, in order
  ended,     \* the server: the server sessions that ended
  notices,   \* the server: the logout tokens it issued; the place is the `jti'
  now,       \* seconds
  faults,
  \* History, read by properties only:
  closed,    \* logins ended by a logout token that was answered with 200
  revived,   \* logins a cookie was made for after the server had ended them
  replayed,  \* logout tokens refused as already handled
  failed     \* logout tokens whose record the store failed to take

server  == <<logins, ended, notices>>
logout  == <<post, records, handled>>
history == <<closed, revived, replayed, failed>>
vars    == <<cookie, req, logout, server, now, faults, history>>

Keys == Sids \cup Subs

\* What the signed JWT in the cookie says.  `gen' is its refresh token, `made' when it was signed.
Tokens  == [login : Nat, gen : Nat, signedInAt : Nat, exp : Nat, made : Nat]
Records == [endedAt : Nat, expiresAt : Nat]
Answers == {"keep", "set", "clear"}

NoToken  == [login |-> 0, gen |-> 0, signedInAt |-> 0, exp |-> 0, made |-> 0]
NoCookie == [token |-> NoToken, until |-> 0]
NoRecord == [endedAt |-> 0, expiresAt |-> 0]

IdleRequest == [pc |-> "idle", path |-> "callback", browser |-> NoBrowser, token |-> NoToken,
                since |-> 0, asked |-> 0, served |-> FALSE, late |-> FALSE, lost |-> FALSE,
                answer |-> "keep"]
IdlePost == [pc |-> "idle", note |-> 0, expiresAt |-> 0, endedAt |-> 0]

-----------------------------------------------------------------------------
(* LoggedOutSessions *)

SidOf(t) == logins[t.login].sid
Live(k) == records[k].expiresAt > now

\* A bug: a record by subject ends every session of the subject.
LoggedOutAll(t) == Live(SidOf(t)) \/ Live(SubOf[SidOf(t)])

\* isLoggedOut: the two reads of the store are one step.
LoggedOut(t) ==
  LET sub == SubOf[SidOf(t)] IN
  Live(SidOf(t)) \/ (Live(sub) /\ t.signedInAt <= records[sub].endedAt)

\* A bug: no clock tolerance.
LatestExact(issuedAt, existing) == IF existing > issuedAt THEN existing ELSE issuedAt

\* A bug: a later logout is replaced by an earlier one.
LatestRecorded(issuedAt, existing) == issuedAt + Tolerance

\* A later logout is not replaced by an earlier one.
Latest(issuedAt, existing) ==
  IF existing > issuedAt + Tolerance THEN existing ELSE issuedAt + Tolerance

-----------------------------------------------------------------------------
(* Requests *)

At(r, label) == req[r].pc = label
Step(r, e) == req' = [req EXCEPT ![r] = e]

\* What the request answers: whether it served the user, and what it does to the cookie.
Answer(e, served, answer) == [e EXCEPT !.pc = "answer", !.served = served, !.answer = answer]

\* A cookie that cannot be used: the Next.js paths delete it, the Nuxt ones leave it.
Refuse(e) == Answer(e, FALSE, IF e.path \in NextPaths THEN "clear" ELSE "keep")

\* The browser sends the cookie it holds.
Arrive(r, b, p) ==
  /\ At(r, "idle") /\ p \in Paths
  /\ cookie[b].token # NoToken /\ now < cookie[b].until
  /\ Step(r, [IdleRequest EXCEPT
       !.pc = IF p = "action" THEN "verify" ELSE "check", !.path = p, !.browser = b,
       !.token = cookie[b].token, !.since = now, !.late = cookie[b].token.login \in closed])
  /\ UNCHANGED <<cookie, logout, server, now, faults, history>>

\* The JWT of the cookie has not expired.
Current(e) ==
  IF e.path \in NextPaths THEN now < e.token.exp ELSE now < e.token.made + CookieTtl

\* The access token is not due for a refresh.
Lasting(e) == e.path = "session" \/ e.token.exp > now + Buffer

\* A bug: a cookie whose JWT has expired is not refreshed.
CheckOnly(r) ==
  /\ At(r, "check")
  /\ LET e == [req[r] EXCEPT !.asked = now]
         verified == Current(e) /\ ~LoggedOut(e.token) IN
     \/ verified /\ Lasting(e) /\ Step(r, Answer(e, TRUE, "keep"))
     \/ verified /\ ~Lasting(e) /\ Step(r, [e EXCEPT !.pc = "fetch"])
     \/ ~verified /\ Step(r, Refuse(e))
  /\ UNCHANGED <<cookie, logout, server, now, faults, history>>

\* verifySessionToken, then the refresh of a token about to expire.
Check(r) ==
  /\ At(r, "check")
  /\ LET e == [req[r] EXCEPT !.asked = now]
         verified == Current(e) /\ ~LoggedOut(e.token) IN
     \/ /\ verified /\ Lasting(e)
        /\ Step(r, Answer(e, TRUE, "keep"))
     \/ /\ verified /\ ~Lasting(e)
        /\ Step(r, [e EXCEPT !.pc = "fetch"])
     \/ /\ ~verified /\ e.path = "proxy"
        /\ Step(r, [e EXCEPT !.pc = "verify"])
     \/ /\ ~verified /\ e.path # "proxy"
        /\ Step(r, Refuse(e))
  /\ UNCHANGED <<cookie, logout, server, now, faults, history>>

\* verifySessionTokenForRefresh: an expired JWT will do.
Verify(r) ==
  /\ At(r, "verify")
  /\ Step(r, IF LoggedOut(req[r].token) THEN Refuse(req[r]) ELSE [req[r] EXCEPT !.pc = "fetch"])
  /\ UNCHANGED <<cookie, logout, server, now, faults, history>>

\* The server's token endpoint.
Valid(t) == logins[t.login].gen = t.gen /\ logins[t.login].sid \notin ended

\* It answers, and may hand out a new refresh token in place of the one sent.
ServerRefresh(r) ==
  /\ At(r, "fetch") /\ Valid(req[r].token)
  /\ LET l == req[r].token.login IN
     \/ /\ Step(r, [req[r] EXCEPT !.pc = "mint"])
        /\ UNCHANGED logins
     \/ /\ logins[l].gen < MaxGen
        /\ logins' = [logins EXCEPT ![l].gen = @ + 1]
        /\ Step(r, [req[r] EXCEPT !.pc = "mint", !.token.gen = @ + 1])
  /\ UNCHANGED <<cookie, logout, ended, notices, now, faults, history>>

\* It refuses, or the request fails.
RefreshFails(r) ==
  /\ At(r, "fetch")
  /\ \/ ~Valid(req[r].token) /\ UNCHANGED faults /\ Step(r, Refuse(req[r]))
     \/ /\ faults < MaxFaults /\ faults' = faults + 1
        /\ Step(r, [Refuse(req[r]) EXCEPT !.lost = TRUE])
  /\ UNCHANGED <<cookie, logout, server, now, history>>

\* A bug: the JWT does not say when it was signed.
Unsigned(e) == [login |-> e.token.login, gen |-> e.token.gen, exp |-> now + AccessTtl,
                signedInAt |-> e.token.signedInAt]

\* createSessionToken.  A refreshed session is still the same sign-in; Nuxt counts the life of the
\* access token from before the request.
Minted(e) ==
  [e.token EXCEPT !.made = now,
                  !.exp = (IF e.path = "token" THEN e.asked ELSE now) + AccessTtl,
                  !.signedInAt = IF e.path = "callback" THEN now ELSE @]

\* The new cookie is made.  Only the proxy checks it again.
Mint(r) ==
  /\ At(r, "mint")
  /\ LET e == [req[r] EXCEPT !.token = Minted(req[r])] IN
     Step(r, IF e.path = "proxy" THEN [e EXCEPT !.pc = "recheck"] ELSE Answer(e, TRUE, "set"))
  /\ revived' = IF SidOf(req[r].token) \in ended THEN revived \cup {req[r].token.login} ELSE revived
  /\ UNCHANGED <<cookie, logout, server, now, faults, closed, replayed, failed>>

Recheck(r) ==
  /\ At(r, "recheck")
  /\ LET e == req[r] IN
     Step(r, IF Current(e) /\ ~LoggedOut(e.token) THEN Answer(e, TRUE, "set") ELSE Refuse(e))
  /\ UNCHANGED <<cookie, logout, server, now, faults, history>>

\* The answer reaches the browser, which applies what it says of the cookie.
Deliver(r) ==
  /\ At(r, "answer")
  /\ LET e == req[r] IN
     cookie' = CASE e.answer = "keep"  -> cookie
                 [] e.answer = "clear" -> [cookie EXCEPT ![e.browser] = NoCookie]
                 [] OTHER -> [cookie EXCEPT ![e.browser] = [token |-> e.token, until |-> now + CookieTtl]]
  /\ Step(r, IdleRequest)
  /\ UNCHANGED <<logout, server, now, faults, history>>

\* The callback of a sign-in: the server redeems the code.
Callback(r, b, x) ==
  /\ At(r, "idle") /\ Len(logins) < MaxLogins /\ x \notin ended
  /\ logins' = Append(logins, [sid |-> x, gen |-> 1, at |-> now])
  /\ Step(r, [IdleRequest EXCEPT !.pc = "mint", !.browser = b, !.since = now,
                                 !.token = [NoToken EXCEPT !.login = Len(logins) + 1, !.gen = 1]])
  /\ UNCHANGED <<cookie, logout, ended, notices, now, faults, history>>

\* clearSession and the end of a sign-out: the answer deletes the cookie.
ClearSession(r, b) ==
  /\ At(r, "idle")
  /\ Step(r, Answer([IdleRequest EXCEPT !.browser = b, !.since = now], FALSE, "clear"))
  /\ UNCHANGED <<cookie, logout, server, now, faults, history>>

-----------------------------------------------------------------------------
(* The back-channel logout route *)

PostAt(h, label) == post[h].pc = label
PostStep(h, e) == post' = [post EXCEPT ![h] = e]
BySid(n) == n.key \in Sids

\* A logout token is posted.  One already handled is refused: the answer is 400.
Post(h, j) ==
  /\ PostAt(h, "idle") /\ j \in DOMAIN notices
  /\ IF j \in handled
     THEN replayed' = replayed \cup {j} /\ UNCHANGED post
     ELSE PostStep(h, [IdlePost EXCEPT !.pc = "handle", !.note = j]) /\ UNCHANGED replayed
  /\ UNCHANGED <<cookie, req, records, handled, server, now, faults, closed, revived, failed>>

\* A bug: the answer is 200, and no record is made.
HandleOnly(h) ==
  /\ PostAt(h, "handle")
  /\ handled' = handled \cup {post[h].note}
  /\ PostStep(h, IdlePost)
  /\ UNCHANGED <<cookie, req, records, server, now, faults, history>>

\* handleBackchannelLogout has ended the sessions stored here (NodeSession), and remembers the token.
Handle(h) ==
  /\ PostAt(h, "handle")
  /\ handled' = handled \cup {post[h].note}
  /\ PostStep(h, [post[h] EXCEPT !.pc = "read"])
  /\ UNCHANGED <<cookie, req, records, server, now, faults, history>>

\* A bug: the record lasts as long as an access token.
AccessExpiry == now + AccessTtl

\* No session cookie is to outlive the record.
RecordExpiry == now + CookieTtl

\* record: the time the record lasts, and what a record by subject says already.
Read(h) ==
  /\ PostAt(h, "read")
  /\ LET n == notices[post[h].note]
         existing == IF Live(n.key) THEN records[n.key].endedAt ELSE 0 IN
     PostStep(h, [post[h] EXCEPT !.pc = "write", !.expiresAt = RecordExpiry,
                                 !.endedAt = IF BySid(n) THEN 0 ELSE Latest(n.at, existing)])
  /\ UNCHANGED <<cookie, req, records, handled, server, now, faults, history>>

\* The record is stored, and the answer is 200.
Write(h) ==
  /\ PostAt(h, "write")
  /\ LET n == notices[post[h].note] IN
     /\ records' = [records EXCEPT ![n.key] = [endedAt |-> post[h].endedAt,
                                               expiresAt |-> post[h].expiresAt]]
     /\ closed' = closed \cup {l \in DOMAIN logins : logins[l].sid \in n.gone}
  /\ PostStep(h, IdlePost)
  /\ UNCHANGED <<cookie, req, handled, server, now, faults, revived, replayed, failed>>

\* The store fails, and the answer is 500.
RecordFails(h) ==
  /\ PostAt(h, "read") \/ PostAt(h, "write")
  /\ faults < MaxFaults /\ faults' = faults + 1
  /\ failed' = failed \cup {post[h].note}
  /\ PostStep(h, IdlePost)
  /\ UNCHANGED <<cookie, req, records, handled, server, now, closed, revived, replayed>>

-----------------------------------------------------------------------------
(* The server and the clock *)

\* The server ends one server session, or those a subject has, and issues a logout token.
ServerLogout(k) ==
  /\ Len(notices) < MaxNotices
  /\ LET used == {logins[l].sid : l \in DOMAIN logins} \ ended
         gone == IF k \in Sids THEN {k} \cap used ELSE {x \in used : SubOf[x] = k} IN
     /\ gone # {}
     /\ ended' = ended \cup gone
     /\ notices' = Append(notices, [key |-> k, at |-> now, gone |-> gone])
  /\ UNCHANGED <<cookie, req, logout, logins, now, faults, history>>

\* A second passes.  No request takes longer than MaxDelay.
Tick ==
  /\ now < MaxTime /\ now' = now + 1
  /\ \A r \in Requests : ~At(r, "idle") => now < req[r].since + MaxDelay
  /\ UNCHANGED <<cookie, req, logout, server, faults, history>>

-----------------------------------------------------------------------------
\* No request is under way, and these users have signed in.
Started(users) ==
  /\ cookie = [b \in Browsers |-> NoCookie]
  /\ req = [r \in Requests |-> IdleRequest]
  /\ post = [h \in Handlers |-> IdlePost]
  /\ records = [k \in Keys |-> NoRecord]
  /\ handled = {}
  /\ logins = users /\ ended = {} /\ notices = <<>>
  /\ now = 0 /\ faults = 0
  /\ closed = {} /\ revived = {} /\ replayed = {} /\ failed = {}

Init == Started(<<>>)

\* What a browser asks.
Ask(r) ==
  \E b \in Browsers :
    \/ \E p \in Paths : Arrive(r, b, p)
    \/ \E x \in Sids : Callback(r, b, x)
    \/ ClearSession(r, b)

Serve(r) ==
  Check(r) \/ Verify(r) \/ ServerRefresh(r) \/ RefreshFails(r) \/ Mint(r) \/ Recheck(r) \/ Deliver(r)

Record(h) == Handle(h) \/ Read(h) \/ Write(h)

Next ==
  \/ \E r \in Requests : Ask(r) \/ Serve(r)
  \/ \E h \in Handlers : (\E j \in 1..MaxNotices : Post(h, j)) \/ Record(h) \/ RecordFails(h)
  \/ \E k \in Keys : ServerLogout(k)
  \/ Tick

Spec == Init /\ [][Next]_vars

-----------------------------------------------------------------------------
(* Properties *)

\* Every variable keeps to its type.
TypeOK ==
  /\ cookie \in [Browsers -> [token : Tokens, until : Nat]]
  /\ req \in [Requests ->
       [pc : {"idle", "check", "verify", "fetch", "mint", "recheck", "answer"},
        path : AllPaths \cup {"callback"}, browser : Browsers \cup {NoBrowser}, token : Tokens,
        since : Nat, asked : Nat, served : BOOLEAN, late : BOOLEAN, lost : BOOLEAN, answer : Answers]]
  /\ post \in [Handlers -> [pc : {"idle", "handle", "read", "write"},
                            note : Nat, expiresAt : Nat, endedAt : Nat]]
  /\ records \in [Keys -> Records]
  /\ handled \subseteq Nat
  /\ logins \in Seq([sid : Sids, gen : Nat, at : Nat])
  /\ ended \subseteq Sids
  /\ notices \in Seq([key : Keys, at : Nat, gone : SUBSET Sids])
  /\ now \in Nat /\ faults \in Nat
  /\ closed \subseteq Nat /\ revived \subseteq Nat /\ replayed \subseteq Nat /\ failed \subseteq Nat

\* Every later request that presents a matching session cookie is treated as signed out
\* (backchannelLogout): once a logout token was answered with 200, no request that arrives
\* afterwards is served as a login the token ended, whatever was refreshed beside it.
EndedIsRefused == \A r \in Requests : req[r].served => ~req[r].late

\* The same where a refresh that was under way may make a cookie that outlives the record.
EndedUnlessRevived ==
  \A r \in Requests : req[r].served /\ req[r].late => req[r].token.login \in revived

\* Back-channel logout ends no other session (isLoggedOut): a request is refused for a record only
\* when a logout token names its server session, or its subject and a time it had begun by.
NamedBy(t, n) ==
  IF BySid(n) THEN SidOf(t) = n.key
  ELSE SubOf[SidOf(t)] = n.key /\ t.signedInAt <= n.at + Tolerance

OnlyNamedRefused ==
  \A b \in Browsers : cookie[b].token # NoToken /\ LoggedOut(cookie[b].token) =>
    \E j \in DOMAIN notices : NamedBy(cookie[b].token, notices[j])

\* Until when a session of x that began at t is refused (isLoggedOut).
RefusedUntil(x, t) ==
  LET bySid == IF Live(x) THEN records[x].expiresAt ELSE 0
      sub == records[SubOf[x]]
      bySub == IF Live(SubOf[x]) /\ t <= sub.endedAt THEN sub.expiresAt ELSE 0 IN
  IF bySub > bySid THEN bySub ELSE bySid

Ledger == INSTANCE LogoutLedger WITH
  Times <- 0..MaxTime, Term <- CookieTtl,
  refused <- [x \in Sids |-> [t \in 0..MaxTime |-> RefusedUntil(x, t)]],
  issued <- [j \in DOMAIN notices |-> [key |-> notices[j].key, at |-> notices[j].at]]

\* A later logout is not replaced by an earlier one that arrives out of order (LoggedOutSessions):
\* where logout tokens are handled one after the other, in any order, no record takes back what
\* another said, none reaches a session no token names, and only time lets a session in again.
LogoutsAreKept == Ledger!Spec

\* The logins a logout token ends are ended, by a record that was stored.
Recorded(j) == \A l \in DOMAIN logins : logins[l].sid \in notices[j].gone => l \in closed

\* A retry after a failure is not refused as a replay (rememberHandled): a logout token that is
\* refused as already handled is recorded, or a handler is about to record it, unless the store
\* failed after the token was remembered.
ReplayedIsRecorded ==
  \A j \in replayed \ failed : (\E h \in Handlers : post[h].note = j) \/ Recorded(j)

\* The session whose cookie the proxy deletes is dead and cannot be recovered (thunderIDProxy): its
\* refresh token is good for nothing, or a logout token names it; unless its token request was lost,
\* or another answer has replaced the cookie meanwhile.
ClearedIsDead ==
  [][\A r \in Requests :
       LET t == cookie[req[r].browser].token IN
       At(r, "answer") /\ req[r].answer = "clear" /\ req[r].path = "proxy" /\ req'[r].pc = "idle"
         /\ ~req[r].lost /\ t = req[r].token =>
         t = NoToken \/ ~Valid(t) \/ \E j \in DOMAIN notices : NamedBy(t, notices[j])]_vars
=============================================================================
