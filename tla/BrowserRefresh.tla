---------------------------- MODULE BrowserRefresh ----------------------------
(***************************************************************************)
(* Token refresh in a page: the timer of SPAHelper, the 401 handlers of    *)
(* AuthenticationHelper, refreshes the application asks for, sign-in,      *)
(* sign-out and revocation, over one set of stored tokens.                 *)
(*                                                                         *)
(* A run is one refresh under way.  Who runs it:                           *)
(*   "timer"    the timer's handler, or the start of the refresh for a     *)
(*              token about to end; it holds _isTokenRefreshLoading        *)
(*   "request"  the 401 handler of httpRequest: _isTokenRefreshing         *)
(*   "all"      the 401 handler of httpRequestAll: no flag, no new timer   *)
(*   "app"      refreshAccessToken called by the application: no flag      *)
(*                                                                         *)
(* periodicTokenRefresh is on, and a sign-out stays in the page (no        *)
(* end_session_endpoint, a route of the application for signInUrl).  How   *)
(* long a timer takes is left open; a token is "short" when it lasts no    *)
(* longer than the buffer before its end.                                  *)
(***************************************************************************)
EXTENDS Naturals, FiniteSets

CONSTANTS
  Runs,         \* the refreshes under way at once
  Requests,     \* the requests that wait for a refresh at once
  AutoLogout,   \* autoLogoutOnTokenRefreshError
  MaxLogins, MaxGen   \* bounds

ASSUME ConstantsAssumption ==
  AutoLogout \in BOOLEAN /\ {MaxLogins, MaxGen} \subseteq Nat

VARIABLES
  store,        \* the session: its login (0: none), refresh token, and whether the access token is short
  timer,        \* the timer REFRESH_TOKEN_TIMER names is set
  loose,        \* how many other timers are set
  loading,      \* _isTokenRefreshLoading
  refreshing,   \* _isTokenRefreshing
  run,          \* the refreshes under way
  waiting,      \* the requests that wait for _isTokenRefreshing to go down
  revoking,     \* revokeAccessToken: where the timer is that it read, if it is under way
  erred,        \* a REFRESH_ACCESS_TOKEN_ERROR message is on its way
  gens,         \* the server: the current refresh token of each login
  ended,        \* the server: the logins that ended
  \* History, read by properties only:
  closed,       \* logins this page signed out or revoked
  raced,        \* those a refresh was under way for
  excused,      \* logins with two refreshes at once or a lost one, or that began beside a refresh or its error
  stalled,      \* a refresh failed, or met a short token under the flag, and no timer was set since
  twice         \* something may have set a timer beside the one of the session

timing  == <<timer, loose, revoking>>
server  == <<gens, ended>>
history == <<closed, raced, excused, stalled, twice>>
vars    == <<store, timing, loading, refreshing, run, waiting, erred, server, history>>

Causes    == {"timer", "request", "all", "app"}
NoSession == [login |-> 0, gen |-> 0, short |-> FALSE]
IdleRun   == [pc |-> "idle", by |-> "app", login |-> 0, gen |-> 0, short |-> FALSE, holds |-> FALSE]

Active(n) == run[n].pc # "idle"
Racing(l) == \E n \in Runs : Active(n) /\ run[n].login = l
Logins    == DOMAIN gens

\* A run that ends by setting a timer.
Chained(n) == Active(n) /\ run[n].by # "all"

-----------------------------------------------------------------------------
(* SPAHelper *)

\* The stored number is overwritten or lost: its timer runs on.
Loosen ==
  /\ loose' = loose + (IF timer THEN 1 ELSE 0)
  /\ revoking' = IF timer /\ revoking = "stored" THEN "loose" ELSE revoking

\* A timer is set and its number stored; the one stored before is not cleared.
SetTimer == Loosen /\ timer' = TRUE /\ stalled' = FALSE

\* clearRefreshTokenTimeout: the stored timer is cleared, or has fired.
Unset == /\ UNCHANGED loose
         /\ revoking' = IF revoking = "stored" THEN "none" ELSE revoking

\* A run reads the stored refresh token and sends it.
Sent(by, session, holds) ==
  [pc |-> "sent", by |-> by, login |-> session.login, gen |-> session.gen, short |-> FALSE, holds |-> holds]

Start(n, by, session) ==
  ~Active(n) /\ run' = [run EXCEPT ![n] = Sent(by, session, by = "timer")]

\* A refresh begins beside another of the login.
Overlap(l) == excused' = IF Racing(l) THEN excused \cup {l} ELSE excused

\* A refresh fails, and says so in a message.
Fails == erred' = TRUE /\ stalled' = TRUE

\* A bug: the stored timer is not cleared first.
ScheduleBeside(session) ==
  ~session.short /\ SetTimer /\ UNCHANGED <<loading, run, twice>>

\* clearRefreshTokenTimeout and refreshAccessTokenAutomatically, for the session given.
Schedule(session) ==
  /\ twice' = (twice \/ \E n \in Runs : Chained(n))
  /\ \/ ~session.short /\ Unset /\ timer' = TRUE /\ stalled' = FALSE /\ UNCHANGED <<loading, run>>
     \/ /\ session.short /\ ~loading /\ loading' = TRUE
        /\ \E n \in Runs : Start(n, "timer", session)
        /\ Unset /\ timer' = FALSE /\ UNCHANGED stalled
     \/ /\ session.short /\ loading /\ stalled' = TRUE
        /\ Unset /\ timer' = FALSE /\ UNCHANGED <<loading, run>>

-----------------------------------------------------------------------------
(* Refreshes begin *)

\* A sign-in where there is no session: its tokens are stored and the refresh is scheduled.
SignIn ==
  /\ store = NoSession /\ Cardinality(Logins) < MaxLogins
  /\ LET l == Cardinality(Logins) + 1 IN
     /\ gens' = [k \in Logins \cup {l} |-> IF k = l THEN 1 ELSE gens[k]]
     /\ \E short \in BOOLEAN :
          LET session == [login |-> l, gen |-> 1, short |-> short] IN
          store' = session /\ Schedule(session)
     /\ excused' = IF erred \/ \E n \in Runs : Active(n) THEN excused \cup {l} ELSE excused
  /\ UNCHANGED <<refreshing, waiting, erred, ended, closed, raced>>

\* startAutoRefreshToken, or signIn while signed in.
StartAutoRefreshToken ==
  /\ store # NoSession
  /\ Schedule(store)
  /\ IF run' # run THEN Overlap(store.login) ELSE UNCHANGED excused
  /\ UNCHANGED <<store, refreshing, waiting, erred, server, closed, raced>>

\* The handler of a timer.  Without a session its refresh fails at once.
Fire ==
  /\ \/ timer /\ timer' = FALSE /\ Unset
     \/ /\ loose > 0 /\ loose' = loose - 1 /\ UNCHANGED timer
        /\ \/ revoking = "loose" /\ revoking' = "none"
           \/ (revoking = "loose" => loose > 1) /\ UNCHANGED revoking
  /\ \/ loading /\ UNCHANGED <<loading, run, erred, stalled, excused>>
     \/ ~loading /\ store = NoSession /\ Fails /\ UNCHANGED <<loading, run, excused>>
     \/ /\ ~loading /\ store # NoSession /\ loading' = TRUE
        /\ \E n \in Runs : Start(n, "timer", store)
        /\ Overlap(store.login) /\ UNCHANGED <<erred, stalled>>
  /\ UNCHANGED <<store, refreshing, waiting, server, closed, raced, twice>>

\* refreshAccessToken, or the 401 handler of httpRequestAll.
RefreshNow(n, by) ==
  /\ by \in {"app", "all"} /\ store # NoSession
  /\ Start(n, by, store) /\ Overlap(store.login)
  /\ UNCHANGED <<store, timing, loading, refreshing, waiting, erred, server, closed, raced, stalled, twice>>

\* A request met a 401, and no other refreshes: it does.
Reject(n) ==
  /\ ~refreshing /\ refreshing' = TRUE /\ store # NoSession
  /\ Start(n, "request", store) /\ Overlap(store.login)
  /\ UNCHANGED <<store, timing, loading, waiting, erred, server, closed, raced, stalled, twice>>

\* It waits for the refresh of another.
Wait(q) ==
  /\ refreshing /\ q \notin waiting /\ waiting' = waiting \cup {q}
  /\ UNCHANGED <<store, timing, loading, refreshing, run, erred, server, history>>

\* retryFailedRequests: the flag is down, so the request is sent once more, however the refresh went.
Retry(q) ==
  /\ ~refreshing /\ q \in waiting /\ waiting' = waiting \ {q}
  /\ UNCHANGED <<store, timing, loading, refreshing, run, erred, server, history>>

-----------------------------------------------------------------------------
(* The server *)

Good(n) == run[n].gen = gens[run[n].login] /\ run[n].login \notin ended

\* The refresh token is replaced.
ServerRefresh(n) ==
  /\ run[n].pc = "sent" /\ Good(n) /\ run[n].gen < MaxGen
  /\ \E short \in BOOLEAN : run' = [run EXCEPT ![n].pc = "ok", ![n].gen = @ + 1, ![n].short = short]
  /\ gens' = [gens EXCEPT ![run[n].login] = @ + 1]
  /\ UNCHANGED <<store, timing, loading, refreshing, waiting, erred, ended, history>>

\* The refresh is refused, or it or its answer is lost.
RefreshFails(n) ==
  /\ run[n].pc = "sent" /\ run' = [run EXCEPT ![n].pc = "failed"]
  /\ \/ ~Good(n) /\ UNCHANGED <<gens, excused>>
     \/ /\ Good(n) /\ gens' \in {gens, [gens EXCEPT ![run[n].login] = IF @ < MaxGen THEN @ + 1 ELSE @]}
        /\ excused' = excused \cup {run[n].login}
  /\ UNCHANGED <<store, timing, loading, refreshing, waiting, erred, ended, closed, raced, stalled, twice>>

\* The server ends the session of a login.
ServerEnds(l) ==
  /\ l \in Logins \ ended /\ ended' = ended \cup {l}
  /\ UNCHANGED <<store, timing, loading, refreshing, run, waiting, erred, gens, history>>

-----------------------------------------------------------------------------
(* Answers *)

\* The flags a run holds come down.
End(n) ==
  /\ refreshing' = (refreshing /\ run[n].by # "request")
  /\ loading' = (loading /\ ~run[n].holds)
  /\ run' = [run EXCEPT ![n] = IdleRun]

\* A bug: a refresh that fails leaves the flag of the 401 handler up.
EndFailedWaits(n) ==
  /\ loading' = (loading /\ ~run[n].holds)
  /\ run' = [run EXCEPT ![n] = IdleRun] /\ UNCHANGED refreshing

\* The `finally' of the timer's handler and the `catch' of the 401 handler.
EndFailed(n) == End(n)

\* A bug: the session stored has no refresh token.
AnsweredNone(n) == [login |-> run[n].login, short |-> run[n].short]

\* A bug: the refresh token stored is the one that was sent.
AnsweredOld(n) == [login |-> run[n].login, gen |-> run[n].gen - 1, short |-> run[n].short]

\* The tokens are stored, whoever is signed in by then.
Answered(n) == [login |-> run[n].login, gen |-> run[n].gen, short |-> run[n].short]

\* A bug: the refresh that ends sets no timer.
ContinueOnce(n) == End(n) /\ UNCHANGED <<timing, stalled, excused, twice>>

\* refreshAccessTokenAutomatically after a refresh.  A short token is refreshed at once, but not
\* under the flag; the timer that is stored is not cleared.
Continue(n) ==
  \/ /\ run[n].by = "all"
     /\ End(n) /\ UNCHANGED <<timing, stalled, excused, twice>>
  \/ /\ run[n].by # "all" /\ ~run[n].short
     /\ SetTimer /\ twice' = (twice \/ run[n].by \in {"app", "request"})
     /\ End(n) /\ UNCHANGED excused
  \/ /\ run[n].by # "all" /\ run[n].short /\ loading
     /\ stalled' = TRUE
     /\ End(n) /\ UNCHANGED <<timing, excused, twice>>
  \/ /\ run[n].by # "all" /\ run[n].short /\ ~loading /\ loading' = TRUE
     /\ run' = [run EXCEPT ![n] = Sent(run[n].by, Answered(n), TRUE)]
     /\ excused' = IF \E m \in Runs \ {n} : Active(m) /\ run[m].login = run[n].login
                   THEN excused \cup {run[n].login} ELSE excused
     /\ UNCHANGED <<timing, refreshing, stalled, twice>>

Receive(n) ==
  /\ \/ /\ run[n].pc = "ok"
        /\ store' = Answered(n)
        /\ Continue(n) /\ UNCHANGED erred
     \/ /\ run[n].pc = "failed"
        /\ EndFailed(n)
        /\ IF run[n].by = "all" THEN UNCHANGED <<erred, stalled>> ELSE Fails
        /\ UNCHANGED <<store, timing, excused, twice>>
  /\ UNCHANGED <<waiting, server, closed, raced>>

-----------------------------------------------------------------------------
(* Sign-out and revocation *)

Closed ==
  /\ closed' = closed \cup ({store.login} \ {0})
  /\ raced' = IF Racing(store.login) THEN raced \cup {store.login} ELSE raced

\* The number of the timer is removed with the temporary data; a timer that is set runs on.
Closes == Loosen /\ timer' = FALSE /\ twice' = (twice \/ timer \/ loose > 0) /\ Closed

\* A bug: the session data stays.
ClearTemporaryOnly == Closes /\ UNCHANGED store

\* clearSession removes the temporary data, with the number of the timer, and the session.
ClearSession == Closes /\ store' = NoSession

\* signOut by the application.
SignOut ==
  /\ store # NoSession
  /\ ClearSession
  /\ UNCHANGED <<loading, refreshing, run, waiting, erred, server, excused, stalled>>

\* The message of a refresh that failed signs the user out, whoever it is by then.
SignOutForError ==
  /\ erred /\ erred' = FALSE
  /\ \/ AutoLogout /\ store # NoSession /\ ClearSession
     \/ /\ ~AutoLogout \/ store = NoSession
        /\ UNCHANGED <<store, timing, closed, raced, twice>>
  /\ UNCHANGED <<loading, refreshing, run, waiting, server, excused, stalled>>

\* revokeAccessToken reads the timer and sends the request.
Revoke ==
  /\ revoking = "no" /\ store # NoSession
  /\ revoking' = IF timer THEN "stored" ELSE "none"
  /\ UNCHANGED <<store, timer, loose, loading, refreshing, run, waiting, erred, server, history>>

\* It clears the session, then the timer it read.
Revoked ==
  /\ revoking # "no" /\ revoking' = "no"
  /\ store' = NoSession /\ timer' = FALSE
  /\ loose' = loose + (IF timer /\ revoking # "stored" THEN 1 ELSE 0) - (IF revoking = "loose" THEN 1 ELSE 0)
  /\ twice' = (twice \/ loose' > 0)
  /\ Closed
  /\ UNCHANGED <<loading, refreshing, run, waiting, erred, server, excused, stalled>>

\* The request is refused, or lost: nothing is cleared.
RevokeFails ==
  /\ revoking # "no" /\ revoking' = "no"
  /\ UNCHANGED <<store, timer, loose, loading, refreshing, run, waiting, erred, server, history>>

-----------------------------------------------------------------------------
Init ==
  /\ store = NoSession /\ timer = FALSE /\ loose = 0 /\ revoking = "no"
  /\ loading = FALSE /\ refreshing = FALSE
  /\ run = [n \in Runs |-> IdleRun] /\ waiting = {}
  /\ erred = FALSE
  /\ gens = [l \in {} |-> 0] /\ ended = {}
  /\ closed = {} /\ raced = {} /\ excused = {} /\ stalled = FALSE /\ twice = FALSE

Next ==
  \/ SignIn \/ StartAutoRefreshToken \/ Fire \/ SignOut \/ SignOutForError
  \/ Revoke \/ Revoked \/ RevokeFails
  \/ \E n \in Runs :
       \/ \E by \in Causes : RefreshNow(n, by)
       \/ Reject(n) \/ ServerRefresh(n) \/ RefreshFails(n) \/ Receive(n)
  \/ \E q \in Requests : Wait(q) \/ Retry(q)
  \/ \E l \in 1..MaxLogins : ServerEnds(l)

Spec == Init /\ [][Next]_vars

-----------------------------------------------------------------------------
(* Properties *)

\* Every variable keeps to its type.
TypeOK ==
  /\ store \in [login : Nat, gen : Nat, short : BOOLEAN]
  /\ timer \in BOOLEAN /\ loose \in Nat /\ revoking \in {"no", "none", "stored", "loose"}
  /\ run \in [Runs -> [pc : {"idle", "sent", "ok", "failed"}, by : Causes, login : Nat, gen : Nat,
                       short : BOOLEAN, holds : BOOLEAN]]
  /\ waiting \subseteq Requests
  /\ {loading, refreshing, erred, stalled, twice} \subseteq BOOLEAN
  /\ \A S \in {ended, closed, raced, excused} : S \subseteq Logins

\* No request waits for ever, and no timer finds the refresh taken for ever (retryFailedRequests,
\* _isTokenRefreshLoading): a flag that is up has one run under way that will take it down.
FlagsHeld ==
  /\ loading    => Cardinality({n \in Runs : Active(n) /\ run[n].holds}) = 1
  /\ refreshing => Cardinality({n \in Runs : Active(n) /\ run[n].by = "request"}) = 1

\* The chain of refreshes goes on while the user is signed in (refreshAccessTokenAutomatically):
\* there is a timer, or a refresh that will set one, unless a refresh failed or gave a token that
\* lasts no longer than the buffer, or a session was closed while a refresh of it was under way.
KeptFresh ==
  store # NoSession /\ ~timer /\ loose = 0 => stalled \/ raced # {} \/ \E n \in Runs : Chained(n)

\* A session has one timer (REFRESH_TOKEN_TIMER), and the chains of refreshes do not multiply, as
\* long as neither the application nor a 401 asked for a refresh, no sign-out left a timer on, and
\* no refresh was scheduled beside one under way.
OneChain ==
  ~twice => loose = 0 /\ ~(timer /\ \E n \in Runs : Chained(n) /\ run[n].by = "timer")

\* autoLogoutOnTokenRefreshError ends no session the server keeps, unless two refreshes of it were
\* under way at once, one was lost, or the error was of an earlier session.
OnlyDeadThrownOut ==
  [][SignOutForError /\ store' # store => store.login \in ended \cup closed \cup excused]_vars

\* A session that was signed out does not come back, unless a refresh was under way.
SignedOutStays == store.login \in closed => store.login \in raced
=============================================================================
