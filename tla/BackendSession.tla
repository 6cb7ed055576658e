---------------------------- MODULE BackendSession ----------------------------
(***************************************************************************)
(* A page whose sign-in runs on a backend: BackendClient, its HTTP client, *)
(* and the part of ThunderIDBrowserClient that keeps an access token for   *)
(* requests that skip the proxy.  The backend holds the session; the page  *)
(* keeps what it last read of it.  A call is one request of the page, sent *)
(* with fetch; what the code does after an answer is one step.             *)
(*                                                                         *)
(* Kinds of call: "read" loadSession, "check" checkSession, "api" a        *)
(* request through the proxy, "token" requestAccessToken, "signOut".       *)
(* The refresh is shared by its callers and kept apart from the calls.     *)
(***************************************************************************)
EXTENDS Naturals

CONSTANTS
  Calls,        \* the requests of the page under way at once
  Uses,         \* the kinds of call the application makes
  NoCall,
  MaxLogins, MaxGen, MaxFaults   \* bounds

ASSUME ConstantsAssumption ==
  /\ NoCall \notin Calls /\ Uses \subseteq {"read", "check", "api", "token", "signOut"}
  /\ {MaxLogins, MaxGen, MaxFaults} \subseteq Nat

VARIABLES
  session,      \* the cached promise: none, of a read under way, or settled
  hasLoadedSession,
  wasSignedIn,  \* the login the page takes for signed in; 0 is FALSE
  refreshing,   \* the shared refresh: not under way, sent, or its answer
  call,         \* the calls, with their answers
  token,        \* the session storage: the login its access token is of, or 0
  backend,      \* the backend's session
  faults,
  \* History, read by properties only:
  refreshed,    \* the generation the last refresh the page saw gave
  ownEnded,     \* logins this page signed out
  overtaken,    \* logins that had another request under way beside a sign-out
  doubted,      \* logins whose refresh failed, that expired again before a retried read, or
                \* that began while a request was under way
  told,         \* logins the listeners were told had ended
  echoed        \* those of them this page had signed out itself

page    == <<session, hasLoadedSession, wasSignedIn, refreshing, call, token>>
history == <<refreshed, ownEnded, overtaken, doubted, told, echoed>>
vars    == <<page, backend, faults, history>>

Kinds   == {"read", "check", "api", "token", "signOut"}
Answers == {"none", "ok", "out", "expired", "error", "network"}

Idle      == [pc |-> "idle", kind |-> "read", retry |-> FALSE, answer |-> "none", login |-> 0, gen |-> 0]
NoSession == [is |-> "none", of |-> NoCall, gen |-> 0]
SignedOut == [is |-> "out", of |-> NoCall, gen |-> 0]

Pending(c)      == [is |-> "pending", of |-> c, gen |-> 0]
SignedIn(gen)   == [is |-> "in", of |-> NoCall, gen |-> gen]

-----------------------------------------------------------------------------
(* What the page does with an answer *)

At(c, label) == call[c].pc = label
Busy(C)      == (\E c \in C : ~At(c, "idle")) \/ refreshing # "none"
SigningOut   == \E c \in Calls : call[c].kind = "signOut" /\ ~At(c, "idle")

Tell ==
  /\ told' = told \cup {wasSignedIn}
  /\ echoed' = IF wasSignedIn \in ownEnded THEN echoed \cup {wasSignedIn} ELSE echoed
  /\ token' = 0

\* A bug: the cached session stays.
MarkKeepsCache ==
  /\ hasLoadedSession' = TRUE /\ wasSignedIn' = 0 /\ UNCHANGED session
  /\ IF wasSignedIn # 0 THEN Tell ELSE UNCHANGED <<told, echoed, token>>

\* markSignedOut.  The listener of ThunderIDBrowserClient removes the stored access token.
MarkSignedOut ==
  /\ session' = SignedOut /\ hasLoadedSession' = TRUE /\ wasSignedIn' = 0
  /\ IF wasSignedIn # 0 THEN Tell ELSE UNCHANGED <<told, echoed, token>>

KeepMarks == UNCHANGED <<session, hasLoadedSession, wasSignedIn, told, echoed, token>>

\* A read settles with this session: the cache has it while its promise is the cached one.
Settle(c, value) ==
  /\ session' = IF session = Pending(c) THEN value ELSE session
  /\ hasLoadedSession' = TRUE

\* A bug: a read that finds nobody signed in settles only where somebody had been.
SettleWatchedOnly(c) ==
  \/ wasSignedIn # 0 /\ MarkSignedOut
  \/ /\ wasSignedIn = 0 /\ hasLoadedSession' = TRUE
     /\ UNCHANGED <<session, wasSignedIn, told, echoed, token>>

\* signedOutSession: the mark is deferred to a microtask, which runs before the next answer.
SettleSignedOut(c) ==
  \/ wasSignedIn # 0 /\ MarkSignedOut
  \/ wasSignedIn = 0 /\ Settle(c, SignedOut) /\ UNCHANGED <<wasSignedIn, told, echoed, token>>

\* A read fails.  The cache is emptied, whatever it holds.
SettleFails ==
  /\ session' = NoSession /\ hasLoadedSession' = TRUE
  /\ UNCHANGED <<wasSignedIn, told, echoed, token>>

-----------------------------------------------------------------------------
(* Calls *)

Send(c, kind) ==
  /\ At(c, "idle") /\ kind \in Uses
  /\ call' = [call EXCEPT ![c] = [Idle EXCEPT !.pc = "sent", !.kind = kind]]
  /\ overtaken' = IF SigningOut \/ (kind = "signOut" /\ Busy(Calls))
                  THEN overtaken \cup {backend.login} ELSE overtaken

\* getSession with nothing cached, or with reload.
GetSession(c) ==
  /\ Send(c, "read") /\ session' = Pending(c)
  /\ UNCHANGED <<hasLoadedSession, wasSignedIn, refreshing, token, backend, faults,
                 refreshed, ownEnded, doubted, told, echoed>>

\* watch: a check while a session is known; only a visible page is modelled.
CheckSession(c) ==
  /\ wasSignedIn # 0
  /\ Send(c, "check")
  /\ UNCHANGED <<session, hasLoadedSession, wasSignedIn, refreshing, token, backend, faults,
                 refreshed, ownEnded, doubted, told, echoed>>

\* A request through the proxy, or _getBackendAccessToken, which shares one request.
Request(c, kind) ==
  /\ kind \in {"api", "token"}
  /\ kind = "token" => \A d \in Calls : At(d, "idle") \/ call[d].kind # "token"
  /\ Send(c, kind)
  /\ UNCHANGED <<session, hasLoadedSession, wasSignedIn, refreshing, token, backend, faults,
                 refreshed, ownEnded, doubted, told, echoed>>

\* A bug: the stored access token stays.
SignOutKeepsToken(c) ==
  /\ Send(c, "signOut")
  /\ UNCHANGED <<session, hasLoadedSession, wasSignedIn, refreshing, token, backend, faults,
                 refreshed, ownEnded, doubted, told, echoed>>

\* ThunderIDBrowserClient.signOut removes the stored access token, then asks the backend.
SignOut(c) ==
  /\ Send(c, "signOut") /\ token' = 0
  /\ UNCHANGED <<session, hasLoadedSession, wasSignedIn, refreshing, backend, faults,
                 refreshed, ownEnded, doubted, told, echoed>>

\* refreshAccessToken of the application.
Refresh ==
  /\ refreshing = "none" /\ refreshing' = "sent"
  /\ overtaken' = IF SigningOut THEN overtaken \cup {backend.login} ELSE overtaken
  /\ UNCHANGED <<session, hasLoadedSession, wasSignedIn, call, token, backend, faults,
                 refreshed, ownEnded, doubted, told, echoed>>

-----------------------------------------------------------------------------
(* The backend *)

\* What it answers to a call.  A check takes an expired session for a live one.
AnswerTo(kind) ==
  IF kind = "signOut" THEN "ok"
  ELSE CASE backend.state = "ended"   -> "out"
         [] backend.state = "expired" -> IF kind = "check" THEN "ok" ELSE "expired"
         [] OTHER                     -> "ok"

Serve(c) ==
  /\ At(c, "sent")
  /\ call' = [call EXCEPT ![c].pc = "answered", ![c].answer = AnswerTo(call[c].kind),
                          ![c].login = IF call[c].kind \in {"read", "token", "signOut"} THEN backend.login ELSE 0,
                          ![c].gen = IF call[c].kind = "read" THEN backend.gen ELSE 0]
  /\ backend' = IF call[c].kind = "signOut" THEN [backend EXCEPT !.state = "ended"] ELSE backend
  /\ doubted' = IF call[c].kind = "read" /\ call[c].retry /\ backend.state = "expired"
                THEN doubted \cup {backend.login} ELSE doubted
  /\ UNCHANGED <<session, hasLoadedSession, wasSignedIn, refreshing, token, faults,
                 refreshed, ownEnded, overtaken, told, echoed>>

ServeRefresh ==
  /\ refreshing = "sent"
  /\ \/ /\ backend.state # "ended" /\ backend.gen < MaxGen
        /\ backend' = [backend EXCEPT !.state = "active", !.gen = @ + 1]
        /\ refreshing' = "ok"
     \/ /\ backend.state = "ended"
        /\ refreshing' = "refused" /\ UNCHANGED backend
  /\ UNCHANGED <<session, hasLoadedSession, wasSignedIn, call, token, faults, history>>

\* The backend fails, or a request or its answer is lost.
CallFails(c) ==
  /\ faults < MaxFaults /\ faults' = faults + 1
  /\ At(c, "sent") \/ At(c, "answered")
  /\ \E a \in {"error", "network"} :
       /\ a = "error" => At(c, "sent")
       /\ call' = [call EXCEPT ![c] = [Idle EXCEPT !.pc = "answered", !.kind = call[c].kind, !.answer = a]]
  /\ UNCHANGED <<session, hasLoadedSession, wasSignedIn, refreshing, token, backend, history>>

RefreshFails ==
  /\ refreshing = "sent" /\ (faults < MaxFaults \/ backend.gen = MaxGen)
  /\ faults' = IF backend.gen = MaxGen THEN faults ELSE faults + 1
  /\ refreshing' \in {"refused", "network"}
  /\ doubted' = doubted \cup {backend.login}
  /\ UNCHANGED <<session, hasLoadedSession, wasSignedIn, call, token, backend,
                 refreshed, ownEnded, overtaken, told, echoed>>

Expire ==
  /\ backend.state = "active" /\ backend.gen < MaxGen
  /\ backend' = [backend EXCEPT !.state = "expired"]
  /\ UNCHANGED <<page, faults, history>>

\* Another application signs the user out, an administrator ends the session, or it times out.
End ==
  /\ backend.state # "ended"
  /\ backend' = [backend EXCEPT !.state = "ended"]
  /\ UNCHANGED <<page, faults, history>>

\* A sign-in, in this tab before a page load, or in another tab.
SignIn ==
  /\ backend.state = "ended" /\ backend.login < MaxLogins
  /\ backend' = [backend EXCEPT !.login = @ + 1, !.state = "active"]
  /\ doubted' = IF Busy(Calls) THEN doubted \cup {backend.login + 1} ELSE doubted
  /\ overtaken' = IF SigningOut THEN overtaken \cup {backend.login + 1} ELSE overtaken
  /\ UNCHANGED <<page, faults, refreshed, ownEnded, told, echoed>>

-----------------------------------------------------------------------------
(* Answers *)

Done(c) == call' = [call EXCEPT ![c] = Idle]

\* A call whose session has expired waits for the refresh, which it starts when there is none.
AwaitRefresh(c) ==
  /\ At(c, "answered") /\ call[c].answer = "expired" /\ ~call[c].retry
  /\ call' = [call EXCEPT ![c].pc = "refreshing"]
  /\ refreshing' = IF refreshing = "none" THEN "sent" ELSE refreshing
  /\ UNCHANGED <<session, hasLoadedSession, wasSignedIn, token, backend, faults, history>>

\* A bug: a session that is read is not remembered as signed in.
ReceiveReadForgets(c) ==
  /\ At(c, "answered") /\ call[c].kind = "read"
  /\ \/ /\ call[c].answer = "ok"
        /\ Settle(c, SignedIn(call[c].gen)) /\ UNCHANGED <<wasSignedIn, told, echoed, token>>
     \/ /\ call[c].answer = "out" \/ (call[c].answer = "expired" /\ call[c].retry)
        /\ SettleSignedOut(c)
     \/ call[c].answer \in {"error", "network"} /\ SettleFails
  /\ Done(c)
  /\ UNCHANGED <<refreshing, backend, faults, refreshed, ownEnded, overtaken, doubted>>

\* loadSession.  A session that is signed in is known, even where the cache has gone on.
ReceiveRead(c) ==
  /\ At(c, "answered") /\ call[c].kind = "read"
  /\ \/ /\ call[c].answer = "ok" /\ wasSignedIn' = call[c].login
        /\ Settle(c, SignedIn(call[c].gen)) /\ UNCHANGED <<told, echoed, token>>
     \/ /\ call[c].answer = "out" \/ (call[c].answer = "expired" /\ call[c].retry)
        /\ SettleSignedOut(c)
     \/ call[c].answer \in {"error", "network"} /\ SettleFails
  /\ Done(c)
  /\ UNCHANGED <<refreshing, backend, faults, refreshed, ownEnded, overtaken, doubted>>

\* checkSession.  A failed check changes nothing.
ReceiveCheck(c) ==
  /\ At(c, "answered") /\ call[c].kind = "check"
  /\ IF call[c].answer = "out" THEN MarkSignedOut ELSE KeepMarks
  /\ Done(c)
  /\ UNCHANGED <<refreshing, backend, faults, refreshed, ownEnded, overtaken, doubted>>

\* A bug: every 401 of the backend is taken for the end of the session.
ReceiveRequestAny401(c) ==
  /\ At(c, "answered") /\ call[c].kind \in {"api", "token"}
  /\ \/ /\ call[c].answer \in {"out", "expired"} /\ ~call[c].retry
        /\ MarkSignedOut
     \/ /\ call[c].answer = "ok" /\ call[c].kind = "token"
        /\ token' = call[c].login
        /\ UNCHANGED <<session, hasLoadedSession, wasSignedIn, told, echoed>>
     \/ /\ \/ call[c].answer \in {"error", "network"}
           \/ call[c].answer = "ok" /\ call[c].kind = "api"
           \/ call[c].answer \in {"out", "expired"} /\ call[c].retry
        /\ KeepMarks
  /\ Done(c)
  /\ UNCHANGED <<refreshing, backend, faults, refreshed, ownEnded, overtaken, doubted>>

\* BackendHttpClient.transport and requestAccessToken: what a retry answers is not looked at.
ReceiveRequest(c) ==
  /\ At(c, "answered") /\ call[c].kind \in {"api", "token"}
  /\ \/ /\ call[c].answer = "out" /\ ~call[c].retry
        /\ MarkSignedOut
     \/ /\ call[c].answer = "ok" /\ call[c].kind = "token"
        /\ token' = call[c].login
        /\ UNCHANGED <<session, hasLoadedSession, wasSignedIn, told, echoed>>
     \/ /\ \/ call[c].answer \in {"error", "network"}
           \/ call[c].answer = "ok" /\ call[c].kind = "api"
           \/ call[c].answer \in {"out", "expired"} /\ call[c].retry
        /\ KeepMarks
  /\ Done(c)
  /\ UNCHANGED <<refreshing, backend, faults, refreshed, ownEnded, overtaken, doubted>>

\* A bug: the page goes on taking itself for signed in.
ReceiveSignOutKeeps(c) ==
  /\ At(c, "answered") /\ call[c].kind = "signOut"
  /\ IF call[c].answer = "network"
     THEN UNCHANGED <<session, wasSignedIn>>
     ELSE session' = SignedOut /\ UNCHANGED wasSignedIn
  /\ ownEnded' = IF call[c].answer = "ok" THEN ownEnded \cup {call[c].login} ELSE ownEnded
  /\ Done(c)
  /\ UNCHANGED <<hasLoadedSession, refreshing, token, backend, faults,
                 refreshed, overtaken, doubted, told, echoed>>

\* signOut: signed out, whatever the status; a fetch that fails throws before.
ReceiveSignOut(c) ==
  /\ At(c, "answered") /\ call[c].kind = "signOut"
  /\ IF call[c].answer = "network"
     THEN UNCHANGED <<session, wasSignedIn>>
     ELSE session' = SignedOut /\ wasSignedIn' = 0
  /\ ownEnded' = IF call[c].answer = "ok" THEN ownEnded \cup {call[c].login} ELSE ownEnded
  /\ Done(c)
  /\ UNCHANGED <<hasLoadedSession, refreshing, token, backend, faults,
                 refreshed, overtaken, doubted, told, echoed>>

\* A bug: the session that was cached stays cached.
RefreshOkKeeps == UNCHANGED <<session, hasLoadedSession, wasSignedIn, told, echoed, token>>

\* The session has changed, and is read again when it is asked for.
RefreshOk == session' = NoSession /\ UNCHANGED <<hasLoadedSession, wasSignedIn, told, echoed, token>>

\* The waiting calls are sent again.
Resend ==
  call' = [c \in Calls |-> IF At(c, "refreshing") THEN [call[c] EXCEPT !.pc = "sent", !.retry = TRUE]
                                                  ELSE call[c]]

\* A bug: only one of the calls that wait for the refresh goes on when it did not succeed.
GiveUpOne ==
  \/ \E d \in Calls : At(d, "refreshing") /\ call' = [call EXCEPT ![d] = Idle]
  \/ (\A d \in Calls : ~At(d, "refreshing")) /\ UNCHANGED call

\* The waiting calls end.
GiveUp == call' = [c \in Calls |-> IF At(c, "refreshing") THEN Idle ELSE call[c]]

\* refresh: its `then', its `finally', and the callers that wait for it.
ReceiveRefresh ==
  /\ refreshing \in {"ok", "refused", "network"}
  /\ refreshing' = "none"
  /\ \/ refreshing = "ok" /\ RefreshOk /\ Resend /\ refreshed' = backend.gen
     \/ refreshing = "refused" /\ MarkSignedOut /\ GiveUp /\ UNCHANGED refreshed
     \/ /\ refreshing = "network" /\ GiveUp /\ UNCHANGED refreshed
        /\ IF \E c \in Calls : At(c, "refreshing") /\ call[c].kind = "read"
           THEN SettleFails ELSE KeepMarks
  /\ UNCHANGED <<backend, faults, ownEnded, overtaken, doubted>>

-----------------------------------------------------------------------------
Init ==
  /\ \E c \in Calls :
       session = Pending(c) /\ call = [[d \in Calls |-> Idle] EXCEPT ![c].pc = "sent"]
  /\ hasLoadedSession = FALSE /\ wasSignedIn = 0 /\ refreshing = "none"
  /\ token = 0
  /\ backend = [login |-> 1, state |-> "active", gen |-> 1]
  /\ faults = 0
  /\ refreshed = 0
  /\ ownEnded = {} /\ overtaken = {} /\ doubted = {} /\ told = {} /\ echoed = {}

Receive(c) ==
  AwaitRefresh(c) \/ ReceiveRead(c) \/ ReceiveCheck(c) \/ ReceiveRequest(c) \/ ReceiveSignOut(c)

Next ==
  \/ Refresh \/ ServeRefresh \/ RefreshFails \/ ReceiveRefresh
  \/ \E c \in Calls :
       GetSession(c) \/ CheckSession(c) \/ SignOut(c) \/ Serve(c) \/ CallFails(c) \/ Receive(c)
  \/ \E c \in Calls, kind \in {"api", "token"} : Request(c, kind)
  \/ Expire \/ End \/ SignIn

Spec == Init /\ [][Next]_vars

\* A fetch settles and its answer is handled; the poll goes on while the page is open and visible.
Fairness ==
  /\ \A c \in Calls : WF_vars(Serve(c) \/ Receive(c))
  /\ WF_vars(ServeRefresh \/ RefreshFails \/ ReceiveRefresh)
  /\ SF_vars(\E c \in Calls : CheckSession(c))

FairSpec == Spec /\ Fairness

-----------------------------------------------------------------------------
(* Properties *)

\* Every variable keeps to its type, and a cached promise that is pending is of a read under way.
TypeOK ==
  /\ session \in [is : {"none", "pending", "in", "out"}, of : Calls \cup {NoCall}, gen : Nat]
  /\ session.is = "pending" => call[session.of].kind = "read" /\ ~At(session.of, "idle")
  /\ hasLoadedSession \in BOOLEAN
  /\ refreshing \in {"none", "sent", "ok", "refused", "network"}
  /\ call \in [Calls -> [pc : {"idle", "sent", "answered", "refreshing"}, kind : Kinds,
                         retry : BOOLEAN, answer : Answers, login : Nat, gen : Nat]]
  /\ backend \in [login : Nat, state : {"active", "expired", "ended"}, gen : Nat]
  /\ {wasSignedIn, token, faults, refreshed} \subseteq Nat
  /\ \A S \in {ownEnded, overtaken, doubted, told, echoed} : S \subseteq Nat

\* A session that is cached as signed in is watched (getSession, watch): whatever reads, refreshes
\* and sign-outs overtake each other, the checks that notice its end go on.
CachedIsWatched == session.is = "in" => wasSignedIn # 0

\* The result is cached until a refresh changes it (getSession): what is cached was answered after
\* the last refresh the page saw, never by a read the refresh overtook.
CachedIsFresh == session.is = "in" => session.gen >= refreshed

\* The listeners are told of the end of a session that has ended (onSignedOut), but for a session
\* whose refresh failed, that expired again before a read was retried (loadSession), or that began
\* while an answer about an earlier one was under way.
ToldIsEnded ==
  \A l \in told : l = backend.login /\ backend.state # "ended" => l \in doubted

\* Signing out here is not news to anyone (signOut): the listeners are told of this page's own
\* sign-out only where another request was under way beside it.
OwnSignOutIsQuiet == echoed \subseteq overtaken

\* No access token of a session this page has signed out stays in the session storage
\* (ThunderIDBrowserClient.signOut), unless another request was under way beside the sign-out.
NoTokenAfterSignOut == token \in ownEnded => token \in overtaken

\* A session's end is noticed while the page is open (watch): a session that has ended for good is
\* in the end neither cached nor taken for signed in.
EndIsNoticed == <>[](backend.state = "ended") => <>[](wasSignedIn = 0 /\ session.is # "in")

\* It is known in the end whether the user is signed in, and no call waits for ever for the shared
\* refresh (isLoading, refresh).
CallsEnd == \A c \in Calls : ~At(c, "idle") ~> At(c, "idle")
=============================================================================
