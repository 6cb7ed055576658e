------------------------- MODULE AuthorizationRequest -------------------------
(***************************************************************************)
(* The authorization requests of a browser and their callbacks: the state, *)
(* the PKCE verifier and the organization unit that getSignInUrl keeps for *)
(* requestAccessToken.  They are kept in the hybrid data (localStorage),   *)
(* which the tabs, the silent sign-ins and the switches of organization    *)
(* unit of one browser share.  Every `await' of the source ends a step.    *)
(*                                                                         *)
(* generatePkceStorageKey looks for the keys in use in the temporary data, *)
(* where none is ever stored, so every request gets index 0: all share the *)
(* one slot modelled here.                                                 *)
(***************************************************************************)
EXTENDS Naturals, FiniteSets

CONSTANTS
  Requests,    \* authorization requests
  Handlers,    \* the callbacks being handled at once
  Units, NoUnit, Nothing,
  MaxCallbacks, MaxFaults   \* bounds: the callbacks of a request, and the token requests lost

ASSUME ConstantsAssumption ==
  /\ NoUnit \notin Units /\ Nothing \notin Requests
  /\ {MaxCallbacks, MaxFaults} \subseteq Nat

VARIABLES
  slot,        \* the hybrid data under index 0: whose verifier and state, and which unit
  request,     \* where each request is, and the unit it is bounded to
  callback,    \* where each callback being handled is, and what it has read
  done,        \* requests whose code was exchanged for tokens
  spent,       \* the server: the codes it redeemed
  callbacks,   \* how often each request's callback was handled
  faults,
  \* History, read by properties only:
  disturbed,   \* requests whose slot another request or callback changed before they were done with it
  inherited,   \* requests that began while a bounded one was not done with its unit
  doubled,     \* requests of which two callbacks were accepted before either removed the state
  asked,       \* requests whose code was sent to the token endpoint
  again,       \* those it was sent to more than once
  lost         \* those whose token request was lost

limits  == <<callbacks, faults>>
history == <<disturbed, inherited, doubled, asked, again, lost>>
vars    == <<slot, request, callback, done, spent, limits, history>>

NoCallback == [pc |-> "idle", of |-> Nothing, unit |-> NoUnit, verifier |-> Nothing]

At(c, label)   == callback[c].pc = label
Step(c, label) == callback' = [callback EXCEPT ![c].pc = label]

\* Requests that use the slot: it was begun, and no callback of it has read all it needs.
Open == {a \in Requests : request[a].pc # "new" /\ a \notin asked}

\* The slot is changed for request a: this disturbs the others that use it.
Disturbs(a) == disturbed' = disturbed \cup (Open \ {a})

-----------------------------------------------------------------------------
(* getSignInUrl *)

Begin(a, u) ==
  /\ request[a].pc = "new"
  /\ request' = [request EXCEPT ![a] = [pc |-> "verifier", unit |-> u]]
  /\ inherited' = IF u = NoUnit /\ \E b \in Open : request[b].unit # NoUnit
                  THEN inherited \cup {a} ELSE inherited
  /\ UNCHANGED <<slot, callback, done, spent, limits, disturbed, doubled, asked, again, lost>>

StoreVerifier(a) ==
  /\ request[a].pc = "verifier" /\ request' = [request EXCEPT ![a].pc = "state"]
  /\ slot' = [slot EXCEPT !.verifier = a] /\ Disturbs(a)
  /\ UNCHANGED <<callback, done, spent, limits, inherited, doubled, asked, again, lost>>

StoreState(a) ==
  /\ request[a].pc = "state" /\ request' = [request EXCEPT ![a].pc = "unit"]
  /\ slot' = [slot EXCEPT !.state = a] /\ Disturbs(a)
  /\ UNCHANGED <<callback, done, spent, limits, inherited, doubled, asked, again, lost>>

\* A request that is bounded to no unit leaves the unit that is stored.
StoreUnit(a) ==
  /\ request[a].pc = "unit" /\ request' = [request EXCEPT ![a].pc = "push"]
  /\ IF request[a].unit = NoUnit
     THEN UNCHANGED <<slot, disturbed>>
     ELSE slot' = [slot EXCEPT !.unit = request[a].unit] /\ Disturbs(a)
  /\ UNCHANGED <<callback, done, spent, limits, inherited, doubled, asked, again, lost>>

\* The URL is built, or the request is pushed first, which may fail.
Send(a) ==
  /\ request[a].pc = "push"
  /\ \E end \in {"sent", "failed"} : request' = [request EXCEPT ![a].pc = end]
  /\ UNCHANGED <<slot, callback, done, spent, limits, history>>

\* The server answers with a code, if the user signs in.
Authorize(a) ==
  /\ request[a].pc = "sent" /\ request' = [request EXCEPT ![a].pc = "code"]
  /\ UNCHANGED <<slot, callback, done, spent, limits, history>>

-----------------------------------------------------------------------------
(* requestAccessToken *)

\* The page, or the route, is asked to handle the callback of a request; it may be asked again.
Arrive(c, a) ==
  /\ At(c, "idle") /\ request[a].pc = "code"
  /\ callbacks[a] < MaxCallbacks /\ callbacks' = [callbacks EXCEPT ![a] = @ + 1]
  /\ callback' = [callback EXCEPT ![c] = [pc |-> "check", of |-> a, unit |-> NoUnit, verifier |-> Nothing]]
  /\ UNCHANGED <<slot, request, done, spent, faults, history>>

\* A bug: a stray callback takes the stored state away.
CheckClears(c) ==
  /\ At(c, "check")
  /\ IF slot.state = callback[c].of
     THEN Step(c, "remove") /\ UNCHANGED slot
     ELSE callback' = [callback EXCEPT ![c] = NoCallback] /\ slot' = [slot EXCEPT !.state = Nothing]
  /\ UNCHANGED <<request, done, spent, limits, history>>

\* A bug: the state is not compared.
CheckNothing(c) ==
  /\ At(c, "check") /\ Step(c, "remove")
  /\ UNCHANGED <<slot, request, done, spent, limits, history>>

\* The state is compared with the one stored; on a mismatch the slot is left as it is.
CheckState(c) ==
  /\ At(c, "check")
  /\ \/ /\ slot.state = callback[c].of
        /\ Step(c, "remove")
        /\ doubled' = IF \E d \in Handlers \ {c} : At(d, "remove") /\ callback[d].of = callback[c].of
                      THEN doubled \cup {callback[c].of} ELSE doubled
     \/ /\ slot.state # callback[c].of
        /\ callback' = [callback EXCEPT ![c] = NoCallback]
        /\ UNCHANGED doubled
  /\ UNCHANGED <<slot, request, done, spent, limits, disturbed, inherited, asked, again, lost>>

\* A bug: the state stays.
KeepState(c) ==
  /\ At(c, "remove") /\ Step(c, "unit")
  /\ UNCHANGED <<slot, request, done, spent, limits, history>>

RemoveState(c) ==
  /\ At(c, "remove") /\ Step(c, "unit")
  /\ slot' = [slot EXCEPT !.state = Nothing] /\ Disturbs(callback[c].of)
  /\ UNCHANGED <<request, done, spent, limits, inherited, doubled, asked, again, lost>>

ReadUnit(c) ==
  /\ At(c, "unit")
  /\ callback' = [callback EXCEPT ![c].unit = slot.unit,
                                  ![c].pc = IF slot.unit = NoUnit THEN "verifier" ELSE "dropUnit"]
  /\ UNCHANGED <<slot, request, done, spent, limits, history>>

\* A bug: the unit stays.
KeepUnit(c) ==
  /\ At(c, "dropUnit") /\ Step(c, "verifier")
  /\ UNCHANGED <<slot, request, done, spent, limits, history>>

\* A bug: an empty value is stored in place of the unit.
EmptyUnit(c) ==
  /\ At(c, "dropUnit") /\ Step(c, "verifier")
  /\ slot' = [slot EXCEPT !.unit = Nothing] /\ Disturbs(callback[c].of)
  /\ UNCHANGED <<request, done, spent, limits, inherited, doubled, asked, again, lost>>

DropUnit(c) ==
  /\ At(c, "dropUnit") /\ Step(c, "verifier")
  /\ slot' = [slot EXCEPT !.unit = NoUnit] /\ Disturbs(callback[c].of)
  /\ UNCHANGED <<request, done, spent, limits, inherited, doubled, asked, again, lost>>

ReadVerifier(c) ==
  /\ At(c, "verifier")
  /\ callback' = [callback EXCEPT ![c].verifier = slot.verifier, ![c].pc = "dropVerifier"]
  /\ UNCHANGED <<slot, request, done, spent, limits, history>>

\* The verifier is removed, and the token request is sent.
DropVerifier(c) ==
  /\ At(c, "dropVerifier") /\ Step(c, "fetch")
  /\ slot' = [slot EXCEPT !.verifier = Nothing] /\ Disturbs(callback[c].of)
  /\ asked' = asked \cup {callback[c].of}
  /\ again' = IF callback[c].of \in asked THEN again \cup {callback[c].of} ELSE again
  /\ UNCHANGED <<request, done, spent, limits, inherited, doubled, lost>>

-----------------------------------------------------------------------------
(* The token endpoint *)

\* The server redeems a code once, for the verifier of its request, at the endpoint of its unit.
Redeemable(c) ==
  LET a == callback[c].of IN
  a \notin spent /\ callback[c].verifier = a /\ callback[c].unit = request[a].unit

Redeem(c) ==
  /\ At(c, "fetch")
  /\ IF Redeemable(c)
     THEN spent' = spent \cup {callback[c].of} /\ done' = done \cup {callback[c].of}
     ELSE UNCHANGED <<spent, done>>
  /\ callback' = [callback EXCEPT ![c] = NoCallback]
  /\ UNCHANGED <<slot, request, limits, history>>

\* The token request, or its answer, is lost.  Nothing is put back.
Lose(c) ==
  /\ At(c, "fetch") /\ faults < MaxFaults /\ faults' = faults + 1
  /\ \/ UNCHANGED spent
     \/ Redeemable(c) /\ spent' = spent \cup {callback[c].of}
  /\ lost' = lost \cup {callback[c].of}
  /\ callback' = [callback EXCEPT ![c] = NoCallback]
  /\ UNCHANGED <<slot, request, done, callbacks, disturbed, inherited, doubled, asked, again>>

-----------------------------------------------------------------------------
Init ==
  /\ slot = [verifier |-> Nothing, state |-> Nothing, unit |-> NoUnit]
  /\ request = [a \in Requests |-> [pc |-> "new", unit |-> NoUnit]]
  /\ callback = [c \in Handlers |-> NoCallback]
  /\ done = {} /\ spent = {} /\ callbacks = [a \in Requests |-> 0] /\ faults = 0
  /\ disturbed = {} /\ inherited = {} /\ doubled = {} /\ asked = {} /\ again = {} /\ lost = {}

Store(a) == StoreVerifier(a) \/ StoreState(a) \/ StoreUnit(a) \/ Send(a)

Handle(c) ==
  \/ CheckState(c) \/ RemoveState(c) \/ ReadUnit(c) \/ DropUnit(c)
  \/ ReadVerifier(c) \/ DropVerifier(c) \/ Redeem(c)

Next ==
  \/ \E a \in Requests : (\E u \in Units \cup {NoUnit} : Begin(a, u)) \/ Store(a) \/ Authorize(a)
  \/ \E c \in Handlers : (\E a \in Requests : Arrive(c, a)) \/ Handle(c) \/ Lose(c)

Spec == Init /\ [][Next]_vars

\* A callback that is being handled goes on, and one the server sent arrives.
Fairness ==
  /\ \A c \in Handlers : WF_vars(Handle(c))
  /\ \A a \in Requests : SF_vars(\E c \in Handlers : Arrive(c, a))

FairSpec == Spec /\ Fairness

-----------------------------------------------------------------------------
(* Properties *)

\* Every variable keeps to its type.
TypeOK ==
  /\ slot \in [verifier : Requests \cup {Nothing}, state : Requests \cup {Nothing}, unit : Units \cup {NoUnit}]
  /\ request \in [Requests -> [pc : {"new", "verifier", "state", "unit", "push", "sent", "failed", "code"},
                               unit : Units \cup {NoUnit}]]
  /\ callback \in [Handlers -> [pc : {"idle", "check", "remove", "unit", "dropUnit", "verifier",
                                      "dropVerifier", "fetch"},
                                of : Requests \cup {Nothing}, unit : Units \cup {NoUnit},
                                verifier : Requests \cup {Nothing}]]
  /\ callbacks \in [Requests -> 0..MaxCallbacks] /\ faults \in 0..MaxFaults
  /\ \A S \in {done, spent, disturbed, inherited, doubled, asked, again, lost} : S \subseteq Requests

\* Requests that no other touched, and no second callback of their own was accepted beside.
Undisturbed == Requests \ (disturbed \cup doubled)

\* A stray callback cannot cancel the sign-in that is still in progress (requestAccessToken): the
\* code of a request is sent with the request's own verifier, unless another request or callback
\* that was accepted changed the slot in between.
OwnVerifier ==
  \A c \in Handlers : At(c, "fetch") /\ callback[c].of \in Undisturbed =>
    callback[c].verifier = callback[c].of

\* A code is redeemed at the token endpoint of the unit its request was bounded to (getSignInUrl),
\* unless a bounded request was begun before it and never finished.
OwnUnit ==
  \A c \in Handlers : At(c, "fetch") /\ callback[c].of \in Undisturbed \ inherited =>
    callback[c].unit = request[callback[c].of].unit

\* A code is sent once (the state is removed when it is accepted), unless two callbacks of it were
\* handled at once.
SentOnce == again \subseteq doubled

\* A sign-in the server answered completes, whatever strays beside it, unless its slot was changed,
\* it inherited a unit, or its token request was lost.
SignInCompletes ==
  \A a \in Requests :
    request[a].pc = "code" ~> a \in done \cup lost \cup inherited \/ a \notin Undisturbed
=============================================================================
