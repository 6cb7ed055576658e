---------------------- MODULE AuthorizationRequest_proofs ----------------------
(* Theorems about AuthorizationRequest, for any number of requests, callbacks and units. *)
EXTENDS AuthorizationRequest, TLAPS

\* A callback that is being handled is of a request.
TypeInv == TypeOK /\ \A c \in Handlers : ~At(c, "idle") => callback[c].of \in Requests

\* Where a callback is once it removed the state, and once it was accepted.
AfterState == {"unit", "dropUnit", "verifier", "dropVerifier"}
Accepted   == {"remove"} \cup AfterState

\* Where a request is once it stored its unit.
PastUnit == {"push", "sent", "failed", "code"}

\* Only a request the server answered has callbacks, or a code that was sent.
AnsweredInv ==
  /\ \A c \in Handlers : At(c, "fetch") => callback[c].of \in asked
  /\ \A c \in Handlers : ~At(c, "idle") => request[callback[c].of].pc = "code"
  /\ \A a \in asked : request[a].pc = "code"

\* A state that is stored is of a request no callback of which got past it.
StateInv ==
  \A a \in Requests \ doubled : slot.state = a =>
    a \notin asked /\ \A c \in Handlers : callback[c].of = a => callback[c].pc \notin AfterState

\* One callback of a request at a time is accepted, before its code is sent.
AcceptedInv ==
  \A a \in Requests \ doubled, c \in Handlers : callback[c].of = a /\ callback[c].pc \in Accepted =>
    a \notin asked /\ \A d \in Handlers : callback[d].of = a /\ callback[d].pc \in Accepted => c = d

OnceInv == TypeInv /\ AnsweredInv /\ StateInv /\ AcceptedInv /\ SentOnce

\* The verifier of a request that was not disturbed is stored until it is used.
VerifierInv ==
  /\ \A a \in Requests \ (disturbed \cup asked) :
       request[a].pc \notin {"new", "verifier"} => slot.verifier = a
  /\ \A c \in Handlers : callback[c].pc \in {"dropVerifier", "fetch"} /\ callback[c].of \in Undisturbed =>
       callback[c].verifier = callback[c].of

\* A request whose unit is stored, and is yet to be removed by its callback.
Owner(b) ==
  /\ request[b].unit # NoUnit /\ request[b].pc \in PastUnit /\ b \notin asked
  /\ \A c \in Handlers : callback[c].of = b => callback[c].pc \notin {"verifier", "dropVerifier", "fetch"}

\* A unit that is stored has an owner; an undisturbed request that is bounded finds its own unit,
\* and one that is not finds none where none had an owner when it began.
UnitInv ==
  /\ slot.unit # NoUnit => \E b \in Requests : Owner(b)
  /\ \A a \in Requests \ (disturbed \cup inherited \cup asked) :
       request[a].pc # "new" /\ request[a].unit = NoUnit => slot.unit = NoUnit
  /\ \A a \in Undisturbed : Owner(a) => slot.unit = request[a].unit
  /\ \A c \in Handlers :
       callback[c].pc \in {"dropUnit", "verifier", "dropVerifier", "fetch"}
         /\ callback[c].of \in Undisturbed \ inherited =>
       callback[c].unit = request[callback[c].of].unit

-----------------------------------------------------------------------------
(* The types *)

USE ConstantsAssumption DEF At, Step, Open, Disturbs, limits, history

LEMMA TypeInit == Init => TypeInv
BY DEF Init, TypeInv, TypeOK, NoCallback

LEMMA TypeStep ==
  ASSUME TypeInv, [Next]_vars
  PROVE  TypeInv'
<1>1. ASSUME NEW a \in Requests, NEW u \in Units \cup {NoUnit}, Begin(a, u) PROVE TypeInv'
  BY <1>1 DEF Begin, TypeInv, TypeOK
<1>2. ASSUME NEW a \in Requests, StoreVerifier(a) PROVE TypeInv'
  <2>1. slot' \in [verifier : Requests \cup {Nothing}, state : Requests \cup {Nothing}, unit : Units \cup {NoUnit}]
    BY <1>2 DEF StoreVerifier, TypeInv, TypeOK
  <2>2. request' \in [Requests -> [pc : {"new", "verifier", "state", "unit", "push", "sent", "failed", "code"},
                                  unit : Units \cup {NoUnit}]]
    BY <1>2 DEF StoreVerifier, TypeInv, TypeOK
  <2>3. disturbed' \subseteq Requests
    BY <1>2 DEF StoreVerifier, TypeInv, TypeOK
  <2>4. UNCHANGED <<callback, callbacks, faults, done, spent, inherited, doubled, asked, again, lost>>
    BY <1>2 DEF StoreVerifier
  <2> QED
    BY <2>1, <2>2, <2>3, <2>4 DEF TypeInv, TypeOK
<1>3. ASSUME NEW a \in Requests, StoreState(a) PROVE TypeInv'
  BY <1>3 DEF StoreState, TypeInv, TypeOK
<1>4. ASSUME NEW a \in Requests, StoreUnit(a) PROVE TypeInv'
  BY <1>4 DEF StoreUnit, TypeInv, TypeOK
<1>5. ASSUME NEW a \in Requests, Send(a) PROVE TypeInv'
  BY <1>5 DEF Send, TypeInv, TypeOK
<1>6. ASSUME NEW a \in Requests, Authorize(a) PROVE TypeInv'
  BY <1>6 DEF Authorize, TypeInv, TypeOK
<1>7. ASSUME NEW c \in Handlers, NEW a \in Requests, Arrive(c, a) PROVE TypeInv'
  <2>1. callbacks' \in [Requests -> 0..MaxCallbacks]
    BY <1>7 DEF Arrive, TypeInv, TypeOK
  <2> QED
    BY <1>7, <2>1 DEF Arrive, TypeInv, TypeOK
<1>8. ASSUME NEW c \in Handlers, CheckState(c) PROVE TypeInv'
  <2>1. CASE slot.state = callback[c].of
    <3>1. callback' = [callback EXCEPT ![c].pc = "remove"]
      BY <1>8, <2>1 DEF CheckState
    <3>2. doubled' \subseteq Requests
      BY <1>8, <2>1 DEF CheckState, TypeInv, TypeOK
    <3>3. UNCHANGED <<slot, request, callbacks, faults, done, spent, disturbed, inherited, asked, again, lost>>
      BY <1>8 DEF CheckState
    <3>4. callback' \in [Handlers -> [pc : {"idle", "check", "remove", "unit", "dropUnit",
                                                 "verifier", "dropVerifier", "fetch"},
                                           of : Requests \cup {Nothing}, unit : Units \cup {NoUnit},
                                           verifier : Requests \cup {Nothing}]]
      BY <3>1 DEF TypeInv, TypeOK
    <3>5. \A d \in Handlers : callback'[d].pc # "idle" => callback'[d].of \in Requests
      BY <1>8, <3>1 DEF CheckState, TypeInv, TypeOK
    <3> QED
      BY <3>2, <3>3, <3>4, <3>5 DEF TypeInv, TypeOK
  <2>2. CASE slot.state # callback[c].of
    <3>1. callback' = [callback EXCEPT ![c] = NoCallback]
      BY <1>8, <2>2 DEF CheckState
    <3>2. UNCHANGED <<slot, request, callbacks, faults, done, spent, doubled, disturbed, inherited, asked, again, lost>>
      BY <1>8, <2>2 DEF CheckState
    <3> QED
      BY <3>1, <3>2 DEF NoCallback, TypeInv, TypeOK
  <2> QED
    BY <2>1, <2>2
<1>9. ASSUME NEW c \in Handlers, RemoveState(c) PROVE TypeInv'
  BY <1>9 DEF RemoveState, TypeInv, TypeOK
<1>10. ASSUME NEW c \in Handlers, ReadUnit(c) PROVE TypeInv'
  BY <1>10 DEF ReadUnit, TypeInv, TypeOK
<1>11. ASSUME NEW c \in Handlers, DropUnit(c) PROVE TypeInv'
  <2>1. slot' \in [verifier : Requests \cup {Nothing}, state : Requests \cup {Nothing}, unit : Units \cup {NoUnit}]
    BY <1>11 DEF DropUnit, TypeInv, TypeOK
  <2>2. callback' \in [Handlers -> [pc : {"idle", "check", "remove", "unit", "dropUnit",
                                                   "verifier", "dropVerifier", "fetch"},
                                             of : Requests \cup {Nothing}, unit : Units \cup {NoUnit},
                                             verifier : Requests \cup {Nothing}]]
    BY <1>11 DEF DropUnit, TypeInv, TypeOK
  <2>3. disturbed' \subseteq Requests
    BY <1>11 DEF DropUnit, TypeInv, TypeOK
  <2>4. UNCHANGED <<request, callbacks, faults, done, spent, inherited, doubled, asked, again, lost>>
    BY <1>11 DEF DropUnit
  <2>5. \A d \in Handlers : callback'[d].pc # "idle" => callback'[d].of \in Requests
    BY <1>11 DEF DropUnit, TypeInv, TypeOK
  <2> QED
    BY <2>1, <2>2, <2>3, <2>4, <2>5 DEF TypeInv, TypeOK
<1>12. ASSUME NEW c \in Handlers, ReadVerifier(c) PROVE TypeInv'
  BY <1>12 DEF ReadVerifier, TypeInv, TypeOK
<1>13. ASSUME NEW c \in Handlers, DropVerifier(c) PROVE TypeInv'
  BY <1>13 DEF DropVerifier, TypeInv, TypeOK
<1>14. ASSUME NEW c \in Handlers, Redeem(c) PROVE TypeInv'
  BY <1>14 DEF Redeem, Redeemable, NoCallback, TypeInv, TypeOK
<1>15. ASSUME NEW c \in Handlers, Lose(c) PROVE TypeInv'
  BY <1>15 DEF Lose, Redeemable, NoCallback, TypeInv, TypeOK
<1>16. CASE UNCHANGED vars
  BY <1>16 DEF vars, limits, history, TypeInv, TypeOK
<1> QED
  BY <1>1, <1>2, <1>3, <1>4, <1>5, <1>6, <1>7, <1>8, <1>9, <1>10, <1>11, <1>12, <1>13, <1>14,
    <1>15, <1>16 DEF Next, Store, Handle

\* Every variable keeps to its type, whatever requests begin and whichever callbacks arrive.
THEOREM TypeCorrect == Spec => []TypeOK
<1>1. TypeInv => TypeOK
  BY DEF TypeInv
<1> QED
  BY <1>1, TypeInit, TypeStep, PTL DEF Spec

-----------------------------------------------------------------------------
(* A code is sent once *)

\* A callback that is refused is done with, and nothing else changes.
LEMMA RefusedStep ==
  ASSUME TypeInv, NEW c \in Handlers, CheckState(c), slot.state # callback[c].of
  PROVE  /\ callback' \in [Handlers -> [pc : {"idle", "check", "remove", "unit", "dropUnit",
                                             "verifier", "dropVerifier", "fetch"},
                                       of : Requests \cup {Nothing}, unit : Units \cup {NoUnit},
                                       verifier : Requests \cup {Nothing}]]
         /\ callback'[c].pc = "idle"
         /\ \A d \in Handlers \ {c} : callback'[d] = callback[d]
         /\ UNCHANGED <<slot, request, disturbed, inherited, doubled, asked, again>>
BY DEF CheckState, NoCallback, TypeInv, TypeOK

LEMMA AnsweredStep ==
  ASSUME TypeInv, AnsweredInv, [Next]_vars
  PROVE  AnsweredInv'
<1>1. ASSUME NEW a \in Requests, NEW u \in Units \cup {NoUnit}, Begin(a, u) PROVE AnsweredInv'
  BY <1>1 DEF Begin, TypeInv, TypeOK, AnsweredInv
<1>2. ASSUME NEW a \in Requests, StoreVerifier(a) PROVE AnsweredInv'
  BY <1>2 DEF StoreVerifier, TypeInv, TypeOK, AnsweredInv
<1>3. ASSUME NEW a \in Requests, StoreState(a) PROVE AnsweredInv'
  BY <1>3 DEF StoreState, TypeInv, TypeOK, AnsweredInv
<1>4. ASSUME NEW a \in Requests, StoreUnit(a) PROVE AnsweredInv'
  BY <1>4 DEF StoreUnit, TypeInv, TypeOK, AnsweredInv
<1>5. ASSUME NEW a \in Requests, Send(a) PROVE AnsweredInv'
  BY <1>5 DEF Send, TypeInv, TypeOK, AnsweredInv
<1>6. ASSUME NEW a \in Requests, Authorize(a) PROVE AnsweredInv'
  BY <1>6 DEF Authorize, TypeInv, TypeOK, AnsweredInv
<1>7. ASSUME NEW c \in Handlers, NEW a \in Requests, Arrive(c, a) PROVE AnsweredInv'
  BY <1>7 DEF Arrive, TypeInv, TypeOK, AnsweredInv
<1>8. ASSUME NEW c \in Handlers, CheckState(c) PROVE AnsweredInv'
  <2>1. CASE slot.state = callback[c].of
    BY <1>8, <2>1 DEF CheckState, TypeInv, TypeOK, AnsweredInv
  <2>2. CASE slot.state # callback[c].of
    BY <1>8, <2>2, RefusedStep DEF TypeInv, TypeOK, AnsweredInv
  <2> QED
    BY <2>1, <2>2
<1>9. ASSUME NEW c \in Handlers, RemoveState(c) PROVE AnsweredInv'
  BY <1>9 DEF RemoveState, TypeInv, TypeOK, AnsweredInv
<1>10. ASSUME NEW c \in Handlers, ReadUnit(c) PROVE AnsweredInv'
  BY <1>10 DEF ReadUnit, TypeInv, TypeOK, AnsweredInv
<1>11. ASSUME NEW c \in Handlers, DropUnit(c) PROVE AnsweredInv'
  BY <1>11 DEF DropUnit, TypeInv, TypeOK, AnsweredInv
<1>12. ASSUME NEW c \in Handlers, ReadVerifier(c) PROVE AnsweredInv'
  BY <1>12 DEF ReadVerifier, TypeInv, TypeOK, AnsweredInv
<1>13. ASSUME NEW c \in Handlers, DropVerifier(c) PROVE AnsweredInv'
  BY <1>13 DEF DropVerifier, TypeInv, TypeOK, AnsweredInv
<1>14. ASSUME NEW c \in Handlers, Redeem(c) PROVE AnsweredInv'
  BY <1>14 DEF Redeem, NoCallback, TypeInv, TypeOK, AnsweredInv
<1>15. ASSUME NEW c \in Handlers, Lose(c) PROVE AnsweredInv'
  BY <1>15 DEF Lose, NoCallback, TypeInv, TypeOK, AnsweredInv
<1>16. CASE UNCHANGED vars
  BY <1>16 DEF vars, limits, history, TypeInv, TypeOK, AnsweredInv
<1> QED
  BY <1>1, <1>2, <1>3, <1>4, <1>5, <1>6, <1>7, <1>8, <1>9, <1>10, <1>11, <1>12, <1>13, <1>14,
    <1>15, <1>16 DEF Next, Store, Handle

LEMMA StateStep ==
  ASSUME TypeInv, AnsweredInv, StateInv, [Next]_vars
  PROVE  StateInv'
<1>1. ASSUME NEW a \in Requests, NEW u \in Units \cup {NoUnit}, Begin(a, u) PROVE StateInv'
  BY <1>1 DEF Begin, TypeInv, TypeOK, AnsweredInv, StateInv, AfterState
<1>2. ASSUME NEW a \in Requests, StoreVerifier(a) PROVE StateInv'
  BY <1>2 DEF StoreVerifier, TypeInv, TypeOK, AnsweredInv, StateInv, AfterState
<1>3. ASSUME NEW a \in Requests, StoreState(a) PROVE StateInv'
  BY <1>3 DEF StoreState, TypeInv, TypeOK, AnsweredInv, StateInv, AfterState
<1>4. ASSUME NEW a \in Requests, StoreUnit(a) PROVE StateInv'
  BY <1>4 DEF StoreUnit, TypeInv, TypeOK, AnsweredInv, StateInv, AfterState
<1>5. ASSUME NEW a \in Requests, Send(a) PROVE StateInv'
  BY <1>5 DEF Send, TypeInv, TypeOK, AnsweredInv, StateInv, AfterState
<1>6. ASSUME NEW a \in Requests, Authorize(a) PROVE StateInv'
  BY <1>6 DEF Authorize, TypeInv, TypeOK, AnsweredInv, StateInv, AfterState
<1>7. ASSUME NEW c \in Handlers, NEW a \in Requests, Arrive(c, a) PROVE StateInv'
  BY <1>7 DEF Arrive, TypeInv, TypeOK, AnsweredInv, StateInv, AfterState
<1>8. ASSUME NEW c \in Handlers, CheckState(c) PROVE StateInv'
  <2>1. CASE slot.state = callback[c].of
    BY <1>8, <2>1 DEF CheckState, TypeInv, TypeOK, AnsweredInv, StateInv, AfterState
  <2>2. CASE slot.state # callback[c].of
    BY <1>8, <2>2, RefusedStep DEF TypeInv, TypeOK, AnsweredInv, StateInv, AfterState
  <2> QED
    BY <2>1, <2>2
<1>9. ASSUME NEW c \in Handlers, RemoveState(c) PROVE StateInv'
  BY <1>9 DEF RemoveState, TypeInv, TypeOK, AnsweredInv, StateInv, AfterState
<1>10. ASSUME NEW c \in Handlers, ReadUnit(c) PROVE StateInv'
  BY <1>10 DEF ReadUnit, TypeInv, TypeOK, AnsweredInv, StateInv, AfterState
<1>11. ASSUME NEW c \in Handlers, DropUnit(c) PROVE StateInv'
  BY <1>11 DEF DropUnit, TypeInv, TypeOK, AnsweredInv, StateInv, AfterState
<1>12. ASSUME NEW c \in Handlers, ReadVerifier(c) PROVE StateInv'
  BY <1>12 DEF ReadVerifier, TypeInv, TypeOK, AnsweredInv, StateInv, AfterState
<1>13. ASSUME NEW c \in Handlers, DropVerifier(c) PROVE StateInv'
  BY <1>13 DEF DropVerifier, TypeInv, TypeOK, AnsweredInv, StateInv, AfterState
<1>14. ASSUME NEW c \in Handlers, Redeem(c) PROVE StateInv'
  BY <1>14 DEF Redeem, NoCallback, TypeInv, TypeOK, AnsweredInv, StateInv, AfterState
<1>15. ASSUME NEW c \in Handlers, Lose(c) PROVE StateInv'
  BY <1>15 DEF Lose, NoCallback, TypeInv, TypeOK, AnsweredInv, StateInv, AfterState
<1>16. CASE UNCHANGED vars
  BY <1>16 DEF vars, limits, history, TypeInv, TypeOK, AnsweredInv, StateInv, AfterState
<1> QED
  BY <1>1, <1>2, <1>3, <1>4, <1>5, <1>6, <1>7, <1>8, <1>9, <1>10, <1>11, <1>12, <1>13, <1>14,
    <1>15, <1>16 DEF Next, Store, Handle

LEMMA AcceptedStep ==
  ASSUME TypeInv, AnsweredInv, StateInv, AcceptedInv, [Next]_vars
  PROVE  AcceptedInv'
<1>1. ASSUME NEW a \in Requests, NEW u \in Units \cup {NoUnit}, Begin(a, u) PROVE AcceptedInv'
  BY <1>1 DEF Begin, TypeInv, TypeOK, AnsweredInv, StateInv, AcceptedInv, AfterState, Accepted
<1>2. ASSUME NEW a \in Requests, StoreVerifier(a) PROVE AcceptedInv'
  BY <1>2 DEF StoreVerifier, TypeInv, TypeOK, AnsweredInv, StateInv, AcceptedInv, AfterState,
    Accepted
<1>3. ASSUME NEW a \in Requests, StoreState(a) PROVE AcceptedInv'
  BY <1>3 DEF StoreState, TypeInv, TypeOK, AnsweredInv, StateInv, AcceptedInv, AfterState, Accepted
<1>4. ASSUME NEW a \in Requests, StoreUnit(a) PROVE AcceptedInv'
  BY <1>4 DEF StoreUnit, TypeInv, TypeOK, AnsweredInv, StateInv, AcceptedInv, AfterState, Accepted
<1>5. ASSUME NEW a \in Requests, Send(a) PROVE AcceptedInv'
  BY <1>5 DEF Send, TypeInv, TypeOK, AnsweredInv, StateInv, AcceptedInv, AfterState, Accepted
<1>6. ASSUME NEW a \in Requests, Authorize(a) PROVE AcceptedInv'
  BY <1>6 DEF Authorize, TypeInv, TypeOK, AnsweredInv, StateInv, AcceptedInv, AfterState, Accepted
<1>7. ASSUME NEW c \in Handlers, NEW a \in Requests, Arrive(c, a) PROVE AcceptedInv'
  BY <1>7 DEF Arrive, TypeInv, TypeOK, AnsweredInv, StateInv, AcceptedInv, AfterState, Accepted
<1>8. ASSUME NEW c \in Handlers, CheckState(c) PROVE AcceptedInv'
  <2>1. CASE slot.state = callback[c].of
    BY <1>8, <2>1 DEF CheckState, TypeInv, TypeOK, AnsweredInv, StateInv, AcceptedInv,
      AfterState, Accepted
  <2>2. CASE slot.state # callback[c].of
    <3>1. /\ callback'[c].pc = "idle" /\ \A d \in Handlers \ {c} : callback'[d] = callback[d]
          /\ UNCHANGED <<doubled, asked>>
      BY <1>8, <2>2, RefusedStep
    <3>2. \A d \in Handlers : callback'[d].pc \in Accepted => d # c /\ callback'[d] = callback[d]
      BY <3>1 DEF Accepted, AfterState
    <3> QED
      BY <3>1, <3>2 DEF AcceptedInv
  <2> QED
    BY <2>1, <2>2
<1>9. ASSUME NEW c \in Handlers, RemoveState(c) PROVE AcceptedInv'
  BY <1>9 DEF RemoveState, TypeInv, TypeOK, AnsweredInv, StateInv, AcceptedInv, AfterState, Accepted
<1>10. ASSUME NEW c \in Handlers, ReadUnit(c) PROVE AcceptedInv'
  BY <1>10 DEF ReadUnit, TypeInv, TypeOK, AnsweredInv, StateInv, AcceptedInv, AfterState, Accepted
<1>11. ASSUME NEW c \in Handlers, DropUnit(c) PROVE AcceptedInv'
  BY <1>11 DEF DropUnit, TypeInv, TypeOK, AnsweredInv, StateInv, AcceptedInv, AfterState, Accepted
<1>12. ASSUME NEW c \in Handlers, ReadVerifier(c) PROVE AcceptedInv'
  BY <1>12 DEF ReadVerifier, TypeInv, TypeOK, AnsweredInv, StateInv, AcceptedInv, AfterState,
    Accepted
<1>13. ASSUME NEW c \in Handlers, DropVerifier(c) PROVE AcceptedInv'
  BY <1>13 DEF DropVerifier, TypeInv, TypeOK, AnsweredInv, StateInv, AcceptedInv, AfterState,
    Accepted
<1>14. ASSUME NEW c \in Handlers, Redeem(c) PROVE AcceptedInv'
  BY <1>14 DEF Redeem, NoCallback, TypeInv, TypeOK, AnsweredInv, StateInv, AcceptedInv,
    AfterState, Accepted
<1>15. ASSUME NEW c \in Handlers, Lose(c) PROVE AcceptedInv'
  BY <1>15 DEF Lose, NoCallback, TypeInv, TypeOK, AnsweredInv, StateInv, AcceptedInv, AfterState,
    Accepted
<1>16. CASE UNCHANGED vars
  BY <1>16 DEF vars, limits, history, TypeInv, TypeOK, AnsweredInv, StateInv, AcceptedInv,
    AfterState, Accepted
<1> QED
  BY <1>1, <1>2, <1>3, <1>4, <1>5, <1>6, <1>7, <1>8, <1>9, <1>10, <1>11, <1>12, <1>13, <1>14,
    <1>15, <1>16 DEF Next, Store, Handle

LEMMA SentOnceStep ==
  ASSUME TypeInv, AcceptedInv, SentOnce, [Next]_vars
  PROVE  SentOnce'
<1>1. ASSUME NEW a \in Requests, NEW u \in Units \cup {NoUnit}, Begin(a, u) PROVE SentOnce'
  BY <1>1 DEF Begin, TypeInv, TypeOK, AcceptedInv, AfterState, Accepted, SentOnce
<1>2. ASSUME NEW a \in Requests, StoreVerifier(a) PROVE SentOnce'
  BY <1>2 DEF StoreVerifier, TypeInv, TypeOK, AcceptedInv, AfterState, Accepted, SentOnce
<1>3. ASSUME NEW a \in Requests, StoreState(a) PROVE SentOnce'
  BY <1>3 DEF StoreState, TypeInv, TypeOK, AcceptedInv, AfterState, Accepted, SentOnce
<1>4. ASSUME NEW a \in Requests, StoreUnit(a) PROVE SentOnce'
  BY <1>4 DEF StoreUnit, TypeInv, TypeOK, AcceptedInv, AfterState, Accepted, SentOnce
<1>5. ASSUME NEW a \in Requests, Send(a) PROVE SentOnce'
  BY <1>5 DEF Send, TypeInv, TypeOK, AcceptedInv, AfterState, Accepted, SentOnce
<1>6. ASSUME NEW a \in Requests, Authorize(a) PROVE SentOnce'
  BY <1>6 DEF Authorize, TypeInv, TypeOK, AcceptedInv, AfterState, Accepted, SentOnce
<1>7. ASSUME NEW c \in Handlers, NEW a \in Requests, Arrive(c, a) PROVE SentOnce'
  BY <1>7 DEF Arrive, TypeInv, TypeOK, AcceptedInv, AfterState, Accepted, SentOnce
<1>8. ASSUME NEW c \in Handlers, CheckState(c) PROVE SentOnce'
  <2>1. CASE slot.state = callback[c].of
    BY <1>8, <2>1 DEF CheckState, TypeInv, TypeOK, AcceptedInv, AfterState, Accepted, SentOnce
  <2>2. CASE slot.state # callback[c].of
    BY <1>8, <2>2, RefusedStep DEF TypeInv, TypeOK, AcceptedInv, AfterState, Accepted, SentOnce
  <2> QED
    BY <2>1, <2>2
<1>9. ASSUME NEW c \in Handlers, RemoveState(c) PROVE SentOnce'
  BY <1>9 DEF RemoveState, TypeInv, TypeOK, AcceptedInv, AfterState, Accepted, SentOnce
<1>10. ASSUME NEW c \in Handlers, ReadUnit(c) PROVE SentOnce'
  BY <1>10 DEF ReadUnit, TypeInv, TypeOK, AcceptedInv, AfterState, Accepted, SentOnce
<1>11. ASSUME NEW c \in Handlers, DropUnit(c) PROVE SentOnce'
  BY <1>11 DEF DropUnit, TypeInv, TypeOK, AcceptedInv, AfterState, Accepted, SentOnce
<1>12. ASSUME NEW c \in Handlers, ReadVerifier(c) PROVE SentOnce'
  BY <1>12 DEF ReadVerifier, TypeInv, TypeOK, AcceptedInv, AfterState, Accepted, SentOnce
<1>13. ASSUME NEW c \in Handlers, DropVerifier(c) PROVE SentOnce'
  BY <1>13 DEF DropVerifier, TypeInv, TypeOK, AcceptedInv, AfterState, Accepted, SentOnce
<1>14. ASSUME NEW c \in Handlers, Redeem(c) PROVE SentOnce'
  BY <1>14 DEF Redeem, NoCallback, TypeInv, TypeOK, AcceptedInv, AfterState, Accepted, SentOnce
<1>15. ASSUME NEW c \in Handlers, Lose(c) PROVE SentOnce'
  BY <1>15 DEF Lose, NoCallback, TypeInv, TypeOK, AcceptedInv, AfterState, Accepted, SentOnce
<1>16. CASE UNCHANGED vars
  BY <1>16 DEF vars, limits, history, TypeInv, TypeOK, AcceptedInv, AfterState, Accepted, SentOnce
<1> QED
  BY <1>1, <1>2, <1>3, <1>4, <1>5, <1>6, <1>7, <1>8, <1>9, <1>10, <1>11, <1>12, <1>13, <1>14,
    <1>15, <1>16 DEF Next, Store, Handle

LEMMA OnceInit == Init => OnceInv
BY TypeInit DEF Init, OnceInv, AnsweredInv, StateInv, AcceptedInv, SentOnce, NoCallback, AfterState,
  Accepted

LEMMA OnceStep == OnceInv /\ [Next]_vars => OnceInv'
BY TypeStep, AnsweredStep, StateStep, AcceptedStep, SentOnceStep DEF OnceInv

\* A code is sent to the token endpoint once, however often its callback is handled, unless two
\* callbacks of it are accepted before either removes the state.
THEOREM CodeSentOnce == Spec => []SentOnce
<1>1. OnceInv => SentOnce
  BY DEF OnceInv
<1> QED
  BY <1>1, OnceInit, OnceStep, PTL DEF Spec

-----------------------------------------------------------------------------
(* A code is sent with its own verifier *)

LEMMA VerifierStep ==
  ASSUME TypeInv, AnsweredInv, AcceptedInv, VerifierInv, [Next]_vars
  PROVE  VerifierInv'
<1>1. ASSUME NEW a \in Requests, NEW u \in Units \cup {NoUnit}, Begin(a, u) PROVE VerifierInv'
  BY <1>1 DEF Begin, TypeInv, TypeOK, AnsweredInv, AcceptedInv, AfterState, Accepted, VerifierInv,
    Undisturbed
<1>2. ASSUME NEW a \in Requests, StoreVerifier(a) PROVE VerifierInv'
  BY <1>2 DEF StoreVerifier, TypeInv, TypeOK, AnsweredInv, AcceptedInv, AfterState, Accepted,
    VerifierInv, Undisturbed
<1>3. ASSUME NEW a \in Requests, StoreState(a) PROVE VerifierInv'
  BY <1>3 DEF StoreState, TypeInv, TypeOK, AnsweredInv, AcceptedInv, AfterState, Accepted,
    VerifierInv, Undisturbed
<1>4. ASSUME NEW a \in Requests, StoreUnit(a) PROVE VerifierInv'
  BY <1>4 DEF StoreUnit, TypeInv, TypeOK, AnsweredInv, AcceptedInv, AfterState, Accepted,
    VerifierInv, Undisturbed
<1>5. ASSUME NEW a \in Requests, Send(a) PROVE VerifierInv'
  BY <1>5 DEF Send, TypeInv, TypeOK, AnsweredInv, AcceptedInv, AfterState, Accepted, VerifierInv,
    Undisturbed
<1>6. ASSUME NEW a \in Requests, Authorize(a) PROVE VerifierInv'
  BY <1>6 DEF Authorize, TypeInv, TypeOK, AnsweredInv, AcceptedInv, AfterState, Accepted,
    VerifierInv, Undisturbed
<1>7. ASSUME NEW c \in Handlers, NEW a \in Requests, Arrive(c, a) PROVE VerifierInv'
  BY <1>7 DEF Arrive, TypeInv, TypeOK, AnsweredInv, AcceptedInv, AfterState, Accepted,
    VerifierInv, Undisturbed
<1>8. ASSUME NEW c \in Handlers, CheckState(c) PROVE VerifierInv'
  <2>1. CASE slot.state = callback[c].of
    BY <1>8, <2>1 DEF CheckState, TypeInv, TypeOK, AnsweredInv, AcceptedInv, AfterState,
      Accepted, VerifierInv, Undisturbed
  <2>2. CASE slot.state # callback[c].of
    BY <1>8, <2>2, RefusedStep DEF TypeInv, TypeOK, AnsweredInv, AcceptedInv, AfterState,
      Accepted, VerifierInv, Undisturbed
  <2> QED
    BY <2>1, <2>2
<1>9. ASSUME NEW c \in Handlers, RemoveState(c) PROVE VerifierInv'
  BY <1>9 DEF RemoveState, TypeInv, TypeOK, AnsweredInv, AcceptedInv, AfterState, Accepted,
    VerifierInv, Undisturbed
<1>10. ASSUME NEW c \in Handlers, ReadUnit(c) PROVE VerifierInv'
  BY <1>10 DEF ReadUnit, TypeInv, TypeOK, AnsweredInv, AcceptedInv, AfterState, Accepted,
    VerifierInv, Undisturbed
<1>11. ASSUME NEW c \in Handlers, DropUnit(c) PROVE VerifierInv'
  BY <1>11 DEF DropUnit, TypeInv, TypeOK, AnsweredInv, AcceptedInv, AfterState, Accepted,
    VerifierInv, Undisturbed
<1>12. ASSUME NEW c \in Handlers, ReadVerifier(c) PROVE VerifierInv'
  BY <1>12 DEF ReadVerifier, TypeInv, TypeOK, AnsweredInv, AcceptedInv, AfterState, Accepted,
    VerifierInv, Undisturbed
<1>13. ASSUME NEW c \in Handlers, DropVerifier(c) PROVE VerifierInv'
  BY <1>13 DEF DropVerifier, TypeInv, TypeOK, AnsweredInv, AcceptedInv, AfterState, Accepted,
    VerifierInv, Undisturbed
<1>14. ASSUME NEW c \in Handlers, Redeem(c) PROVE VerifierInv'
  BY <1>14 DEF Redeem, NoCallback, TypeInv, TypeOK, AnsweredInv, AcceptedInv, AfterState,
    Accepted, VerifierInv, Undisturbed
<1>15. ASSUME NEW c \in Handlers, Lose(c) PROVE VerifierInv'
  BY <1>15 DEF Lose, NoCallback, TypeInv, TypeOK, AnsweredInv, AcceptedInv, AfterState, Accepted,
    VerifierInv, Undisturbed
<1>16. CASE UNCHANGED vars
  BY <1>16 DEF vars, limits, history, TypeInv, TypeOK, AnsweredInv, AcceptedInv, AfterState,
    Accepted, VerifierInv, Undisturbed
<1> QED
  BY <1>1, <1>2, <1>3, <1>4, <1>5, <1>6, <1>7, <1>8, <1>9, <1>10, <1>11, <1>12, <1>13, <1>14,
    <1>15, <1>16 DEF Next, Store, Handle

\* A code is sent with the verifier of its own request, whatever stray callbacks arrive beside it.
THEOREM VerifierIsOwn == Spec => []OwnVerifier
<1> DEFINE Inv == OnceInv /\ VerifierInv
<1>1. Init => Inv
  BY OnceInit DEF Init, VerifierInv, NoCallback
<1>2. Inv /\ [Next]_vars => Inv'
  BY OnceStep, VerifierStep DEF OnceInv
<1>3. Inv => OwnVerifier
  BY DEF VerifierInv, OwnVerifier
<1> QED
  BY <1>1, <1>2, <1>3, PTL DEF Spec

-----------------------------------------------------------------------------
(* A code is redeemed at the endpoint of its own unit *)

LEMMA UnitStep ==
  ASSUME TypeInv, AnsweredInv, AcceptedInv, UnitInv, [Next]_vars
  PROVE  UnitInv'
<1>1. ASSUME NEW a \in Requests, NEW u \in Units \cup {NoUnit}, Begin(a, u) PROVE UnitInv'
  BY <1>1 DEF Begin, TypeInv, TypeOK, AnsweredInv, AcceptedInv, AfterState, Accepted, UnitInv,
    Undisturbed, Owner, PastUnit
<1>2. ASSUME NEW a \in Requests, StoreVerifier(a) PROVE UnitInv'
  BY <1>2 DEF StoreVerifier, TypeInv, TypeOK, AnsweredInv, AcceptedInv, AfterState, Accepted,
    UnitInv, Undisturbed, Owner, PastUnit
<1>3. ASSUME NEW a \in Requests, StoreState(a) PROVE UnitInv'
  BY <1>3 DEF StoreState, TypeInv, TypeOK, AnsweredInv, AcceptedInv, AfterState, Accepted,
    UnitInv, Undisturbed, Owner, PastUnit
<1>4. ASSUME NEW a \in Requests, StoreUnit(a) PROVE UnitInv'
  BY <1>4 DEF StoreUnit, TypeInv, TypeOK, AnsweredInv, AcceptedInv, AfterState, Accepted, UnitInv,
    Undisturbed, Owner, PastUnit
<1>5. ASSUME NEW a \in Requests, Send(a) PROVE UnitInv'
  BY <1>5 DEF Send, TypeInv, TypeOK, AnsweredInv, AcceptedInv, AfterState, Accepted, UnitInv,
    Undisturbed, Owner, PastUnit
<1>6. ASSUME NEW a \in Requests, Authorize(a) PROVE UnitInv'
  BY <1>6 DEF Authorize, TypeInv, TypeOK, AnsweredInv, AcceptedInv, AfterState, Accepted, UnitInv,
    Undisturbed, Owner, PastUnit
<1>7. ASSUME NEW c \in Handlers, NEW a \in Requests, Arrive(c, a) PROVE UnitInv'
  BY <1>7 DEF Arrive, TypeInv, TypeOK, AnsweredInv, AcceptedInv, AfterState, Accepted, UnitInv,
    Undisturbed, Owner, PastUnit
<1>8. ASSUME NEW c \in Handlers, CheckState(c) PROVE UnitInv'
  <2>1. CASE slot.state = callback[c].of
    BY <1>8, <2>1, SMTT(60) DEF CheckState, TypeInv, TypeOK, AnsweredInv, AcceptedInv,
      AfterState, Accepted, UnitInv, Undisturbed, Owner, PastUnit
  <2>2. CASE slot.state # callback[c].of
    <3>1. \A b \in Requests : Owner(b)' <=> Owner(b)
      BY <1>8, <2>2, RefusedStep DEF CheckState, TypeInv, TypeOK, Owner
    <3>2. \A d \in Handlers : callback'[d].pc = "idle" \/ callback'[d] = callback[d]
      BY <1>8, <2>2, RefusedStep
    <3>3. UNCHANGED <<slot, request, disturbed, inherited, doubled, asked>>
      BY <1>8, <2>2, RefusedStep
    <3> QED
      BY <3>1, <3>2, <3>3 DEF UnitInv, Undisturbed
  <2> QED
    BY <2>1, <2>2
<1>9. ASSUME NEW c \in Handlers, RemoveState(c) PROVE UnitInv'
  BY <1>9 DEF RemoveState, TypeInv, TypeOK, AnsweredInv, AcceptedInv, AfterState, Accepted,
    UnitInv, Undisturbed, Owner, PastUnit
<1>10. ASSUME NEW c \in Handlers, ReadUnit(c) PROVE UnitInv'
  BY <1>10 DEF ReadUnit, TypeInv, TypeOK, AnsweredInv, AcceptedInv, AfterState, Accepted, UnitInv,
    Undisturbed, Owner, PastUnit
<1>11. ASSUME NEW c \in Handlers, DropUnit(c) PROVE UnitInv'
  BY <1>11 DEF DropUnit, TypeInv, TypeOK, AnsweredInv, AcceptedInv, AfterState, Accepted, UnitInv,
    Undisturbed, Owner, PastUnit
<1>12. ASSUME NEW c \in Handlers, ReadVerifier(c) PROVE UnitInv'
  BY <1>12 DEF ReadVerifier, TypeInv, TypeOK, AnsweredInv, AcceptedInv, AfterState, Accepted,
    UnitInv, Undisturbed, Owner, PastUnit
<1>13. ASSUME NEW c \in Handlers, DropVerifier(c) PROVE UnitInv'
  BY <1>13 DEF DropVerifier, TypeInv, TypeOK, AnsweredInv, AcceptedInv, AfterState, Accepted,
    UnitInv, Undisturbed, Owner, PastUnit
<1>14. ASSUME NEW c \in Handlers, Redeem(c) PROVE UnitInv'
  BY <1>14 DEF Redeem, NoCallback, TypeInv, TypeOK, AnsweredInv, AcceptedInv, AfterState,
    Accepted, UnitInv, Undisturbed, Owner, PastUnit
<1>15. ASSUME NEW c \in Handlers, Lose(c) PROVE UnitInv'
  BY <1>15 DEF Lose, NoCallback, TypeInv, TypeOK, AnsweredInv, AcceptedInv, AfterState, Accepted,
    UnitInv, Undisturbed, Owner, PastUnit
<1>16. CASE UNCHANGED vars
  BY <1>16 DEF vars, limits, history, TypeInv, TypeOK, AnsweredInv, AcceptedInv, AfterState,
    Accepted, UnitInv, Undisturbed, Owner, PastUnit
<1> QED
  BY <1>1, <1>2, <1>3, <1>4, <1>5, <1>6, <1>7, <1>8, <1>9, <1>10, <1>11, <1>12, <1>13, <1>14,
    <1>15, <1>16 DEF Next, Store, Handle

\* A code is redeemed at the token endpoint of its own request's unit, unless a bounded request
\* that began before it is not done with its own.
THEOREM UnitIsOwn == Spec => []OwnUnit
<1> DEFINE Inv == OnceInv /\ UnitInv
<1>1. Init => Inv
  <2> SUFFICES ASSUME Init PROVE UnitInv
    BY OnceInit
  <2>1. slot.unit = NoUnit /\ \A a \in Requests : request[a].pc = "new"
    BY DEF Init
  <2>2. \A a \in Requests : ~Owner(a)
    BY <2>1 DEF Owner, PastUnit
  <2>3. \A c \in Handlers : callback[c].pc = "idle"
    BY DEF Init, NoCallback
  <2> QED
    BY <2>1, <2>2, <2>3 DEF UnitInv, Undisturbed
<1>2. Inv /\ [Next]_vars => Inv'
  BY OnceStep, UnitStep DEF OnceInv
<1>3. Inv => OwnUnit
  BY DEF UnitInv, OwnUnit
<1> QED
  BY <1>1, <1>2, <1>3, PTL DEF Spec
=============================================================================
