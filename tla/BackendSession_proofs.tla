------------------------- MODULE BackendSession_proofs -------------------------
(***************************************************************************)
(* What BackendSession promises holds for any number of requests under     *)
(* way, of sign-ins, refreshes and faults.  TypeInv is inductive by        *)
(* itself; the other parts of the invariant rest on it.                    *)
(***************************************************************************)
EXTENDS BackendSession, TLAPS

-----------------------------------------------------------------------------
(* The invariant *)

\* A request, and the page's other variables, kept to their types.
CallType ==
  [pc : {"idle", "sent", "answered", "refreshing"}, kind : Kinds,
   retry : BOOLEAN, answer : Answers, login : Nat, gen : Nat]

SessionType == [is : {"none", "pending", "in", "out"}, of : Calls \cup {NoCall}, gen : Nat]

BackendType == [login : Nat, state : {"active", "expired", "ended"}, gen : Nat]

\* A cached promise that is pending is the promise of a read under way.
PendingIsARead ==
  session.is = "pending" =>
    \E c \in Calls : session = Pending(c) /\ call[c].kind = "read" /\ ~At(c, "idle")

\* The types, with what a pending promise is of.
TypeInv ==
  /\ session \in SessionType /\ hasLoadedSession \in BOOLEAN /\ wasSignedIn \in Nat
  /\ refreshing \in {"none", "sent", "ok", "refused", "network"}
  /\ call \in [Calls -> CallType]
  /\ token \in Nat
  /\ backend \in BackendType
  /\ faults \in Nat /\ refreshed \in Nat
  /\ ownEnded \subseteq Nat /\ overtaken \subseteq Nat /\ doubted \subseteq Nat
  /\ told \subseteq Nat /\ echoed \subseteq Nat
  /\ PendingIsARead

\* What is cached, or about to be, was answered after the last refresh the page saw.
FreshInv ==
  /\ refreshed <= backend.gen
  /\ session.is = "in" => session.gen >= refreshed
  /\ \A c \in Calls :
       session = Pending(c) /\ At(c, "answered") /\ call[c].answer = "ok" => call[c].gen >= refreshed

\* The logins that are known are logins there have been, and a session that is answered has one.
LoginsInv ==
  /\ backend.login >= 1 /\ wasSignedIn <= backend.login
  /\ \A l \in told \cup ownEnded : l >= 1 /\ l <= backend.login
  /\ \A c \in Calls : call[c].login <= backend.login
  /\ \A c \in Calls :
       At(c, "answered") /\ call[c].kind \in {"read", "token", "signOut"} /\ call[c].answer = "ok" =>
         call[c].login >= 1

\* The backend's session has ended, or may be taken for ended.
Doubtful == backend.state = "ended" \/ backend.login \in doubted

\* Whatever makes the page take itself for signed out was answered when the session was doubtful.
ToldInv ==
  /\ \A l \in told : l = backend.login => Doubtful
  /\ refreshing = "refused" => Doubtful
  /\ \A c \in Calls :
       /\ At(c, "answered")
       /\ call[c].answer = "out" \/ (call[c].kind = "read" /\ call[c].answer = "expired" /\ call[c].retry)
       => Doubtful

\* A sign-out of this page that is under way, and the login it ends: a later one cannot be meant.
UnderWay(s)  == call[s].kind = "signOut" /\ ~At(s, "idle")
Ends(s)      == IF At(s, "answered") /\ call[s].answer = "ok" THEN call[s].login ELSE backend.login
Beside(l, s) == l \in overtaken \/ l < Ends(s)

\* A request whose answer says that there is a session.
Finds(t) == At(t, "answered") /\ call[t].kind \in {"read", "token"} /\ call[t].answer = "ok"

\* A session that was signed out here has ended, and a request beside a sign-out is on record.
SignOutInv ==
  /\ \A l \in ownEnded : l = backend.login => backend.state = "ended"
  /\ \A s \in Calls : UnderWay(s) =>
       /\ ~At(s, "refreshing")
       /\ At(s, "answered") => call[s].answer \in {"ok", "error", "network"}
       /\ At(s, "answered") /\ call[s].answer = "ok" /\ call[s].login = backend.login
            => backend.state = "ended"
       /\ \A d \in Calls : d # s /\ ~At(d, "idle") => backend.login \in overtaken

\* What a request found, or the page kept, is on record where a sign-out ends it.
FoundInv ==
  /\ \A s \in Calls : UnderWay(s) =>
       /\ \A t \in Calls : Finds(t) => Beside(call[t].login, s)
       /\ token # 0 => Beside(token, s)
  /\ \A t \in Calls : Finds(t) /\ call[t].login \in ownEnded => call[t].login \in overtaken
  /\ wasSignedIn \in ownEnded => wasSignedIn \in overtaken
  /\ token \in ownEnded => token \in overtaken
  /\ echoed \subseteq overtaken

-----------------------------------------------------------------------------
(* The values the steps give *)

\* The fields of a request.
LEMMA CallFields ==
  ASSUME NEW r \in CallType
  PROVE  /\ r.pc \in {"idle", "sent", "answered", "refreshing"} /\ r.kind \in Kinds
         /\ r.retry \in BOOLEAN /\ r.answer \in Answers /\ r.login \in Nat /\ r.gen \in Nat
BY DEF CallType

\* A request that is idle, and one that is sent or has failed.
LEMMA NewCalls ==
  /\ Idle \in CallType /\ Idle.pc = "idle" /\ Idle.kind = "read"
  /\ \A kind \in Kinds :
       LET r == [Idle EXCEPT !.pc = "sent", !.kind = kind]
       IN  r \in CallType /\ r.pc = "sent" /\ r.kind = kind /\ ~r.retry /\ r.answer = "none"
           /\ r.login = 0 /\ r.gen = 0
  /\ \A kind \in Kinds, a \in Answers :
       LET r == [Idle EXCEPT !.pc = "answered", !.kind = kind, !.answer = a]
       IN  r \in CallType /\ r.pc = "answered" /\ r.kind = kind /\ ~r.retry /\ r.answer = a
           /\ r.login = 0 /\ r.gen = 0
<1>1. Idle \in CallType /\ Idle.pc = "idle" /\ Idle.kind = "read"
  BY DEF Idle, CallType, Kinds, Answers
<1>2. ASSUME NEW kind \in Kinds
      PROVE  LET r == [Idle EXCEPT !.pc = "sent", !.kind = kind]
             IN  r \in CallType /\ r.pc = "sent" /\ r.kind = kind /\ ~r.retry /\ r.answer = "none"
                 /\ r.login = 0 /\ r.gen = 0
  BY DEF Idle, CallType, Answers
<1>3. ASSUME NEW kind \in Kinds, NEW a \in Answers
      PROVE  LET r == [Idle EXCEPT !.pc = "answered", !.kind = kind, !.answer = a]
             IN  r \in CallType /\ r.pc = "answered" /\ r.kind = kind /\ ~r.retry /\ r.answer = a
                 /\ r.login = 0 /\ r.gen = 0
  BY DEF Idle, CallType
<1> QED BY <1>1, <1>2, <1>3

\* What becomes of a request under way.
LEMMA ChangedCalls ==
  ASSUME NEW r \in CallType
  PROVE  /\ [r EXCEPT !.pc = "refreshing"] \in CallType
         /\ [r EXCEPT !.pc = "sent", !.retry = TRUE] \in CallType
         /\ \A a \in Answers, l \in Nat, g \in Nat :
              [r EXCEPT !.pc = "answered", !.answer = a, !.login = l, !.gen = g] \in CallType
BY DEF CallType

\* The sessions a page may cache.
LEMMA Sessions ==
  /\ NoSession \in SessionType /\ SignedOut \in SessionType
  /\ \A c \in Calls : Pending(c) \in SessionType
  /\ \A g \in Nat : SignedIn(g) \in SessionType
BY DEF NoSession, SignedOut, Pending, SignedIn, SessionType

-----------------------------------------------------------------------------
(* Types *)

\* The initial state is of its type.
LEMMA TypeInit == Init => TypeInv
<1> SUFFICES ASSUME Init PROVE TypeInv OBVIOUS
<1>1. PICK c \in Calls : /\ session = Pending(c)
                         /\ call = [[d \in Calls |-> Idle] EXCEPT ![c].pc = "sent"]
  BY DEF Init
<1>2. [Idle EXCEPT !.pc = "sent"] \in CallType
  BY DEF Idle, CallType, Kinds, Answers
<1>3. call \in [Calls -> CallType] /\ call[c] = [Idle EXCEPT !.pc = "sent"]
  BY <1>1, <1>2, NewCalls
<1>4. PendingIsARead
  BY <1>1, <1>3 DEF PendingIsARead, At, Idle
<1>5. backend \in BackendType
  BY DEF Init, BackendType
<1> QED BY <1>1, <1>3, <1>4, <1>5, Sessions DEF TypeInv, Init

\* Sending a request: it alone changes.
LEMMA SendEffect ==
  ASSUME TypeInv, NEW c \in Calls, NEW kind, Send(c, kind)
  PROVE  /\ kind \in Kinds /\ call[c].pc = "idle"
         /\ call' \in [Calls -> CallType]
         /\ \A d \in Calls : d # c => call'[d] = call[d]
         /\ call'[c].pc = "sent" /\ call'[c].kind = kind /\ call'[c].answer = "none"
         /\ call'[c].login = 0
         /\ overtaken' \subseteq Nat /\ overtaken \subseteq overtaken'
         /\ SigningOut \/ (kind = "signOut" /\ Busy(Calls)) => backend.login \in overtaken'
<1>1. kind \in Kinds
  BY ConstantsAssumption DEF Send, Kinds
<1>2. call' = [call EXCEPT ![c] = [Idle EXCEPT !.pc = "sent", !.kind = kind]]
  BY DEF Send
<1>3. overtaken' \subseteq Nat
  BY DEF Send, TypeInv, BackendType
<1>7. /\ overtaken \subseteq overtaken'
      /\ SigningOut \/ (kind = "signOut" /\ Busy(Calls)) => backend.login \in overtaken'
  BY DEF Send
<1> DEFINE r == [Idle EXCEPT !.pc = "sent", !.kind = kind]
<1>4. r \in CallType /\ r.pc = "sent" /\ r.kind = kind /\ r.answer = "none" /\ r.login = 0
  BY <1>1, NewCalls
<1>5. call' = [call EXCEPT ![c] = r]
  BY <1>2
<1> HIDE DEF r
<1>6. call \in [Calls -> CallType] /\ call[c].pc = "idle"
  BY DEF TypeInv, Send, At
<1> QED BY <1>1, <1>3, <1>4, <1>5, <1>6, <1>7

\* A request that is done: it alone changes, and is idle.
LEMMA DoneEffect ==
  ASSUME TypeInv, NEW c \in Calls, Done(c)
  PROVE  /\ call' \in [Calls -> CallType]
         /\ \A d \in Calls : d # c => call'[d] = call[d]
         /\ call'[c] = Idle /\ Idle.pc = "idle" /\ Idle.login = 0
BY NewCalls DEF Done, TypeInv, Idle

\* Serving a request: it alone changes.  What it answers depends on its kind and on the session.
LEMMA ServeEffect ==
  ASSUME TypeInv, NEW c \in Calls, Serve(c)
  PROVE  /\ call' \in [Calls -> CallType]
         /\ \A d \in Calls : d # c => call'[d] = call[d]
         /\ call[c].pc = "sent" /\ call'[c].pc = "answered"
         /\ call'[c].kind = call[c].kind /\ call'[c].retry = call[c].retry
         /\ call'[c].answer = AnswerTo(call[c].kind)
         /\ call'[c].login = IF call[c].kind \in {"read", "token", "signOut"} THEN backend.login ELSE 0
         /\ call'[c].gen = IF call[c].kind = "read" THEN backend.gen ELSE 0
<1> DEFINE a == AnswerTo(call[c].kind)
           l == IF call[c].kind \in {"read", "token", "signOut"} THEN backend.login ELSE 0
           g == IF call[c].kind = "read" THEN backend.gen ELSE 0
           r == [call[c] EXCEPT !.pc = "answered", !.answer = a, !.login = l, !.gen = g]
<1>1. call[c] \in CallType
  BY DEF TypeInv
<1>2. a \in Answers
  BY DEF AnswerTo, Answers
<1>3. l \in Nat /\ g \in Nat
  BY DEF TypeInv, BackendType
<1>4. call[c].pc = "sent" /\ call' = [call EXCEPT ![c] = r]
  BY DEF Serve, At
<1> HIDE DEF a, l, g
<1>5. r \in CallType
  BY <1>1, <1>2, <1>3, ChangedCalls
<1>6. r.pc = "answered" /\ r.kind = call[c].kind /\ r.retry = call[c].retry
      /\ r.answer = a /\ r.login = l /\ r.gen = g
  BY <1>1 DEF CallType
<1> HIDE DEF r
<1> QED BY <1>4, <1>5, <1>6 DEF TypeInv, a, l, g

\* A refresh that is served: the login stays, and a session that had ended is not revived.
LEMMA RefreshedEffect ==
  ASSUME TypeInv, ServeRefresh
  PROVE  /\ backend' \in BackendType /\ backend'.login = backend.login
         /\ backend'.gen \in Nat /\ backend'.gen >= backend.gen
         /\ \/ backend.state # "ended" /\ backend'.state = "active" /\ refreshing' = "ok"
            \/ backend.state = "ended" /\ backend' = backend /\ refreshing' = "refused"
<1> DEFINE b == [backend EXCEPT !.state = "active", !.gen = @ + 1]
<1>1. backend \in BackendType /\ backend.gen \in Nat /\ backend.gen + 1 \in Nat
  BY DEF TypeInv, BackendType
<1>2. /\ b \in BackendType /\ b.login = backend.login /\ b.state = "active"
      /\ b.gen = backend.gen + 1
  BY <1>1 DEF BackendType
<1>3. \/ backend.state # "ended" /\ backend' = b /\ refreshing' = "ok"
      \/ backend.state = "ended" /\ backend' = backend /\ refreshing' = "refused"
  BY DEF ServeRefresh
<1> HIDE DEF b
<1> QED BY <1>1, <1>2, <1>3

\* A sign-in: the next login.
LEMMA SignInEffect ==
  ASSUME TypeInv, SignIn
  PROVE  /\ backend' \in BackendType /\ backend'.login = backend.login + 1
         /\ backend'.gen = backend.gen /\ backend'.state = "active" /\ backend.state = "ended"
<1>1. backend \in BackendType /\ backend.login + 1 \in Nat
  BY DEF TypeInv, BackendType
<1>2. backend' = [backend EXCEPT !.login = @ + 1, !.state = "active"] /\ backend.state = "ended"
  BY DEF SignIn
<1> QED BY <1>1, <1>2 DEF BackendType

\* A request that fails: it alone changes, and is answered.
LEMMA FailEffect ==
  ASSUME TypeInv, NEW c \in Calls, CallFails(c)
  PROVE  /\ call' \in [Calls -> CallType] /\ faults' \in Nat
         /\ \A d \in Calls : d # c => call'[d] = call[d]
         /\ call[c].pc \in {"sent", "answered"} /\ call'[c].pc = "answered"
         /\ call'[c].kind = call[c].kind /\ call'[c].answer \in {"error", "network"}
         /\ call'[c].login = 0
<1>1. PICK a \in {"error", "network"} :
        call' = [call EXCEPT ![c] = [Idle EXCEPT !.pc = "answered", !.kind = call[c].kind, !.answer = a]]
  BY DEF CallFails
<1> DEFINE r == [Idle EXCEPT !.pc = "answered", !.kind = call[c].kind, !.answer = a]
<1>2. r \in CallType /\ r.pc = "answered" /\ r.kind = call[c].kind /\ r.answer = a /\ r.login = 0
  <2>1. call[c].kind \in Kinds /\ a \in Answers
    BY CallFields DEF TypeInv, Answers
  <2>2. r \in CallType
    BY <2>1 DEF Idle, CallType, Kinds, Answers
  <2>3. r.pc = "answered" /\ r.kind = call[c].kind /\ r.answer = a /\ r.login = 0
    BY DEF Idle
  <2> QED BY <2>2, <2>3
<1>3. call' = [call EXCEPT ![c] = r]
  BY <1>1
<1>4. call[c].pc \in {"sent", "answered"} /\ faults' \in Nat
  BY DEF CallFails, At, TypeInv
<1> HIDE DEF r
<1> QED BY <1>2, <1>3, <1>4 DEF TypeInv

\* A request that waits for the refresh: only its label changes.
LEMMA AwaitEffect ==
  ASSUME TypeInv, NEW c \in Calls, AwaitRefresh(c)
  PROVE  /\ call' \in [Calls -> CallType]
         /\ \A d \in Calls : d # c => call'[d] = call[d]
         /\ call[c].pc = "answered" /\ call'[c].pc = "refreshing"
         /\ call'[c].kind = call[c].kind /\ call[c].answer = "expired"
         /\ call'[c].login = call[c].login /\ call'[c].answer = call[c].answer
<1> DEFINE r == [call[c] EXCEPT !.pc = "refreshing"]
<1>1. call[c] \in CallType
  BY DEF TypeInv
<1>2. r \in CallType /\ r.pc = "refreshing" /\ r.kind = call[c].kind
      /\ r.login = call[c].login /\ r.answer = call[c].answer
  BY <1>1, ChangedCalls DEF CallType
<1>3. call' = [call EXCEPT ![c] = r]
  BY DEF AwaitRefresh
<1> HIDE DEF r
<1> QED BY <1>2, <1>3 DEF TypeInv, AwaitRefresh, At

\* The waiting requests are sent again, or end; the others stay as they are.
LEMMA ResendEffect ==
  ASSUME TypeInv, Resend
  PROVE  /\ call' \in [Calls -> CallType]
         /\ \A d \in Calls : IF call[d].pc = "refreshing"
                             THEN /\ call'[d].pc = "sent" /\ call'[d].kind = call[d].kind
                                  /\ call'[d].login = call[d].login /\ call'[d].answer = call[d].answer
                             ELSE call'[d] = call[d]
<1> DEFINE again(r) == [r EXCEPT !.pc = "sent", !.retry = TRUE]
<1>1. ASSUME NEW r \in CallType
      PROVE  /\ again(r) \in CallType /\ again(r).pc = "sent" /\ again(r).kind = r.kind
             /\ again(r).login = r.login /\ again(r).answer = r.answer
  BY ChangedCalls DEF CallType
<1>2. call' = [d \in Calls |-> IF call[d].pc = "refreshing" THEN again(call[d]) ELSE call[d]]
  BY DEF Resend, At
<1>3. \A d \in Calls : call[d] \in CallType
  BY DEF TypeInv
<1> HIDE DEF again
<1> QED BY <1>1, <1>2, <1>3

LEMMA GiveUpEffect ==
  ASSUME TypeInv, GiveUp
  PROVE  /\ call' \in [Calls -> CallType]
         /\ \A d \in Calls : call'[d] = IF call[d].pc = "refreshing" THEN Idle ELSE call[d]
         /\ Idle.pc = "idle" /\ Idle.login = 0
BY NewCalls DEF GiveUp, TypeInv, At, Idle

\* What an answer may do to what the page keeps: the types stay, and no read becomes pending.
Marks ==
  /\ session' \in SessionType /\ hasLoadedSession' \in BOOLEAN /\ wasSignedIn' \in Nat
  /\ token' \in Nat /\ told' \subseteq Nat /\ echoed' \subseteq Nat
  /\ session' = session \/ session'.is # "pending"

\* Marking the page signed out, telling the listeners where somebody was signed in.
LEMMA MarkEffect ==
  ASSUME TypeInv, MarkSignedOut
  PROVE  /\ Marks
         /\ session' = SignedOut /\ hasLoadedSession' = TRUE /\ wasSignedIn' = 0
         /\ \/ wasSignedIn # 0 /\ Tell
            \/ wasSignedIn = 0 /\ told' = told /\ echoed' = echoed /\ token' = token
<1>1. session' = SignedOut /\ hasLoadedSession' = TRUE /\ wasSignedIn' = 0
  BY DEF MarkSignedOut
<1>2. SignedOut.is = "out"
  BY DEF SignedOut
<1>3. \/ wasSignedIn # 0 /\ Tell
      \/ wasSignedIn = 0 /\ told' = told /\ echoed' = echoed /\ token' = token
  BY DEF MarkSignedOut
<1>4. wasSignedIn \in Nat /\ token \in Nat /\ told \subseteq Nat /\ echoed \subseteq Nat
  BY DEF TypeInv
<1>5. Tell => told' \subseteq Nat
  BY <1>4 DEF Tell
<1>6. Tell => echoed' \subseteq Nat
  BY <1>4 DEF Tell
<1>7. Tell => token' \in Nat
  BY DEF Tell
<1>8. session' \in SessionType
  BY <1>1, Sessions
<1>9. wasSignedIn' \in Nat
  BY <1>1
<1> QED BY <1>1, <1>2, <1>3, <1>4, <1>5, <1>6, <1>7, <1>8, <1>9 DEF Marks

\* Keeping what the page keeps, and emptying its cache.
LEMMA KeepEffect ==
  ASSUME TypeInv
  PROVE  /\ KeepMarks => Marks
         /\ SettleFails => Marks /\ session' = NoSession
         /\ RefreshOk => Marks /\ session' = NoSession
         /\ NoSession.is = "none"
<1>1. NoSession.is = "none" /\ NoSession \in SessionType
  BY Sessions DEF NoSession
<1>2. KeepMarks => Marks
  BY DEF KeepMarks, Marks, TypeInv
<1>3. SettleFails => Marks /\ session' = NoSession
  BY <1>1 DEF SettleFails, Marks, TypeInv
<1>4. RefreshOk => Marks /\ session' = NoSession
  BY <1>1 DEF RefreshOk, Marks, TypeInv
<1> QED BY <1>1, <1>2, <1>3, <1>4

\* A read that settles: the cache has its value, unless it is of another read or of none.
LEMMA SettleEffect ==
  ASSUME TypeInv, NEW c \in Calls, NEW value \in SessionType, value.is # "pending", Settle(c, value)
  PROVE  /\ session' \in SessionType /\ hasLoadedSession' = TRUE
         /\ \/ session = Pending(c) /\ session' = value
            \/ session # Pending(c) /\ session' = session
         /\ session # Pending(c) \/ session'.is # "pending"
         /\ session' = session \/ session'.is # "pending"
<1>1. \/ session = Pending(c) /\ session' = value
      \/ session # Pending(c) /\ session' = session
  BY DEF Settle
<1>2. session' \in SessionType
  BY <1>1 DEF TypeInv
<1>3. hasLoadedSession' = TRUE
  BY DEF Settle
<1> QED BY <1>1, <1>2, <1>3

\* The three ways a read ends.
LEMMA ReadEffect ==
  ASSUME TypeInv, NEW c \in Calls, ReceiveRead(c)
  PROVE  /\ Marks /\ (session # Pending(c) \/ session'.is # "pending")
         /\ \/ /\ call[c].answer = "ok" /\ wasSignedIn' = call[c].login
               /\ Settle(c, SignedIn(call[c].gen)) /\ UNCHANGED <<told, echoed, token>>
            \/ /\ call[c].answer = "out" \/ (call[c].answer = "expired" /\ call[c].retry)
               /\ \/ MarkSignedOut
                  \/ /\ wasSignedIn = 0 /\ Settle(c, SignedOut)
                     /\ UNCHANGED <<wasSignedIn, told, echoed, token>>
            \/ session' = NoSession /\ UNCHANGED <<wasSignedIn, told, echoed, token>>
<1>1. CASE /\ call[c].answer = "ok" /\ wasSignedIn' = call[c].login
           /\ Settle(c, SignedIn(call[c].gen)) /\ UNCHANGED <<told, echoed, token>>
  <2>1. call[c].login \in Nat /\ call[c].gen \in Nat
    BY CallFields DEF TypeInv
  <2>2. SignedIn(call[c].gen) \in SessionType /\ SignedIn(call[c].gen).is # "pending"
    BY <2>1, Sessions DEF SignedIn
  <2>3. /\ session' \in SessionType /\ hasLoadedSession' = TRUE
        /\ session # Pending(c) \/ session'.is # "pending"
        /\ session' = session \/ session'.is # "pending"
    BY <1>1, <2>2, SettleEffect
  <2>4. told' \subseteq Nat /\ echoed' \subseteq Nat /\ token' \in Nat /\ wasSignedIn' \in Nat
    BY <1>1, <2>1 DEF TypeInv
  <2> QED BY <1>1, <2>3, <2>4 DEF Marks
<1>2. CASE /\ call[c].answer = "out" \/ (call[c].answer = "expired" /\ call[c].retry)
           /\ SettleSignedOut(c)
  <2>1. CASE MarkSignedOut
    <3>1. SignedOut.is # "pending"
      BY DEF SignedOut
    <3> QED BY <1>2, <2>1, <3>1, MarkEffect
  <2>2. CASE wasSignedIn = 0 /\ Settle(c, SignedOut) /\ UNCHANGED <<wasSignedIn, told, echoed, token>>
    <3>1. SignedOut \in SessionType /\ SignedOut.is # "pending"
      BY Sessions DEF SignedOut
    <3>2. /\ session' \in SessionType /\ hasLoadedSession' = TRUE
          /\ session # Pending(c) \/ session'.is # "pending"
          /\ session' = session \/ session'.is # "pending"
      BY <2>2, <3>1, SettleEffect
    <3>3. told' \subseteq Nat /\ echoed' \subseteq Nat /\ token' \in Nat /\ wasSignedIn' \in Nat
      BY <2>2 DEF TypeInv
    <3> QED BY <1>2, <2>2, <3>2, <3>3 DEF Marks
  <2> QED BY <1>2, <2>1, <2>2 DEF SettleSignedOut
<1>3. CASE call[c].answer \in {"error", "network"} /\ SettleFails
  <2>1. session' = NoSession /\ UNCHANGED <<wasSignedIn, told, echoed, token>>
    BY <1>3 DEF SettleFails
  <2> QED BY <1>3, <2>1, KeepEffect
<1> QED BY <1>1, <1>2, <1>3 DEF ReceiveRead

\* Every step keeps to the types.
LEMMA TypeStep == ASSUME TypeInv, [Next]_vars PROVE TypeInv'
<1>1. ASSUME NEW c \in Calls, GetSession(c) PROVE TypeInv'
  BY <1>1, SendEffect, Sessions DEF GetSession, TypeInv, PendingIsARead, Pending, At
<1>2. ASSUME NEW c \in Calls, CheckSession(c) PROVE TypeInv'
  BY <1>2, SendEffect DEF CheckSession, TypeInv, PendingIsARead, Pending, At
<1>3. ASSUME NEW c \in Calls, NEW kind \in {"api", "token"}, Request(c, kind) PROVE TypeInv'
  BY <1>3, SendEffect DEF Request, TypeInv, PendingIsARead, Pending, At
<1>4. ASSUME NEW c \in Calls, SignOut(c) PROVE TypeInv'
  BY <1>4, SendEffect DEF SignOut, TypeInv, PendingIsARead, Pending, At
<1>5. CASE Refresh
  BY <1>5 DEF Refresh, BackendType, TypeInv, PendingIsARead, Pending, At
<1>6. ASSUME NEW c \in Calls, Serve(c) PROVE TypeInv'
  <2>1. backend' \in BackendType
    BY <1>6 DEF Serve, TypeInv, BackendType
  <2>3. doubted' \subseteq Nat
    BY <1>6 DEF Serve, TypeInv, BackendType
  <2>2. PendingIsARead'
    <3>1. /\ session' = session /\ call'[c].kind = call[c].kind /\ call'[c].pc = "answered"
          /\ \A d \in Calls : d # c => call'[d] = call[d]
      BY <1>6, ServeEffect DEF Serve
    <3> QED BY <3>1 DEF TypeInv, PendingIsARead, Pending, At
  <2>4. call' \in [Calls -> CallType]
    BY <1>6, ServeEffect
  <2>5. UNCHANGED <<session, hasLoadedSession, wasSignedIn, refreshing, token, faults,
                    refreshed, ownEnded, overtaken, told, echoed>>
    BY <1>6 DEF Serve, page, history
  <2> QED BY <2>1, <2>2, <2>3, <2>4, <2>5 DEF TypeInv
<1>7. CASE ServeRefresh
  <2>1. backend' \in BackendType
    BY <1>7, RefreshedEffect
  <2>2. refreshing' \in {"none", "sent", "ok", "refused", "network"}
    BY <1>7 DEF ServeRefresh
  <2>3. PendingIsARead'
    BY <1>7 DEF ServeRefresh, TypeInv, PendingIsARead, Pending, At
  <2> QED BY <1>7, <2>1, <2>2, <2>3 DEF ServeRefresh, TypeInv, history
<1>8. ASSUME NEW c \in Calls, CallFails(c) PROVE TypeInv'
  <2>1. UNCHANGED <<session, hasLoadedSession, wasSignedIn, refreshing, token, backend,
                    refreshed, ownEnded, overtaken, doubted, told, echoed>>
    BY <1>8 DEF CallFails, history
  <2>2. PendingIsARead'
    BY <1>8, <2>1, FailEffect DEF TypeInv, PendingIsARead, Pending, At
  <2> QED BY <1>8, <2>1, <2>2, FailEffect DEF TypeInv
<1>9. CASE RefreshFails
  <2>1. faults' \in Nat
    BY <1>9 DEF RefreshFails, TypeInv
  <2>3. doubted' \subseteq Nat
    BY <1>9 DEF RefreshFails, TypeInv, BackendType
  <2>2. PendingIsARead'
    BY <1>9 DEF RefreshFails, TypeInv, PendingIsARead, Pending, At
  <2> QED BY <1>9, <2>1, <2>2, <2>3 DEF RefreshFails, TypeInv
<1>10. CASE Expire
  BY <1>10 DEF Expire, page, history, BackendType, TypeInv, PendingIsARead, Pending, At
<1>11. CASE End
  BY <1>11 DEF End, page, history, BackendType, TypeInv, PendingIsARead, Pending, At
<1>12. CASE SignIn
  <2>1. backend' \in BackendType
    BY <1>12, SignInEffect
  <2>3. doubted' \subseteq Nat
    BY <1>12 DEF SignIn, TypeInv, BackendType
  <2>4. overtaken' \subseteq Nat
    BY <1>12 DEF SignIn, TypeInv, BackendType
  <2>2. PendingIsARead'
    BY <1>12 DEF SignIn, page, TypeInv, PendingIsARead, Pending, At
  <2>5. UNCHANGED <<session, hasLoadedSession, wasSignedIn, refreshing, call, token, faults,
                    refreshed, ownEnded, told, echoed>>
    BY <1>12 DEF SignIn, page
  <2> QED BY <2>1, <2>2, <2>3, <2>4, <2>5 DEF TypeInv
<1>13. ASSUME NEW c \in Calls, AwaitRefresh(c) PROVE TypeInv'
  <2>1. /\ UNCHANGED <<session, hasLoadedSession, wasSignedIn, token, backend, faults,
                       refreshed, ownEnded, overtaken, doubted, told, echoed>>
        /\ refreshing' \in {"sent", refreshing}
    BY <1>13 DEF AwaitRefresh, history
  <2>2. PendingIsARead'
    BY <1>13, <2>1, AwaitEffect DEF TypeInv, PendingIsARead, Pending, At
  <2> QED BY <1>13, <2>1, <2>2, AwaitEffect DEF TypeInv
<1>14. ASSUME NEW c \in Calls, ReceiveRead(c) PROVE TypeInv'
  <2>1. Done(c) /\ Marks /\ (session # Pending(c) \/ session'.is # "pending")
    BY <1>14, ReadEffect DEF ReceiveRead
  <2>2. PendingIsARead'
    BY <2>1, DoneEffect DEF Marks, TypeInv, PendingIsARead, Pending, At
  <2> QED BY <1>14, <2>1, <2>2, DoneEffect DEF Marks, ReceiveRead, TypeInv
<1>15. ASSUME NEW c \in Calls, ReceiveCheck(c) PROVE TypeInv'
  <2>1. Done(c) /\ call[c].kind # "read" /\ Marks
    BY <1>15, MarkEffect, KeepEffect DEF ReceiveCheck
  <2>2. PendingIsARead'
    BY <2>1, DoneEffect DEF Marks, TypeInv, PendingIsARead, Pending, At
  <2> QED BY <1>15, <2>1, <2>2, DoneEffect DEF Marks, ReceiveCheck, TypeInv
<1>16. ASSUME NEW c \in Calls, ReceiveRequest(c) PROVE TypeInv'
  <2>1. Done(c) /\ call[c].kind # "read"
    BY <1>16 DEF ReceiveRequest
  <2>2. call[c].login \in Nat
    BY CallFields DEF TypeInv
  <2>3. Marks
    <3>1. CASE token' = call[c].login /\ UNCHANGED <<session, hasLoadedSession, wasSignedIn, told, echoed>>
      BY <2>2, <3>1 DEF Marks, TypeInv
    <3> QED BY <1>16, <3>1, MarkEffect, KeepEffect DEF ReceiveRequest
  <2>4. PendingIsARead'
    BY <2>1, <2>3, DoneEffect DEF Marks, TypeInv, PendingIsARead, Pending, At
  <2> QED BY <1>16, <2>1, <2>3, <2>4, DoneEffect DEF Marks, ReceiveRequest, TypeInv
<1>17. ASSUME NEW c \in Calls, ReceiveSignOut(c) PROVE TypeInv'
  <2>1. Done(c) /\ call[c].kind # "read"
    BY <1>17 DEF ReceiveSignOut
  <2>2. \/ session' = session /\ wasSignedIn' = wasSignedIn
        \/ session' = SignedOut /\ wasSignedIn' = 0
    BY <1>17 DEF ReceiveSignOut
  <2>3. session' \in SessionType /\ wasSignedIn' \in Nat
    BY <2>2, Sessions DEF TypeInv
  <2>4. ownEnded' \subseteq Nat
    <3>1. call[c].login \in Nat /\ ownEnded \subseteq Nat
      BY CallFields DEF TypeInv
    <3> QED BY <1>17, <3>1 DEF ReceiveSignOut
  <2>5. session' = session \/ session'.is # "pending"
    BY <2>2 DEF SignedOut
  <2>6. PendingIsARead'
    BY <2>1, <2>5, DoneEffect DEF TypeInv, PendingIsARead, Pending, At
  <2> QED BY <1>17, <2>1, <2>3, <2>4, <2>6, DoneEffect DEF ReceiveSignOut, TypeInv
<1>18. CASE ReceiveRefresh
  <2>1. call' \in [Calls -> CallType]
    BY <1>18, ResendEffect, GiveUpEffect DEF ReceiveRefresh
  <2>2. Marks
    BY <1>18, MarkEffect, KeepEffect DEF ReceiveRefresh
  <2>3. refreshed' \in Nat
    <3>1. backend.gen \in Nat /\ refreshed \in Nat
      BY DEF TypeInv, BackendType
    <3> QED BY <1>18, <3>1 DEF ReceiveRefresh
  <2>4. \/ session'.is # "pending"
        \/ /\ session' = session /\ GiveUp
           /\ \A c \in Calls : call[c].kind = "read" => call[c].pc # "refreshing"
    <3>1. NoSession.is # "pending" /\ SignedOut.is # "pending"
      BY DEF NoSession, SignedOut
    <3>2. CASE refreshing = "ok" /\ RefreshOk
      BY <3>1, <3>2, KeepEffect
    <3>3. CASE refreshing = "refused" /\ MarkSignedOut
      BY <3>1, <3>3, MarkEffect
    <3>4. CASE /\ GiveUp
               /\ IF \E c \in Calls : At(c, "refreshing") /\ call[c].kind = "read"
                  THEN SettleFails ELSE KeepMarks
      BY <3>1, <3>4 DEF SettleFails, KeepMarks, At
    <3> QED BY <1>18, <3>2, <3>3, <3>4 DEF ReceiveRefresh
  <2>5. PendingIsARead'
    BY <2>4, GiveUpEffect DEF TypeInv, PendingIsARead, Pending, At
  <2> QED BY <1>18, <2>1, <2>2, <2>3, <2>5 DEF Marks, ReceiveRefresh, TypeInv
<1>19. CASE UNCHANGED vars
  BY <1>19 DEF vars, page, history, TypeInv, PendingIsARead, Pending, At
<1> QED
  BY <1>1, <1>2, <1>3, <1>4, <1>5, <1>6, <1>7, <1>8, <1>9, <1>10, <1>11, <1>12, <1>13, <1>14,
     <1>15, <1>16, <1>17, <1>18, <1>19 DEF Next, Receive

-----------------------------------------------------------------------------
(* What is cached *)

\* A step that caches no session, and gets no answer, keeps what is cached fresh.
LEMMA FreshKept ==
  ASSUME FreshInv, refreshed' = refreshed, refreshed' <= backend'.gen,
         session' = session \/ session'.is \notin {"in", "pending"},
         \A c \in Calls : \/ call'[c] = call[c]
                         \/ ~(call'[c].pc = "answered" /\ call'[c].answer = "ok")
  PROVE  FreshInv'
BY DEF FreshInv, Pending, At

\* Every step keeps what is cached fresh.
LEMMA FreshStep == ASSUME TypeInv, FreshInv, [Next]_vars PROVE FreshInv'
<1>0. refreshed \in Nat /\ backend.gen \in Nat /\ refreshed <= backend.gen
  BY DEF TypeInv, BackendType, FreshInv
<1>1. ASSUME NEW c \in Calls, GetSession(c) PROVE FreshInv'
  <2>1. /\ session' = Pending(c) /\ UNCHANGED <<refreshed, backend>> /\ call'[c].pc = "sent"
    BY <1>1, SendEffect DEF GetSession
  <2>2. \A d \in Calls : Pending(c) = Pending(d) => d = c
    BY DEF Pending
  <2>3. Pending(c).is = "pending"
    BY DEF Pending
  <2> QED BY <2>1, <2>2, <2>3 DEF FreshInv, At
<1>2. ASSUME NEW c \in Calls, CheckSession(c) PROVE FreshInv'
  BY <1>0, <1>2, SendEffect, FreshKept DEF CheckSession
<1>3. ASSUME NEW c \in Calls, NEW kind \in {"api", "token"}, Request(c, kind) PROVE FreshInv'
  BY <1>0, <1>3, SendEffect, FreshKept DEF Request
<1>4. ASSUME NEW c \in Calls, SignOut(c) PROVE FreshInv'
  BY <1>0, <1>4, SendEffect, FreshKept DEF SignOut
<1>5. CASE Refresh
  BY <1>0, <1>5, FreshKept DEF Refresh
<1>6. ASSUME NEW c \in Calls, Serve(c) PROVE FreshInv'
  <2>1. /\ UNCHANGED <<session, refreshed>> /\ backend'.gen = backend.gen
        /\ \A d \in Calls : d # c => call'[d] = call[d]
    BY <1>6, ServeEffect DEF Serve, TypeInv, BackendType
  <2>2. session = Pending(c) => call'[c].gen = backend.gen
    <3>1. session = Pending(c) => call[c].kind = "read"
      <4>1. \A d \in Calls : Pending(c) = Pending(d) => d = c
        BY DEF Pending
      <4>2. session = Pending(c) => session.is = "pending"
        BY DEF Pending
      <4> QED BY <4>1, <4>2 DEF TypeInv, PendingIsARead
    <3> QED BY <1>6, <3>1, ServeEffect
  <2> QED BY <1>0, <2>1, <2>2 DEF FreshInv, At, Pending
<1>7. CASE ServeRefresh
  <2>1. UNCHANGED <<session, call, refreshed>>
    BY <1>7 DEF ServeRefresh, history
  <2>2. backend'.gen >= backend.gen /\ backend'.gen \in Nat
    BY <1>0, <1>7, RefreshedEffect
  <2> QED BY <1>0, <2>1, <2>2, FreshKept
<1>8. ASSUME NEW c \in Calls, CallFails(c) PROVE FreshInv'
  <2>1. UNCHANGED <<session, backend, refreshed>>
    BY <1>8 DEF CallFails, history
  <2> QED BY <1>0, <1>8, <2>1, FailEffect, FreshKept
<1>9. CASE RefreshFails
  BY <1>0, <1>9, FreshKept DEF RefreshFails
<1>10. CASE Expire \/ End \/ SignIn
  <2>1. UNCHANGED <<session, call, refreshed>> /\ backend'.gen = backend.gen
    BY <1>10 DEF Expire, End, SignIn, page, history, TypeInv, BackendType
  <2> QED BY <1>0, <2>1, FreshKept
<1>11. ASSUME NEW c \in Calls, AwaitRefresh(c) PROVE FreshInv'
  <2>1. UNCHANGED <<session, backend, refreshed>>
    BY <1>11 DEF AwaitRefresh, history
  <2> QED BY <1>0, <1>11, <2>1, AwaitEffect, FreshKept
<1>12. ASSUME NEW c \in Calls, ReceiveRead(c) PROVE FreshInv'
  <2>1. /\ At(c, "answered") /\ Done(c) /\ UNCHANGED <<backend, refreshed>>
    BY <1>12 DEF ReceiveRead
  <2>2. CASE call[c].answer = "ok" /\ session = Pending(c) /\ session' = SignedIn(call[c].gen)
    <3>1. session'.is = "in" /\ session'.gen = call[c].gen
      BY <2>2 DEF SignedIn
    <3> QED BY <2>1, <2>2, <3>1, <1>0 DEF FreshInv, Pending
  <2>3. CASE session' = session
    BY <1>0, <2>1, <2>3, DoneEffect, FreshKept
  <2>4. CASE session' = SignedOut \/ session' = NoSession
    <3>1. session'.is \notin {"in", "pending"}
      BY <2>4 DEF SignedOut, NoSession
    <3> QED BY <1>0, <2>1, <3>1, DoneEffect, FreshKept
  <2> QED BY <1>12, <2>2, <2>3, <2>4, ReadEffect, MarkEffect DEF Settle
<1>13. ASSUME NEW c \in Calls, ReceiveCheck(c) \/ ReceiveRequest(c) \/ ReceiveSignOut(c) PROVE FreshInv'
  <2>1. Done(c) /\ UNCHANGED <<backend, refreshed>>
    BY <1>13 DEF ReceiveCheck, ReceiveRequest, ReceiveSignOut
  <2>2. session' = session \/ session' = SignedOut
    BY <1>13 DEF ReceiveCheck, ReceiveRequest, ReceiveSignOut, MarkSignedOut, KeepMarks
  <2> QED BY <1>0, <2>1, <2>2, DoneEffect, FreshKept DEF SignedOut
<1>14. CASE ReceiveRefresh
  <2>1. backend' = backend
    BY <1>14 DEF ReceiveRefresh
  <2>2. \A c \in Calls : call'[c] = call[c] \/ call'[c].pc # "answered"
    BY <1>14, ResendEffect, GiveUpEffect DEF ReceiveRefresh
  <2>3. CASE RefreshOk /\ refreshed' = backend.gen
    BY <1>0, <2>1, <2>3 DEF RefreshOk, NoSession, FreshInv, Pending
  <2>4. CASE refreshed' = refreshed /\ (session' = session \/ session' = SignedOut \/ session' = NoSession)
    BY <1>0, <2>1, <2>2, <2>4, FreshKept DEF SignedOut, NoSession
  <2> QED BY <1>14, <2>3, <2>4 DEF ReceiveRefresh, MarkSignedOut, SettleFails, KeepMarks
<1>15. CASE UNCHANGED vars
  BY <1>15 DEF vars, page, history, FreshInv, At
<1> QED
  BY <1>1, <1>2, <1>3, <1>4, <1>5, <1>6, <1>7, <1>8, <1>9, <1>10, <1>11, <1>12, <1>13, <1>14,
     <1>15 DEF Next, Receive

-----------------------------------------------------------------------------
(* Logins *)

\* The numbers the comparisons are about.
LEMMA Numbers ==
  ASSUME TypeInv
  PROVE  /\ backend.login \in Nat /\ backend.gen \in Nat /\ wasSignedIn \in Nat /\ token \in Nat
         /\ \A l \in told \cup ownEnded : l \in Nat
         /\ \A c \in Calls : call[c].login \in Nat
BY CallFields DEF TypeInv, BackendType

\* A step that learns of no login keeps the logins known.
LEMMA LoginsKept ==
  ASSUME TypeInv, LoginsInv, backend'.login \in {backend.login, backend.login + 1},
         wasSignedIn' \in {0, wasSignedIn}, ownEnded' = ownEnded,
         told' = told \/ (wasSignedIn # 0 /\ told' = told \cup {wasSignedIn}),
         \A c \in Calls :
           \/ call'[c] = call[c]
           \/ /\ call'[c].login \in {0, call[c].login}
              /\ ~(call'[c].pc = "answered" /\ call'[c].answer = "ok")
  PROVE  LoginsInv'
<1> USE Numbers
<1>1. backend'.login >= 1 /\ wasSignedIn' <= backend'.login
  BY DEF LoginsInv
<1>2. \A l \in told' \cup ownEnded' : l >= 1 /\ l <= backend'.login
  <2>1. \A l \in told' \cup ownEnded' : l \in told \cup ownEnded \/ (wasSignedIn # 0 /\ l = wasSignedIn)
    OBVIOUS
  <2> QED BY <2>1 DEF LoginsInv
<1>3. \A c \in Calls : call'[c].login <= backend'.login
  BY DEF LoginsInv
<1>4. \A c \in Calls :
        call'[c].pc = "answered" /\ call'[c].kind \in {"read", "token", "signOut"}
          /\ call'[c].answer = "ok" => call'[c].login >= 1
  BY DEF LoginsInv, At
<1> QED BY <1>1, <1>2, <1>3, <1>4 DEF LoginsInv, At

\* Every step keeps the logins known.
LEMMA LoginsStep == ASSUME TypeInv, LoginsInv, [Next]_vars PROVE LoginsInv'
<1>1. ASSUME NEW c \in Calls, GetSession(c) \/ CheckSession(c) \/ SignOut(c) PROVE LoginsInv'
  <2>1. PICK kind : Send(c, kind)
    BY <1>1 DEF GetSession, CheckSession, SignOut
  <2>2. UNCHANGED <<backend, wasSignedIn, ownEnded, told>>
    BY <1>1 DEF GetSession, CheckSession, SignOut
  <2> QED BY <2>1, <2>2, SendEffect, LoginsKept
<1>2. ASSUME NEW c \in Calls, NEW kind \in {"api", "token"}, Request(c, kind) PROVE LoginsInv'
  BY <1>2, SendEffect, LoginsKept DEF Request
<1>3. CASE Refresh \/ RefreshFails
  BY <1>3, LoginsKept DEF Refresh, RefreshFails
<1>4. ASSUME NEW c \in Calls, Serve(c) PROVE LoginsInv'
  <2>1. UNCHANGED <<wasSignedIn, told, ownEnded>>
    BY <1>4 DEF Serve
  <2>2. backend'.login = backend.login
    BY <1>4 DEF Serve, TypeInv, BackendType
  <2>3. \A d \in Calls : d # c => call'[d] = call[d]
    BY <1>4, ServeEffect
  <2>4. call'[c].login = IF call'[c].kind \in {"read", "token", "signOut"} THEN backend.login ELSE 0
    BY <1>4, ServeEffect
  <2> QED BY <2>1, <2>2, <2>3, <2>4, Numbers DEF LoginsInv, At
<1>5. CASE ServeRefresh
  <2>1. UNCHANGED <<call, wasSignedIn, told, ownEnded>>
    BY <1>5 DEF ServeRefresh, history
  <2> QED BY <1>5, <2>1, RefreshedEffect, LoginsKept
<1>6. ASSUME NEW c \in Calls, CallFails(c) PROVE LoginsInv'
  <2>1. UNCHANGED <<backend, wasSignedIn, told, ownEnded>>
    BY <1>6 DEF CallFails, history
  <2> QED BY <1>6, <2>1, FailEffect, LoginsKept
<1>7. CASE Expire \/ End
  <2>1. UNCHANGED <<call, wasSignedIn, told, ownEnded>> /\ backend'.login = backend.login
    BY <1>7 DEF Expire, End, page, history, TypeInv, BackendType
  <2> QED BY <2>1, LoginsKept
<1>8. CASE SignIn
  <2>1. UNCHANGED <<call, wasSignedIn, told, ownEnded>>
    BY <1>8 DEF SignIn, page
  <2> QED BY <1>8, <2>1, SignInEffect, LoginsKept
<1>9. ASSUME NEW c \in Calls, AwaitRefresh(c) PROVE LoginsInv'
  <2>1. UNCHANGED <<backend, wasSignedIn, told, ownEnded>>
    BY <1>9 DEF AwaitRefresh, history
  <2> QED BY <1>9, <2>1, AwaitEffect, LoginsKept
<1>10. ASSUME NEW c \in Calls, ReceiveRead(c) PROVE LoginsInv'
  <2>1. Done(c) /\ At(c, "answered") /\ call[c].kind = "read" /\ UNCHANGED <<backend, ownEnded>>
    BY <1>10 DEF ReceiveRead
  <2>2. CASE wasSignedIn' = call[c].login /\ told' = told
    BY <2>1, <2>2, DoneEffect, Numbers DEF LoginsInv, At
  <2>3. CASE wasSignedIn' \in {0, wasSignedIn} /\ (told' = told \/ (wasSignedIn # 0 /\ Tell))
    BY <2>1, <2>3, DoneEffect, LoginsKept DEF Tell
  <2> QED BY <1>10, <2>2, <2>3, ReadEffect, MarkEffect
<1>11. ASSUME NEW c \in Calls, ReceiveCheck(c) \/ ReceiveRequest(c) PROVE LoginsInv'
  <2>1. Done(c) /\ UNCHANGED <<backend, ownEnded>>
    BY <1>11 DEF ReceiveCheck, ReceiveRequest
  <2>2. wasSignedIn' \in {0, wasSignedIn} /\ (told' = told \/ (wasSignedIn # 0 /\ Tell))
    BY <1>11, MarkEffect DEF ReceiveCheck, ReceiveRequest, KeepMarks
  <2> QED BY <2>1, <2>2, DoneEffect, LoginsKept DEF Tell
<1>12. ASSUME NEW c \in Calls, ReceiveSignOut(c) PROVE LoginsInv'
  <2>1. /\ Done(c) /\ At(c, "answered") /\ call[c].kind = "signOut" /\ UNCHANGED <<backend, told>>
        /\ wasSignedIn' \in {0, wasSignedIn}
        /\ ownEnded' = IF call[c].answer = "ok" THEN ownEnded \cup {call[c].login} ELSE ownEnded
    BY <1>12 DEF ReceiveSignOut
  <2>2. \A l \in told' \cup ownEnded' : l >= 1 /\ l <= backend'.login
    BY <2>1 DEF LoginsInv
  <2>3. \A d \in Calls : call'[d] = call[d] \/ (call'[d].pc = "idle" /\ call'[d].login = 0)
    BY <2>1, DoneEffect
  <2>4. backend'.login >= 1 /\ wasSignedIn' <= backend'.login
    BY <2>1, Numbers DEF LoginsInv
  <2> QED BY <2>1, <2>2, <2>3, <2>4, Numbers DEF LoginsInv, At
<1>13. CASE ReceiveRefresh
  <2>1. UNCHANGED <<backend, ownEnded>>
    BY <1>13 DEF ReceiveRefresh
  <2>2. wasSignedIn' \in {0, wasSignedIn} /\ (told' = told \/ (wasSignedIn # 0 /\ Tell))
    BY <1>13, MarkEffect DEF ReceiveRefresh, RefreshOk, SettleFails, KeepMarks
  <2>3. \A c \in Calls :
           \/ call'[c] = call[c]
           \/ call'[c].login \in {0, call[c].login} /\ call'[c].pc # "answered"
    BY <1>13, ResendEffect, GiveUpEffect DEF ReceiveRefresh
  <2> QED BY <2>1, <2>2, <2>3, LoginsKept DEF Tell
<1>14. CASE UNCHANGED vars
  BY <1>14 DEF vars, page, history, LoginsInv, At
<1> QED
  BY <1>1, <1>2, <1>3, <1>4, <1>5, <1>6, <1>7, <1>8, <1>9, <1>10, <1>11, <1>12, <1>13,
     <1>14 DEF Next, Receive

\* Every step that caches a session knows of a login, and none forgets it while one is cached.
LEMMA WatchedStep ==
  ASSUME TypeInv, LoginsInv, CachedIsWatched, [Next]_vars PROVE CachedIsWatched'
<1>1. CASE session' = session /\ wasSignedIn' = wasSignedIn
  BY <1>1 DEF CachedIsWatched
<1>2. CASE session'.is # "in"
  BY <1>2 DEF CachedIsWatched
<1>3. ASSUME NEW c \in Calls, ReceiveRead(c) PROVE CachedIsWatched'
  <2>1. At(c, "answered") /\ call[c].kind = "read"
    BY <1>3 DEF ReceiveRead
  <2>2. CASE call[c].answer = "ok" /\ wasSignedIn' = call[c].login
    BY <2>1, <2>2, Numbers DEF LoginsInv, CachedIsWatched
  <2>3. CASE UNCHANGED <<session, wasSignedIn>>
    BY <1>1, <2>3
  <2>4. CASE session' = SignedOut \/ session' = NoSession
    BY <1>2, <2>4 DEF SignedOut, NoSession
  <2> QED BY <1>3, <2>2, <2>3, <2>4, ReadEffect, MarkEffect DEF Settle
<1>4. ASSUME NEW c \in Calls, GetSession(c) PROVE CachedIsWatched'
  BY <1>2, <1>4 DEF GetSession, Pending
<1>5. ASSUME NEW c \in Calls, ReceiveCheck(c) \/ ReceiveRequest(c) \/ ReceiveSignOut(c)
      PROVE  CachedIsWatched'
  <2>1. (session' = session /\ wasSignedIn' = wasSignedIn) \/ session' = SignedOut
    BY <1>5 DEF ReceiveCheck, ReceiveRequest, ReceiveSignOut, MarkSignedOut, KeepMarks
  <2> QED BY <1>1, <1>2, <2>1 DEF SignedOut
<1>6. CASE ReceiveRefresh
  <2>1. (session' = session /\ wasSignedIn' = wasSignedIn) \/ session' = SignedOut \/ session' = NoSession
    BY <1>6 DEF ReceiveRefresh, RefreshOk, MarkSignedOut, SettleFails, KeepMarks
  <2> QED BY <1>1, <1>2, <2>1 DEF SignedOut, NoSession
<1>7. CASE Refresh \/ ServeRefresh \/ RefreshFails \/ Expire \/ End \/ SignIn \/ UNCHANGED vars
  BY <1>1, <1>7 DEF Refresh, ServeRefresh, RefreshFails, Expire, End, SignIn, vars, page
<1>8. ASSUME NEW c \in Calls, CheckSession(c) \/ SignOut(c) \/ Serve(c) \/ CallFails(c) \/ AwaitRefresh(c)
      PROVE  CachedIsWatched'
  BY <1>1, <1>8 DEF CheckSession, SignOut, Serve, CallFails, AwaitRefresh
<1>9. ASSUME NEW c \in Calls, NEW kind \in {"api", "token"}, Request(c, kind) PROVE CachedIsWatched'
  BY <1>1, <1>9 DEF Request
<1> QED BY <1>3, <1>4, <1>5, <1>6, <1>7, <1>8, <1>9 DEF Next, Receive

-----------------------------------------------------------------------------
(* What the listeners are told *)

\* An answer that makes the page take itself for signed out.
Ended(r) == /\ r.pc = "answered"
            /\ r.answer = "out" \/ (r.kind = "read" /\ r.answer = "expired" /\ r.retry)

\* A step that gives no such answer while there is no doubt about the session keeps ToldInv.
LEMMA ToldKept ==
  ASSUME ToldInv, backend'.login = backend.login, Doubtful => Doubtful',
         told' = told \/ (told' = told \cup {wasSignedIn} /\ Doubtful),
         refreshing' = "refused" => refreshing = "refused" \/ Doubtful',
         \A c \in Calls : Ended(call'[c]) => Ended(call[c]) \/ Doubtful'
  PROVE  ToldInv'
BY DEF ToldInv, Ended, At

\* The backend and the doubts stay.
LEMMA SameDoubt ==
  ASSUME backend' = backend, doubted' = doubted
  PROVE  backend'.login = backend.login /\ (Doubtful => Doubtful')
BY DEF Doubtful

\* Where a step tells the listeners, its answer was given when the session was doubtful.
LEMMA ToldStep == ASSUME TypeInv, LoginsInv, ToldInv, [Next]_vars PROVE ToldInv'
<1>1. ASSUME NEW c \in Calls, GetSession(c) \/ CheckSession(c) \/ SignOut(c) PROVE ToldInv'
  <2>1. PICK kind : Send(c, kind)
    BY <1>1 DEF GetSession, CheckSession, SignOut
  <2>2. UNCHANGED <<backend, doubted, refreshing, told>>
    BY <1>1 DEF GetSession, CheckSession, SignOut
  <2> QED BY <2>1, <2>2, SendEffect, SameDoubt, ToldKept DEF Ended
<1>2. ASSUME NEW c \in Calls, NEW kind \in {"api", "token"}, Request(c, kind) PROVE ToldInv'
  <2>1. UNCHANGED <<backend, doubted, refreshing, told>>
    BY <1>2 DEF Request
  <2> QED BY <1>2, <2>1, SendEffect, SameDoubt, ToldKept DEF Ended, Request
<1>3. CASE Refresh
  <2>1. UNCHANGED <<backend, doubted, call, told>> /\ refreshing' = "sent"
    BY <1>3 DEF Refresh
  <2> QED BY <2>1, SameDoubt, ToldKept
<1>4. ASSUME NEW c \in Calls, Serve(c) PROVE ToldInv'
  <2>1. UNCHANGED <<refreshing, told>>
    BY <1>4 DEF Serve
  <2>2. backend'.login = backend.login /\ (backend.state = "ended" => backend'.state = "ended")
    BY <1>4 DEF Serve, TypeInv, BackendType
  <2>3. doubted \subseteq doubted'
    BY <1>4 DEF Serve
  <2>4. Ended(call'[c]) => Doubtful'
    <3>1. CASE backend.state = "ended"
      BY <2>2, <3>1 DEF Doubtful
    <3>2. CASE backend.state # "ended"
      <4>1. AnswerTo(call[c].kind) # "out"
        BY <3>2 DEF AnswerTo
      <4>2. AnswerTo(call[c].kind) = "expired" => backend.state = "expired"
        BY DEF AnswerTo
      <4>3. Ended(call'[c]) => call[c].kind = "read" /\ call[c].retry /\ backend.state = "expired"
        BY <1>4, <4>1, <4>2, ServeEffect DEF Ended
      <4>4. Ended(call'[c]) => backend.login \in doubted'
        BY <1>4, <4>3 DEF Serve
      <4> QED BY <2>2, <4>4 DEF Doubtful
    <3> QED BY <3>1, <3>2
  <2>5. Doubtful => Doubtful'
    BY <2>2, <2>3 DEF Doubtful
  <2>6. \A d \in Calls : Ended(call'[d]) => Ended(call[d]) \/ Doubtful'
    BY <1>4, <2>4, ServeEffect
  <2> QED BY <2>1, <2>2, <2>5, <2>6, ToldKept
<1>5. CASE ServeRefresh
  <2>1. UNCHANGED <<call, told, doubted>>
    BY <1>5 DEF ServeRefresh, history
  <2>2. Doubtful => Doubtful'
    BY <1>5, <2>1, RefreshedEffect DEF Doubtful
  <2>3. refreshing' = "refused" => Doubtful'
    BY <1>5, RefreshedEffect DEF Doubtful
  <2>4. backend'.login = backend.login
    BY <1>5, RefreshedEffect
  <2> QED BY <2>1, <2>2, <2>3, <2>4, ToldKept
<1>6. ASSUME NEW c \in Calls, CallFails(c) PROVE ToldInv'
  <2>1. UNCHANGED <<backend, doubted, refreshing, told>>
    BY <1>6 DEF CallFails, history
  <2> QED BY <1>6, <2>1, FailEffect, SameDoubt, ToldKept DEF Ended
<1>7. CASE RefreshFails
  <2>1. UNCHANGED <<backend, call, told>> /\ doubted' = doubted \cup {backend.login}
    BY <1>7 DEF RefreshFails
  <2>2. Doubtful'
    BY <2>1 DEF Doubtful
  <2> QED BY <2>1, <2>2, ToldKept
<1>8. CASE Expire \/ End
  <2>1. UNCHANGED <<refreshing, call, told, doubted>>
    BY <1>8 DEF Expire, End, page, history
  <2>2. backend'.login = backend.login /\ (backend.state = "ended" => backend'.state = "ended")
    BY <1>8 DEF Expire, End, TypeInv, BackendType
  <2>3. Doubtful => Doubtful'
    BY <2>1, <2>2 DEF Doubtful
  <2> QED BY <2>1, <2>2, <2>3, ToldKept
<1>9. CASE SignIn
  <2>1. UNCHANGED <<refreshing, call, told>> /\ backend'.login = backend.login + 1
    BY <1>9, SignInEffect DEF SignIn, page
  <2>2. \A l \in told' : l # backend'.login
    BY <2>1, Numbers DEF LoginsInv
  <2>3. Busy(Calls) => Doubtful'
    BY <1>9, <2>1 DEF SignIn, Doubtful
  <2>4. refreshing' = "refused" => Busy(Calls)
    BY <2>1 DEF Busy
  <2>5. \A c \in Calls : Ended(call'[c]) => Busy(Calls)
    BY <2>1 DEF Busy, Ended, At
  <2> QED BY <2>2, <2>3, <2>4, <2>5 DEF ToldInv, Ended, At
<1>10. ASSUME NEW c \in Calls, AwaitRefresh(c) PROVE ToldInv'
  <2>1. UNCHANGED <<backend, doubted, told>> /\ refreshing' \in {refreshing, "sent"}
    BY <1>10 DEF AwaitRefresh, history
  <2> QED BY <1>10, <2>1, AwaitEffect, SameDoubt, ToldKept DEF Ended
<1>11. ASSUME NEW c \in Calls, ReceiveRead(c) \/ ReceiveCheck(c) \/ ReceiveRequest(c) PROVE ToldInv'
  <2>1. At(c, "answered") /\ Done(c) /\ UNCHANGED <<backend, doubted, refreshing>>
    BY <1>11 DEF ReceiveRead, ReceiveCheck, ReceiveRequest
  <2>2. \A d \in Calls : Ended(call'[d]) => Ended(call[d])
    BY <2>1, DoneEffect DEF Ended
  <2>3. told' = told \/ (told' = told \cup {wasSignedIn} /\ Ended(call[c]))
    <3>1. CASE ReceiveRead(c)
      <4>1. MarkSignedOut => told' = told \/ told' = told \cup {wasSignedIn}
        BY MarkEffect DEF Tell
      <4>2. call[c].kind = "read"
        BY <3>1 DEF ReceiveRead
      <4> QED BY <2>1, <3>1, <4>1, <4>2, ReadEffect DEF Ended, At
    <3>2. CASE ReceiveCheck(c) \/ ReceiveRequest(c)
      <4>1. told' = told \/ (MarkSignedOut /\ call[c].answer = "out")
        BY <3>2 DEF ReceiveCheck, ReceiveRequest, KeepMarks
      <4> QED BY <2>1, <4>1, MarkEffect DEF Ended, At, Tell
    <3> QED BY <1>11, <3>1, <3>2
  <2>4. Ended(call[c]) => Doubtful
    BY DEF ToldInv, Ended, At
  <2> QED BY <2>1, <2>2, <2>3, <2>4, SameDoubt, ToldKept
<1>12. ASSUME NEW c \in Calls, ReceiveSignOut(c) PROVE ToldInv'
  <2>1. Done(c) /\ UNCHANGED <<backend, doubted, refreshing, told>>
    BY <1>12 DEF ReceiveSignOut
  <2> QED BY <2>1, DoneEffect, SameDoubt, ToldKept DEF Ended
<1>13. CASE ReceiveRefresh
  <2>1. UNCHANGED <<backend, doubted>> /\ refreshing' = "none"
    BY <1>13 DEF ReceiveRefresh
  <2>2. \A c \in Calls : call'[c] = call[c] \/ call'[c].pc # "answered"
    BY <1>13, ResendEffect, GiveUpEffect DEF ReceiveRefresh
  <2>3. told' = told \/ (told' = told \cup {wasSignedIn} /\ refreshing = "refused")
    <3>1. told' = told \/ (MarkSignedOut /\ refreshing = "refused")
      BY <1>13 DEF ReceiveRefresh, RefreshOk, SettleFails, KeepMarks
    <3> QED BY <3>1, MarkEffect DEF Tell
  <2>4. refreshing = "refused" => Doubtful
    BY DEF ToldInv
  <2> QED BY <2>1, <2>2, <2>3, <2>4, SameDoubt, ToldKept DEF Ended
<1>14. CASE UNCHANGED vars
  BY <1>14 DEF vars, page, history, ToldInv, Doubtful, At
<1> QED
  BY <1>1, <1>2, <1>3, <1>4, <1>5, <1>6, <1>7, <1>8, <1>9, <1>10, <1>11, <1>12, <1>13,
     <1>14 DEF Next, Receive

-----------------------------------------------------------------------------
(* Sign-outs of this page *)

\* A request that is as it was, has ended or failed, or is no sign-out.
Quiet(c) ==
  \/ call'[c] = call[c]
  \/ call'[c].pc = "idle"
  \/ /\ call'[c].kind = call[c].kind /\ call[c].pc # "idle"
     /\ \/ call[c].kind # "signOut"
        \/ call'[c].pc = "answered" /\ call'[c].answer \in {"error", "network"}

\* A step that neither begins nor ends a sign-out keeps SignOutInv.
LEMMA SignOutKept ==
  ASSUME SignOutInv, ownEnded' = ownEnded, overtaken \subseteq overtaken', backend'.login = backend.login,
         backend.state = "ended" => backend'.state = "ended", \A c \in Calls : Quiet(c)
  PROVE  SignOutInv'
<1>1. \A l \in ownEnded' : l = backend'.login => backend'.state = "ended"
  BY DEF SignOutInv
<1>2. ASSUME NEW s \in Calls, call'[s].kind = "signOut", call'[s].pc # "idle"
      PROVE  /\ call'[s].pc # "refreshing"
             /\ call'[s].pc = "answered" => call'[s].answer \in {"ok", "error", "network"}
             /\ call'[s].pc = "answered" /\ call'[s].answer = "ok" /\ call'[s].login = backend'.login
                  => backend'.state = "ended"
             /\ \A d \in Calls : d # s /\ call'[d].pc # "idle" => backend'.login \in overtaken'
  <2>1. UnderWay(s)
    BY <1>2 DEF Quiet, UnderWay, At
  <2>2. \/ call'[s] = call[s]
        \/ call'[s].pc = "answered" /\ call'[s].answer \in {"error", "network"}
    BY <1>2 DEF Quiet
  <2>3. \A d \in Calls : call'[d].pc # "idle" => call[d].pc # "idle"
    BY DEF Quiet
  <2> QED BY <2>1, <2>2, <2>3 DEF SignOutInv, At
<1> QED BY <1>1, <1>2 DEF SignOutInv, UnderWay, At

\* Sending a request beside a sign-out, or a sign-out beside a request, puts the login on record.
LEMMA SignOutSend ==
  ASSUME TypeInv, SignOutInv, NEW c \in Calls, NEW kind, Send(c, kind), UNCHANGED <<ownEnded, backend>>
  PROVE  SignOutInv'
<1> USE SendEffect
<1>1. \A l \in ownEnded' : l = backend'.login => backend'.state = "ended"
  BY DEF SignOutInv
<1>2. ASSUME NEW s \in Calls, NEW d \in Calls, d # s,
             call'[s].kind = "signOut", call'[s].pc # "idle", call'[d].pc # "idle"
      PROVE  backend'.login \in overtaken'
  <2>1. CASE s = c
    <3>1. kind = "signOut" /\ Busy(Calls)
      BY <1>2, <2>1 DEF Busy, At
    <3> QED BY <3>1
  <2>2. CASE s # c
    <3>1. SigningOut
      BY <1>2, <2>2 DEF SigningOut, At
    <3> QED BY <3>1
  <2> QED BY <2>1, <2>2
<1>3. ASSUME NEW s \in Calls, call'[s].kind = "signOut", call'[s].pc # "idle"
      PROVE  /\ call'[s].pc # "refreshing"
             /\ call'[s].pc = "answered" => call'[s].answer \in {"ok", "error", "network"}
             /\ call'[s].pc = "answered" /\ call'[s].answer = "ok" /\ call'[s].login = backend'.login
                  => backend'.state = "ended"
  BY <1>3 DEF SignOutInv, UnderWay, At
<1> QED BY <1>1, <1>2, <1>3 DEF SignOutInv, UnderWay, At

\* Every step keeps what is said of sign-outs.
LEMMA SignOutStep == ASSUME TypeInv, LoginsInv, SignOutInv, [Next]_vars PROVE SignOutInv'
<1>1. ASSUME NEW c \in Calls, GetSession(c) \/ CheckSession(c) \/ SignOut(c) PROVE SignOutInv'
  <2>1. PICK kind : Send(c, kind)
    BY <1>1 DEF GetSession, CheckSession, SignOut
  <2>2. UNCHANGED <<backend, ownEnded>>
    BY <1>1 DEF GetSession, CheckSession, SignOut
  <2> QED BY <2>1, <2>2, SignOutSend
<1>2. ASSUME NEW c \in Calls, NEW kind \in {"api", "token"}, Request(c, kind) PROVE SignOutInv'
  BY <1>2, SignOutSend DEF Request
<1>3. CASE Refresh \/ RefreshFails
  BY <1>3, SignOutKept DEF Refresh, RefreshFails, Quiet
<1>4. ASSUME NEW c \in Calls, Serve(c) PROVE SignOutInv'
  <2>1. /\ UNCHANGED <<overtaken, ownEnded>> /\ call[c].pc = "sent"
    BY <1>4, ServeEffect DEF Serve
  <2>2. backend'.login = backend.login /\ (backend.state = "ended" => backend'.state = "ended")
    BY <1>4 DEF Serve, TypeInv, BackendType
  <2>3. CASE call[c].kind # "signOut"
    BY <1>4, <2>1, <2>2, <2>3, ServeEffect, SignOutKept DEF Quiet
  <2>4. CASE call[c].kind = "signOut"
    <3>1. backend'.state = "ended"
      BY <1>4, <2>4 DEF Serve, TypeInv, BackendType
    <3>2. /\ call'[c].pc = "answered" /\ call'[c].answer = "ok" /\ call'[c].kind = "signOut"
          /\ \A d \in Calls : d # c => call'[d] = call[d]
      <4>1. AnswerTo("signOut") = "ok"
        BY DEF AnswerTo
      <4> QED BY <1>4, <2>4, <4>1, ServeEffect
    <3> QED BY <2>1, <2>2, <2>4, <3>1, <3>2 DEF SignOutInv, UnderWay, At
  <2> QED BY <2>3, <2>4
<1>5. CASE ServeRefresh
  <2>1. UNCHANGED <<call, ownEnded, overtaken>>
    BY <1>5 DEF ServeRefresh, history
  <2>2. CASE backend.state # "ended"
    BY <1>5, <2>1, <2>2, RefreshedEffect, SignOutKept DEF Quiet
  <2>3. CASE backend.state = "ended"
    BY <1>5, <2>1, <2>3, RefreshedEffect, SignOutKept DEF Quiet
  <2> QED BY <2>2, <2>3
<1>6. ASSUME NEW c \in Calls, CallFails(c) PROVE SignOutInv'
  <2>1. UNCHANGED <<backend, ownEnded, overtaken>>
    BY <1>6 DEF CallFails, history
  <2> QED BY <1>6, <2>1, FailEffect, SignOutKept DEF Quiet
<1>7. CASE Expire \/ End
  <2>1. UNCHANGED <<call, ownEnded, overtaken>>
    BY <1>7 DEF Expire, End, page, history
  <2>2. backend'.login = backend.login /\ (backend.state = "ended" => backend'.state = "ended")
    BY <1>7 DEF Expire, End, TypeInv, BackendType
  <2> QED BY <2>1, <2>2, SignOutKept DEF Quiet
<1>8. CASE SignIn
  <2>1. UNCHANGED <<call, ownEnded>> /\ backend'.login = backend.login + 1
    BY <1>8, SignInEffect DEF SignIn, page
  <2>2. \A l \in ownEnded' : l # backend'.login
    BY <2>1, Numbers DEF LoginsInv
  <2>3. \A s \in Calls : call'[s].login # backend'.login
    BY <2>1, Numbers DEF LoginsInv
  <2>4. SigningOut => backend'.login \in overtaken'
    BY <1>8, <2>1 DEF SignIn
  <2> QED BY <2>1, <2>2, <2>3, <2>4 DEF SignOutInv, UnderWay, SigningOut, At
<1>9. ASSUME NEW c \in Calls, AwaitRefresh(c) PROVE SignOutInv'
  <2>1. UNCHANGED <<backend, ownEnded, overtaken>>
    BY <1>9 DEF AwaitRefresh, history
  <2>2. call[c].kind # "signOut"
    BY <1>9, AwaitEffect DEF SignOutInv, UnderWay, At
  <2> QED BY <1>9, <2>1, <2>2, AwaitEffect, SignOutKept DEF Quiet
<1>10. ASSUME NEW c \in Calls, ReceiveRead(c) \/ ReceiveCheck(c) \/ ReceiveRequest(c) PROVE SignOutInv'
  <2>1. Done(c) /\ UNCHANGED <<backend, ownEnded, overtaken>>
    BY <1>10 DEF ReceiveRead, ReceiveCheck, ReceiveRequest
  <2> QED BY <2>1, DoneEffect, SignOutKept DEF Quiet
<1>11. ASSUME NEW c \in Calls, ReceiveSignOut(c) PROVE SignOutInv'
  <2>1. /\ Done(c) /\ At(c, "answered") /\ call[c].kind = "signOut" /\ UNCHANGED <<backend, overtaken>>
        /\ ownEnded' = IF call[c].answer = "ok" THEN ownEnded \cup {call[c].login} ELSE ownEnded
    BY <1>11 DEF ReceiveSignOut
  <2>2. \A l \in ownEnded' : l = backend'.login => backend'.state = "ended"
    BY <2>1 DEF SignOutInv, UnderWay, At
  <2>3. \A d \in Calls : call'[d] = call[d] \/ call'[d].pc = "idle"
    BY <2>1, DoneEffect
  <2> QED BY <2>1, <2>2, <2>3 DEF SignOutInv, UnderWay, At
<1>12. CASE ReceiveRefresh
  <2>1. UNCHANGED <<backend, ownEnded, overtaken>>
    BY <1>12 DEF ReceiveRefresh
  <2>2. \A c \in Calls : call[c].pc = "refreshing" => call[c].kind # "signOut"
    BY DEF SignOutInv, UnderWay, At
  <2>3. \A c \in Calls : Quiet(c)
    BY <1>12, <2>2, ResendEffect, GiveUpEffect DEF ReceiveRefresh, Quiet
  <2> QED BY <2>1, <2>3, SignOutKept
<1>13. CASE UNCHANGED vars
  BY <1>13 DEF vars, page, history, SignOutInv, UnderWay, At
<1> QED
  BY <1>1, <1>2, <1>3, <1>4, <1>5, <1>6, <1>7, <1>8, <1>9, <1>10, <1>11, <1>12,
     <1>13 DEF Next, Receive

\* A step that finds no session, stores no token and ends no sign-out keeps FoundInv.
LEMMA FoundKept ==
  ASSUME TypeInv, TypeInv', LoginsInv, FoundInv,
         ownEnded' = ownEnded, overtaken \subseteq overtaken',
         token' \in {0, token}, wasSignedIn' \in {0, wasSignedIn},
         echoed' = echoed \/ (echoed' = echoed \cup {wasSignedIn} /\ wasSignedIn \in ownEnded),
         \A c \in Calls : UnderWay(c)' => UnderWay(c) /\ Ends(c) <= Ends(c)',
         \A c \in Calls : Finds(c)' => Finds(c) /\ call'[c].login = call[c].login
  PROVE  FoundInv'
<1>1. \A l \in Nat, s \in Calls : UnderWay(s)' /\ Beside(l, s) => l \in overtaken' \/ l < Ends(s)'
  <2>1. \A s \in Calls : Ends(s) \in Nat /\ Ends(s)' \in Nat
    BY Numbers, CallFields DEF Ends, TypeInv, BackendType
  <2> QED BY <2>1 DEF Beside
<1>2. 0 \notin ownEnded
  BY DEF LoginsInv
<1>3. \A s \in Calls : UnderWay(s)' =>
        /\ \A t \in Calls : Finds(t)' => Beside(call[t].login, s)
        /\ token' # 0 => Beside(token', s)
  BY DEF FoundInv, Beside
<1>4. \A s \in Calls : UnderWay(s)' =>
        /\ \A t \in Calls : Finds(t)' => call'[t].login \in overtaken' \/ call'[t].login < Ends(s)'
        /\ token' # 0 => token' \in overtaken' \/ token' < Ends(s)'
  BY <1>1, <1>3, Numbers
<1>5. \A t \in Calls : Finds(t)' /\ call'[t].login \in ownEnded' => call'[t].login \in overtaken'
  BY DEF FoundInv
<1>6. /\ wasSignedIn' \in ownEnded' => wasSignedIn' \in overtaken'
      /\ token' \in ownEnded' => token' \in overtaken'
  BY <1>2 DEF FoundInv
<1>7. echoed' \subseteq overtaken'
  BY DEF FoundInv
<1> QED BY <1>4, <1>5, <1>6, <1>7 DEF FoundInv, Beside

\* Sending a request keeps FoundInv, a sign-out's where the stored token goes with it.
LEMMA FoundSend ==
  ASSUME TypeInv, TypeInv', LoginsInv, FoundInv, NEW c \in Calls, NEW kind, Send(c, kind),
         UNCHANGED <<backend, ownEnded, wasSignedIn, echoed>>,
         token' = 0 \/ (kind # "signOut" /\ token' = token)
  PROVE  FoundInv'
<1> USE SendEffect
<1>1. \A t \in Calls : Finds(t)' => Finds(t) /\ call'[t].login = call[t].login
  BY DEF Finds, At
<1>2. CASE kind # "signOut"
  <2>1. \A s \in Calls : UnderWay(s)' => UnderWay(s) /\ call'[s] = call[s]
    BY <1>2 DEF UnderWay, At
  <2>2. \A s \in Calls : Ends(s) \in Nat
    BY Numbers DEF Ends
  <2>3. \A s \in Calls : UnderWay(s)' => UnderWay(s) /\ Ends(s) <= Ends(s)'
    BY <2>1, <2>2 DEF Ends, At
  <2> QED BY <1>1, <2>3, FoundKept
<1>3. CASE kind = "signOut"
  <2>1. token' = 0 /\ 0 \notin ownEnded
    BY <1>3 DEF LoginsInv
  <2>2. ASSUME NEW s \in Calls, UnderWay(s)', NEW t \in Calls, Finds(t)'
        PROVE  Beside(call[t].login, s)'
    <3>1. Finds(t) /\ call'[t].login = call[t].login /\ call[t].login <= backend.login
      BY <1>1, <2>2 DEF LoginsInv
    <3>2. CASE s = c
      <4>1. Busy(Calls)
        BY <3>1 DEF Busy, Finds, At
      <4>2. backend.login \in overtaken' /\ Ends(s)' = backend.login
        BY <1>3, <3>2, <4>1 DEF Ends, At
      <4> QED BY <3>1, <4>2, Numbers DEF Beside
    <3>3. CASE s # c
      <4>1. UnderWay(s) /\ Ends(s)' = Ends(s)
        BY <2>2, <3>3 DEF UnderWay, Ends, At
      <4> QED BY <3>1, <4>1 DEF FoundInv, Beside
    <3> QED BY <3>2, <3>3
  <2>3. \A t \in Calls : Finds(t)' /\ call'[t].login \in ownEnded' => call'[t].login \in overtaken'
    BY <1>1 DEF FoundInv
  <2>4. (wasSignedIn' \in ownEnded' => wasSignedIn' \in overtaken') /\ echoed' \subseteq overtaken'
    BY DEF FoundInv
  <2>5. \A s \in Calls : UnderWay(s)' =>
          /\ \A t \in Calls : Finds(t)' => Beside(call[t].login, s)'
          /\ token' # 0 => Beside(token, s)'
    BY <2>1, <2>2
  <2> QED BY <2>1, <2>3, <2>4, <2>5 DEF FoundInv
<1> QED BY <1>2, <1>3

\* Every step keeps what is said of what is found.
LEMMA FoundStep ==
  ASSUME TypeInv, TypeInv', LoginsInv, SignOutInv, FoundInv, [Next]_vars PROVE FoundInv'
<1> DEFINE Same == \A s \in Calls : UnderWay(s)' => UnderWay(s) /\ Ends(s) <= Ends(s)'
           NoneFound == \A t \in Calls : Finds(t)' => Finds(t) /\ call'[t].login = call[t].login
<1>0. ASSUME backend'.login = backend.login \/ backend'.login = backend.login + 1,
             \A c \in Calls :
               \/ call'[c] = call[c]
               \/ call'[c].pc = "idle"
               \/ call'[c].kind = call[c].kind /\ call'[c].kind # "signOut" /\ call'[c].pc # "answered"
               \/ /\ call'[c].kind = call[c].kind /\ call[c].pc # "idle" /\ call'[c].pc = "answered"
                  /\ call'[c].answer \in {"error", "network"}
      PROVE  Same /\ NoneFound
  <2>1. ASSUME NEW s \in Calls, UnderWay(s)' PROVE UnderWay(s) /\ Ends(s) <= Ends(s)'
    <3>1. UnderWay(s)
      BY <1>0, <2>1 DEF UnderWay, At
    <3>2. call[s].login <= backend.login /\ call[s].login \in Nat /\ backend.login \in Nat
      BY Numbers DEF LoginsInv
    <3>3. call'[s] = call[s] \/ (call'[s].pc = "answered" /\ call'[s].answer # "ok")
      BY <1>0, <2>1 DEF UnderWay, At
    <3>4. Ends(s) <= Ends(s)'
      BY <1>0, <3>2, <3>3 DEF Ends, At
    <3> QED BY <3>1, <3>4
  <2>2. NoneFound
    BY <1>0 DEF Finds, At
  <2> QED BY <2>1, <2>2
<1>1. ASSUME NEW c \in Calls, GetSession(c) \/ CheckSession(c) PROVE FoundInv'
  <2>1. UNCHANGED <<backend, ownEnded, wasSignedIn, echoed, token>>
    BY <1>1 DEF GetSession, CheckSession
  <2>2. Send(c, "read") \/ Send(c, "check")
    BY <1>1 DEF GetSession, CheckSession
  <2> QED BY <2>1, <2>2, FoundSend
<1>2. ASSUME NEW c \in Calls, SignOut(c) PROVE FoundInv'
  <2>1. UNCHANGED <<backend, ownEnded, wasSignedIn, echoed>> /\ token' = 0 /\ Send(c, "signOut")
    BY <1>2 DEF SignOut
  <2> QED BY <2>1, FoundSend
<1>3. ASSUME NEW c \in Calls, NEW kind \in {"api", "token"}, Request(c, kind) PROVE FoundInv'
  <2>1. UNCHANGED <<backend, ownEnded, wasSignedIn, echoed, token>> /\ Send(c, kind)
    BY <1>3 DEF Request
  <2> QED BY <1>3, <2>1, FoundSend
<1>4. CASE Refresh \/ RefreshFails
  <2>1. /\ UNCHANGED <<backend, call, ownEnded, wasSignedIn, echoed, token>>
        /\ overtaken \subseteq overtaken'
    BY <1>4 DEF Refresh, RefreshFails
  <2> QED BY <1>0, <2>1, FoundKept
<1>5. ASSUME NEW c \in Calls, Serve(c) PROVE FoundInv'
  <2>1. UNCHANGED <<overtaken, ownEnded, wasSignedIn, echoed, token>>
    BY <1>5 DEF Serve
  <2>2. backend'.login = backend.login
    BY <1>5 DEF Serve, TypeInv, BackendType
  <2>3. /\ \A d \in Calls : d # c => call'[d] = call[d]
        /\ call[c].pc = "sent" /\ call'[c].pc = "answered" /\ call'[c].kind = call[c].kind
        /\ call'[c].answer = AnswerTo(call[c].kind)
        /\ call[c].kind \in {"read", "token", "signOut"} => call'[c].login = backend.login
    BY <1>5, ServeEffect
  <2>4. \A s \in Calls : UnderWay(s)' => UnderWay(s) /\ Ends(s)' = Ends(s)
    BY <2>2, <2>3 DEF UnderWay, Ends, At
  <2>5. Finds(c)' => call'[c].login = backend.login /\ backend.state # "ended" /\ call[c].kind # "signOut"
    <3>1. \A kind \in {"read", "token"} : AnswerTo(kind) = "ok" => backend.state # "ended"
      BY DEF AnswerTo
    <3> QED BY <2>3, <3>1 DEF Finds, At
  <2>6. ASSUME NEW s \in Calls, UnderWay(s)', NEW t \in Calls, Finds(t)'
        PROVE  Beside(call[t].login, s)'
    <3>1. CASE t # c
      <4>1. Finds(t) /\ call'[t].login = call[t].login
        BY <2>3, <2>6, <3>1 DEF Finds, At
      <4> QED BY <2>1, <2>4, <2>6, <4>1 DEF FoundInv, Beside
    <3>2. CASE t = c
      <4>1. s # c /\ ~At(c, "idle")
        BY <2>3, <2>4, <2>5, <2>6, <3>2 DEF UnderWay, At
      <4>2. backend.login \in overtaken
        BY <2>4, <2>6, <4>1 DEF SignOutInv
      <4> QED BY <2>1, <2>5, <2>6, <3>2, <4>2 DEF Beside
    <3> QED BY <3>1, <3>2
  <2>7. \A t \in Calls : Finds(t)' /\ call'[t].login \in ownEnded' => call'[t].login \in overtaken'
    <3>1. \A t \in Calls : t # c /\ Finds(t)' => Finds(t) /\ call'[t].login = call[t].login
      BY <2>3 DEF Finds, At
    <3>2. Finds(c)' => call'[c].login \notin ownEnded
      BY <2>5 DEF SignOutInv
    <3> QED BY <2>1, <3>1, <3>2 DEF FoundInv
  <2>8. \A s \in Calls : UnderWay(s)' => (token' # 0 => Beside(token, s)')
    BY <2>1, <2>4 DEF FoundInv, Beside
  <2>9. /\ wasSignedIn' \in ownEnded' => wasSignedIn' \in overtaken'
        /\ token' \in ownEnded' => token' \in overtaken'
        /\ echoed' \subseteq overtaken'
    BY <2>1 DEF FoundInv
  <2> QED BY <2>6, <2>7, <2>8, <2>9 DEF FoundInv
<1>6. CASE ServeRefresh
  <2>1. UNCHANGED <<call, overtaken, ownEnded, wasSignedIn, echoed, token>>
    BY <1>6 DEF ServeRefresh, history
  <2> QED BY <1>0, <1>6, <2>1, RefreshedEffect, FoundKept
<1>7. ASSUME NEW c \in Calls, CallFails(c) PROVE FoundInv'
  <2>1. UNCHANGED <<backend, overtaken, ownEnded, wasSignedIn, echoed, token>>
    BY <1>7 DEF CallFails, history
  <2> QED BY <1>0, <1>7, <2>1, FailEffect, FoundKept
<1>8. CASE Expire \/ End
  <2>1. UNCHANGED <<call, overtaken, ownEnded, wasSignedIn, echoed, token>> /\ backend'.login = backend.login
    BY <1>8 DEF Expire, End, page, history, TypeInv, BackendType
  <2> QED BY <1>0, <2>1, FoundKept
<1>9. CASE SignIn
  <2>1. UNCHANGED <<call, ownEnded, wasSignedIn, echoed, token>> /\ overtaken \subseteq overtaken'
    BY <1>9 DEF SignIn, page
  <2> QED BY <1>0, <1>9, <2>1, SignInEffect, FoundKept
<1>10. ASSUME NEW c \in Calls, AwaitRefresh(c) PROVE FoundInv'
  <2>1. UNCHANGED <<backend, overtaken, ownEnded, wasSignedIn, echoed, token>>
    BY <1>10 DEF AwaitRefresh, history
  <2>2. call[c].kind # "signOut"
    BY <1>10, AwaitEffect DEF SignOutInv, UnderWay, At
  <2> QED BY <1>0, <1>10, <2>1, <2>2, AwaitEffect, FoundKept
<1>11. ASSUME NEW c \in Calls, ReceiveRead(c) PROVE FoundInv'
  <2>1. /\ Done(c) /\ At(c, "answered") /\ call[c].kind = "read"
        /\ UNCHANGED <<backend, ownEnded, overtaken>>
    BY <1>11 DEF ReceiveRead
  <2>2. Same /\ NoneFound
    BY <1>0, <2>1, DoneEffect
  <2>3. CASE call[c].answer = "ok" /\ wasSignedIn' = call[c].login /\ UNCHANGED <<echoed, token>>
    <3>1. Finds(c)
      BY <2>1, <2>3 DEF Finds
    <3>2. wasSignedIn' \in ownEnded' => wasSignedIn' \in overtaken'
      BY <2>1, <2>3, <3>1 DEF FoundInv
    <3>3. \A s \in Calls : UnderWay(s)' => UnderWay(s) /\ Ends(s)' = Ends(s)
      BY <2>1, DoneEffect DEF UnderWay, Ends, At
    <3>4. \A s \in Calls : UnderWay(s)' =>
            /\ \A t \in Calls : Finds(t)' => Beside(call[t].login, s)'
            /\ token' # 0 => Beside(token, s)'
      BY <2>1, <2>2, <2>3, <3>3 DEF FoundInv, Beside
    <3>5. \A t \in Calls : Finds(t)' /\ call'[t].login \in ownEnded' => call'[t].login \in overtaken'
      BY <2>1, <2>2 DEF FoundInv
    <3>6. (token' \in ownEnded' => token' \in overtaken') /\ echoed' \subseteq overtaken'
      BY <2>1, <2>3 DEF FoundInv
    <3> QED BY <3>2, <3>4, <3>5, <3>6 DEF FoundInv
  <2>4. CASE UNCHANGED <<wasSignedIn, echoed, token>>
    BY <2>1, <2>2, <2>4, FoundKept
  <2>5. CASE MarkSignedOut
    BY <2>1, <2>2, <2>5, MarkEffect, FoundKept DEF Tell
  <2> QED BY <1>11, <2>3, <2>4, <2>5, ReadEffect
<1>12. ASSUME NEW c \in Calls, ReceiveCheck(c) PROVE FoundInv'
  <2>1. Done(c) /\ UNCHANGED <<backend, ownEnded, overtaken>>
    BY <1>12 DEF ReceiveCheck
  <2>2. Same /\ NoneFound
    BY <1>0, <2>1, DoneEffect
  <2>3. CASE UNCHANGED <<wasSignedIn, echoed, token>>
    BY <2>1, <2>2, <2>3, FoundKept
  <2>4. CASE MarkSignedOut
    BY <2>1, <2>2, <2>4, MarkEffect, FoundKept DEF Tell
  <2> QED BY <1>12, <2>3, <2>4 DEF ReceiveCheck, KeepMarks
<1>13. ASSUME NEW c \in Calls, ReceiveRequest(c) PROVE FoundInv'
  <2>1. /\ Done(c) /\ At(c, "answered") /\ call[c].kind \in {"api", "token"}
        /\ UNCHANGED <<backend, ownEnded, overtaken>>
    BY <1>13 DEF ReceiveRequest
  <2>2. Same /\ NoneFound
    BY <1>0, <2>1, DoneEffect
  <2>3. CASE /\ call[c].answer = "ok" /\ call[c].kind = "token" /\ token' = call[c].login
             /\ UNCHANGED <<wasSignedIn, echoed>>
    <3>1. Finds(c)
      BY <2>1, <2>3 DEF Finds
    <3>2. \A s \in Calls : UnderWay(s)' => UnderWay(s) /\ Ends(s)' = Ends(s)
      BY <2>1, DoneEffect DEF UnderWay, Ends, At
    <3>3. \A s \in Calls : UnderWay(s)' =>
            /\ \A t \in Calls : Finds(t)' => Beside(call[t].login, s)'
            /\ token' # 0 => Beside(token, s)'
      BY <2>1, <2>2, <2>3, <3>1, <3>2 DEF FoundInv, Beside
    <3>4. \A t \in Calls : Finds(t)' /\ call'[t].login \in ownEnded' => call'[t].login \in overtaken'
      BY <2>1, <2>2 DEF FoundInv
    <3>5. /\ wasSignedIn' \in ownEnded' => wasSignedIn' \in overtaken'
          /\ token' \in ownEnded' => token' \in overtaken'
          /\ echoed' \subseteq overtaken'
      BY <2>1, <2>3, <3>1 DEF FoundInv
    <3> QED BY <3>3, <3>4, <3>5 DEF FoundInv
  <2>4. CASE UNCHANGED <<wasSignedIn, echoed, token>>
    BY <2>1, <2>2, <2>4, FoundKept
  <2>5. CASE MarkSignedOut
    BY <2>1, <2>2, <2>5, MarkEffect, FoundKept DEF Tell
  <2> QED BY <1>13, <2>3, <2>4, <2>5 DEF ReceiveRequest, KeepMarks
<1>14. ASSUME NEW c \in Calls, ReceiveSignOut(c) PROVE FoundInv'
  <2>1. /\ Done(c) /\ At(c, "answered") /\ call[c].kind = "signOut"
        /\ UNCHANGED <<backend, overtaken, token, echoed>>
        /\ ownEnded' = IF call[c].answer = "ok" THEN ownEnded \cup {call[c].login} ELSE ownEnded
        /\ wasSignedIn' = 0 \/ (call[c].answer = "network" /\ wasSignedIn' = wasSignedIn)
    BY <1>14 DEF ReceiveSignOut
  <2>2. Same /\ NoneFound
    BY <1>0, <2>1, DoneEffect
  <2>3. CASE call[c].answer # "ok"
    BY <2>1, <2>2, <2>3, FoundKept
  <2>4. CASE call[c].answer = "ok"
    <3>1. UnderWay(c) /\ Ends(c) = call[c].login /\ call[c].login >= 1
      BY <2>1, <2>4 DEF UnderWay, Ends, LoginsInv, At
    <3>2. \A l \in Nat : Beside(l, c) /\ l = call[c].login => l \in overtaken
      BY <3>1, Numbers DEF Beside
    <3>3. ownEnded' = ownEnded \cup {call[c].login} /\ wasSignedIn' = 0 /\ 0 \notin ownEnded'
      BY <2>1, <2>4, <3>1, Numbers DEF LoginsInv
    <3>4. \A t \in Calls : Finds(t)' /\ call'[t].login \in ownEnded' => call'[t].login \in overtaken'
      <4> SUFFICES ASSUME NEW t \in Calls, Finds(t)', call'[t].login \in ownEnded'
                   PROVE  call'[t].login \in overtaken'
        OBVIOUS
      <4>1. Finds(t) /\ call'[t].login = call[t].login /\ call[t].login \in Nat
        BY <2>2, Numbers
      <4>2. Beside(call[t].login, c)
        BY <3>1, <4>1 DEF FoundInv
      <4> QED BY <2>1, <3>2, <3>3, <4>1, <4>2 DEF FoundInv
    <3>5. token' \in ownEnded' => token' \in overtaken'
      BY <2>1, <3>1, <3>2, <3>3, Numbers DEF FoundInv
    <3>6. \A s \in Calls : UnderWay(s)' => UnderWay(s) /\ Ends(s)' = Ends(s)
      BY <2>1, DoneEffect DEF UnderWay, Ends, At
    <3>7. \A s \in Calls : UnderWay(s)' =>
            /\ \A t \in Calls : Finds(t)' => Beside(call[t].login, s)'
            /\ token' # 0 => Beside(token, s)'
      BY <2>1, <2>2, <3>6 DEF FoundInv, Beside
    <3> QED BY <2>1, <3>3, <3>4, <3>5, <3>7 DEF FoundInv
  <2> QED BY <2>3, <2>4
<1>15. CASE ReceiveRefresh
  <2>1. UNCHANGED <<backend, ownEnded, overtaken>>
    BY <1>15 DEF ReceiveRefresh
  <2>2. \A c \in Calls : call[c].pc = "refreshing" => call[c].kind # "signOut"
    BY DEF SignOutInv, UnderWay, At
  <2>3. Same /\ NoneFound
    BY <1>0, <1>15, <2>1, <2>2, ResendEffect, GiveUpEffect DEF ReceiveRefresh
  <2>4. CASE UNCHANGED <<wasSignedIn, echoed, token>>
    BY <2>1, <2>3, <2>4, FoundKept
  <2>5. CASE MarkSignedOut
    BY <2>1, <2>3, <2>5, MarkEffect, FoundKept DEF Tell
  <2> QED BY <1>15, <2>4, <2>5 DEF ReceiveRefresh, RefreshOk, SettleFails, KeepMarks
<1>16. CASE UNCHANGED vars
  BY <1>16 DEF vars, page, history, FoundInv, UnderWay, Beside, Ends, Finds, At
<1> QED
  BY <1>1, <1>2, <1>3, <1>4, <1>5, <1>6, <1>7, <1>8, <1>9, <1>10, <1>11, <1>12, <1>13,
     <1>14, <1>15, <1>16 DEF Next, Receive

-----------------------------------------------------------------------------
(* Theorems *)

\* The invariant: the types, and what the properties rest on.
Inv == TypeInv /\ FreshInv /\ LoginsInv /\ CachedIsWatched /\ ToldInv /\ SignOutInv /\ FoundInv

\* The invariant holds throughout.
LEMMA Invariance == Spec => []Inv
<1>1. Init => Inv
  <2> SUFFICES ASSUME Init PROVE Inv OBVIOUS
  <2>1. TypeInv
    BY TypeInit
  <2>2. PICK c \in Calls : /\ session = Pending(c)
                           /\ call = [[d \in Calls |-> Idle] EXCEPT ![c].pc = "sent"]
    BY DEF Init
  <2>3. /\ \A d \in Calls : call[d].pc \in {"idle", "sent"} /\ call[d].kind = "read" /\ call[d].login = 0
        /\ session.is # "in"
    BY <2>2 DEF Idle, Pending
  <2>4. /\ backend.login = 1 /\ backend.gen = 1 /\ wasSignedIn = 0 /\ token = 0 /\ refreshed = 0
        /\ refreshing = "none" /\ ownEnded = {} /\ told = {} /\ echoed = {}
    BY DEF Init
  <2>5. FreshInv /\ CachedIsWatched /\ ToldInv
    BY <2>3, <2>4 DEF FreshInv, CachedIsWatched, ToldInv, At
  <2>6. LoginsInv /\ SignOutInv
    BY <2>3, <2>4 DEF LoginsInv, SignOutInv, UnderWay, At
  <2>7. FoundInv
    BY <2>3, <2>4 DEF FoundInv, UnderWay, Finds, At
  <2> QED BY <2>1, <2>5, <2>6, <2>7 DEF Inv
<1>2. Inv /\ [Next]_vars => Inv'
  <2> SUFFICES ASSUME Inv, [Next]_vars PROVE Inv' OBVIOUS
  <2>1. TypeInv'
    BY TypeStep DEF Inv
  <2> QED
    BY <2>1, FreshStep, LoginsStep, WatchedStep, ToldStep, SignOutStep, FoundStep DEF Inv
<1> QED BY <1>1, <1>2, PTL DEF Spec

\* Every variable keeps to its type, and a cached promise that is pending is of a read under way.
THEOREM TypesHold == Spec => []TypeOK
<1>1. Inv => TypeOK
  <2> SUFFICES ASSUME Inv PROVE TypeOK OBVIOUS
  <2>1. session.is = "pending" => call[session.of].kind = "read" /\ ~At(session.of, "idle")
    BY DEF Inv, TypeInv, PendingIsARead, Pending
  <2> QED BY <2>1 DEF Inv, TypeInv, TypeOK, SessionType, CallType, BackendType
<1> QED BY <1>1, Invariance, PTL

\* A session that is cached as signed in is watched: however reads, refreshes and sign-outs
\* overtake each other, the page knows of a sign-in to check on.
THEOREM CachedSessionIsWatched == Spec => []CachedIsWatched
<1>1. Inv => CachedIsWatched
  BY DEF Inv
<1> QED BY <1>1, Invariance, PTL

\* No cached session was answered before the last refresh the page saw: a refresh empties the
\* cache, and a read it overtook settles no cache that follows.
THEOREM CachedSessionIsFresh == Spec => []CachedIsFresh
<1>1. Inv => CachedIsFresh
  BY DEF Inv, FreshInv, CachedIsFresh
<1> QED BY <1>1, Invariance, PTL

\* The listeners are told of the end of a session only when it has ended, up to the doubts on record.
THEOREM OnlyTheEndedAreTold == Spec => []ToldIsEnded
<1>1. Inv => ToldIsEnded
  BY DEF Inv, ToldInv, ToldIsEnded, Doubtful
<1> QED BY <1>1, Invariance, PTL

\* The listeners are not told of this page's own sign-out, unless another request was beside it.
THEOREM OwnSignOutIsNoNews == Spec => []OwnSignOutIsQuiet
<1>1. Inv => OwnSignOutIsQuiet
  BY DEF Inv, FoundInv, OwnSignOutIsQuiet
<1> QED BY <1>1, Invariance, PTL

\* A sign-out leaves no access token of its session, unless another request was beside it.
THEOREM SignOutLeavesNoToken == Spec => []NoTokenAfterSignOut
<1>1. Inv => NoTokenAfterSignOut
  BY DEF Inv, FoundInv, NoTokenAfterSignOut
<1> QED BY <1>1, Invariance, PTL
=============================================================================
