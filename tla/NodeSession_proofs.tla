-------------------------- MODULE NodeSession_proofs --------------------------
(***************************************************************************)
(* What NodeSession promises for every number of requests, sessions and    *)
(* logins: its types (TypeCorrect), one refresh per session                *)
(* (RefreshIsShared), and that a refresh token the server has replaced is  *)
(* not sent again when session writes land before their request goes on    *)
(* (ReplacedTokenNotSent).                                                 *)
(***************************************************************************)
EXTENDS NodeSession, TLAPS, SequenceTheorems

-----------------------------------------------------------------------------
(* The inductive invariant of the types *)

\* The data names logins the server knows.
Known(d, n) == d.login \in 0..n /\ d.token.login \in 0..n

Indexing == {"ix_read", "ix_remove", "ix_set"}
LoggingOut == {"lo_next", "lo_clear"}

\* What a request goes on to once its index entries are written.
Continuations == {"idle", "ck_remove", "rv_send", "cl_clear", "lo_next", "lo_clear"}

\* What the local variables of a request satisfy, with n logins and m logout tokens issued.
Proper(e, n, m) ==
  /\ e \in Locals
  /\ e.pc \notin {"idle", "lo_next"} => e.session \in SessionIds
  /\ e.pc \in Indexing => e.keys # <<>>
  /\ e.then \in Continuations
  /\ e.pc \in LoggingOut \/ e.then \in LoggingOut \/ e.op = "logout" => e.note \in 1..m
  /\ Known(e.snap, n)
  /\ e.sent.login \in 0..n /\ e.reply.login \in 0..n /\ e.login \in 0..n

TypeInv ==
  /\ TypeOK
  /\ \A s \in SessionIds : Known(store[s], Len(logins))
  /\ \A w \in writes : Known(w.data, Len(logins))
  /\ \A r \in Requests : Proper(req[r], Len(logins), Len(notices))

-----------------------------------------------------------------------------
(* Operators on the local variables keep them proper *)

LEMMA IdleProper ==
  ASSUME NEW n \in Nat, NEW m \in Nat
  PROVE  Proper(Idle, n, m)
BY ConstantsAssumption DEF Proper, Idle, Locals, Labels, AllOperations, Sessions, Tokens, NoSession, NoToken,
   Known, Indexing, LoggingOut, Continuations

LEMMA ProperGrows ==
  ASSUME NEW n \in Nat, NEW m \in Nat, NEW n2 \in Nat, NEW m2 \in Nat, n <= n2, m <= m2,
         NEW e, Proper(e, n, m)
  PROVE  Proper(e, n2, m2)
BY DEF Proper, Known

\* The labels a request goes on to by name.
LEMMA PlainLabels ==
  /\ {"ck_read", "ck_forget", "ck_remove", "join", "rf_read", "rf_sent", "rf_reply", "rf_store",
      "rf_failed", "redeem", "rd_reply", "rd_store", "forget", "rv_send", "rv_sent", "cl_clear"}
       \subseteq Labels \ (Indexing \cup LoggingOut)
  /\ Continuations \subseteq Labels \ Indexing
BY DEF Labels, Indexing, LoggingOut, Continuations

LEMMA NoKeys == <<>> \in Seq(Keys)
BY EmptySeq

LEMMA ProceedProper ==
  ASSUME NEW n \in Nat, NEW m \in Nat, NEW e, Proper(e, n, m), e.session \in SessionIds
  PROVE  Proper(Proceed(e), n, m)
BY IdleProper, NoKeys, PlainLabels DEF Proper, Proceed, Locals, LoggingOut, Indexing

LEMMA RewriteProper ==
  ASSUME NEW n \in Nat, NEW m \in Nat, NEW e, Proper(e, n, m), e.session \in SessionIds,
         NEW ks \in Seq(Keys), NEW back \in Continuations,
         back \in LoggingOut => e.note \in 1..m
  PROVE  Proper(Rewrite(e, ks, back), n, m)
<1> DEFINE f == [e EXCEPT !.then = back]
           g == [e EXCEPT !.keys = ks, !.then = back, !.pc = "ix_read"]
<1>1. Proper(f, n, m) /\ f.session \in SessionIds
  BY PlainLabels DEF Proper, Locals, LoggingOut, Indexing
<1>2. ASSUME ks # <<>> PROVE Proper(g, n, m)
  <2>1. "ix_read" \in Labels \ LoggingOut
    BY DEF Labels, LoggingOut
  <2>2. g \in Locals
    BY <2>1, PlainLabels DEF Proper, Locals
  <2>3. QED
    BY <1>2, <2>1, <2>2 DEF Proper, Locals
<1>3. QED
  BY <1>1, <1>2, ProceedProper DEF Rewrite

LEMMA NextKeyProper ==
  ASSUME NEW n \in Nat, NEW m \in Nat, NEW e, Proper(e, n, m), e.pc \in Indexing
  PROVE  Proper(NextKey(e), n, m)
<1> DEFINE f == [e EXCEPT !.entry = {}]
<1>1. Proper(f, n, m) /\ f.session \in SessionIds /\ f.note = e.note
  BY DEF Proper, Locals, LoggingOut, Indexing
<1>2. Tail(e.keys) \in Seq(Keys) /\ e.then \in Continuations
  BY DEF Proper, Locals
<1>3. e.then \in LoggingOut => e.note \in 1..m
  BY DEF Proper
<1>4. QED
  BY <1>1, <1>2, <1>3, RewriteProper DEF NextKey

LEMMA AnswerProper ==
  ASSUME NEW n \in Nat, NEW m \in Nat, NEW e, Proper(e, n, m), e.session \in SessionIds,
         NEW b \in BOOLEAN
  PROVE  Proper(Answer(e, b), n, m)
<1>1. NoSession \in Sessions /\ Known(NoSession, n)
  BY DEF NoSession, NoToken, Sessions, Tokens, Known
<1>2. "redeem" \in Labels \ (LoggingOut \cup Indexing)
  BY DEF Labels, LoggingOut, Indexing
<1>3. Proper([e EXCEPT !.pc = "redeem", !.snap = NoSession], n, m)
  BY <1>1, <1>2 DEF Proper, Locals
<1>4. QED
  BY <1>3, IdleProper DEF Answer

LEMMA OutcomeProper ==
  ASSUME NEW n \in Nat, NEW m \in Nat, NEW e, Proper(e, n, m), e.session \in SessionIds,
         NEW b \in BOOLEAN
  PROVE  Proper(Outcome(e, b), n, m)
<1>1. Proper([e EXCEPT !.pc = "ck_forget", !.sent = NoToken, !.reply = NoToken], n, m)
  <2>1. NoToken \in Tokens /\ NoToken.login \in 0..n
    BY DEF NoToken, Tokens
  <2>2. "ck_forget" \in Labels \ (LoggingOut \cup Indexing)
    BY DEF Labels, LoggingOut, Indexing
  <2>3. QED
    BY <2>1, <2>2 DEF Proper, Locals
<1>2. QED
  BY <1>1, IdleProper, AnswerProper DEF Outcome

LEMMA BindingKeysType ==
  ASSUME logins \in Seq(Logins),
         NEW d, Known(d, Len(logins))
  PROVE  BindingKeys(d) \in Seq(Keys)
<1>1. CASE d.login = 0
  BY <1>1, NoKeys DEF BindingKeys
<1>2. CASE d.login # 0
  <2>1. logins[d.login].sid \in Sids
    <3>1. d.login \in 1..Len(logins)
      BY <1>2 DEF Known
    <3>2. logins[d.login] \in Logins
      BY <3>1, ElementOfSeq
    <3>3. QED  BY <3>2 DEF Logins
  <2>2. logins[d.login].sid \in Keys /\ SubOf[logins[d.login].sid] \in Keys
    BY <2>1, ConstantsAssumption DEF Keys
  <2>3. QED  BY <1>2, <2>2 DEF BindingKeys
<1>3. QED  BY <1>1, <1>2

LEMMA NoticeKeysType ==
  ASSUME NEW x \in LogoutTokens
  PROVE  NoticeKeys(x) \in Seq(Keys)
<1>1. x.key \in Keys /\ x.sub \in Keys
  BY DEF LogoutTokens, Keys
<1>2. QED  BY <1>1 DEF NoticeKeys

-----------------------------------------------------------------------------
(* Every step keeps the types *)

\* A step that gives one request proper local variables and changes nothing else.
LEMMA RequestStep ==
  ASSUME TypeInv, NEW r \in Requests, NEW e, Proper(e, Len(logins), Len(notices)),
         req' = [req EXCEPT ![r] = e],
         UNCHANGED <<store, writes, index, inFlight, handled, server, limits, history>>
  PROVE  TypeInv'
<1>1. req' \in [Requests -> Locals]
  BY DEF TypeInv, TypeOK, Proper
<1>2. \A q \in Requests : Proper(req'[q], Len(logins), Len(notices))
  BY DEF TypeInv, TypeOK
<1>3. QED
  BY <1>1, <1>2 DEF TypeInv, TypeOK, server, limits, history

\* The same beside a change of the other variables that keeps their types.
LEMMA RequestUpdated ==
  ASSUME TypeInv, NEW r \in Requests, NEW e, Proper(e, Len(logins), Len(notices)),
         req' = [req EXCEPT ![r] = e]
  PROVE  /\ req' \in [Requests -> Locals]
         /\ \A q \in Requests : Proper(req'[q], Len(logins), Len(notices))
BY DEF TypeInv, TypeOK, Proper

LEMMA RequestFacts ==
  ASSUME TypeInv, NEW r \in Requests
  PROVE  /\ Proper(req[r], Len(logins), Len(notices))
         /\ req[r] \in Locals
         /\ Len(logins) \in Nat /\ Len(notices) \in Nat
BY DEF TypeInv, TypeOK, Proper

LEMMA CheckType ==
  ASSUME TypeInv, NEW r \in Requests, NEW s \in SessionIds, NEW o \in Operations, Check(r, s, o)
  PROVE  TypeInv'
<1> DEFINE n == Len(logins)
           m == Len(notices)
           e == [Idle EXCEPT !.op = o, !.session = s]
           f == [e EXCEPT !.pc = "ck_read"]
<1>1. n \in Nat /\ m \in Nat
  BY RequestFacts
<1>2. Proper(Idle, n, m) /\ o \in AllOperations /\ o # "logout"
  BY <1>1, IdleProper, ConstantsAssumption DEF Check
<1>3. Proper(e, n, m) /\ e.session \in SessionIds /\ Proper(f, n, m)
  <2>1. "ck_read" \in Labels \ (Indexing \cup LoggingOut)
    BY DEF Labels, Indexing, LoggingOut
  <2>2. Idle.pc = "idle" /\ Idle.then = "idle"
    BY DEF Idle
  <2>3. QED
    BY <1>2, <2>1, <2>2 DEF Proper, Locals, Indexing, LoggingOut
<1>4. Proper(Answer(e, FALSE), n, m) /\ Proper(Answer(e, TRUE), n, m)
  BY <1>1, <1>3, AnswerProper
<1>5. PICK g : Proper(g, n, m) /\ req' = [req EXCEPT ![r] = g]
  BY <1>3, <1>4 DEF Check
<1>6. QED
  BY <1>5, RequestStep DEF Check

\* A request that goes on to a label which is neither of the index nor of the logout handler.
LEMMA BeginProper ==
  ASSUME TypeInv, NEW r \in Requests, NEW o \in AllOperations \ {"logout"}, NEW s \in SessionIds,
         NEW l \in Labels \ (Indexing \cup LoggingOut), Begin(r, o, s, l)
  PROVE  \E g : Proper(g, Len(logins), Len(notices)) /\ req' = [req EXCEPT ![r] = g]
<1> DEFINE g == [Idle EXCEPT !.op = o, !.session = s, !.pc = l]
<1>1. Proper(Idle, Len(logins), Len(notices)) /\ Idle.then = "idle"
  BY IdleProper, RequestFacts DEF Idle
<1>2. Proper(g, Len(logins), Len(notices))
  BY <1>1 DEF Proper, Locals, Indexing, LoggingOut
<1>3. QED
  BY <1>2 DEF Begin

LEMMA GotoProper ==
  ASSUME TypeInv, NEW r \in Requests, req[r].pc \notin {"idle", "lo_next"},
         NEW l \in Labels \ (Indexing \cup LoggingOut), Goto(r, l)
  PROVE  \E g : Proper(g, Len(logins), Len(notices)) /\ req' = [req EXCEPT ![r] = g]
<1> DEFINE g == [req[r] EXCEPT !.pc = l]
<1>1. Proper(g, Len(logins), Len(notices))
  BY RequestFacts DEF Proper, Locals
<1>2. req' = [req EXCEPT ![r] = g]
  BY DEF Goto
<1>3. QED
  BY <1>1, <1>2

LEMMA ReturnProper ==
  ASSUME TypeInv, NEW r \in Requests, Return(r)
  PROVE  \E g : Proper(g, Len(logins), Len(notices)) /\ req' = [req EXCEPT ![r] = g]
BY IdleProper, RequestFacts DEF Return

LEMMA CheckReadType ==
  ASSUME TypeInv, NEW r \in Requests, CheckRead(r)
  PROVE  TypeInv'
<1> DEFINE n == Len(logins)
           m == Len(notices)
           s == req[r].session
           e == [req[r] EXCEPT !.snap = store[s]]
<1>1. Proper(req[r], n, m) /\ s \in SessionIds /\ n \in Nat /\ m \in Nat
  BY RequestFacts DEF CheckRead, At, Proper
<1>2. Proper(e, n, m) /\ e.session = s
  BY <1>1 DEF TypeInv, TypeOK, Proper, Locals
<1>3. Proper(Answer(e, FALSE), n, m)
  BY <1>1, <1>2, AnswerProper
<1>4. \A l \in {"ck_forget", "join", "rf_read"} : Proper([e EXCEPT !.pc = l], n, m)
  BY <1>1, <1>2, PlainLabels DEF Proper, Locals
<1>5. PICK g : Proper(g, n, m) /\ req' = [req EXCEPT ![r] = g]
  BY <1>3, <1>4 DEF CheckRead
<1>6. inFlight' \in [SessionIds -> Requests \cup {NoRequest}]
  BY DEF CheckRead, TypeInv, TypeOK
<1>7. QED
  BY <1>5, <1>6, RequestUpdated DEF CheckRead, TypeInv, TypeOK, server, limits, history

LEMMA CheckForgetType ==
  ASSUME TypeInv, NEW r \in Requests, CheckForget(r)
  PROVE  TypeInv'
<1>1. /\ Proper(req[r], Len(logins), Len(notices)) /\ req[r].session \in SessionIds
      /\ Len(logins) \in Nat /\ Len(notices) \in Nat
  BY RequestFacts DEF CheckForget, At, Proper
<1>2. BindingKeys(req[r].snap) \in Seq(Keys)
  BY <1>1, BindingKeysType DEF TypeInv, TypeOK, Proper
<1>3. Proper(Rewrite(req[r], BindingKeys(req[r].snap), "ck_remove"), Len(logins), Len(notices))
  BY <1>1, <1>2, RewriteProper, PlainLabels DEF Continuations
<1>4. QED
  BY <1>3, RequestStep DEF CheckForget

LEMMA RemoveSessionType ==
  ASSUME TypeInv, NEW s \in SessionIds, RemoveSession(s)
  PROVE  /\ store' \in [SessionIds -> Sessions] /\ late' \subseteq Nat
         /\ \A x \in SessionIds : Known(store'[x], Len(logins))
<1>1. NoSession \in Sessions /\ Known(NoSession, Len(logins))
  BY DEF NoSession, NoToken, Sessions, Tokens, Known, TypeInv, TypeOK
<1>2. QED
  BY <1>1 DEF RemoveSession, TypeInv, TypeOK

LEMMA CheckRemoveType ==
  ASSUME TypeInv, NEW r \in Requests, CheckRemove(r)
  PROVE  TypeInv'
<1>1. /\ Proper(req[r], Len(logins), Len(notices)) /\ req[r].session \in SessionIds
      /\ Len(logins) \in Nat /\ Len(notices) \in Nat
  BY RequestFacts DEF CheckRemove, At, Proper
<1>2. Proper(Answer(req[r], FALSE), Len(logins), Len(notices))
  BY <1>1, AnswerProper
<1>3. QED
  BY <1>1, <1>2, RequestUpdated, RemoveSessionType
  DEF CheckRemove, TypeInv, TypeOK, server, limits, history

LEMMA RefreshType ==
  ASSUME TypeInv, NEW r \in Requests, NEW s \in SessionIds, Refresh(r, s)
  PROVE  TypeInv'
<1>1. PICK g : Proper(g, Len(logins), Len(notices)) /\ req' = [req EXCEPT ![r] = g]
  BY BeginProper, PlainLabels DEF Refresh, AllOperations
<1>2. inFlight' \in [SessionIds -> Requests \cup {NoRequest}]
  BY DEF Refresh, TypeInv, TypeOK
<1>3. QED
  BY <1>1, <1>2, RequestUpdated DEF Refresh, TypeInv, TypeOK, server, limits, history

LEMMA RefreshSendType ==
  ASSUME TypeInv, NEW r \in Requests, RefreshSend(r)
  PROVE  TypeInv'
<1> DEFINE t == store[req[r].session].token
           g == [req[r] EXCEPT !.sent = t, !.pc = IF t = NoToken THEN "rf_failed" ELSE "rf_sent"]
<1>1. Proper(req[r], Len(logins), Len(notices)) /\ req[r].session \in SessionIds
  BY RequestFacts DEF RefreshSend, At, Proper
<1>2. t \in Tokens /\ t.login \in 0..Len(logins)
  BY <1>1 DEF TypeInv, TypeOK, Sessions, Known
<1>3. Proper(g, Len(logins), Len(notices))
  BY <1>1, <1>2, PlainLabels DEF Proper, Locals
<1>4. QED
  BY <1>3, RequestStep DEF RefreshSend

\* One more refresh token of a login keeps the logins.
LEMMA GenType ==
  ASSUME logins \in Seq(Logins), NEW l \in 1..Len(logins),
         logins' = [logins EXCEPT ![l].gen = @ + 1]
  PROVE  logins' \in Seq(Logins) /\ Len(logins') = Len(logins)
<1>1. logins[l] \in Logins
  BY ElementOfSeq
<1>2. [logins[l] EXCEPT !.gen = @ + 1] \in Logins
  <2>1. \A x \in Logins : [x EXCEPT !.gen = @ + 1] \in Logins
    BY DEF Logins
  <2>2. QED  BY <1>1, <2>1
<1>3. logins' = [logins EXCEPT ![l] = [logins[l] EXCEPT !.gen = @ + 1]]
  OBVIOUS
<1>4. QED
  BY <1>2, <1>3, ExceptSeq

LEMMA ServerRefreshType ==
  ASSUME TypeInv, NEW r \in Requests, ServerRefresh(r)
  PROVE  TypeInv'
<1> DEFINE t == req[r].sent
           n == Len(logins)
           m == Len(notices)
           g == [req[r] EXCEPT !.pc = "rf_reply", !.reply = NoToken]
           h == [req[r] EXCEPT !.pc = "rf_reply", !.reply = [t EXCEPT !.gen = @ + 1]]
<1>1. Proper(req[r], n, m) /\ n \in Nat /\ m \in Nat /\ req[r].session \in SessionIds
  BY RequestFacts DEF ServerRefresh, At, Proper
<1>2. t \in Tokens /\ t.login \in 0..n /\ t.gen \in Nat
  BY <1>1 DEF Proper, Locals, Tokens
<1>3. CASE req' = [req EXCEPT ![r] = g] /\ UNCHANGED logins
  <2>1. NoToken \in Tokens /\ NoToken.login \in 0..n
    BY <1>1 DEF NoToken, Tokens
  <2>2. Proper(g, n, m)
    BY <1>1, <2>1, PlainLabels DEF Proper, Locals
  <2>3. QED
    BY <1>3, <2>2, RequestUpdated
    DEF ServerRefresh, TypeInv, TypeOK, server, limits, history
<1>4. CASE req' = [req EXCEPT ![r] = h] /\ logins' = [logins EXCEPT ![t.login].gen = @ + 1]
  <2>1. [t EXCEPT !.gen = @ + 1] \in Tokens /\ [t EXCEPT !.gen = @ + 1].login = t.login
    BY <1>2 DEF Tokens
  <2>2. Proper(h, n, m)
    BY <1>1, <1>2, <2>1, PlainLabels DEF Proper, Locals
  <2>3. logins' \in Seq(Logins) /\ Len(logins') = n
    <3>1. CASE t.login \in 1..n
      BY <1>4, <3>1, GenType DEF TypeInv, TypeOK
    <3>2. CASE t.login \notin 1..n
      <4>1. DOMAIN logins = 1..n
        BY DEF TypeInv, TypeOK
      <4>2. logins' = logins
        BY <1>4, <3>2, <4>1 DEF TypeInv, TypeOK
      <4>3. QED  BY <4>2 DEF TypeInv, TypeOK
    <3>3. QED  BY <3>1, <3>2
  <2>4. QED
    BY <1>4, <2>2, <2>3, RequestUpdated
    DEF ServerRefresh, TypeInv, TypeOK, limits, history
<1>5. QED
  BY <1>3, <1>4 DEF ServerRefresh

LEMMA RefreshFailsType ==
  ASSUME TypeInv, NEW r \in Requests, RefreshFails(r)
  PROVE  TypeInv'
<1>1. PICK g : Proper(g, Len(logins), Len(notices)) /\ req' = [req EXCEPT ![r] = g]
  BY GotoProper, PlainLabels DEF RefreshFails, At
<1>2. QED
  BY <1>1, RequestStep DEF RefreshFails

LEMMA RefreshReceiveType ==
  ASSUME TypeInv, NEW r \in Requests, RefreshReceive(r)
  PROVE  TypeInv'
<1> DEFINE e == req[r]
           t == IF e.reply = NoToken THEN store[e.session].token ELSE e.reply
           d == [login |-> e.sent.login, fresh |-> TRUE, token |-> t]
           w == [by |-> r, session |-> e.session, refresh |-> TRUE, data |-> d]
<1>1. Proper(e, Len(logins), Len(notices)) /\ e.session \in SessionIds
  BY RequestFacts DEF RefreshReceive, At, Proper
<1>2. /\ t \in Tokens /\ t.login \in 0..Len(logins)
      /\ e.sent \in Tokens /\ e.sent.login \in Nat /\ e.sent.login \in 0..Len(logins)
  BY <1>1 DEF TypeInv, TypeOK, Sessions, Tokens, Known, Proper, Locals
<1>3. d \in Sessions /\ Known(d, Len(logins))
  BY <1>2 DEF Sessions, Known
<1>4. /\ writes' \subseteq [by : Requests, session : SessionIds, refresh : BOOLEAN, data : Sessions]
      /\ \A x \in writes' : Known(x.data, Len(logins))
  <2>1. w \in [by : Requests, session : SessionIds, refresh : BOOLEAN, data : Sessions]
    BY <1>1, <1>3
  <2>2. w.data = d /\ writes' = writes \cup {w}
    BY DEF RefreshReceive
  <2>3. QED
    BY <1>3, <2>1, <2>2 DEF TypeInv, TypeOK
<1>5. spent' \subseteq Tokens
  BY <1>2 DEF RefreshReceive, TypeInv, TypeOK
<1>6. PICK g : Proper(g, Len(logins), Len(notices)) /\ req' = [req EXCEPT ![r] = g]
  BY GotoProper, PlainLabels DEF RefreshReceive, At
<1>7. QED
  BY <1>4, <1>5, <1>6, RequestUpdated DEF RefreshReceive, TypeInv, TypeOK, server, limits

LEMMA RefreshSettlesType ==
  ASSUME TypeInv, NEW r \in Requests, RefreshSettles(r)
  PROVE  TypeInv'
<1> DEFINE n == Len(logins)
           m == Len(notices)
<1>1. n \in Nat /\ m \in Nat /\ req \in [Requests -> Locals] /\ At(r, "rf_store") \in BOOLEAN
  BY DEF TypeInv, TypeOK, At
<1>2. ASSUME NEW q \in Requests PROVE req'[q] \in Locals /\ Proper(req'[q], n, m)
  <2>1. Proper(req[q], n, m)
    BY DEF TypeInv
  <2>2. CASE q = r \/ (At(q, "join") /\ req[q].session = req[r].session)
    <3>1. req[q].session \in SessionIds
      BY <2>1, <2>2 DEF Proper, RefreshSettles, At
    <3>2. Proper(Outcome(req[q], At(r, "rf_store")), n, m)
      BY <1>1, <2>1, <3>1, OutcomeProper
    <3>3. QED  BY <2>2, <3>2 DEF RefreshSettles, Proper
  <2>3. CASE ~(q = r \/ (At(q, "join") /\ req[q].session = req[r].session))
    BY <2>1, <2>3 DEF RefreshSettles, Proper
  <2>4. QED  BY <2>2, <2>3
<1>3. req' \in [Requests -> Locals]
  BY <1>2 DEF RefreshSettles
<1>4. inFlight' \in [SessionIds -> Requests \cup {NoRequest}]
  BY DEF RefreshSettles, TypeInv, TypeOK
<1>5. QED
  BY <1>2, <1>3, <1>4 DEF RefreshSettles, TypeInv, TypeOK, server, limits, history

LEMMA SwitchCallbackType ==
  ASSUME TypeInv, NEW r \in Requests, NEW s \in SessionIds, SwitchCallback(r, s)
  PROVE  TypeInv'
<1>1. PICK g : Proper(g, Len(logins), Len(notices)) /\ req' = [req EXCEPT ![r] = g]
  BY BeginProper, PlainLabels DEF SwitchCallback, AllOperations
<1>2. QED
  BY <1>1, RequestStep DEF SwitchCallback

LEMMA ServerRedeemType ==
  ASSUME TypeInv, NEW r \in Requests, NEW x \in Sids, ServerRedeem(r, x)
  PROVE  TypeInv'
<1> DEFINE n == Len(logins)
           m == Len(notices)
           l == [sid |-> x, session |-> req[r].session, gen |-> 1, at |-> now]
           g == [req[r] EXCEPT !.pc = "rd_reply", !.login = n + 1]
<1>1. Proper(req[r], n, m) /\ req[r].session \in SessionIds /\ n \in Nat /\ m \in Nat
  BY RequestFacts DEF ServerRedeem, At, Proper
<1>2. l \in Logins /\ logins \in Seq(Logins)
  BY <1>1 DEF Logins, TypeInv, TypeOK
<1>3. logins' \in Seq(Logins) /\ Len(logins') = n + 1
  <2>1. logins' = Append(logins, l)
    BY DEF ServerRedeem
  <2> HIDE DEF l
  <2>2. QED
    BY <1>2, <2>1, AppendProperties
<1>4. \A e : Proper(e, n, m) => Proper(e, n + 1, m)
  BY <1>1, ProperGrows
<1>5. Proper(g, n + 1, m)
  <2>1. Proper(req[r], n + 1, m)
    BY <1>1, <1>4
  <2>2. n + 1 \in Nat /\ n + 1 \in 0..(n + 1)
    BY <1>1
  <2>3. g \in Locals
    BY <2>1, <2>2, PlainLabels DEF Proper, Locals
  <2> HIDE DEF n, m
  <2>4. QED
    BY <1>1, <2>1, <2>2, <2>3, PlainLabels DEF Proper, Locals
<1>6. req' = [req EXCEPT ![r] = g]
  BY DEF ServerRedeem
<1>7. \A q \in Requests : Proper(req'[q], n + 1, m)
  BY <1>4, <1>5, <1>6 DEF TypeInv, TypeOK
<1>8. \A d : Known(d, n) => Known(d, n + 1)
  BY <1>1 DEF Known
<1>9. req' \in [Requests -> Locals]
  BY <1>5, <1>6 DEF Proper, TypeInv, TypeOK
<1>10. QED
  BY <1>3, <1>7, <1>8, <1>9 DEF ServerRedeem, TypeInv, TypeOK, limits, history

LEMMA RedeemFailsType ==
  ASSUME TypeInv, NEW r \in Requests, RedeemFails(r)
  PROVE  TypeInv'
<1>1. PICK g : Proper(g, Len(logins), Len(notices)) /\ req' = [req EXCEPT ![r] = g]
  BY ReturnProper DEF RedeemFails
<1>2. QED
  BY <1>1, RequestStep DEF RedeemFails

LEMMA RedeemReceiveType ==
  ASSUME TypeInv, NEW r \in Requests, RedeemReceive(r)
  PROVE  TypeInv'
<1> DEFINE e == req[r]
           d == [login |-> e.login, fresh |-> TRUE, token |-> [login |-> e.login, gen |-> 1]]
           w == [by |-> r, session |-> e.session, refresh |-> FALSE, data |-> d]
<1>1. Proper(e, Len(logins), Len(notices)) /\ e.session \in SessionIds
  BY RequestFacts DEF RedeemReceive, At, Proper
<1>2. e.login \in Nat /\ e.login \in 0..Len(logins)
  BY <1>1 DEF Proper, Locals
<1>3. d \in Sessions /\ Known(d, Len(logins))
  BY <1>2 DEF Sessions, Tokens, Known
<1>4. /\ writes' \subseteq [by : Requests, session : SessionIds, refresh : BOOLEAN, data : Sessions]
      /\ \A x \in writes' : Known(x.data, Len(logins))
  <2>1. w \in [by : Requests, session : SessionIds, refresh : BOOLEAN, data : Sessions]
    BY <1>1, <1>3
  <2>2. w.data = d /\ writes' = writes \cup {w}
    BY DEF RedeemReceive
  <2>3. QED
    BY <1>3, <2>1, <2>2 DEF TypeInv, TypeOK
<1>5. PICK g : Proper(g, Len(logins), Len(notices)) /\ req' = [req EXCEPT ![r] = g]
  BY GotoProper, PlainLabels DEF RedeemReceive, At
<1>6. QED
  BY <1>4, <1>5, RequestUpdated DEF RedeemReceive, TypeInv, TypeOK, server, limits, history

LEMMA IndexSessionType ==
  ASSUME TypeInv, NEW r \in Requests, IndexSession(r)
  PROVE  TypeInv'
<1> DEFINE f == [req[r] EXCEPT !.began = now]
           ks == BindingKeys(store[f.session])
<1>1. /\ Proper(req[r], Len(logins), Len(notices)) /\ req[r].session \in SessionIds
      /\ Len(logins) \in Nat /\ Len(notices) \in Nat
  BY RequestFacts DEF IndexSession, At, Proper
<1>2. Proper(f, Len(logins), Len(notices)) /\ f.session = req[r].session
  BY <1>1 DEF Proper, Locals, TypeInv, TypeOK
<1>3. ks \in Seq(Keys)
  BY <1>1, <1>2, BindingKeysType DEF TypeInv, TypeOK
<1>4. Proper(Rewrite(f, ks, "idle"), Len(logins), Len(notices))
  BY <1>1, <1>2, <1>3, RewriteProper, PlainLabels DEF LoggingOut, Continuations
<1>5. req' = [req EXCEPT ![r] = Rewrite(f, ks, "idle")]
  BY <1>2 DEF IndexSession
<1>6. QED
  BY <1>4, <1>5, RequestStep DEF IndexSession

LEMMA WriteLandsType ==
  ASSUME TypeInv, NEW w \in writes, WriteLands(w)
  PROVE  TypeInv'
<1>1. /\ w.session \in SessionIds /\ w.data \in Sessions /\ w.data.login \in Nat
      /\ Known(w.data, Len(logins))
  BY DEF TypeInv, TypeOK, Sessions
<1>2. /\ store' \in [SessionIds -> Sessions]
      /\ \A s \in SessionIds : Known(store'[s], Len(logins))
  BY <1>1 DEF WriteLands, TypeInv, TypeOK
<1>3. late' \subseteq Nat /\ writes' \subseteq writes
  BY <1>1 DEF WriteLands, TypeInv, TypeOK
<1>4. QED
  BY <1>2, <1>3 DEF WriteLands, TypeInv, TypeOK, server, limits

\* What a request at work on the index reads.
LEMMA IndexFacts ==
  ASSUME TypeInv, NEW r \in Requests, req[r].pc \in Indexing
  PROVE  /\ Proper(req[r], Len(logins), Len(notices)) /\ req[r].session \in SessionIds
         /\ Len(logins) \in Nat /\ Len(notices) \in Nat
         /\ Head(req[r].keys) \in Keys /\ index[Head(req[r].keys)] \subseteq Entries
         /\ Recorded(req[r]) \in Entries
         /\ Proper(NextKey(req[r]), Len(logins), Len(notices))
<1>1. Proper(req[r], Len(logins), Len(notices)) /\ Len(logins) \in Nat /\ Len(notices) \in Nat
  BY RequestFacts
<1>2. req[r].session \in SessionIds /\ req[r].began \in Nat
  BY <1>1 DEF Proper, Locals, Indexing
<1>3. Head(req[r].keys) \in Keys
  BY <1>1 DEF Proper, Locals
<1>4. index[Head(req[r].keys)] \subseteq Entries
  BY <1>3 DEF TypeInv, TypeOK
<1>5. Recorded(req[r]) \in Entries
  BY <1>2 DEF Recorded, Entries
<1>6. QED
  BY <1>1, <1>2, <1>3, <1>4, <1>5, NextKeyProper

\* A request at work on the index stays there with another entry.
LEMMA EntryProper ==
  ASSUME NEW n \in Nat, NEW m \in Nat, NEW e, Proper(e, n, m), e.pc \in Indexing,
         NEW l \in Indexing, NEW entry \in SUBSET Entries
  PROVE  Proper([e EXCEPT !.pc = l, !.entry = entry], n, m)
<1>1. l \in Labels \ LoggingOut /\ e.session \in SessionIds
  BY DEF Indexing, Labels, LoggingOut, Proper
<1>2. QED
  BY <1>1 DEF Proper, Locals

LEMMA IndexReadType ==
  ASSUME TypeInv, NEW r \in Requests, IndexRead(r)
  PROVE  TypeInv'
<1> DEFINE n == Len(logins)
           m == Len(notices)
           e == req[r]
           found == index[Head(e.keys)]
           mine == Without(Live(found), e.session) \cup {Recorded(e)}
           rest == Without(found, e.session)
<1>1. /\ Proper(e, n, m) /\ e.pc \in Indexing /\ n \in Nat /\ m \in Nat
      /\ found \subseteq Entries /\ Recorded(e) \in Entries /\ Proper(NextKey(e), n, m)
  BY IndexFacts DEF IndexRead, At, Indexing
<1>2. mine \in SUBSET Entries /\ rest \in SUBSET Entries
  BY <1>1 DEF Without, Live
<1>3. \A x \in SUBSET Entries : Proper([e EXCEPT !.pc = "ix_remove", !.entry = x], n, m)
  BY <1>1, EntryProper DEF Indexing
<1>4. PICK g : Proper(g, n, m) /\ req' = [req EXCEPT ![r] = g]
  BY <1>1, <1>2, <1>3 DEF IndexRead
<1>5. QED
  BY <1>4, RequestStep DEF IndexRead

LEMMA IndexRemoveType ==
  ASSUME TypeInv, NEW r \in Requests, IndexRemove(r)
  PROVE  TypeInv'
<1> DEFINE n == Len(logins)
           m == Len(notices)
           e == req[r]
           g == [e EXCEPT !.pc = "ix_set"]
<1>1. /\ Proper(e, n, m) /\ e.pc \in Indexing /\ n \in Nat /\ m \in Nat /\ Proper(NextKey(e), n, m)
  BY IndexFacts DEF IndexRemove, At, Indexing
<1>2. Proper(g, n, m)
  <2>1. "ix_set" \in Labels \ LoggingOut
    BY DEF Labels, LoggingOut
  <2>2. QED
    BY <1>1, <2>1 DEF Proper, Locals, Indexing
<1>3. PICK h : Proper(h, n, m) /\ req' = [req EXCEPT ![r] = h]
  BY <1>1, <1>2 DEF IndexRemove
<1>4. index' \in [Keys -> SUBSET Entries]
  BY DEF IndexRemove, TypeInv, TypeOK
<1>5. QED
  BY <1>3, <1>4, RequestUpdated DEF IndexRemove, TypeInv, TypeOK, server, limits, history

LEMMA IndexSetType ==
  ASSUME TypeInv, NEW r \in Requests, IndexSet(r)
  PROVE  TypeInv'
<1> DEFINE n == Len(logins)
           m == Len(notices)
           k == Head(req[r].keys)
<1>1. Proper(NextKey(req[r]), n, m) /\ k \in Keys /\ index[k] \subseteq Entries
  BY IndexFacts DEF IndexSet, At, Indexing
<1>2. req[r].entry \subseteq Entries
  BY RequestFacts DEF Locals
<1>3. index' \in [Keys -> SUBSET Entries]
  BY <1>1, <1>2 DEF IndexSet, TypeInv, TypeOK
<1>4. req' = [req EXCEPT ![r] = NextKey(req[r])]
  BY DEF IndexSet
<1>5. QED
  BY <1>1, <1>3, <1>4, RequestUpdated DEF IndexSet, TypeInv, TypeOK, server, limits, history

LEMMA RevokeType ==
  ASSUME TypeInv, NEW r \in Requests, NEW s \in SessionIds, Revoke(r, s) \/ Clear(r, s)
  PROVE  TypeInv'
<1>1. PICK g : Proper(g, Len(logins), Len(notices)) /\ req' = [req EXCEPT ![r] = g]
  BY BeginProper, PlainLabels DEF Revoke, Clear, AllOperations
<1>2. QED
  BY <1>1, RequestStep DEF Revoke, Clear

\* Where a request goes after its index entries are gone.
LEMMA AfterForgetProper ==
  ASSUME NEW n \in Nat, NEW m \in Nat, NEW e, Proper(e, n, m), e.session \in SessionIds,
         NEW ks \in Seq(Keys)
  PROVE  Proper(Rewrite(e, ks, AfterForget(e.op)), n, m)
<1>1. AfterForget(e.op) \in Continuations
  BY DEF AfterForget, Continuations
<1>2. AfterForget(e.op) \in LoggingOut => e.note \in 1..m
  BY DEF AfterForget, Proper, LoggingOut
<1>3. QED
  BY <1>1, <1>2, RewriteProper

LEMMA ForgetType ==
  ASSUME TypeInv, NEW r \in Requests, Forget(r)
  PROVE  TypeInv'
<1> DEFINE ks == BindingKeys(store[req[r].session])
<1>1. /\ Proper(req[r], Len(logins), Len(notices)) /\ req[r].session \in SessionIds
      /\ Len(logins) \in Nat /\ Len(notices) \in Nat
  BY RequestFacts DEF Forget, At, Proper
<1>2. ks \in Seq(Keys)
  BY <1>1, BindingKeysType DEF TypeInv, TypeOK
<1>3. Proper(Rewrite(req[r], ks, AfterForget(req[r].op)), Len(logins), Len(notices))
  BY <1>1, <1>2, AfterForgetProper
<1>4. QED
  BY <1>3, RequestStep DEF Forget

LEMMA RevokeSendType ==
  ASSUME TypeInv, NEW r \in Requests, RevokeSend(r)
  PROVE  TypeInv'
<1>1. PICK g : Proper(g, Len(logins), Len(notices)) /\ req' = [req EXCEPT ![r] = g]
  BY GotoProper, PlainLabels DEF RevokeSend, At
<1>2. QED
  BY <1>1, RequestStep DEF RevokeSend

LEMMA RevokeFailsType ==
  ASSUME TypeInv, NEW r \in Requests, RevokeFails(r)
  PROVE  TypeInv'
<1>1. PICK g : Proper(g, Len(logins), Len(notices)) /\ req' = [req EXCEPT ![r] = g]
  BY ReturnProper DEF RevokeFails
<1>2. QED
  BY <1>1, RequestStep DEF RevokeFails

LEMMA ClearRemoveType ==
  ASSUME TypeInv, NEW r \in Requests, ClearRemove(r)
  PROVE  TypeInv'
<1>1. PICK g : Proper(g, Len(logins), Len(notices)) /\ req' = [req EXCEPT ![r] = g]
  BY ReturnProper DEF ClearRemove
<1>2. req[r].session \in SessionIds
  BY RequestFacts DEF ClearRemove, At, Proper
<1>3. QED
  BY <1>1, <1>2, RequestUpdated, RemoveSessionType
  DEF ClearRemove, TypeInv, TypeOK, server, limits, history

LEMMA FindProper ==
  ASSUME TypeInv, NEW r \in Requests, NEW j \in DOMAIN notices, NEW entry \in SUBSET Entries,
         Find(r, j, entry)
  PROVE  \E g : Proper(g, Len(logins), Len(notices)) /\ req' = [req EXCEPT ![r] = g]
<1> DEFINE x == notices[j]
           held == {s \in Names(x, index[x.key]) : store[s].login # 0 /\ ~Mismatch(store[s], x)}
           g == [Idle EXCEPT !.op = "logout", !.note = j, !.pc = "lo_next",
                             !.todo = Names(x, entry), !.named = {store[s].login : s \in held}]
<1>1. Len(notices) \in Nat /\ Len(logins) \in Nat /\ j \in 1..Len(notices) /\ x \in LogoutTokens
  BY RequestFacts, ElementOfSeq DEF TypeInv, TypeOK
<1>2. index[x.key] \in SUBSET Entries
  BY <1>1 DEF LogoutTokens, TypeInv, TypeOK
<1>3. \A i \in SUBSET Entries : Names(x, i) \in SUBSET SessionIds
  BY DEF Names, Entries
<1>4. Names(x, entry) \in SUBSET SessionIds /\ {store[s].login : s \in held} \in SUBSET Nat
  BY <1>2, <1>3 DEF TypeInv, TypeOK, Sessions
<1>5. Proper(Idle, Len(logins), Len(notices)) /\ Idle.then = "idle"
  BY <1>1, IdleProper DEF Idle
<1>6. g \in Locals
  <2>1. \A i \in SUBSET SessionIds, h \in SUBSET Nat :
          [Idle EXCEPT !.op = "logout", !.note = j, !.pc = "lo_next", !.todo = i, !.named = h]
            \in Locals
    <3>1. "logout" \in AllOperations /\ "lo_next" \in Labels /\ Idle \in Locals /\ j \in Nat
      BY <1>1, <1>5, PlainLabels DEF Continuations, AllOperations, Proper
    <3>2. QED
      BY <3>1 DEF Locals
  <2> HIDE DEF held, x
  <2>2. QED
    BY <1>4, <2>1
<1> HIDE DEF held
<1>7. Proper(g, Len(logins), Len(notices))
  BY <1>1, <1>5, <1>6 DEF Proper, Locals, Indexing, LoggingOut
<1>8. req' = [req EXCEPT ![r] = g]
  BY DEF Find, held
<1>9. QED
  BY <1>7, <1>8

LEMMA LogoutFindType ==
  ASSUME TypeInv, NEW r \in Requests, NEW j \in DOMAIN notices, LogoutFind(r, j)
  PROVE  TypeInv'
<1>1. notices[j].key \in Keys
  <2>1. j \in 1..Len(notices) /\ notices \in Seq(LogoutTokens)
    BY DEF TypeInv, TypeOK
  <2>2. notices[j] \in LogoutTokens
    BY <2>1, ElementOfSeq
  <2>3. QED
    BY <2>2 DEF LogoutTokens
<1>2. index[notices[j].key] \in SUBSET Entries
  BY <1>1 DEF TypeInv, TypeOK
<1>3. PICK g : Proper(g, Len(logins), Len(notices)) /\ req' = [req EXCEPT ![r] = g]
  BY <1>2, FindProper DEF LogoutFind
<1>4. QED
  BY <1>3, RequestStep DEF LogoutFind, Find, limits

\* The logout token of a request that handles one.
LEMMA NoticeFacts ==
  ASSUME TypeInv, NEW r \in Requests, req[r].pc \in LoggingOut
  PROVE  /\ Proper(req[r], Len(logins), Len(notices)) /\ Len(logins) \in Nat /\ Len(notices) \in Nat
         /\ req[r].note \in 1..Len(notices) /\ req[r].note \in Nat
         /\ NoticeKeys(notices[req[r].note]) \in Seq(Keys)
<1>1. Proper(req[r], Len(logins), Len(notices)) /\ Len(logins) \in Nat /\ Len(notices) \in Nat
  BY RequestFacts
<1>2. req[r].note \in 1..Len(notices)
  BY <1>1 DEF Proper
<1>3. notices[req[r].note] \in LogoutTokens
  BY <1>2, ElementOfSeq DEF TypeInv, TypeOK
<1>4. QED
  BY <1>1, <1>2, <1>3, NoticeKeysType

LEMMA LogoutNextType ==
  ASSUME TypeInv, NEW r \in Requests, NEW s \in SessionIds, LogoutNext(r, s)
  PROVE  TypeInv'
<1> DEFINE n == Len(logins)
           m == Len(notices)
           ks == NoticeKeys(notices[req[r].note])
           e == [req[r] EXCEPT !.todo = @ \ {s}, !.session = s]
           f == [e EXCEPT !.snap = store[s], !.pc = "forget"]
<1>1. /\ Proper(req[r], n, m) /\ n \in Nat /\ m \in Nat /\ req[r].note \in 1..m /\ ks \in Seq(Keys)
  BY NoticeFacts DEF LogoutNext, At, LoggingOut
<1>2. Proper(e, n, m) /\ e.session = s /\ e.note = req[r].note
  BY <1>1 DEF Proper, Locals
<1>3. Proper(Rewrite(e, ks, "lo_next"), n, m)
  BY <1>1, <1>2, RewriteProper, PlainLabels DEF Continuations
<1>4. store[s] \in Sessions /\ Known(store[s], n)
  BY DEF TypeInv, TypeOK
<1>5. Proper(f, n, m)
  BY <1>2, <1>4, PlainLabels DEF Proper, Locals
<1>6. PICK g : Proper(g, n, m) /\ req' = [req EXCEPT ![r] = g]
  BY <1>3, <1>5 DEF LogoutNext
<1>7. QED
  BY <1>6, RequestStep DEF LogoutNext

LEMMA LogoutClearType ==
  ASSUME TypeInv, NEW r \in Requests, LogoutClear(r)
  PROVE  TypeInv'
<1> DEFINE n == Len(logins)
           m == Len(notices)
           e == req[r]
           own == BindingKeys(e.snap)
           ks == IF own = <<>> THEN NoticeKeys(notices[e.note]) ELSE own
           f == [e EXCEPT !.snap = NoSession]
<1>1. /\ Proper(e, n, m) /\ n \in Nat /\ m \in Nat /\ e.note \in 1..m /\ e.note \in Nat
      /\ NoticeKeys(notices[e.note]) \in Seq(Keys)
  BY NoticeFacts DEF LogoutClear, At, LoggingOut
<1>2. e.session \in SessionIds
  BY <1>1 DEF Proper, LogoutClear, At
<1>3. ks \in Seq(Keys)
  BY <1>1, BindingKeysType DEF TypeInv, TypeOK, Proper
<1>4. NoSession \in Sessions /\ Known(NoSession, n)
  BY <1>1 DEF NoSession, NoToken, Sessions, Tokens, Known
<1>5. Proper(f, n, m) /\ f.session = e.session /\ f.note = e.note
  BY <1>1, <1>4 DEF Proper, Locals
<1>6. Proper(Rewrite(f, ks, "lo_next"), n, m)
  BY <1>1, <1>2, <1>3, <1>5, RewriteProper, PlainLabels DEF Continuations
<1>7. req' = [req EXCEPT ![r] = Rewrite(f, ks, "lo_next")]
  BY DEF LogoutClear
<1>8. store[e.session].login \in Nat
  BY <1>2 DEF TypeInv, TypeOK, Sessions
<1>9. endedBy' \subseteq [login : Nat, note : Nat, checked : BOOLEAN]
  <2> DEFINE last(l) == [login |-> l, note |-> e.note, checked |-> l = e.snap.login]
             now_ended == {last(l) : l \in {store[e.session].login} \ {0}}
  <2>1. \A l \in Nat : last(l) \in [login : Nat, note : Nat, checked : BOOLEAN]
    BY <1>1
  <2>2. endedBy' = endedBy \cup now_ended
    BY DEF LogoutClear
  <2> HIDE DEF last
  <2>3. now_ended \subseteq [login : Nat, note : Nat, checked : BOOLEAN]
    BY <1>8, <2>1
  <2>4. QED
    BY <2>2, <2>3 DEF TypeInv, TypeOK
<1>10. RemoveSession(e.session)
  BY DEF LogoutClear
<1>11. QED
  BY <1>2, <1>6, <1>7, <1>9, <1>10, RequestUpdated, RemoveSessionType
  DEF LogoutClear, TypeInv, TypeOK, server, limits

LEMMA LogoutDoneType ==
  ASSUME TypeInv, NEW r \in Requests, LogoutDone(r)
  PROVE  TypeInv'
<1>1. PICK g : Proper(g, Len(logins), Len(notices)) /\ req' = [req EXCEPT ![r] = g]
  BY ReturnProper DEF LogoutDone
<1>2. req[r].note \in Nat /\ req[r].named \subseteq Nat
  BY RequestFacts DEF Locals
<1>3. QED
  BY <1>1, <1>2, RequestUpdated DEF LogoutDone, TypeInv, TypeOK, server, limits

LEMMA IndexReadFailsType ==
  ASSUME TypeInv, NEW r \in Requests, IndexReadFails(r)
  PROVE  TypeInv'
<1> DEFINE n == Len(logins)
           m == Len(notices)
           e == req[r]
<1>1. readFaults' \in Nat
  BY DEF IndexReadFails, TypeInv, TypeOK
<1>2. CASE At(r, "ix_read") /\ UNCHANGED faults
  <2>1. /\ Proper(e, n, m) /\ e.pc \in Indexing /\ n \in Nat /\ m \in Nat
        /\ Recorded(e) \in Entries /\ Proper(NextKey(e), n, m)
    BY <1>2, IndexFacts DEF At, Indexing
  <2>2. Proper([e EXCEPT !.pc = "ix_remove", !.entry = {Recorded(e)}], n, m)
    BY <2>1, EntryProper DEF Indexing
  <2>3. ~At(r, "idle")
    BY <1>2 DEF At
  <2>4. PICK g : Proper(g, n, m) /\ req' = [req EXCEPT ![r] = g]
    BY <2>1, <2>2, <2>3 DEF IndexReadFails, Find
  <2>5. QED
    BY <1>1, <2>3, <2>4, RequestUpdated
    DEF IndexReadFails, Find, TypeInv, TypeOK, server, history
<1>3. CASE \E j \in DOMAIN notices : Find(r, j, {})
  <2>1. PICK j \in DOMAIN notices : Find(r, j, {})
    BY <1>3
  <2>2. PICK g : Proper(g, n, m) /\ req' = [req EXCEPT ![r] = g]
    BY <2>1, FindProper
  <2>3. QED
    BY <1>1, <2>1, <2>2, RequestUpdated
    DEF Find, TypeInv, TypeOK, server, history
<1>4. QED
  BY <1>2, <1>3 DEF IndexReadFails

LEMMA StoreFailsType ==
  ASSUME TypeInv, NEW r \in Requests, StoreFails(r)
  PROVE  TypeInv'
<1> DEFINE n == Len(logins)
           m == Len(notices)
           e == req[r]
<1>1. Proper(e, n, m) /\ n \in Nat /\ m \in Nat
  BY RequestFacts
<1>2. Proper(Idle, n, m)
  BY <1>1, IdleProper
<1>3. ASSUME At(r, "forget") PROVE Proper(Rewrite(e, <<>>, AfterForget(e.op)), n, m)
  BY <1>1, <1>3, NoKeys, AfterForgetProper DEF Proper, At
<1>4. ASSUME At(r, "ix_remove") PROVE Proper(Proceed(e), n, m)
  BY <1>1, <1>4, ProceedProper DEF Proper, At
<1>5. ASSUME At(r, "ck_remove") PROVE Proper(Answer(e, FALSE), n, m)
  BY <1>1, <1>5, AnswerProper DEF Proper, At
<1> DEFINE kept == IF e.then = "lo_next" THEN Idle ELSE Proceed(e)
<1>6. \E g : Proper(g, n, m) /\ req' = [req EXCEPT ![r] = g]
  <2>1. CASE At(r, "forget") /\ req' = [req EXCEPT ![r] = Rewrite(e, <<>>, AfterForget(e.op))]
    BY <1>3, <2>1
  <2>2. CASE At(r, "ix_remove") /\ req' = [req EXCEPT ![r] = kept]
    BY <1>2, <1>4, <2>2
  <2>3. CASE At(r, "ck_remove") /\ req' = [req EXCEPT ![r] = Answer(e, FALSE)]
    BY <1>5, <2>3
  <2>4. CASE Return(r)
    BY <1>2, <2>4 DEF Return
  <2>5. QED
    BY <2>1, <2>2, <2>3, <2>4 DEF StoreFails
<1>7. PICK g : Proper(g, n, m) /\ req' = [req EXCEPT ![r] = g]
  BY <1>6
<1>8. faults' \in Nat /\ UNCHANGED <<store, writes, index, inFlight, handled, server, now, readFaults, history>>
  BY DEF StoreFails, TypeInv, TypeOK
<1>9. QED
  BY <1>7, <1>8, RequestUpdated DEF TypeInv, TypeOK, server, history

LEMMA ExpireType ==
  ASSUME TypeInv, NEW s \in SessionIds, Expire(s)
  PROVE  TypeInv'
<1>1. [store[s] EXCEPT !.fresh = FALSE] \in Sessions
  BY DEF TypeInv, TypeOK, Sessions
<1>2. store' = [store EXCEPT ![s] = [store[s] EXCEPT !.fresh = FALSE]]
  BY DEF Expire
<1>3. store' \in [SessionIds -> Sessions]
  BY <1>1, <1>2 DEF TypeInv, TypeOK
<1>4. \A x \in SessionIds : Known(store'[x], Len(logins))
  <2>1. store[s] \in Sessions
    BY DEF TypeInv, TypeOK
  <2>2. \A x \in SessionIds : store'[x].login = store[x].login /\ store'[x].token = store[x].token
    BY <1>2, <2>1 DEF TypeInv, TypeOK, Sessions
  <2>3. QED
    BY <2>2 DEF Known, TypeInv
<1>5. QED
  BY <1>3, <1>4 DEF Expire, TypeInv, TypeOK, server, limits, history

LEMMA ServerLogoutType ==
  ASSUME TypeInv, NEW k \in Keys, ServerLogout(k)
  PROVE  TypeInv'
<1> DEFINE n == Len(logins)
           m == Len(notices)
           x == [key |-> k, at |-> now, sub |-> IF k \in Sids THEN SubOf[k] ELSE k]
           used == {logins[l].sid : l \in DOMAIN logins}
           gone == IF k \in Sids THEN {k} ELSE {i \in used : SubOf[i] = k}
<1>1. n \in Nat /\ m \in Nat /\ notices \in Seq(LogoutTokens)
  BY DEF TypeInv, TypeOK
<1>2. x \in LogoutTokens
  BY ConstantsAssumption DEF LogoutTokens, Keys, TypeInv, TypeOK
<1>3. notices' = Append(notices, x) /\ ended' = ended \cup gone
  BY DEF ServerLogout
<1>4. notices' \in Seq(LogoutTokens) /\ Len(notices') = m + 1
  <2> HIDE DEF x
  <2>1. QED  BY <1>1, <1>2, <1>3, AppendProperties
<1>5. ended' \subseteq Sids
  <2>1. \A l \in DOMAIN logins : logins[l].sid \in Sids
    <3>1. \A l \in 1..Len(logins) : logins[l] \in Logins
      BY ElementOfSeq DEF TypeInv, TypeOK
    <3>2. DOMAIN logins = 1..Len(logins)
      BY DEF TypeInv, TypeOK
    <3>3. QED  BY <3>1, <3>2 DEF Logins
  <2>2. gone \subseteq Sids
    BY <2>1
  <2>3. QED  BY <1>3, <2>2 DEF TypeInv, TypeOK
<1>6. \A q \in Requests : Proper(req[q], n, m + 1)
  BY <1>1, ProperGrows DEF TypeInv
<1>7. QED
  BY <1>1, <1>4, <1>5, <1>6 DEF ServerLogout, TypeInv, TypeOK, limits, history

LEMMA TickType == TypeInv /\ Tick => TypeInv'
BY DEF Tick, TypeInv, TypeOK, server, history

LEMMA InitType == Init => TypeInv
<1> SUFFICES ASSUME Init PROVE TypeInv
  OBVIOUS
<1>1. NoSession \in Sessions /\ NoToken \in Tokens /\ Known(NoSession, 0)
  BY DEF NoSession, NoToken, Sessions, Tokens, Known
<1>2. logins = <<>> /\ notices = <<>> /\ Len(logins) = 0 /\ Len(notices) = 0
  BY DEF Init
<1>3. <<>> \in Seq(Logins) /\ <<>> \in Seq(LogoutTokens)
  BY EmptySeq
<1>4. Proper(Idle, 0, 0)
  BY IdleProper
<1>5. Idle \in Locals
  BY <1>4 DEF Proper
<1>6. TypeOK
  BY <1>1, <1>2, <1>3, <1>5 DEF Init, TypeOK
<1>7. QED
  BY <1>1, <1>2, <1>4, <1>6 DEF Init, TypeInv

LEMMA TypeStep == TypeInv /\ [Next]_vars => TypeInv'
<1> SUFFICES ASSUME TypeInv, [Next]_vars PROVE TypeInv'
  OBVIOUS
<1>1. ASSUME NEW r \in Requests, Call(r) PROVE TypeInv'
  BY <1>1, CheckType, SwitchCallbackType, RefreshType, RevokeType DEF Call
<1>2. ASSUME NEW r \in Requests, Step(r) PROVE TypeInv'
  BY <1>2, CheckReadType, CheckForgetType, CheckRemoveType, RefreshSendType, RefreshReceiveType,
     RefreshSettlesType, RedeemReceiveType, IndexSessionType, IndexReadType, IndexRemoveType,
     IndexSetType, ForgetType, RevokeSendType, ClearRemoveType, LogoutNextType, LogoutClearType,
     LogoutDoneType DEF Step
<1>3. ASSUME NEW r \in Requests, Reply(r) PROVE TypeInv'
  BY <1>3, ServerRefreshType, RefreshFailsType, ServerRedeemType, RedeemFailsType, RevokeFailsType
  DEF Reply
<1>4. ASSUME NEW r \in Requests, NEW j \in DOMAIN notices, LogoutFind(r, j) PROVE TypeInv'
  BY <1>4, LogoutFindType
<1>5. ASSUME NEW r \in Requests, IndexReadFails(r) \/ StoreFails(r) PROVE TypeInv'
  BY <1>5, IndexReadFailsType, StoreFailsType
<1>6. ASSUME Environment PROVE TypeInv'
  BY <1>6, WriteLandsType, ExpireType, ServerLogoutType, TickType DEF Environment
<1>7. CASE UNCHANGED vars
  BY <1>7 DEF vars, TypeInv, TypeOK, server, limits, history
<1>8. QED
  BY <1>1, <1>2, <1>3, <1>4, <1>5, <1>6, <1>7 DEF Next

\* Every variable keeps to its type, and what a request or the store names was issued, whatever
\* the requests, the server and the store do.
THEOREM TypeCorrect == Spec => []TypeOK
<1>1. TypeInv => TypeOK
  BY DEF TypeInv
<1>2. QED
  BY <1>1, InitType, TypeStep, PTL DEF Spec

-----------------------------------------------------------------------------
(* The inductive invariant of the refresh tokens *)

Sent == {"rf_sent", "rf_reply"}

\* A session's refresh is run by the request its entry names.
RunnerInv ==
  \A r \in Requests : req[r].pc \in Refreshing => inFlight[req[r].session] = r

\* A refresh token belongs to a login of the session it is kept for.
Owned(t, s) ==
  t = NoToken \/ (t.login \in 1..Len(logins) /\ logins[t.login].session = s)

\* No stored session and no refresh holds a token of the login.
Unseen(l) ==
  /\ \A s \in SessionIds : store[s].token.login # l
  /\ \A r \in Requests : req[r].pc \in Sent => req[r].sent.login # l

\* A stored token that was replaced waits for the write of its refresh.
StoreInv ==
  \A s \in SessionIds :
    /\ Owned(store[s].token, s)
    /\ store[s].token \in spent => \E w \in writes : w.refresh /\ w.session = s

\* A write that has not landed holds its request where it is, and carries a token not yet replaced;
\* a sign-in's is the only one of its login.
Pending(w) ==
  /\ Owned(w.data.token, w.session) /\ w.data.token \notin spent
  /\ req[w.by].session = w.session
  /\ req[w.by].pc = IF w.refresh THEN "rf_store" ELSE "rd_store"
  /\ ~w.refresh =>
       /\ w.data.token.login # 0 /\ Unseen(w.data.token.login)
       /\ \A x \in writes \ {w} : x.data.token.login # w.data.token.login

WriteInv == \A w \in writes : Pending(w)

\* A token that is sent has not been replaced, as far as the process knows; the answer's is newer.
Sending(r) ==
  LET t == req[r].sent
      u == req[r].reply IN
  /\ t # NoToken /\ Owned(t, req[r].session) /\ t \notin spent
  /\ req[r].pc = "rf_reply" /\ u # NoToken =>
       /\ u.login = t.login /\ u \notin spent
       /\ t.gen < u.gen /\ t.gen < logins[t.login].gen

SentInv == \A r \in Requests : req[r].pc \in Sent => Sending(r)

\* The tokens of a login that was redeemed and not received are nowhere.
Untouched(r, l) ==
  /\ l \in 1..Len(logins) /\ logins[l].session = req[r].session
  /\ Unseen(l)
  /\ \A w \in writes : w.data.token.login # l
  /\ \A t \in spent : t.login # l
  /\ \A q \in Requests \ {r} : req[q].pc = "rd_reply" => req[q].login # l

RedeemInv == \A r \in Requests : req[r].pc = "rd_reply" => Untouched(r, req[r].login)

SpentOld ==
  \A t \in spent : t.login \in 1..Len(logins) /\ t.gen < logins[t.login].gen

TokenInv ==
  TypeInv /\ RunnerInv /\ StoreInv /\ WriteInv /\ SentInv /\ RedeemInv /\ SpentOld

-----------------------------------------------------------------------------
(* Steps that leave refreshes, sign-ins under way and what they hold alone *)

Busy == Refreshing \cup {"rd_reply", "rd_store"}

\* A request at neither of them.
Free(e) == e.pc \notin Busy

Quiet ==
  /\ UNCHANGED <<writes, inFlight, spent, logins>>
  /\ \A q \in Requests :
       req'[q] = req[q] \/ (Free(req[q]) /\ Free(req'[q]))
  /\ \A s \in SessionIds : store'[s].token \in {store[s].token, NoToken}

\* A step of one request between labels that are not busy, which leaves the stored sessions alone.
LEMMA QuietRequest ==
  ASSUME TypeInv, NEW r \in Requests, Free(req[r]),
         NEW e, Free(e), req' = [req EXCEPT ![r] = e],
         UNCHANGED <<store, writes, inFlight, logins, spent>>
  PROVE  Quiet
BY DEF TypeInv, TypeOK, Quiet

LEMMA RewriteQuiet ==
  ASSUME NEW e \in Locals, NEW ks, NEW back \in Continuations
  PROVE  Free(Rewrite(e, ks, back))
<1>1. /\ [e EXCEPT !.then = back] \in Locals
      /\ [e EXCEPT !.then = back].then = back
  BY PlainLabels DEF Locals
<1>2. CASE ks = <<>> /\ back = "idle"
  BY <1>1, <1>2 DEF Rewrite, Proceed, Idle, Free, Busy, Refreshing
<1>3. CASE ks = <<>> /\ back # "idle"
  <2>1. Rewrite(e, ks, back).pc = back
    BY <1>1, <1>3 DEF Rewrite, Proceed, Locals
  <2>2. QED
    BY <2>1 DEF Free, Busy, Refreshing, Continuations
<1>4. CASE ks # <<>>
  <2>1. Rewrite(e, ks, back).pc = "ix_read"
    BY <1>4 DEF Rewrite, Locals
  <2>2. QED
    BY <2>1 DEF Free, Busy, Refreshing
<1>5. QED
  BY <1>2, <1>3, <1>4

LEMMA AnswerQuiet ==
  ASSUME NEW e \in Locals, NEW b \in BOOLEAN
  PROVE  Free(Answer(e, b))
BY DEF Answer, Idle, Locals, Free, Busy, Refreshing

LEMMA OutcomeQuiet ==
  ASSUME NEW e \in Locals, NEW b \in BOOLEAN
  PROVE  Free(Outcome(e, b))
<1>1. Free([e EXCEPT !.pc = "ck_forget", !.sent = NoToken, !.reply = NoToken])
  BY DEF Locals, Free, Busy, Refreshing
<1>2. Free(Idle)
  BY DEF Idle, Free, Busy, Refreshing
<1>3. QED
  BY <1>1, <1>2, AnswerQuiet DEF Outcome

LEMMA NextKeyQuiet ==
  ASSUME NEW e \in Locals, e.then \in Continuations
  PROVE  Free(NextKey(e))
<1>1. [e EXCEPT !.entry = {}] \in Locals
  BY DEF Locals
<1>2. QED
  BY <1>1, RewriteQuiet DEF NextKey

LEMMA BeginQuiet ==
  ASSUME TypeInv, NEW r \in Requests, NEW o, NEW s, NEW l, l \notin Busy, Begin(r, o, s, l),
         UNCHANGED <<store, writes, inFlight, logins, spent>>
  PROVE  Quiet
<1> DEFINE e == [Idle EXCEPT !.op = o, !.session = s, !.pc = l]
<1>1. e.pc = l /\ req[r].pc = "idle" /\ req' = [req EXCEPT ![r] = e]
  BY DEF Begin, Idle, At
<1>2. "idle" \notin Busy
  BY DEF Free, Busy, Refreshing
<1> HIDE DEF e
<1>3. QED
  BY <1>1, <1>2, QuietRequest DEF Free

LEMMA RemoveQuiet ==
  ASSUME TypeInv, NEW r \in Requests, Free(req[r]),
         NEW e, Free(e), req' = [req EXCEPT ![r] = e],
         NEW s \in SessionIds, RemoveSession(s),
         UNCHANGED <<writes, inFlight, logins, spent>>
  PROVE  Quiet
<1>1. NoSession.token = NoToken
  BY DEF NoSession
<1>2. \A x \in SessionIds : store'[x].token \in {store[x].token, NoToken}
  BY <1>1 DEF RemoveSession, TypeInv, TypeOK
<1>3. QED
  BY <1>2 DEF Quiet, TypeInv, TypeOK

LEMMA CheckQuiet ==
  ASSUME TypeInv, NEW r \in Requests, NEW s \in SessionIds, NEW o \in Operations, Check(r, s, o)
  PROVE  Quiet
<1> DEFINE e == [Idle EXCEPT !.op = o, !.session = s]
           f == [e EXCEPT !.pc = "ck_read"]
<1>1. e \in Locals
  BY IdleProper, RequestFacts, ConstantsAssumption DEF Proper, Locals
<1>2. Free(Answer(e, FALSE)) /\ Free(Answer(e, TRUE))
  BY <1>1, AnswerQuiet
<1>3. Free(f)
  BY DEF Idle, Free, Busy, Refreshing
<1>4. PICK g : Free(g) /\ req' = [req EXCEPT ![r] = g]
  BY <1>2, <1>3 DEF Check
<1>5. Free(req[r])
  BY DEF Check, At, Free, Busy, Refreshing
<1>6. QED
  BY <1>4, <1>5, QuietRequest DEF Check, server, history

LEMMA BeginningQuiet ==
  ASSUME TypeInv, NEW r \in Requests, NEW s \in SessionIds,
         SwitchCallback(r, s) \/ Revoke(r, s) \/ Clear(r, s)
  PROVE  Quiet
<1>1. "redeem" \notin Busy /\ "forget" \notin Busy
  BY DEF Free, Busy, Refreshing
<1>2. QED
  BY <1>1, BeginQuiet DEF SwitchCallback, Revoke, Clear, server, history

LEMMA RewritingQuiet ==
  ASSUME TypeInv, NEW r \in Requests,
         CheckForget(r) \/ Forget(r) \/ (\E s \in SessionIds : LogoutNext(r, s))
  PROVE  Quiet
<1>1. Free(req[r]) /\ req[r] \in Locals
  <2>1. req[r].pc \in {"ck_forget", "forget", "lo_next"}
    <3>1. CASE CheckForget(r) \/ Forget(r)
      BY <3>1 DEF CheckForget, Forget, At
    <3>2. ASSUME NEW s \in SessionIds, LogoutNext(r, s) PROVE At(r, "lo_next")
      BY <3>2 DEF LogoutNext
    <3>3. QED
      BY <3>1, <3>2 DEF At
  <2>2. QED
    BY <2>1, RequestFacts DEF Free, Busy, Refreshing
<1>2. \A o : AfterForget(o) \in Continuations
  BY DEF AfterForget, Continuations
<1>3. "ck_remove" \in Continuations /\ "lo_next" \in Continuations
  BY DEF Continuations
<1>4. CASE CheckForget(r) \/ Forget(r)
  BY <1>1, <1>2, <1>3, <1>4, RewriteQuiet, QuietRequest DEF CheckForget, Forget, server, history
<1>5. ASSUME NEW s \in SessionIds, LogoutNext(r, s) PROVE Quiet
  <2> DEFINE x == notices[req[r].note]
             e == [req[r] EXCEPT !.todo = @ \ {s}, !.session = s]
             f == [e EXCEPT !.snap = store[s], !.pc = "forget"]
  <2>1. e \in Locals
    BY <1>1 DEF Locals
  <2>2. Free(Rewrite(e, NoticeKeys(x), "lo_next"))
    BY <1>3, <2>1, RewriteQuiet
  <2>3. Free(f)
    BY <2>1 DEF Locals, Free, Busy, Refreshing
  <2>4. req' = [req EXCEPT ![r] = IF Mismatch(store[s], x)
                                  THEN Rewrite(e, NoticeKeys(x), "lo_next") ELSE f]
    BY <1>5 DEF LogoutNext
  <2>5. UNCHANGED <<store, writes, inFlight, logins, spent>>
    BY <1>5 DEF LogoutNext, server, history
  <2> HIDE DEF e, f, x
  <2>6. QED
    BY <1>1, <2>2, <2>3, <2>4, <2>5, QuietRequest
<1>6. QED
  BY <1>4, <1>5

LEMMA PlainQuiet ==
  ASSUME TypeInv, NEW r \in Requests, RevokeSend(r) \/ RevokeFails(r) \/ LogoutDone(r)
  PROVE  Quiet
<1>1. Free(req[r]) /\ req[r] \in Locals
  BY RequestFacts DEF RevokeSend, RevokeFails, LogoutDone, At, Free, Busy, Refreshing
<1>2. Free(Idle) /\ Free([req[r] EXCEPT !.pc = "rv_sent"])
  BY <1>1 DEF Idle, Locals, Free, Busy, Refreshing
<1>3. QED
  BY <1>1, <1>2, QuietRequest
  DEF RevokeSend, RevokeFails, LogoutDone, Goto, Return, server, history

LEMMA RemovingQuiet ==
  ASSUME TypeInv, NEW r \in Requests, CheckRemove(r) \/ ClearRemove(r) \/ LogoutClear(r)
  PROVE  Quiet
<1>1. /\ Free(req[r]) /\ req[r] \in Locals /\ req[r].session \in SessionIds
      /\ Proper(req[r], Len(logins), Len(notices))
  BY RequestFacts DEF CheckRemove, ClearRemove, LogoutClear, At, Free, Busy, Refreshing, Proper
<1>2. CASE CheckRemove(r)
  <2>1. Free(Answer(req[r], FALSE))
    BY <1>1, AnswerQuiet
  <2>2. QED
    BY <1>1, <1>2, <2>1, RemoveQuiet DEF CheckRemove, server
<1>3. CASE ClearRemove(r)
  <2>1. Free(Idle)
    BY DEF Idle, Free, Busy, Refreshing
  <2>2. QED
    BY <1>1, <1>3, <2>1, RemoveQuiet DEF ClearRemove, Return, server
<1>4. CASE LogoutClear(r)
  <2> DEFINE own == BindingKeys(req[r].snap)
             ks == IF own = <<>> THEN NoticeKeys(notices[req[r].note]) ELSE own
             f == [req[r] EXCEPT !.snap = NoSession]
  <2>1. f \in Locals /\ "lo_next" \in Continuations
    BY <1>1 DEF Locals, NoSession, NoToken, Sessions, Tokens, Continuations
  <2>2. Free(Rewrite(f, ks, "lo_next"))
    BY <2>1, RewriteQuiet
  <2>3. req' = [req EXCEPT ![r] = Rewrite(f, ks, "lo_next")] /\ RemoveSession(req[r].session)
    BY <1>4 DEF LogoutClear
  <2> HIDE DEF ks, f
  <2>4. QED
    BY <1>1, <1>4, <2>2, <2>3, RemoveQuiet DEF LogoutClear, server
<1>5. QED
  BY <1>2, <1>3, <1>4

LEMMA IndexQuiet ==
  ASSUME TypeInv, NEW r \in Requests,
         IndexRead(r) \/ IndexRemove(r) \/ IndexSet(r) \/ (IndexReadFails(r) /\ At(r, "ix_read"))
  PROVE  Quiet
<1> DEFINE e == req[r]
<1>1. e.pc \in Indexing /\ ~At(r, "idle")
  BY DEF IndexRead, IndexRemove, IndexSet, At, Indexing
<1>2. e \in Locals /\ Free(e) /\ e.then \in Continuations
  BY <1>1, RequestFacts DEF Indexing, Free, Busy, Refreshing, Proper
<1>3. Free(NextKey(e))
  BY <1>2, NextKeyQuiet
<1> DEFINE at(x) == [e EXCEPT !.pc = "ix_remove", !.entry = x]
           set == [e EXCEPT !.pc = "ix_set"]
           found == index[Head(e.keys)]
           mine == Without(Live(found), e.session) \cup {Recorded(e)}
<1>4. (\A x : Free(at(x))) /\ Free(set)
  BY <1>2 DEF Locals, Free, Busy, Refreshing
<1>5. CASE IndexRead(r)
  <2>1. req'  = [req EXCEPT ![r] = IF e.then = "idle" THEN at(mine)
                 ELSE IF \E i \in found : i.session = e.session
                 THEN at(Without(found, e.session)) ELSE NextKey(e)]
    BY <1>5 DEF IndexRead
  <2>2. UNCHANGED <<store, writes, inFlight, logins, spent>>
    BY <1>5 DEF IndexRead, server, history
  <2> HIDE DEF at, mine, found
  <2>3. QED
    BY <1>2, <1>3, <1>4, <2>1, <2>2, QuietRequest
<1>6. CASE IndexRemove(r)
  <2>1. req' = [req EXCEPT ![r] = IF e.entry = {} THEN NextKey(e) ELSE set]
    BY <1>6 DEF IndexRemove
  <2>2. UNCHANGED <<store, writes, inFlight, logins, spent>>
    BY <1>6 DEF IndexRemove, server, history
  <2> HIDE DEF set
  <2>3. QED
    BY <1>2, <1>3, <1>4, <2>1, <2>2, QuietRequest
<1>7. CASE IndexSet(r)
  <2>1. req' = [req EXCEPT ![r] = NextKey(e)]
    BY <1>7 DEF IndexSet
  <2>2. UNCHANGED <<store, writes, inFlight, logins, spent>>
    BY <1>7 DEF IndexSet, server, history
  <2>3. QED
    BY <1>2, <1>3, <2>1, <2>2, QuietRequest
<1>8. CASE IndexReadFails(r)
  <2>1. /\ req' = [req EXCEPT ![r] = IF e.then = "idle" THEN at({Recorded(e)}) ELSE NextKey(e)]
        /\ UNCHANGED <<store, writes, index, inFlight, handled, server, now, faults, history>>
    BY <1>1, <1>8 DEF IndexReadFails, Find
  <2>2. UNCHANGED <<store, writes, inFlight, logins, spent>>
    BY <2>1 DEF server, history
  <2> HIDE DEF at
  <2>3. QED
    BY <1>2, <1>3, <1>4, <2>1, <2>2, QuietRequest
<1>9. QED
  BY <1>5, <1>6, <1>7, <1>8

LEMMA FindQuiet ==
  ASSUME TypeInv, NEW r \in Requests, NEW j, NEW entry, Find(r, j, entry)
  PROVE  Quiet
<1>1. Free(req[r])
  BY DEF Find, At, Free, Busy, Refreshing
<1> DEFINE x == notices[j]
           held == {s \in Names(x, index[x.key]) : store[s].login # 0 /\ ~Mismatch(store[s], x)}
           g == [Idle EXCEPT !.op = "logout", !.note = j, !.pc = "lo_next",
                             !.todo = Names(x, entry), !.named = {store[s].login : s \in held}]
<1>2. Free(g)
  BY DEF Idle, Free, Busy, Refreshing
<1>3. req' = [req EXCEPT ![r] = g] /\ UNCHANGED <<store, writes, inFlight, logins, spent>>
  BY DEF Find, server, history
<1> HIDE DEF g
<1>4. QED
  BY <1>1, <1>2, <1>3, QuietRequest

LEMMA StoreFailsQuiet ==
  ASSUME TypeInv, NEW r \in Requests, StoreFails(r)
  PROVE  Quiet
<1> DEFINE e == req[r]
<1>1. e \in Locals /\ Free(e) /\ e.then \in Continuations
  BY RequestFacts DEF StoreFails, At, Free, Busy, Refreshing, Proper
<1>2. Free(Idle) /\ Free(Answer(e, FALSE))
  BY <1>1, AnswerQuiet DEF Idle, Free, Busy, Refreshing
<1>3. Free(Rewrite(e, <<>>, AfterForget(e.op)))
  <2>1. AfterForget(e.op) \in Continuations
    BY DEF AfterForget, Continuations
  <2>2. QED
    BY <1>1, <2>1, RewriteQuiet
<1>4. Free(Proceed(e))
  <2>1. CASE e.then = "idle"
    BY <1>2, <2>1 DEF Proceed
  <2>2. CASE e.then # "idle"
    <3>1. Proceed(e).pc = e.then
      BY <1>1, <2>2 DEF Proceed, Locals
    <3>2. QED
      BY <1>1, <3>1 DEF Continuations, Free, Busy, Refreshing
  <2>3. QED
    BY <2>1, <2>2
<1>5. PICK g : Free(g) /\ req' = [req EXCEPT ![r] = g]
  <2>1. CASE At(r, "forget") /\ req' = [req EXCEPT ![r] = Rewrite(e, <<>>, AfterForget(e.op))]
    BY <1>3, <2>1
  <2>2. CASE req' = [req EXCEPT ![r] = IF e.then = "lo_next" THEN Idle ELSE Proceed(e)]
    BY <1>2, <1>4, <2>2
  <2>3. CASE req' = [req EXCEPT ![r] = Answer(e, FALSE)]
    BY <1>2, <2>3
  <2>4. CASE Return(r)
    BY <1>2, <2>4 DEF Return
  <2>5. QED
    BY <2>1, <2>2, <2>3, <2>4 DEF StoreFails
<1>6. QED
  BY <1>1, <1>5, QuietRequest DEF StoreFails, server, history

LEMMA EnvironmentQuiet ==
  ASSUME TypeInv,
         (\E s \in SessionIds : Expire(s)) \/ (\E k \in Keys : ServerLogout(k)) \/ Tick \/ UNCHANGED vars
  PROVE  Quiet
<1>1. ASSUME NEW s \in SessionIds, Expire(s) PROVE Quiet
  <2>1. \A x \in SessionIds : store'[x].token = store[x].token
    BY <1>1 DEF Expire, TypeInv, TypeOK, Sessions
  <2>2. QED
    BY <1>1, <2>1 DEF Expire, Quiet, server, history
<1>2. CASE (\E k \in Keys : ServerLogout(k)) \/ Tick \/ UNCHANGED vars
  BY <1>2 DEF ServerLogout, Tick, vars, Quiet, server, history
<1>3. QED
  BY <1>1, <1>2

-----------------------------------------------------------------------------
(* One refresh per session *)

\* A step that starts no refresh and settles none.
LEMMA RunnerKept ==
  ASSUME RunnerInv, UNCHANGED inFlight,
         \A q \in Requests :
           \/ req'[q].pc \notin Refreshing
           \/ req'[q].pc = req[q].pc /\ req'[q].session = req[q].session
           \/ req[q].pc \in Refreshing /\ req'[q].session = req[q].session
  PROVE  RunnerInv'
BY DEF RunnerInv

LEMMA QuietRunner ==
  ASSUME RunnerInv, Quiet
  PROVE  RunnerInv'
<1>1. \A q \in Requests : req'[q].pc \notin Refreshing \/ req'[q] = req[q]
  BY DEF Quiet, Free, Busy
<1>2. QED
  BY <1>1, RunnerKept DEF Quiet

\* A request that finds no refresh of its session in progress starts one.
LEMMA RunnerStarts ==
  ASSUME TypeInv, RunnerInv, NEW r \in Requests, NEW s \in SessionIds,
         NEW e, req' = [req EXCEPT ![r] = e], e.session = s, ~Awaited(s),
         inFlight' = [inFlight EXCEPT ![s] = r], Free(req[r])
  PROVE  RunnerInv'
<1> SUFFICES ASSUME NEW q \in Requests, req'[q].pc \in Refreshing
             PROVE  inFlight'[req'[q].session] = q
  BY DEF RunnerInv
<1>1. CASE q = r
  BY <1>1 DEF TypeInv, TypeOK
<1>2. CASE q # r
  <2>1. req'[q] = req[q] /\ inFlight[req[q].session] = q
    BY <1>2 DEF RunnerInv, TypeInv, TypeOK
  <2>2. inFlight[s] = NoRequest /\ NoRequest # q
    BY ConstantsAssumption DEF Awaited
  <2>3. QED
    BY <2>1, <2>2 DEF TypeInv, TypeOK
<1>3. QED
  BY <1>1, <1>2

LEMMA CheckReadRunner ==
  ASSUME TypeInv, RunnerInv, NEW r \in Requests, CheckRead(r)
  PROVE  RunnerInv'
<1> DEFINE s == req[r].session
           e == [req[r] EXCEPT !.snap = store[s]]
           starts == Refreshable(s) /\ ~Awaited(s)
           runs == [e EXCEPT !.pc = "rf_read"]
<1>1. /\ Free(req[r]) /\ req[r] \in Locals /\ s \in SessionIds
      /\ Proper(req[r], Len(logins), Len(notices))
  BY RequestFacts DEF CheckRead, At, Proper, Free, Busy, Refreshing
<1>2. e \in Locals /\ runs.session = s
  BY <1>1 DEF Locals, TypeInv, TypeOK
<1>3. Free(Answer(e, FALSE))
  BY <1>2, AnswerQuiet
<1>4. Free([e EXCEPT !.pc = "ck_forget"]) /\ Free([e EXCEPT !.pc = "join"])
  BY <1>2 DEF Locals, Free, Busy, Refreshing
<1>5. NoSession.token = NoToken
  BY DEF NoSession
<1>6. CASE starts
  <2>1. req' = [req EXCEPT ![r] = runs] /\ inFlight' = [inFlight EXCEPT ![s] = r]
    BY <1>5, <1>6 DEF CheckRead, Refreshable
  <2> HIDE DEF runs, s
  <2>2. QED
    BY <1>1, <1>2, <1>6, <2>1, RunnerStarts
<1>7. CASE ~starts
  <2>1. PICK g : Free(g) /\ req' = [req EXCEPT ![r] = g]
    BY <1>3, <1>4, <1>7 DEF CheckRead
  <2>2. UNCHANGED inFlight
    BY <1>7 DEF CheckRead
  <2>3. QED
    BY <2>1, <2>2, RunnerKept DEF Free, Busy, TypeInv, TypeOK
<1>8. QED
  BY <1>6, <1>7

LEMMA RefreshRunner ==
  ASSUME TypeInv, RunnerInv, NEW r \in Requests, NEW s \in SessionIds, Refresh(r, s)
  PROVE  RunnerInv'
<1> DEFINE e(l) == [Idle EXCEPT !.op = "refresh", !.session = s, !.pc = l]
<1>1. Free(req[r])
  BY DEF Refresh, Begin, At, Free, Busy, Refreshing
<1>2. (\A l : e(l).session = s) /\ Free(e("join"))
  BY DEF Idle, Free, Busy, Refreshing
<1>3. CASE Awaited(s)
  <2>1. req' = [req EXCEPT ![r] = e("join")] /\ UNCHANGED inFlight
    BY <1>3 DEF Refresh, Begin
  <2> HIDE DEF e
  <2>2. QED
    BY <1>2, <2>1, RunnerKept DEF Free, Busy, TypeInv, TypeOK
<1>4. CASE ~Awaited(s)
  <2>1. req' = [req EXCEPT ![r] = e("rf_read")] /\ inFlight' = [inFlight EXCEPT ![s] = r]
    BY <1>4 DEF Refresh, Begin
  <2> HIDE DEF e
  <2>2. QED
    BY <1>1, <1>2, <1>4, <2>1, RunnerStarts
<1>5. QED
  BY <1>3, <1>4

LEMMA RefreshingRunner ==
  ASSUME TypeInv, RunnerInv, NEW r \in Requests,
         RefreshSend(r) \/ ServerRefresh(r) \/ RefreshFails(r) \/ RefreshReceive(r)
  PROVE  RunnerInv'
<1>1. req[r].pc \in Refreshing /\ UNCHANGED inFlight
  BY DEF RefreshSend, ServerRefresh, RefreshFails, RefreshReceive, At, Refreshing
<1>2. \A q \in Requests \ {r} : req'[q] = req[q]
  BY DEF RefreshSend, ServerRefresh, RefreshFails, RefreshReceive, Goto, TypeInv, TypeOK
<1>3. req'[r].session = req[r].session
  <2>1. req[r] \in Locals
    BY RequestFacts
  <2>2. \A f : req' = [req EXCEPT ![r] = f] => req'[r] = f
    BY DEF TypeInv, TypeOK
  <2>3. \A t, u, l : /\ [req[r] EXCEPT !.sent = t, !.pc = l].session = req[r].session
                    /\ [req[r] EXCEPT !.pc = l, !.reply = u].session = req[r].session
                    /\ [req[r] EXCEPT !.pc = l].session = req[r].session
    BY <2>1 DEF Locals
  <2>4. CASE RefreshSend(r)
    BY <2>2, <2>3, <2>4 DEF RefreshSend
  <2>5. CASE ServerRefresh(r)
    <3>1. PICK u : req' = [req EXCEPT ![r] = [req[r] EXCEPT !.pc = "rf_reply", !.reply = u]]
      BY <2>5 DEF ServerRefresh
    <3>2. QED
      BY <2>2, <2>3, <3>1
  <2>6. CASE RefreshFails(r) \/ RefreshReceive(r)
    BY <2>2, <2>3, <2>6 DEF RefreshFails, RefreshReceive, Goto
  <2>7. QED
    BY <2>4, <2>5, <2>6
<1>4. QED
  BY <1>1, <1>2, <1>3, RunnerKept

\* What the request and those who joined it go on to.
LEMMA SettlesFacts ==
  ASSUME TypeInv, NEW r \in Requests, RefreshSettles(r)
  PROVE  \A q \in Requests : (q # r /\ req'[q] = req[q]) \/ Free(req'[q])
<1> SUFFICES ASSUME NEW q \in Requests, q = r \/ req'[q] # req[q]
             PROVE  Free(req'[q])
  OBVIOUS
<1>1. req[q] \in Locals /\ At(r, "rf_store") \in BOOLEAN
  BY RequestFacts DEF At
<1>2. req'[q] = Outcome(req[q], At(r, "rf_store"))
  BY DEF RefreshSettles
<1>3. QED
  BY <1>1, <1>2, OutcomeQuiet

LEMMA RefreshSettlesRunner ==
  ASSUME TypeInv, RunnerInv, NEW r \in Requests, RefreshSettles(r)
  PROVE  RunnerInv'
<1> SUFFICES ASSUME NEW q \in Requests, req'[q].pc \in Refreshing
             PROVE  inFlight'[req'[q].session] = q
  BY DEF RunnerInv
<1>1. q # r /\ req'[q] = req[q]
  BY SettlesFacts DEF Free, Busy
<1>2. inFlight[req[q].session] = q /\ inFlight[req[r].session] = r
  BY <1>1 DEF RunnerInv, RefreshSettles, At, Refreshing
<1>3. inFlight' = [inFlight EXCEPT ![req[r].session] = NoRequest]
  BY DEF RefreshSettles
<1>4. QED
  BY <1>1, <1>2, <1>3 DEF TypeInv, TypeOK

LEMMA SignInRunner ==
  ASSUME TypeInv, RunnerInv, NEW r \in Requests,
         \/ \E x \in Sids : ServerRedeem(r, x)
         \/ RedeemFails(r) \/ RedeemReceive(r) \/ IndexSession(r)
  PROVE  RunnerInv'
<1>1. req[r] \in Locals /\ UNCHANGED inFlight
  BY RequestFacts DEF ServerRedeem, RedeemFails, RedeemReceive, IndexSession
<1>2. PICK g : g.pc \notin Refreshing /\ req' = [req EXCEPT ![r] = g]
  <2>1. ASSUME NEW x \in Sids, ServerRedeem(r, x)
        PROVE  \E g : g.pc \notin Refreshing /\ req' = [req EXCEPT ![r] = g]
    BY <1>1, <2>1 DEF ServerRedeem, Locals, Refreshing
  <2>2. CASE RedeemFails(r) \/ RedeemReceive(r)
    BY <1>1, <2>2 DEF RedeemFails, RedeemReceive, Return, Goto, Idle, Locals, Refreshing
  <2>3. CASE IndexSession(r)
    <3> DEFINE f == [req[r] EXCEPT !.began = now]
               ks == BindingKeys(store[req[r].session])
    <3>1. f \in Locals /\ f.session = req[r].session /\ "idle" \in Continuations
      BY <1>1 DEF Locals, TypeInv, TypeOK, Continuations
    <3>2. Rewrite(f, ks, "idle").pc \notin Refreshing
      BY <3>1, RewriteQuiet DEF Free, Busy
    <3>3. req' = [req EXCEPT ![r] = Rewrite(f, ks, "idle")]
      BY <2>3, <3>1 DEF IndexSession
    <3>4. QED
      BY <3>2, <3>3
  <2>4. QED
    BY <2>1, <2>2, <2>3
<1>3. QED
  BY <1>1, <1>2, RunnerKept DEF TypeInv, TypeOK

\* The steps that are not quiet.
LEMMA QuietSteps ==
  ASSUME TypeInv, [Next]_vars,
         \A r \in Requests :
           /\ ~CheckRead(r) /\ ~RefreshSend(r) /\ ~RefreshReceive(r) /\ ~RefreshSettles(r)
           /\ ~RedeemReceive(r) /\ ~IndexSession(r)
           /\ ~ServerRefresh(r) /\ ~RefreshFails(r) /\ ~RedeemFails(r)
           /\ \A x \in Sids : ~ServerRedeem(r, x)
           /\ \A s \in SessionIds : ~Refresh(r, s),
         \A w \in writes : ~WriteLands(w)
  PROVE  Quiet
<1>1. ASSUME NEW r \in Requests, Call(r) PROVE Quiet
  BY <1>1, CheckQuiet, BeginningQuiet DEF Call
<1>2. ASSUME NEW r \in Requests, Step(r) PROVE Quiet
  <2>1. CASE CheckForget(r) \/ Forget(r) \/ (\E s \in SessionIds : LogoutNext(r, s))
    BY <2>1, RewritingQuiet
  <2>2. CASE RevokeSend(r) \/ LogoutDone(r)
    BY <2>2, PlainQuiet
  <2>3. CASE CheckRemove(r) \/ ClearRemove(r) \/ LogoutClear(r)
    BY <2>3, RemovingQuiet
  <2>4. CASE IndexRead(r) \/ IndexRemove(r) \/ IndexSet(r)
    BY <2>4, IndexQuiet
  <2>5. QED
    BY <1>2, <2>1, <2>2, <2>3, <2>4 DEF Step
<1>3. ASSUME NEW r \in Requests, Reply(r) PROVE Quiet
  BY <1>3, PlainQuiet DEF Reply
<1>4. ASSUME NEW r \in Requests, NEW j \in DOMAIN notices, LogoutFind(r, j) PROVE Quiet
  BY <1>4, FindQuiet DEF LogoutFind
<1>5. ASSUME NEW r \in Requests, IndexReadFails(r) PROVE Quiet
  BY <1>5, IndexQuiet, FindQuiet DEF IndexReadFails
<1>6. ASSUME NEW r \in Requests, StoreFails(r) PROVE Quiet
  BY <1>6, StoreFailsQuiet
<1>7. CASE Environment \/ UNCHANGED vars
  BY <1>7, EnvironmentQuiet DEF Environment
<1>8. QED
  BY <1>1, <1>2, <1>3, <1>4, <1>5, <1>6, <1>7 DEF Next

LEMMA RunnerStep ==
  ASSUME TypeInv, RunnerInv, [Next]_vars
  PROVE  RunnerInv'
<1>1. ASSUME NEW w \in writes, WriteLands(w) PROVE RunnerInv'
  BY <1>1, RunnerKept DEF WriteLands
<1>2. ASSUME NEW r \in Requests,
             \/ CheckRead(r) \/ RefreshSettles(r)
             \/ \E s \in SessionIds : Refresh(r, s)
      PROVE  RunnerInv'
  BY <1>2, CheckReadRunner, RefreshSettlesRunner, RefreshRunner
<1>3. ASSUME NEW r \in Requests,
             RefreshSend(r) \/ ServerRefresh(r) \/ RefreshFails(r) \/ RefreshReceive(r)
      PROVE  RunnerInv'
  BY <1>3, RefreshingRunner
<1>4. ASSUME NEW r \in Requests,
             \/ \E x \in Sids : ServerRedeem(r, x)
             \/ RedeemFails(r) \/ RedeemReceive(r) \/ IndexSession(r)
      PROVE  RunnerInv'
  BY <1>4, SignInRunner
<1>5. CASE Quiet
  BY <1>5, QuietRunner
<1>6. QED
  BY <1>1, <1>2, <1>3, <1>4, <1>5, QuietSteps

\* Requests of one session share its refresh, whatever the number of requests and sessions, and
\* whether or not session writes land in order (refreshAccessToken, _refreshesInFlight).
THEOREM RefreshIsShared == Spec => []OneRefreshPerSession
<1> DEFINE Inv == TypeInv /\ RunnerInv
<1>1. Init => Inv
  <2>1. Init => RunnerInv
    BY DEF Init, Idle, RunnerInv, Refreshing
  <2>2. QED
    BY <2>1, InitType
<1>2. Inv /\ [Next]_vars => Inv'
  BY TypeStep, RunnerStep
<1>3. Inv => OneRefreshPerSession
  BY DEF RunnerInv, OneRefreshPerSession
<1>4. QED
  BY <1>1, <1>2, <1>3, PTL DEF Spec

-----------------------------------------------------------------------------
(* Steps that move no token *)

\* The labels at which a request holds a token, or a write of its own that may not have landed.
Held == {"rf_sent", "rf_reply", "rf_store", "rd_reply", "rd_store"}

Calm ==
  /\ UNCHANGED <<writes, spent, logins>>
  /\ \A q \in Requests :
       req'[q] = req[q] \/ (req'[q].pc \notin Held /\ \A w \in writes : w.by # q)
  /\ \A s \in SessionIds : store'[s].token \in {store[s].token, NoToken}

\* No token is read, so what is not yet seen of a login stays so.
LEMMA UnseenKept ==
  ASSUME NEW l \in Nat \ {0}, Unseen(l),
         \A s \in SessionIds : store'[s].token \in {store[s].token, NoToken},
         \A q \in Requests : req'[q] = req[q] \/ req'[q].pc \notin Sent
  PROVE  Unseen(l)'
BY DEF Unseen, NoToken

LEMMA StoreFacts ==
  ASSUME TypeInv
  PROVE  /\ \A s \in SessionIds : store[s].token \in Tokens /\ store[s].token.login \in 0..Len(logins)
         /\ \A w \in writes : /\ w.by \in Requests /\ w.session \in SessionIds
                              /\ w.data.token \in Tokens /\ w.data.token.login \in 0..Len(logins)
         /\ Len(logins) \in Nat
BY DEF TypeInv, TypeOK, Sessions, Known

LEMMA CalmKeeps ==
  ASSUME TokenInv, Calm
  PROVE  StoreInv' /\ WriteInv' /\ SentInv' /\ RedeemInv' /\ SpentOld'
<1>1. NoToken.login = 0 /\ Len(logins) \in Nat
  BY StoreFacts DEF NoToken, TokenInv
<1>2. \A t, s : Owned(t, s)' <=> Owned(t, s)
  BY DEF Owned, Calm
<1>3. NoToken \notin spent
  BY <1>1 DEF TokenInv, SpentOld
<1>4. \A q \in Requests : req'[q] = req[q] \/ req'[q].pc \notin Held
  BY DEF Calm
<1>5. \A l \in Nat \ {0} : Unseen(l) => Unseen(l)'
  BY <1>4, UnseenKept DEF Calm, Held, Sent
<1>6. StoreInv'
  BY <1>2, <1>3 DEF TokenInv, StoreInv, Calm, Owned
<1>7. WriteInv'
  <2> SUFFICES ASSUME NEW w \in writes
               PROVE  Pending(w)'
    BY DEF WriteInv, Calm
  <2>1. req'[w.by] = req[w.by]
    BY StoreFacts DEF TokenInv, Calm
  <2>2. w.data.token.login \in Nat
    BY StoreFacts DEF TokenInv
  <2>3. QED
    BY <1>2, <1>5, <2>1, <2>2 DEF TokenInv, WriteInv, Pending, Calm
<1>8. SentInv'
  BY <1>2, <1>4 DEF TokenInv, SentInv, Sending, Calm, Held, Sent
<1>9. RedeemInv'
  <2> SUFFICES ASSUME NEW r \in Requests, req'[r].pc = "rd_reply"
               PROVE  Untouched(r, req[r].login)'
    BY DEF RedeemInv
  <2>1. req'[r] = req[r] /\ \A q \in Requests : req'[q].pc = "rd_reply" => req'[q] = req[q]
    BY <1>4 DEF Held
  <2>2. QED
    BY <1>1, <1>5, <2>1 DEF TokenInv, RedeemInv, Untouched, Calm
<1>10. SpentOld'
  BY DEF TokenInv, SpentOld, Calm
<1>11. QED
  BY <1>6, <1>7, <1>8, <1>9, <1>10

\* A request that is not about to finish a refresh or a sign-in has no write of its own.
LEMMA NoWrite ==
  ASSUME WriteInv, NEW q \in Requests, req[q].pc \notin {"rf_store", "rd_store"}
  PROVE  \A w \in writes : w.by # q
BY DEF WriteInv, Pending

LEMMA QuietCalm ==
  ASSUME WriteInv, Quiet
  PROVE  Calm
<1> SUFFICES ASSUME NEW q \in Requests, req'[q] # req[q]
             PROVE  req'[q].pc \notin Held /\ \A w \in writes : w.by # q
  BY DEF Calm, Quiet
<1>1. Free(req[q]) /\ Free(req'[q])
  BY DEF Quiet
<1>2. QED
  BY <1>1, NoWrite DEF Free, Busy, Refreshing, Held

\* A request without a write that goes on to a label which holds nothing.
LEMMA RequestCalm ==
  ASSUME TypeInv, NEW r \in Requests, \A w \in writes : w.by # r,
         NEW e, req' = [req EXCEPT ![r] = e], e.pc \notin Held,
         UNCHANGED <<store, writes, spent, logins>>
  PROVE  Calm
BY DEF Calm, TypeInv, TypeOK

LEMMA CheckReadCalm ==
  ASSUME TypeInv, WriteInv, NEW r \in Requests, CheckRead(r)
  PROVE  Calm
<1> DEFINE e == [req[r] EXCEPT !.snap = store[req[r].session]]
<1>1. req[r] \in Locals /\ req[r].session \in SessionIds /\ req[r].pc = "ck_read"
  BY RequestFacts DEF CheckRead, At, Proper
<1>2. e \in Locals
  BY <1>1 DEF Locals, TypeInv, TypeOK
<1>3. Answer(e, FALSE).pc \notin Held
  BY <1>2, AnswerQuiet DEF Free, Busy, Refreshing, Held
<1>4. \A l \in {"ck_forget", "join", "rf_read"} : [e EXCEPT !.pc = l].pc \notin Held
  BY <1>2 DEF Locals, Held
<1>5. PICK g : g.pc \notin Held /\ req' = [req EXCEPT ![r] = g]
  BY <1>3, <1>4 DEF CheckRead
<1>6. QED
  BY <1>1, <1>5, NoWrite, RequestCalm DEF CheckRead, server, history

LEMMA RefreshCalm ==
  ASSUME TypeInv, WriteInv, NEW r \in Requests, NEW s \in SessionIds, Refresh(r, s)
  PROVE  Calm
<1> DEFINE e == [Idle EXCEPT !.op = "refresh", !.session = s,
                             !.pc = IF Awaited(s) THEN "join" ELSE "rf_read"]
<1>1. e.pc \notin Held /\ req' = [req EXCEPT ![r] = e] /\ req[r].pc = "idle"
  BY DEF Refresh, Begin, At, Idle, Held
<1> HIDE DEF e
<1>2. QED
  BY <1>1, NoWrite, RequestCalm DEF Refresh, server, history

LEMMA RefreshFailsCalm ==
  ASSUME TypeInv, WriteInv, NEW r \in Requests, RefreshFails(r)
  PROVE  Calm
<1>1. [req[r] EXCEPT !.pc = "rf_failed"].pc \notin Held
  BY RequestFacts DEF Locals, Held
<1>2. req[r].pc \in {"rf_sent", "rf_reply"} /\ req' = [req EXCEPT ![r] = [req[r] EXCEPT !.pc = "rf_failed"]]
  BY DEF RefreshFails, At, Goto
<1>3. QED
  BY <1>1, <1>2, NoWrite, RequestCalm DEF RefreshFails, server, history

LEMMA RefreshSettlesCalm ==
  ASSUME TypeInv, WriteInv, LocalStore, NEW r \in Requests, RefreshSettles(r)
  PROVE  Calm
<1> SUFFICES ASSUME NEW q \in Requests, req'[q] # req[q]
             PROVE  req'[q].pc \notin Held /\ \A w \in writes : w.by # q
  BY DEF Calm, RefreshSettles, server, history
<1>1. Free(req'[q])
  BY SettlesFacts
<1>2. q = r \/ At(q, "join")
  BY DEF RefreshSettles
<1>3. CASE req[q].pc \in {"join", "rf_failed"}
  BY <1>1, <1>3, NoWrite DEF Free, Busy, Refreshing, Held
<1>4. CASE q = r /\ Landed(r)
  BY <1>1, <1>4 DEF Landed, Free, Busy, Refreshing, Held
<1>5. QED
  BY <1>2, <1>3, <1>4 DEF RefreshSettles, At

LEMMA RedeemFailsCalm ==
  ASSUME TypeInv, WriteInv, NEW r \in Requests, RedeemFails(r)
  PROVE  Calm
<1>1. Idle.pc \notin Held /\ req[r].pc \in {"redeem", "rd_reply"} /\ req' = [req EXCEPT ![r] = Idle]
  BY DEF RedeemFails, At, Return, Idle, Held
<1>2. QED
  BY <1>1, NoWrite, RequestCalm DEF RedeemFails, server, history

LEMMA IndexSessionCalm ==
  ASSUME TypeInv, LocalStore, NEW r \in Requests, IndexSession(r)
  PROVE  Calm
<1> DEFINE f == [req[r] EXCEPT !.began = now]
           ks == BindingKeys(store[req[r].session])
<1>1. f \in Locals /\ f.session = req[r].session /\ "idle" \in Continuations
  <2>1. req[r] \in Locals /\ now \in Nat
    BY RequestFacts DEF TypeInv, TypeOK
  <2>2. QED
    BY <2>1 DEF Locals, Continuations
<1>2. Rewrite(f, ks, "idle").pc \notin Held
  BY <1>1, RewriteQuiet DEF Free, Busy, Refreshing, Held
<1>3. req' = [req EXCEPT ![r] = Rewrite(f, ks, "idle")]
  BY <1>1 DEF IndexSession
<1>4. \A w \in writes : w.by # r
  BY DEF IndexSession, Landed
<1>5. UNCHANGED <<store, writes, spent, logins>>
  BY DEF IndexSession, server, history
<1> HIDE DEF f, ks
<1>6. QED
  BY <1>2, <1>3, <1>4, <1>5, RequestCalm

-----------------------------------------------------------------------------
(* Steps that move a token *)

\* The refresh whose write has not landed is the one its session's request runs.
LEMMA WriteRunner ==
  ASSUME TokenInv, NEW r \in Requests, req[r].pc \in Refreshing,
         NEW w \in writes, w.refresh, w.session = req[r].session
  PROVE  w.by = r /\ req[r].pc = "rf_store"
<1>1. w.by \in Requests
  BY StoreFacts DEF TokenInv
<1>2. req[w.by].pc = "rf_store" /\ req[w.by].session = req[r].session
  BY DEF TokenInv, WriteInv, Pending
<1>3. QED
  BY <1>1, <1>2 DEF TokenInv, RunnerInv, Refreshing

\* Before the request has its own write, the token that is stored has not been replaced.
LEMMA StoredIsNew ==
  ASSUME TokenInv, NEW r \in Requests, req[r].pc \in Refreshing \ {"rf_store"},
         req[r].session \in SessionIds
  PROVE  store[req[r].session].token \notin spent
BY WriteRunner DEF TokenInv, StoreInv

LEMMA RefreshSendTokens ==
  ASSUME TokenInv, NEW r \in Requests, RefreshSend(r)
  PROVE  StoreInv' /\ WriteInv' /\ SentInv' /\ RedeemInv' /\ SpentOld'
<1> DEFINE s == req[r].session
           t == store[s].token
           g == [req[r] EXCEPT !.sent = t, !.pc = IF t = NoToken THEN "rf_failed" ELSE "rf_sent"]
<1>1. req[r].pc = "rf_read" /\ req[r] \in Locals /\ s \in SessionIds
  BY RequestFacts DEF TokenInv, RefreshSend, At, Proper
<1>2. UNCHANGED <<store, writes, logins, spent>> /\ req' = [req EXCEPT ![r] = g]
  BY DEF RefreshSend, server, history
<1>3. g.sent = t /\ g.session = s /\ g.pc = IF t = NoToken THEN "rf_failed" ELSE "rf_sent"
  BY <1>1 DEF Locals
<1> HIDE DEF g
<1>4. req'[r] = g /\ \A q \in Requests \ {r} : req'[q] = req[q]
  BY <1>2 DEF TokenInv, TypeInv, TypeOK
<1>5. \A l : Unseen(l) => Unseen(l)'
  BY <1>1, <1>2, <1>3, <1>4 DEF Unseen, Sent
<1>6. StoreInv'
  BY <1>2 DEF TokenInv, StoreInv, Owned
<1>7. WriteInv'
  <2> SUFFICES ASSUME NEW w \in writes PROVE Pending(w)'
    BY <1>2 DEF WriteInv
  <2>1. w.by # r /\ w.by \in Requests
    BY <1>1, NoWrite, StoreFacts DEF TokenInv
  <2>2. QED
    BY <1>2, <1>4, <1>5, <2>1 DEF TokenInv, WriteInv, Pending, Owned
<1>8. SentInv'
  <2>1. ASSUME g.pc \in Sent PROVE Sending(r)'
    <3>1. t # NoToken /\ g.pc = "rf_sent"
      BY <1>3, <2>1 DEF Sent
    <3>2. Owned(t, s)
      BY <1>1 DEF TokenInv, StoreInv
    <3>3. t \notin spent
      BY <1>1, StoredIsNew DEF Refreshing
    <3>4. QED
      BY <1>2, <1>3, <1>4, <3>1, <3>2, <3>3 DEF Sending, Owned
  <2>2. ASSUME NEW q \in Requests \ {r}, req[q].pc \in Sent PROVE Sending(q)'
    BY <1>2, <1>4, <2>2 DEF TokenInv, SentInv, Sending, Owned
  <2>3. QED
    BY <1>4, <2>1, <2>2 DEF SentInv
<1>9. RedeemInv'
  <2>1. g.pc # "rd_reply"
    BY <1>3
  <2>2. QED
    BY <1>2, <1>4, <1>5, <2>1 DEF TokenInv, RedeemInv, Untouched
<1>10. SpentOld'
  BY <1>2 DEF TokenInv, SpentOld
<1>11. QED
  BY <1>6, <1>7, <1>8, <1>9, <1>10

LEMMA ServerRefreshTokens ==
  ASSUME TokenInv, NEW r \in Requests, ServerRefresh(r)
  PROVE  StoreInv' /\ WriteInv' /\ SentInv' /\ RedeemInv' /\ SpentOld'
<1> DEFINE t == req[r].sent
           u == req'[r].reply
           n == Len(logins)
<1>1. /\ req[r].pc = "rf_sent" /\ req[r] \in Locals /\ logins[t.login].gen = t.gen
      /\ t \in Tokens /\ t.gen \in Nat /\ logins \in Seq(Logins)
  BY RequestFacts DEF TokenInv, TypeInv, TypeOK, ServerRefresh, At, Valid, Locals, Tokens
<1>2. t # NoToken /\ Owned(t, req[r].session) /\ t.login \in 1..n
  BY <1>1 DEF TokenInv, SentInv, Sending, Sent, Owned
<1>3. UNCHANGED <<store, writes, spent>> /\ \A q \in Requests \ {r} : req'[q] = req[q]
  BY DEF ServerRefresh, history, TokenInv, TypeInv, TypeOK
<1>3a. PICK v : /\ req' = [req EXCEPT ![r] = [req[r] EXCEPT !.pc = "rf_reply", !.reply = v]]
                /\ \/ v = NoToken /\ UNCHANGED logins
                   \/ v = [t EXCEPT !.gen = @ + 1] /\ logins' = [logins EXCEPT ![t.login].gen = @ + 1]
  BY DEF ServerRefresh
<1>3b. req'[r] = [req[r] EXCEPT !.pc = "rf_reply", !.reply = v]
  BY <1>3a DEF TokenInv, TypeInv, TypeOK
<1>4. u = v /\ req'[r].sent = t /\ req'[r].session = req[r].session /\ req'[r].pc = "rf_reply"
  BY <1>1, <1>3b DEF Locals
<1>5. \/ u = NoToken /\ UNCHANGED logins
      \/ u = [t EXCEPT !.gen = @ + 1] /\ logins' = [logins EXCEPT ![t.login].gen = @ + 1]
  BY <1>3a, <1>4
<1>6. \A l \in 1..n : logins[l] \in Logins /\ logins[l].gen \in Nat
  <2>1. \A l \in 1..n : logins[l] \in Logins
    BY <1>1, ElementOfSeq
  <2>2. QED
    BY <2>1 DEF Logins
<1>7. /\ Len(logins') = n
      /\ \A l \in 1..n : logins'[l].session = logins[l].session /\ logins[l].gen <= logins'[l].gen
  <2>1. CASE UNCHANGED logins
    BY <1>6, <2>1
  <2>2. CASE logins' = [logins EXCEPT ![t.login].gen = @ + 1]
    <3>1. Len(logins') = n
      BY <1>1, <1>2, <2>2, GenType
    <3>2. DOMAIN logins = 1..n
      BY <1>1
    <3>3. QED
      BY <1>2, <1>6, <2>2, <3>1, <3>2 DEF Logins
  <2>3. QED
    BY <1>5, <2>1, <2>2
<1>8. \A x, s : Owned(x, s) => Owned(x, s)'
  BY <1>7 DEF Owned
<1>9. \A l : Unseen(l) => Unseen(l)'
  BY <1>1, <1>3, <1>4 DEF Unseen, Sent
<1>10. SpentOld'
  <2> SUFFICES ASSUME NEW x \in spent
               PROVE  x.login \in 1..Len(logins') /\ x.gen < logins'[x.login].gen
    BY <1>3 DEF SpentOld
  <2>1. x \in Tokens /\ x.login \in 1..n /\ x.gen < logins[x.login].gen
    BY DEF TokenInv, SpentOld, TypeInv, TypeOK
  <2>2. x.gen \in Nat /\ logins'[x.login].gen \in Int
    <3>1. CASE UNCHANGED logins
      BY <1>6, <2>1, <3>1 DEF Tokens
    <3>2. CASE logins' = [logins EXCEPT ![t.login].gen = @ + 1]
      BY <1>1, <1>2, <1>6, <2>1, <3>2 DEF Tokens, Logins
    <3>3. QED
      BY <1>5, <3>1, <3>2
  <2>3. QED
    BY <1>6, <1>7, <2>1, <2>2
<1>11. StoreInv'
  BY <1>3, <1>8 DEF TokenInv, StoreInv
<1>12. WriteInv'
  <2> SUFFICES ASSUME NEW w \in writes PROVE Pending(w)'
    BY <1>3 DEF WriteInv
  <2>1. w.by # r /\ w.by \in Requests
    BY <1>1, NoWrite, StoreFacts DEF TokenInv
  <2>2. QED
    BY <1>3, <1>8, <1>9, <2>1 DEF TokenInv, WriteInv, Pending
<1>13. SentInv'
  <2>1. Sending(r)'
    <3>1. CASE u = NoToken
      BY <1>1, <1>2, <1>3, <1>4, <1>8, <3>1 DEF TokenInv, SentInv, Sending, Sent
    <3>2. CASE u = [t EXCEPT !.gen = @ + 1] /\ logins' = [logins EXCEPT ![t.login].gen = @ + 1]
      <4>1. u.login = t.login /\ u.gen = t.gen + 1 /\ t.gen < u.gen
        BY <1>1, <3>2 DEF Tokens
      <4>2. logins'[t.login].gen = t.gen + 1
        BY <1>1, <1>2, <1>6, <3>2 DEF Logins
      <4>3. u \notin spent
        BY <1>1, <4>1 DEF TokenInv, SpentOld
      <4>4. t.gen < logins'[t.login].gen
        BY <1>1, <4>2
      <4>5. t \notin spent
        BY <1>1 DEF TokenInv, SentInv, Sending, Sent
      <4>6. QED
        BY <1>2, <1>3, <1>4, <1>8, <4>1, <4>3, <4>4, <4>5 DEF Sending
    <3>3. QED
      BY <1>5, <3>1, <3>2
  <2>2. ASSUME NEW q \in Requests \ {r}, req[q].pc \in Sent PROVE Sending(q)'
    <3>1. /\ Sending(q) /\ req[q].sent \in Tokens
          /\ req[q].sent.login \in 1..n
      BY <2>2, RequestFacts DEF TokenInv, SentInv, Sending, Owned, Locals
    <3>2. req[q].sent.gen \in Nat
      BY <3>1 DEF Tokens
    <3>3. logins'[req[q].sent.login].gen \in Int
      <4>1. CASE UNCHANGED logins
        BY <1>6, <3>1, <4>1
      <4>2. CASE logins' = [logins EXCEPT ![t.login].gen = @ + 1]
        <5>1. DOMAIN logins = 1..n /\ logins[t.login] \in Logins /\ logins[t.login].gen + 1 \in Int
          BY <1>1, <1>2, <1>6
        <5>2. CASE req[q].sent.login = t.login
          <6>1. logins'[t.login] = [logins[t.login] EXCEPT !.gen = @ + 1]
            BY <1>2, <4>2, <5>1
          <6>2. logins'[t.login].gen = logins[t.login].gen + 1
            BY <5>1, <6>1 DEF Logins
          <6>3. QED
            BY <5>1, <5>2, <6>2
        <5>3. CASE req[q].sent.login # t.login
          BY <1>6, <3>1, <4>2, <5>1, <5>3
        <5>4. QED
          BY <5>2, <5>3
      <4>3. QED
        BY <1>5, <4>1, <4>2
    <3>4. \A x \in Int : x < logins[req[q].sent.login].gen => x < logins'[req[q].sent.login].gen
      BY <1>6, <1>7, <3>1, <3>3
    <3>5. QED
      BY <1>3, <1>8, <3>1, <3>2, <3>4 DEF Sending
  <2>3. QED
    BY <1>3, <2>1, <2>2 DEF SentInv
<1>14. RedeemInv'
  <2> SUFFICES ASSUME NEW q \in Requests, req'[q].pc = "rd_reply" PROVE Untouched(q, req[q].login)'
    BY DEF RedeemInv
  <2>1. q # r /\ req'[q] = req[q]
    BY <1>3, <1>4
  <2>2. Untouched(q, req[q].login)
    BY <2>1 DEF TokenInv, RedeemInv
  <2>3. QED
    BY <1>3, <1>4, <1>7, <1>9, <2>1, <2>2 DEF Untouched
<1>15. QED
  BY <1>10, <1>11, <1>12, <1>13, <1>14

LEMMA RefreshReceiveTokens ==
  ASSUME TokenInv, NEW r \in Requests, RefreshReceive(r)
  PROVE  StoreInv' /\ WriteInv' /\ SentInv' /\ RedeemInv' /\ SpentOld'
<1> DEFINE e == req[r]
           s == e.session
           t == e.sent
           u == e.reply
           kept == store[s].token
           got == IF u = NoToken THEN kept ELSE u
           write == [by |-> r, session |-> s, refresh |-> TRUE,
                     data |-> [login |-> t.login, fresh |-> TRUE, token |-> got]]
<1>1. e.pc = "rf_reply" /\ e \in Locals /\ s \in SessionIds /\ e.pc \in Refreshing /\ e.pc \in Sent
  BY RequestFacts DEF TokenInv, RefreshReceive, At, Proper, Refreshing, Sent
<1>2. /\ UNCHANGED <<store, logins>>
      /\ spent' = IF u = NoToken THEN spent ELSE spent \cup {t}
  BY DEF RefreshReceive, server
<1>3. PICK new : /\ writes' = writes \cup {new}
                 /\ new.by = r /\ new.session = s /\ new.refresh /\ new.data.token = got
  <2>1. writes' = writes \cup {write}
    BY DEF RefreshReceive
  <2>2. write.by = r /\ write.session = s /\ write.refresh /\ write.data.token = got
    OBVIOUS
  <2> HIDE DEF write
  <2>3. QED
    BY <2>1, <2>2
<1>4. /\ req'[r].pc = "rf_store" /\ req'[r].session = s
      /\ \A q \in Requests \ {r} : req'[q] = req[q]
  BY <1>1 DEF RefreshReceive, Goto, Locals, TokenInv, TypeInv, TypeOK
<1>5. Sending(r)
  BY <1>1 DEF TokenInv, SentInv
<1>6. /\ t # NoToken /\ t.login \in 1..Len(logins) /\ logins[t.login].session = s /\ t \notin spent
      /\ u # NoToken => /\ u.login = t.login /\ u \notin spent
                        /\ t.gen < u.gen /\ t.gen < logins[t.login].gen
  BY <1>1, <1>5 DEF Sending, Owned
<1>7. \A l : Unseen(l) => Unseen(l)' /\ t.login # l /\ kept.login # l /\ got.login # l
  BY <1>1, <1>2, <1>4, <1>6 DEF Unseen, Sent
<1>8. Owned(kept, s) /\ kept \notin spent
  BY <1>1, StoredIsNew DEF TokenInv, StoreInv
<1>9. Owned(got, s) /\ got \notin spent /\ (u # NoToken => got # t)
  <2>1. CASE u = NoToken
    BY <1>8, <2>1
  <2>2. CASE u # NoToken
    <3>1. t.gen \in Nat /\ t.gen < u.gen
      BY <1>1, <1>6, <2>2 DEF Locals, Tokens
    <3>2. u # t
      BY <3>1
    <3>3. QED
      BY <1>6, <2>2, <3>2 DEF Owned
  <2>3. QED
    BY <2>1, <2>2
<1>10. \A x \in spent' : x \in spent \/ (x = t /\ u # NoToken)
  BY <1>2
<1>11. StoreInv'
  <2> SUFFICES ASSUME NEW i \in SessionIds
               PROVE  /\ Owned(store[i].token, i)
                      /\ store[i].token \in spent' => \E w \in writes' : w.refresh /\ w.session = i
    BY <1>2 DEF StoreInv, Owned
  <2>1. Owned(store[i].token, i)
    BY DEF TokenInv, StoreInv
  <2>2. CASE store[i].token \in spent
    BY <1>3, <2>1, <2>2 DEF TokenInv, StoreInv
  <2>3. CASE store[i].token = t
    <3>1. i = s
      BY <1>6, <2>1, <2>3 DEF Owned
    <3>2. QED
      BY <1>2, <1>3, <2>1, <3>1
  <2>4. QED
    BY <1>10, <2>1, <2>2, <2>3
<1>12. WriteInv'
  <2>1. Pending(new)'
    BY <1>2, <1>3, <1>4, <1>9, <1>10 DEF Pending, Owned
  <2>2. ASSUME NEW w \in writes PROVE Pending(w)'
    <3>1. w.by # r /\ w.by \in Requests /\ Pending(w)
      BY <1>1, NoWrite, StoreFacts DEF TokenInv, WriteInv
    <3>2. w.data.token # t
      <4>1. CASE w.refresh
        <5>1. w.session # s
          BY <1>1, <3>1, <4>1, WriteRunner
        <5>2. QED
          BY <1>6, <3>1, <5>1 DEF Pending, Owned
      <4>2. CASE ~w.refresh
        BY <1>7, <3>1, <4>2 DEF Pending
      <4>3. QED
        BY <4>1, <4>2
    <3>3. w.data.token \notin spent'
      BY <1>10, <3>1, <3>2 DEF Pending
    <3>4. ASSUME ~w.refresh
          PROVE  /\ w.data.token.login # 0 /\ Unseen(w.data.token.login)'
                 /\ \A x \in writes' \ {w} : x.data.token.login # w.data.token.login
      BY <1>2, <1>3, <1>7, <3>1, <3>4 DEF Pending
    <3>5. QED
      BY <1>2, <1>4, <3>1, <3>3, <3>4 DEF Pending, Owned
  <2>3. QED
    BY <1>3, <2>1, <2>2 DEF WriteInv
<1>13. SentInv'
  <2> SUFFICES ASSUME NEW q \in Requests, req'[q].pc \in Sent PROVE Sending(q)'
    BY DEF SentInv
  <2>1. q # r /\ req'[q] = req[q]
    BY <1>4 DEF Sent
  <2>2. Sending(q)
    BY <2>1 DEF TokenInv, SentInv
  <2>3. req[q].session # s
    <3>1. inFlight[req[q].session] = q /\ inFlight[s] = r
      BY <1>1, <2>1 DEF TokenInv, RunnerInv, Refreshing, Sent
    <3>2. QED
      BY <2>1, <3>1
  <2>4. req[q].sent.login # t.login
    BY <1>6, <2>2, <2>3 DEF Sending, Owned
  <2>5. QED
    BY <1>2, <1>10, <2>1, <2>2, <2>4 DEF Sending, Owned
<1>14. RedeemInv'
  <2> SUFFICES ASSUME NEW q \in Requests, req'[q].pc = "rd_reply" PROVE Untouched(q, req[q].login)'
    BY DEF RedeemInv
  <2>1. q # r /\ req'[q] = req[q] /\ \A p \in Requests : req'[p].pc = "rd_reply" => req'[p] = req[p]
    BY <1>4
  <2>2. Untouched(q, req[q].login)
    BY <2>1 DEF TokenInv, RedeemInv
  <2>3. QED
    BY <1>2, <1>3, <1>7, <1>10, <2>1, <2>2 DEF Untouched
<1>15. SpentOld'
  BY <1>2, <1>6, <1>10 DEF TokenInv, SpentOld
<1>16. QED
  BY <1>11, <1>12, <1>13, <1>14, <1>15

LEMMA ServerRedeemTokens ==
  ASSUME TokenInv, NEW r \in Requests, NEW x \in Sids, ServerRedeem(r, x)
  PROVE  StoreInv' /\ WriteInv' /\ SentInv' /\ RedeemInv' /\ SpentOld'
<1> PICK n : n = Len(logins)
  OBVIOUS
<1> DEFINE l == [sid |-> x, session |-> req[r].session, gen |-> 1, at |-> now]
<1>1. /\ req[r].pc = "redeem" /\ req[r] \in Locals /\ req[r].session \in SessionIds
      /\ n \in Nat /\ logins \in Seq(Logins) /\ now \in Nat
  BY RequestFacts DEF TokenInv, TypeInv, TypeOK, ServerRedeem, At, Proper
<1>2. l \in Logins /\ l.session = req[r].session
  BY <1>1 DEF Logins
<1>3. UNCHANGED <<store, writes, spent>> /\ logins' = Append(logins, l)
  BY DEF ServerRedeem, history
<1> HIDE DEF l
<1>4. /\ Len(logins') = n + 1 /\ logins'[n + 1] = l
      /\ \A i \in 1..n : logins'[i] = logins[i]
  BY <1>1, <1>2, <1>3, AppendProperties
<1>5. /\ req'[r].pc = "rd_reply" /\ req'[r].session = req[r].session /\ req'[r].login = n + 1
      /\ \A q \in Requests \ {r} : req'[q] = req[q]
  BY <1>1 DEF ServerRedeem, Locals, TokenInv, TypeInv, TypeOK
<1>6. \A t, s : Owned(t, s) => Owned(t, s)'
  BY <1>1, <1>4 DEF Owned
<1>7. \A i : Unseen(i) => Unseen(i)'
  BY <1>3, <1>5 DEF Unseen, Sent
<1>8. Unseen(n + 1)'
  <2>1. \A q \in Requests : req[q].sent.login \in 0..n
    BY RequestFacts DEF TokenInv, Proper
  <2>2. QED
    BY <1>1, <1>3, <1>5, <2>1, StoreFacts DEF Unseen, Sent, TokenInv
<1>9. StoreInv'
  BY <1>3, <1>6 DEF TokenInv, StoreInv
<1>10. WriteInv'
  <2> SUFFICES ASSUME NEW w \in writes PROVE Pending(w)'
    BY <1>3 DEF WriteInv
  <2>1. w.by # r /\ w.by \in Requests
    BY <1>1, NoWrite, StoreFacts DEF TokenInv
  <2>2. QED
    BY <1>3, <1>5, <1>6, <1>7, <2>1 DEF TokenInv, WriteInv, Pending
<1>11. SentInv'
  <2> SUFFICES ASSUME NEW q \in Requests, req'[q].pc \in Sent PROVE Sending(q)'
    BY DEF SentInv
  <2>1. q # r /\ req'[q] = req[q]
    BY <1>5 DEF Sent
  <2>2. Sending(q) /\ req[q].sent.login \in 1..n
    BY <2>1 DEF TokenInv, SentInv, Sending, Owned
  <2>3. QED
    BY <1>3, <1>4, <1>6, <2>1, <2>2 DEF Sending
<1>12. RedeemInv'
  <2>1. \A q \in Requests : req[q].login \in 0..n
    BY RequestFacts DEF TokenInv, Proper
  <2>2. Untouched(r, req[r].login)'
    <3>1. n + 1 \in 1..Len(logins') /\ logins'[n + 1].session = req'[r].session
      BY <1>1, <1>2, <1>4, <1>5
    <3>2. (\A w \in writes : w.data.token.login # n + 1) /\ \A t \in spent : t.login # n + 1
      BY <1>1, StoreFacts DEF TokenInv, SpentOld
    <3>3. \A q \in Requests \ {r} : req'[q].login # n + 1
      BY <1>1, <1>5, <2>1
    <3>4. QED
      BY <1>1, <1>3, <1>5, <1>8, <3>1, <3>2, <3>3 DEF Untouched
  <2>3. ASSUME NEW q \in Requests \ {r}, req[q].pc = "rd_reply" PROVE Untouched(q, req[q].login)'
    <3>1. Untouched(q, req[q].login)
      BY <2>3 DEF TokenInv, RedeemInv
    <3>2. req[q].login # n + 1
      BY <1>1, <2>1
    <3>3. req[q].login \in 1..Len(logins')
      BY <1>1, <1>4, <3>1 DEF Untouched
    <3>4. QED
      BY <1>3, <1>4, <1>5, <1>7, <3>1, <3>2, <3>3 DEF Untouched
  <2>4. QED
    BY <1>5, <2>2, <2>3 DEF RedeemInv
<1>13. SpentOld'
  BY <1>1, <1>3, <1>4 DEF TokenInv, SpentOld
<1>14. QED
  BY <1>9, <1>10, <1>11, <1>12, <1>13

LEMMA RedeemReceiveTokens ==
  ASSUME TokenInv, NEW r \in Requests, RedeemReceive(r)
  PROVE  StoreInv' /\ WriteInv' /\ SentInv' /\ RedeemInv' /\ SpentOld'
<1> DEFINE t == [login |-> req[r].login, gen |-> 1]
           write == [by |-> r, session |-> req[r].session, refresh |-> FALSE,
                     data |-> [login |-> req[r].login, fresh |-> TRUE, token |-> t]]
<1>1. req[r].pc = "rd_reply" /\ req[r] \in Locals
  BY RequestFacts DEF TokenInv, RedeemReceive, At
<1>2. UNCHANGED <<store, logins, spent>>
  BY DEF RedeemReceive, server, history
<1> PICK l, s : l = req[r].login /\ s = req[r].session
  OBVIOUS
<1>3. PICK new : /\ writes' = writes \cup {new}
                 /\ new.by = r /\ new.session = s /\ ~new.refresh /\ new.data.token.login = l
  <2>1. writes' = writes \cup {write}
    BY DEF RedeemReceive
  <2>2. /\ write.by = r /\ write.session = s /\ ~write.refresh /\ write.data.token.login = l
    OBVIOUS
  <2> HIDE DEF write
  <2>3. QED
    BY <2>1, <2>2
<1> HIDE DEF t
<1>4. /\ req'[r].pc = "rd_store" /\ req'[r].session = s
      /\ \A q \in Requests \ {r} : req'[q] = req[q]
  BY <1>1 DEF RedeemReceive, Goto, Locals, TokenInv, TypeInv, TypeOK
<1>5. Untouched(r, l) /\ l \in 1..Len(logins)
  BY <1>1 DEF TokenInv, RedeemInv, Untouched
<1>6. \A i : Unseen(i) => Unseen(i)'
  BY <1>2, <1>4 DEF Unseen, Sent
<1>7. StoreInv'
  BY <1>2, <1>3 DEF TokenInv, StoreInv, Owned
<1>8. WriteInv'
  <2>1. Pending(new)'
    <3>1. Owned(new.data.token, s)' /\ new.data.token \notin spent /\ l # 0
      BY <1>2, <1>3, <1>5 DEF Untouched, Owned
    <3>2. QED
      BY <1>2, <1>3, <1>4, <1>5, <1>6, <3>1 DEF Untouched, Pending
  <2>2. ASSUME NEW w \in writes PROVE Pending(w)'
    <3>1. w.by # r /\ w.by \in Requests /\ Pending(w)
      BY <1>1, NoWrite, StoreFacts DEF TokenInv, WriteInv
    <3>2. w.data.token.login # l
      BY <1>5 DEF Untouched
    <3>3. QED
      BY <1>2, <1>3, <1>4, <1>6, <3>1, <3>2 DEF Pending, Owned
  <2>3. QED
    BY <1>3, <2>1, <2>2 DEF WriteInv
<1>9. SentInv'
  <2> SUFFICES ASSUME NEW q \in Requests, req'[q].pc \in Sent PROVE Sending(q)'
    BY DEF SentInv
  <2>1. req'[q] = req[q]
    BY <1>4 DEF Sent
  <2>2. QED
    BY <1>2, <2>1 DEF TokenInv, SentInv, Sending, Owned
<1>10. RedeemInv'
  <2> SUFFICES ASSUME NEW q \in Requests, req'[q].pc = "rd_reply" PROVE Untouched(q, req[q].login)'
    BY DEF RedeemInv
  <2>1. q # r /\ req'[q] = req[q]
    BY <1>4
  <2>2. Untouched(q, req[q].login) /\ req[q].login # l
    BY <1>1, <2>1 DEF TokenInv, RedeemInv, Untouched
  <2>3. QED
    BY <1>2, <1>3, <1>4, <1>6, <2>1, <2>2 DEF Untouched
<1>11. SpentOld'
  BY <1>2 DEF TokenInv, SpentOld
<1>12. QED
  BY <1>7, <1>8, <1>9, <1>10, <1>11

LEMMA WriteLandsTokens ==
  ASSUME TokenInv, NEW w \in writes, WriteLands(w)
  PROVE  StoreInv' /\ WriteInv' /\ SentInv' /\ RedeemInv' /\ SpentOld'
<1>1. /\ UNCHANGED <<req, logins, spent>> /\ writes' = writes \ {w}
      /\ store' = [store EXCEPT ![w.session] = w.data]
  BY DEF WriteLands, server
<1>2. /\ w.session \in SessionIds /\ store'[w.session] = w.data
      /\ \A s \in SessionIds \ {w.session} : store'[s] = store[s]
  BY <1>1, StoreFacts DEF TokenInv, TypeInv, TypeOK
<1>3. Pending(w)
  BY DEF TokenInv, WriteInv
<1>4. \A l : Unseen(l) /\ w.data.token.login # l => Unseen(l)'
  BY <1>1, <1>2 DEF Unseen
<1>5. StoreInv'
  <2> SUFFICES ASSUME NEW s \in SessionIds
               PROVE  /\ Owned(store'[s].token, s)
                      /\ store'[s].token \in spent => \E x \in writes' : x.refresh /\ x.session = s
    BY <1>1 DEF StoreInv, Owned
  <2>1. CASE s = w.session
    BY <1>2, <1>3, <2>1 DEF Pending
  <2>2. CASE s # w.session
    BY <1>1, <1>2, <2>2 DEF TokenInv, StoreInv
  <2>3. QED
    BY <2>1, <2>2
<1>6. WriteInv'
  <2> SUFFICES ASSUME NEW x \in writes \ {w} PROVE Pending(x)'
    BY <1>1 DEF WriteInv
  <2>1. Pending(x)
    BY DEF TokenInv, WriteInv
  <2>2. ~x.refresh => Unseen(x.data.token.login)'
    BY <1>4, <2>1 DEF Pending
  <2>3. QED
    BY <1>1, <2>1, <2>2 DEF Pending, Owned
<1>7. SentInv'
  BY <1>1 DEF TokenInv, SentInv, Sending, Owned
<1>8. RedeemInv'
  BY <1>1, <1>4 DEF TokenInv, RedeemInv, Untouched
<1>9. SpentOld'
  BY <1>1 DEF TokenInv, SpentOld
<1>10. QED
  BY <1>5, <1>6, <1>7, <1>8, <1>9

LEMMA TokenStep ==
  ASSUME TokenInv, LocalStore, [Next]_vars
  PROVE  TokenInv'
<1> DEFINE Parts == StoreInv /\ WriteInv /\ SentInv /\ RedeemInv /\ SpentOld
<1>1. TypeInv' /\ RunnerInv'
  BY TypeStep, RunnerStep DEF TokenInv
<1>2. Calm => Parts'
  BY CalmKeeps
<1>3. ASSUME NEW w \in writes, WriteLands(w) PROVE Parts'
  BY <1>3, WriteLandsTokens
<1>4. ASSUME NEW r \in Requests,
             \/ RefreshSend(r) \/ ServerRefresh(r) \/ RefreshReceive(r) \/ RedeemReceive(r)
             \/ \E x \in Sids : ServerRedeem(r, x)
      PROVE  Parts'
  <2> HIDE DEF Parts
  <2>1. CASE \E x \in Sids : ServerRedeem(r, x)
    BY <2>1, ServerRedeemTokens DEF Parts
  <2>2. CASE RefreshSend(r) \/ ServerRefresh(r)
    BY <2>2, RefreshSendTokens, ServerRefreshTokens DEF Parts
  <2>3. CASE RefreshReceive(r) \/ RedeemReceive(r)
    BY <2>3, RefreshReceiveTokens, RedeemReceiveTokens DEF Parts
  <2>4. QED
    BY <1>4, <2>1, <2>2, <2>3
<1>5. ASSUME NEW r \in Requests,
             \/ CheckRead(r) \/ RefreshFails(r) \/ RefreshSettles(r)
             \/ RedeemFails(r) \/ IndexSession(r)
             \/ \E s \in SessionIds : Refresh(r, s)
      PROVE  Calm
  BY <1>5, CheckReadCalm, RefreshFailsCalm, RefreshSettlesCalm, RedeemFailsCalm, IndexSessionCalm,
     RefreshCalm DEF TokenInv
<1>6. Quiet => Calm
  BY QuietCalm DEF TokenInv
<1>7. Parts'
  <2> HIDE DEF Parts
  <2>1. CASE Quiet
    BY <1>2, <1>6, <2>1
  <2>2. CASE ~Quiet
    BY <1>2, <1>3, <1>4, <1>5, <2>2, QuietSteps DEF TokenInv
  <2>3. QED
    BY <2>1, <2>2
<1>8. QED
  BY <1>1, <1>7 DEF TokenInv

\* Where a session write lands before its request goes on, no request sends a refresh token the
\* process has received a replacement for: one request refreshes a session at a time, and the next
\* one reads the session only when the answer to the last is stored.
THEOREM ReplacedTokenNotSent ==
  ASSUME LocalStore
  PROVE  Spec => []SpentNeverSent
<1>1. Init => TokenInv
  <2> SUFFICES ASSUME Init PROVE TokenInv
    OBVIOUS
  <2>1. TypeInv
    BY InitType
  <2>2. /\ writes = {} /\ spent = {} /\ \A r \in Requests : req[r].pc = "idle"
        /\ \A s \in SessionIds : store[s].token = NoToken
    BY DEF Init, Idle, NoSession
  <2>3. QED
    BY <2>1, <2>2 DEF TokenInv, RunnerInv, StoreInv, WriteInv, SentInv, RedeemInv, SpentOld,
       Refreshing, Sent, Owned
<1>2. TokenInv /\ [Next]_vars => TokenInv'
  BY TokenStep
<1>3. TokenInv => SpentNeverSent
  BY DEF TokenInv, SentInv, Sending, Sent, SpentNeverSent
<1>4. QED
  BY <1>1, <1>2, <1>3, PTL DEF Spec

=============================================================================
