--------------------------- MODULE NodeLogout_proofs --------------------------
(***************************************************************************)
(* What a back-channel logout of NodeSession ends, for every number of     *)
(* requests, sessions and logins and any store: all it found, as long as   *)
(* no read of the index failed (NamedAreEnded); no session it compared     *)
(* that is not the one named (OthersAreLeft); and, where every sign-in has *)
(* a session id of its own, no user who signed in again (NewcomersStay).   *)
(***************************************************************************)
EXTENDS NodeSession_proofs

Issued == 1..Len(logins)

\* A handler has compared the session it works on with the logout token, and is to end it.
Compared(e) ==
  \/ e.pc = "forget" /\ e.op = "logout"
  \/ e.pc = "lo_clear"
  \/ e.pc \in Indexing /\ e.then = "lo_clear"

\* A handler is between two sessions.
Looping(e) == e.pc = "lo_next" \/ (e.pc \in Indexing /\ e.then = "lo_next")

Handles(e) == Compared(e) \/ Looping(e)

\* The sessions a handler has yet to end.
Left(e) == e.todo \cup IF Compared(e) THEN {e.session} ELSE {}

\* A request is at work on adding its session to the index.
Adding(e) == e.pc \in Indexing /\ e.then = "idle"

-----------------------------------------------------------------------------
(* What a step does to a request *)

\* It goes on with its logout token, and to the end of a session only where it had compared it.
Carries(e, f) ==
  /\ Compared(f) => Compared(e) /\ f.snap = e.snap /\ f.session = e.session
  /\ Looping(f) => Looping(e)
  /\ Handles(f) => f.op = e.op /\ f.note = e.note /\ f.todo = e.todo /\ f.named = e.named

\* It goes on with what it read of the index, and with the session it adds.
Enters(e, f) ==
  /\ f.entry \subseteq e.entry
  /\ Adding(f) => Adding(e) /\ f.session = e.session /\ f.began = e.began

Goes(e, f) == Carries(e, f) /\ Enters(e, f)

\* It is in neither.
Bare(e, f) == ~Handles(f) /\ ~Adding(f) /\ f.entry \subseteq e.entry

LEMMA BareGoes == ASSUME NEW e, NEW f, Bare(e, f) PROVE Goes(e, f)
BY DEF Bare, Goes, Carries, Enters, Handles

LEMMA StayGoes == ASSUME NEW e PROVE Goes(e, e)
BY DEF Goes, Carries, Enters

\* Labels outside of the index and of the logout handler.
Elsewhere == Labels \ (Indexing \cup LoggingOut \cup {"forget"})

LEMMA ElsewhereBare ==
  ASSUME NEW e, NEW f, f.pc \in Elsewhere, f.entry \subseteq e.entry
  PROVE  Bare(e, f)
BY DEF Elsewhere, Bare, Handles, Compared, Looping, Adding, LoggingOut

LEMMA ElsewhereLabels ==
  {"idle", "ck_read", "ck_forget", "ck_remove", "join", "rf_read", "rf_sent", "rf_reply", "rf_store",
   "rf_failed", "redeem", "rd_reply", "rd_store", "rv_send", "rv_sent", "cl_clear"} \subseteq Elsewhere
BY DEF Elsewhere, Labels, Indexing, LoggingOut

LEMMA IdleBare == ASSUME NEW e PROVE Bare(e, Idle)
<1>1. Idle.pc = "idle" /\ Idle.entry = {}
  BY DEF Idle
<1> QED
  BY <1>1, ElsewhereBare, ElsewhereLabels

\* The rewriting of index entries keeps to its request, and to what it goes on to.
Same(e, f) ==
  /\ f.op = e.op /\ f.note = e.note /\ f.todo = e.todo /\ f.named = e.named
  /\ f.session = e.session /\ f.snap = e.snap /\ f.began = e.began

LEMMA RewriteFacts ==
  ASSUME NEW e \in Locals, NEW ks, NEW back \in Continuations, NEW f, f = Rewrite(e, ks, back)
  PROVE  /\ f.entry \subseteq e.entry
         /\ Looping(f) => back = "lo_next"
         /\ Compared(f) => back = "lo_clear"
         /\ Adding(f) => back = "idle" /\ ks # <<>>
         /\ Handles(f) \/ Adding(f) => Same(e, f)
<1> DEFINE g == [e EXCEPT !.then = back]
           h == [g EXCEPT !.pc = g.then, !.keys = <<>>, !.entry = {}]
           k == [e EXCEPT !.keys = ks, !.then = back, !.pc = "ix_read"]
<1>1. g.then = back
  BY DEF Locals
<1>2. CASE ks = <<>> /\ back = "idle"
  <2>1. f = Idle
    BY <1>1, <1>2 DEF Rewrite, Proceed
  <2> QED
    BY <2>1, IdleBare DEF Bare, Handles
<1>3. CASE ks = <<>> /\ back # "idle"
  <2>1. f = h
    BY <1>1, <1>3 DEF Rewrite, Proceed
  <2>2. h.pc = back /\ h.entry = {} /\ Same(e, h)
    BY <1>1 DEF Locals, Same
  <2>3. back \notin Indexing \cup {"forget"}
    BY DEF Continuations, Indexing
  <2> HIDE DEF g, h, k
  <2>4. f.pc = back /\ f.entry = {} /\ Same(e, f) /\ f.pc \notin Indexing /\ f.pc # "forget"
    BY <2>1, <2>2, <2>3
  <2>5. ~Adding(f) /\ (Looping(f) => back = "lo_next") /\ (Compared(f) => back = "lo_clear")
    BY <2>4 DEF Compared, Looping, Adding
  <2> QED
    BY <2>4, <2>5
<1>4. CASE ks # <<>>
  <2>1. f = k
    BY <1>4 DEF Rewrite
  <2>2. k.pc = "ix_read" /\ k.then = back /\ k.entry = e.entry /\ Same(e, k)
    BY DEF Locals, Same
  <2> HIDE DEF g, h, k
  <2>3. f.pc = "ix_read" /\ f.then = back /\ f.entry = e.entry /\ Same(e, f)
    BY <2>1, <2>2
  <2>4. /\ Looping(f) => back = "lo_next"
        /\ Compared(f) => back = "lo_clear"
        /\ Adding(f) => back = "idle"
    BY <2>3 DEF Compared, Looping, Adding
  <2> QED
    BY <1>4, <2>3, <2>4
<1> QED
  BY <1>2, <1>3, <1>4

LEMMA RewriteBare ==
  ASSUME NEW e \in Locals, NEW ks, NEW back \in {"ck_remove", "rv_send", "cl_clear"}
  PROVE  Bare(e, Rewrite(e, ks, back))
<1>1. back \in Continuations /\ back \notin {"lo_next", "lo_clear", "idle"}
  BY DEF Continuations
<1> QED
  BY <1>1, RewriteFacts DEF Bare, Handles

LEMMA NextKeyGoes ==
  ASSUME NEW e \in Locals, e.then \in Continuations, e.pc \in Indexing
  PROVE  Goes(e, NextKey(e))
<1> DEFINE g == [e EXCEPT !.entry = {}]
           f == NextKey(e)
<1>1. g \in Locals /\ g.entry = {} /\ Same(e, g)
  BY DEF Locals, Same
<1>2. f = Rewrite(g, Tail(e.keys), e.then)
  BY DEF NextKey
<1> HIDE DEF g, f
<1>3. /\ f.entry = {}
      /\ Looping(f) => e.then = "lo_next"
      /\ Compared(f) => e.then = "lo_clear"
      /\ Adding(f) => e.then = "idle"
      /\ Handles(f) \/ Adding(f) => Same(e, f)
  BY <1>1, <1>2, RewriteFacts DEF Same
<1>4. (Looping(f) => Looping(e)) /\ (Compared(f) => Compared(e)) /\ (Adding(f) => Adding(e))
  BY <1>3 DEF Compared, Looping, Adding
<1>5. Carries(e, f)
  BY <1>3, <1>4 DEF Carries, Same, Handles
<1>6. Enters(e, f)
  BY <1>3, <1>4 DEF Enters, Same
<1> QED
  BY <1>5, <1>6 DEF Goes, f

LEMMA AnswerBare ==
  ASSUME NEW e \in Locals, NEW b \in BOOLEAN
  PROVE  Bare(e, Answer(e, b))
<1> DEFINE g == [e EXCEPT !.pc = "redeem", !.snap = NoSession]
<1>1. g.pc = "redeem" /\ g.entry = e.entry
  BY DEF Locals
<1>2. Answer(e, b) \in {g, Idle}
  BY DEF Answer
<1> HIDE DEF g
<1> QED
  BY <1>1, <1>2, IdleBare, ElsewhereBare, ElsewhereLabels

LEMMA OutcomeBare ==
  ASSUME NEW e \in Locals, NEW b \in BOOLEAN
  PROVE  Bare(e, Outcome(e, b))
<1> DEFINE g == [e EXCEPT !.pc = "ck_forget", !.sent = NoToken, !.reply = NoToken]
<1>1. g.pc = "ck_forget" /\ g.entry = e.entry
  BY DEF Locals
<1>2. Outcome(e, b) \in {g, Idle, Answer(e, TRUE)}
  BY DEF Outcome
<1> HIDE DEF g
<1> QED
  BY <1>1, <1>2, IdleBare, AnswerBare, ElsewhereBare, ElsewhereLabels

-----------------------------------------------------------------------------
(* The steps by which every request goes on so *)

Going == \A q \in Requests : Goes(req[q], req'[q])

LEMMA Replaced ==
  ASSUME TypeInv, NEW r \in Requests, NEW f, Goes(req[r], f), req' = [req EXCEPT ![r] = f]
  PROVE  Going
BY StayGoes DEF Going, TypeInv, TypeOK

LEMMA ReplacedBare ==
  ASSUME TypeInv, NEW r \in Requests, NEW f, Bare(req[r], f), req' = [req EXCEPT ![r] = f]
  PROVE  Going
BY BareGoes, Replaced

LEMMA CheckGoes ==
  ASSUME TypeInv, NEW r \in Requests, NEW s \in SessionIds, NEW o \in Operations, Check(r, s, o)
  PROVE  Going
<1> DEFINE e == [Idle EXCEPT !.op = o, !.session = s]
           f == [e EXCEPT !.pc = "ck_read"]
<1>1. e \in Locals /\ e.entry = {}
  BY IdleProper, RequestFacts, ConstantsAssumption DEF Proper, Locals, Idle
<1>2. f.pc = "ck_read" /\ f.entry = {}
  BY <1>1 DEF Locals
<1>3. Bare(e, Answer(e, FALSE)) /\ Bare(e, Answer(e, TRUE))
  BY <1>1, AnswerBare
<1>4. \/ req' = [req EXCEPT ![r] = Answer(e, FALSE)]
      \/ req' = [req EXCEPT ![r] = Answer(e, TRUE)]
      \/ req' = [req EXCEPT ![r] = f]
  <2>1. CASE store[s] = NoSession
    <3>1. ~store[s].fresh
      BY <2>1 DEF NoSession
    <3> QED
      BY <2>1, <3>1 DEF Check
  <2>2. CASE store[s] # NoSession /\ store[s].fresh
    BY <2>2 DEF Check
  <2>3. CASE store[s] # NoSession /\ ~store[s].fresh
    BY <2>3 DEF Check
  <2> QED
    BY <2>1, <2>2, <2>3
<1> HIDE DEF e, f
<1>5. Bare(req[r], f)
  BY <1>2, ElsewhereBare, ElsewhereLabels
<1>6. Bare(req[r], Answer(e, FALSE)) /\ Bare(req[r], Answer(e, TRUE))
  BY <1>1, <1>3 DEF Bare
<1> QED
  BY <1>4, <1>5, <1>6, ReplacedBare

LEMMA BeginGoes ==
  ASSUME TypeInv, NEW r \in Requests, NEW o, NEW s, NEW l, Begin(r, o, s, l),
         o # "logout", l \in Elsewhere \cup {"forget"}
  PROVE  Going
<1> DEFINE f == [Idle EXCEPT !.op = o, !.session = s, !.pc = l]
<1>1. f.pc = l /\ f.op = o /\ f.entry = {} /\ req' = [req EXCEPT ![r] = f]
  BY DEF Begin, Idle
<1> HIDE DEF f
<1>2. Bare(req[r], f)
  BY <1>1 DEF Elsewhere, Bare, Handles, Compared, Looping, Adding, LoggingOut, Indexing
<1> QED
  BY <1>1, <1>2, ReplacedBare

LEMMA BeginningGoes ==
  ASSUME TypeInv, NEW r \in Requests, NEW s \in SessionIds,
         SwitchCallback(r, s) \/ Refresh(r, s) \/ Revoke(r, s) \/ Clear(r, s)
  PROVE  Going
<1>1. {"redeem", "join", "rf_read"} \subseteq Elsewhere
  BY ElsewhereLabels
<1> QED
  BY <1>1, BeginGoes DEF SwitchCallback, Refresh, Revoke, Clear

LEMMA CheckReadGoes ==
  ASSUME TypeInv, NEW r \in Requests, CheckRead(r)
  PROVE  Going
<1> DEFINE e == [req[r] EXCEPT !.snap = store[req[r].session]]
           at(l) == [e EXCEPT !.pc = l]
<1>1. req[r] \in Locals /\ req[r].session \in SessionIds
  BY RequestFacts DEF CheckRead, At, Proper
<1>2. e \in Locals /\ e.entry = req[r].entry
  BY <1>1 DEF Locals, TypeInv, TypeOK
<1>3. \A l : at(l).pc = l /\ at(l).entry = req[r].entry
  BY <1>2 DEF Locals
<1>4. \/ req' = [req EXCEPT ![r] = Answer(e, FALSE)]
      \/ \E l \in {"ck_forget", "join", "rf_read"} : req' = [req EXCEPT ![r] = at(l)]
  <2> DEFINE s == req[r].session
  <2>1. CASE store[s] = NoSession
    <3>1. ~Refreshable(s)
      BY <2>1 DEF NoSession, Refreshable
    <3> QED
      BY <2>1, <3>1 DEF CheckRead
  <2>2. CASE store[s] # NoSession /\ ~Refreshable(s)
    BY <2>2 DEF CheckRead
  <2>3. CASE store[s] # NoSession /\ Refreshable(s) /\ Awaited(s)
    BY <2>3 DEF CheckRead
  <2>4. CASE store[s] # NoSession /\ Refreshable(s) /\ ~Awaited(s)
    BY <2>4 DEF CheckRead
  <2> QED
    BY <2>1, <2>2, <2>3, <2>4
<1>5. Bare(e, Answer(e, FALSE))
  BY <1>2, AnswerBare
<1> HIDE DEF e, at
<1>6. Bare(req[r], Answer(e, FALSE))
  BY <1>2, <1>5 DEF Bare
<1>7. \A l \in {"ck_forget", "join", "rf_read"} : Bare(req[r], at(l))
  BY <1>3, ElsewhereBare, ElsewhereLabels
<1> QED
  BY <1>4, <1>6, <1>7, ReplacedBare

LEMMA CheckEndsGoes ==
  ASSUME TypeInv, NEW r \in Requests, CheckForget(r) \/ CheckRemove(r)
  PROVE  Going
<1>1. req[r] \in Locals
  BY RequestFacts
<1>2. CASE CheckForget(r)
  BY <1>1, <1>2, RewriteBare, ReplacedBare DEF CheckForget
<1>3. CASE CheckRemove(r)
  BY <1>1, <1>3, AnswerBare, ReplacedBare DEF CheckRemove
<1> QED
  BY <1>2, <1>3

\* A step of one request to a label outside of the index and of the logout handler.
LEMMA PlainGoes ==
  ASSUME TypeInv, NEW r \in Requests, NEW f, req' = [req EXCEPT ![r] = f],
         f.pc \in Elsewhere, f.entry = req[r].entry
  PROVE  Going
BY ElsewhereBare, ReplacedBare

LEMMA LabelGoes ==
  ASSUME TypeInv, NEW r \in Requests, NEW l \in Elsewhere, Goto(r, l)
  PROVE  Going
<1>1. [req[r] EXCEPT !.pc = l].pc = l /\ [req[r] EXCEPT !.pc = l].entry = req[r].entry
  BY RequestFacts DEF Locals
<1> QED
  BY <1>1, PlainGoes DEF Goto

LEMMA ReturnGoes ==
  ASSUME TypeInv, NEW r \in Requests, Return(r)
  PROVE  Going
BY IdleBare, ReplacedBare DEF Return

LEMMA RefreshingGoes ==
  ASSUME TypeInv, NEW r \in Requests,
         RefreshSend(r) \/ ServerRefresh(r) \/ RefreshFails(r) \/ RefreshReceive(r)
  PROVE  Going
<1>1. req[r] \in Locals
  BY RequestFacts
<1>2. CASE RefreshSend(r)
  <2> DEFINE t == store[req[r].session].token
             f == [req[r] EXCEPT !.sent = t, !.pc = IF t = NoToken THEN "rf_failed" ELSE "rf_sent"]
  <2>1. req' = [req EXCEPT ![r] = f]
    BY <1>2 DEF RefreshSend
  <2>2. f.pc \in {"rf_failed", "rf_sent"} /\ f.entry = req[r].entry
    BY <1>1 DEF Locals
  <2> HIDE DEF f
  <2> QED
    BY <2>1, <2>2, PlainGoes, ElsewhereLabels
<1>3. CASE ServerRefresh(r)
  <2>1. PICK u : req' = [req EXCEPT ![r] = [req[r] EXCEPT !.pc = "rf_reply", !.reply = u]]
    BY <1>3 DEF ServerRefresh
  <2> DEFINE f == [req[r] EXCEPT !.pc = "rf_reply", !.reply = u]
  <2>2. f.pc = "rf_reply" /\ f.entry = req[r].entry
    BY <1>1 DEF Locals
  <2> HIDE DEF f
  <2> QED
    BY <2>1, <2>2, PlainGoes, ElsewhereLabels DEF f
<1>4. CASE RefreshFails(r) \/ RefreshReceive(r)
  BY <1>4, LabelGoes, ElsewhereLabels DEF RefreshFails, RefreshReceive
<1> QED
  BY <1>2, <1>3, <1>4

LEMMA RefreshSettlesGoes ==
  ASSUME TypeInv, NEW r \in Requests, RefreshSettles(r)
  PROVE  Going
<1> SUFFICES ASSUME NEW q \in Requests PROVE Goes(req[q], req'[q])
  BY DEF Going
<1>1. req[q] \in Locals /\ At(r, "rf_store") \in BOOLEAN
  BY RequestFacts DEF At
<1>2. req'[q] \in {req[q], Outcome(req[q], At(r, "rf_store"))}
  BY DEF RefreshSettles
<1> QED
  BY <1>1, <1>2, OutcomeBare, BareGoes, StayGoes

LEMMA SignInGoes ==
  ASSUME TypeInv, NEW r \in Requests,
         (\E x \in Sids : ServerRedeem(r, x)) \/ RedeemFails(r) \/ RedeemReceive(r)
  PROVE  Going
<1>1. req[r] \in Locals
  BY RequestFacts
<1>2. ASSUME NEW x \in Sids, ServerRedeem(r, x) PROVE Going
  <2> DEFINE f == [req[r] EXCEPT !.pc = "rd_reply", !.login = Len(logins) + 1]
  <2>1. req' = [req EXCEPT ![r] = f] /\ f.pc = "rd_reply" /\ f.entry = req[r].entry
    BY <1>1, <1>2 DEF ServerRedeem, Locals
  <2> HIDE DEF f
  <2> QED
    BY <2>1, PlainGoes, ElsewhereLabels
<1>3. CASE RedeemFails(r)
  BY <1>3, ReturnGoes DEF RedeemFails
<1>4. CASE RedeemReceive(r)
  BY <1>4, LabelGoes, ElsewhereLabels DEF RedeemReceive
<1> QED
  BY <1>2, <1>3, <1>4

LEMMA EndingGoes ==
  ASSUME TypeInv, NEW r \in Requests,
         RevokeSend(r) \/ RevokeFails(r) \/ ClearRemove(r) \/ LogoutDone(r)
  PROVE  Going
BY LabelGoes, ReturnGoes, ElsewhereLabels DEF RevokeSend, RevokeFails, ClearRemove, LogoutDone

\* Forgetting a session's index entries leads on to what ends that session.
LEMMA ForgetsGoes ==
  ASSUME TypeInv, NEW r \in Requests, At(r, "forget"), NEW ks,
         req' = [req EXCEPT ![r] = Rewrite(req[r], ks, AfterForget(req[r].op))]
  PROVE  Going
<1> DEFINE e == req[r]
           back == AfterForget(e.op)
           f == Rewrite(e, ks, back)
<1>1. e \in Locals /\ back \in Continuations \ {"idle", "lo_next"}
  BY RequestFacts DEF AfterForget, Continuations
<1>2. back = "lo_clear" => e.op = "logout"
  BY DEF AfterForget
<1> HIDE DEF back
<1>3. /\ f.entry \subseteq e.entry
      /\ ~Looping(f) /\ ~Adding(f)
      /\ Compared(f) => back = "lo_clear"
      /\ Handles(f) => Same(e, f)
  BY <1>1, RewriteFacts
<1>4. Compared(f) => Compared(e)
  BY <1>2, <1>3 DEF Compared, At
<1> HIDE DEF f
<1>5. Goes(e, f)
  BY <1>3, <1>4 DEF Goes, Carries, Enters, Handles, Same
<1> QED
  BY <1>5, Replaced DEF f, back

LEMMA ForgetGoes ==
  ASSUME TypeInv, NEW r \in Requests, Forget(r)
  PROVE  Going
BY ForgetsGoes DEF Forget

LEMMA IndexGoes ==
  ASSUME TypeInv, NEW r \in Requests, IndexRemove(r) \/ IndexSet(r)
  PROVE  Going
<1> DEFINE e == req[r]
           set == [e EXCEPT !.pc = "ix_set"]
<1>1. e \in Locals /\ e.then \in Continuations /\ e.pc \in Indexing
  BY RequestFacts DEF Proper, IndexRemove, IndexSet, At, Indexing
<1>2. Goes(e, NextKey(e))
  BY <1>1, NextKeyGoes
<1>3. set.pc = "ix_set" /\ set.then = e.then /\ set.entry = e.entry /\ Same(e, set)
  BY <1>1 DEF Locals, Same
<1>4. req' \in {[req EXCEPT ![r] = NextKey(e)], [req EXCEPT ![r] = set]}
  BY DEF IndexRemove, IndexSet
<1> HIDE DEF set
<1>5. Goes(e, set)
  BY <1>1, <1>3 DEF Same, Goes, Carries, Enters, Handles, Compared, Looping, Adding, Indexing
<1> QED
  BY <1>2, <1>4, <1>5, Replaced

LEMMA StoreFailsGoes ==
  ASSUME TypeInv, NEW r \in Requests, StoreFails(r)
  PROVE  Going
<1> DEFINE e == req[r]
<1>1. e \in Locals /\ e.then \in Continuations
  BY RequestFacts DEF Proper
<1>2. CASE At(r, "forget") /\ req' = [req EXCEPT ![r] = Rewrite(e, <<>>, AfterForget(e.op))]
  BY <1>2, ForgetsGoes
<1>3. CASE /\ At(r, "ix_remove")
           /\ req' = [req EXCEPT ![r] = IF e.then = "lo_next" THEN Idle ELSE Proceed(e)]
  <2> DEFINE h == [e EXCEPT !.pc = e.then, !.keys = <<>>, !.entry = {}]
  <2>1. h.pc = e.then /\ h.entry = {} /\ Same(e, h)
    BY <1>1 DEF Locals, Same
  <2>2. e.pc \in Indexing /\ h.pc \notin Indexing \cup {"forget"}
    BY <1>1, <1>3, <2>1 DEF At, Indexing, Continuations
  <2>3. req' \in {[req EXCEPT ![r] = Idle], [req EXCEPT ![r] = h]}
    BY <1>3 DEF Proceed
  <2> HIDE DEF h
  <2>4. Goes(e, h)
    BY <2>1, <2>2 DEF Same, Goes, Carries, Enters, Handles, Compared, Looping, Adding
  <2> QED
    BY <2>3, <2>4, Replaced, ReplacedBare, IdleBare
<1>4. CASE req' = [req EXCEPT ![r] = Answer(e, FALSE)]
  BY <1>1, <1>4, AnswerBare, ReplacedBare
<1>5. CASE Return(r)
  BY <1>5, ReturnGoes
<1> QED
  BY <1>2, <1>3, <1>4, <1>5 DEF StoreFails

\* A logout handler looks its sessions up in the entry of its token's key, or finds none when the
\* read fails.
Finds(r) ==
  \E j \in DOMAIN notices : \E entry \in {{}, index[notices[j].key]} :
    Find(r, j, entry) /\ (entry = index[notices[j].key] \/ readFaults' = readFaults + 1)

\* The steps of a request by which it takes up a logout token, a session or an index entry.
Takes(r) ==
  \/ Finds(r)
  \/ \E s \in SessionIds : LogoutNext(r, s)
  \/ LogoutClear(r) \/ IndexSession(r) \/ IndexRead(r)
  \/ IndexReadFails(r) /\ At(r, "ix_read")

LEMMA GoingStep ==
  ASSUME TypeInv, [Next]_vars, \A r \in Requests : ~Takes(r)
  PROVE  Going
<1>1. ASSUME NEW r \in Requests, Call(r) PROVE Going
  BY <1>1, CheckGoes, BeginningGoes DEF Call
<1>2. ASSUME NEW r \in Requests, Step(r) PROVE Going
  <2>1. CASE CheckRead(r) \/ CheckForget(r) \/ CheckRemove(r)
    BY <2>1, CheckReadGoes, CheckEndsGoes
  <2>2. CASE RefreshSend(r) \/ RefreshReceive(r) \/ RefreshSettles(r)
    BY <2>2, RefreshingGoes, RefreshSettlesGoes
  <2>3. CASE RedeemReceive(r) \/ RevokeSend(r) \/ ClearRemove(r) \/ LogoutDone(r)
    BY <2>3, SignInGoes, EndingGoes
  <2>4. CASE Forget(r) \/ IndexRemove(r) \/ IndexSet(r)
    BY <2>4, ForgetGoes, IndexGoes
  <2> QED
    BY <1>2, <2>1, <2>2, <2>3, <2>4 DEF Step, Takes
<1>3. ASSUME NEW r \in Requests, Reply(r) PROVE Going
  BY <1>3, RefreshingGoes, SignInGoes, EndingGoes DEF Reply
<1>4. ASSUME NEW r \in Requests, StoreFails(r) PROVE Going
  BY <1>4, StoreFailsGoes
<1>5. CASE UNCHANGED req
  BY <1>5, StayGoes DEF Going
<1>6. Environment => UNCHANGED req
  BY DEF Environment, WriteLands, Expire, ServerLogout, Tick
<1>7. ASSUME NEW r \in Requests,
             (\E j \in DOMAIN notices : LogoutFind(r, j)) \/ (IndexReadFails(r) /\ ~At(r, "ix_read"))
      PROVE  Finds(r)
  BY <1>7 DEF LogoutFind, IndexReadFails, Finds
<1> QED
  BY <1>1, <1>2, <1>3, <1>4, <1>5, <1>6, <1>7 DEF Next, Takes, vars

-----------------------------------------------------------------------------
(* The steps that take something up *)

LEMMA OneTakes ==
  ASSUME TypeInv, NEW r \in Requests, Takes(r)
  PROVE  \A q \in Requests \ {r} : req'[q] = req[q]
<1> SUFFICES ASSUME NEW q \in Requests \ {r} PROVE req'[q] = req[q]
  OBVIOUS
<1>1. \A f : req' = [req EXCEPT ![r] = f] => req'[q] = req[q]
  BY DEF TypeInv, TypeOK
<1>2. CASE Finds(r)
  BY <1>1, <1>2 DEF Finds, Find
<1>3. CASE \E s \in SessionIds : LogoutNext(r, s)
  BY <1>1, <1>3 DEF LogoutNext
<1>4. CASE LogoutClear(r)
  BY <1>1, <1>4 DEF LogoutClear
<1>5. CASE IndexSession(r)
  BY <1>1, <1>5 DEF IndexSession
<1>6. CASE IndexRead(r)
  BY <1>1, <1>6 DEF IndexRead
<1>7. CASE IndexReadFails(r) /\ At(r, "ix_read")
  BY <1>1, <1>7 DEF IndexReadFails, Find, At
<1> QED
  BY <1>2, <1>3, <1>4, <1>5, <1>6, <1>7 DEF Takes

\* Who works on a logout token is its handler.
HandlesInv == \A r \in Requests : Handles(req[r]) => req[r].op = "logout"

\* The sessions held under the token's key that the token names.
HeldFor(n) == {s \in Names(n, index[n.key]) : store[s].login # 0 /\ ~Mismatch(store[s], n)}

LEMMA FindFacts ==
  ASSUME TypeInv, NEW r \in Requests, NEW j, NEW entry, Find(r, j, entry)
  PROVE  /\ req[r].pc = "idle" /\ req'[r].pc = "lo_next" /\ req'[r].op = "logout" /\ req'[r].note = j
         /\ req'[r].todo = Names(notices[j], entry)
         /\ req'[r].named = {store[s].login : s \in HeldFor(notices[j])}
         /\ req'[r].entry = {} /\ j \in 1..Len(notices)
<1> DEFINE n == notices[j]
           f == [Idle EXCEPT !.op = "logout", !.note = j, !.pc = "lo_next", !.todo = Names(n, entry),
                             !.named = {store[s].login : s \in HeldFor(n)}]
<1>1. req' = [req EXCEPT ![r] = f] /\ j \in DOMAIN notices
  BY DEF Find, HeldFor
<1>2. req'[r] = f
  BY <1>1 DEF TypeInv, TypeOK
<1>3. j \in 1..Len(notices)
  BY <1>1 DEF TypeInv, TypeOK
<1>4. /\ f.pc = "lo_next" /\ f.op = "logout" /\ f.note = j /\ f.todo = Names(n, entry) /\ f.entry = {}
      /\ f.named = {store[s].login : s \in HeldFor(n)}
  BY DEF Idle
<1> HIDE DEF f
<1>5. req[r].pc = "idle"
  BY DEF Find, At
<1> QED
  BY <1>2, <1>3, <1>4, <1>5

LEMMA NextFacts ==
  ASSUME TypeInv, HandlesInv, NEW r \in Requests, NEW s \in SessionIds, LogoutNext(r, s)
  PROVE  /\ req[r].pc = "lo_next" /\ req[r].op = "logout" /\ req[r].note \in 1..Len(notices)
         /\ s \in req[r].todo
         /\ req'[r].entry \subseteq req[r].entry /\ ~Adding(req'[r])
         /\ Mismatch(store[s], notices[req[r].note]) => Looping(req'[r]) /\ ~Compared(req'[r])
         /\ ~Mismatch(store[s], notices[req[r].note]) =>
              /\ Compared(req'[r]) /\ ~Looping(req'[r])
              /\ req'[r].session = s /\ req'[r].snap = store[s]
         /\ req'[r].op = req[r].op /\ req'[r].note = req[r].note /\ req'[r].named = req[r].named
         /\ req'[r].todo = req[r].todo \ {s}
<1> DEFINE n == notices[req[r].note]
           e == [req[r] EXCEPT !.todo = @ \ {s}, !.session = s]
           f == Rewrite(e, NoticeKeys(n), "lo_next")
           g == [e EXCEPT !.snap = store[s], !.pc = "forget"]
<1>1. /\ req[r] \in Locals /\ req[r].pc = "lo_next" /\ s \in req[r].todo
      /\ req[r].note \in 1..Len(notices) /\ req[r].op = "logout"
  BY RequestFacts DEF LogoutNext, At, Proper, LoggingOut, HandlesInv, Handles, Looping
<1>2. req'[r] = IF Mismatch(store[s], n) THEN f ELSE g
  BY DEF LogoutNext, TypeInv, TypeOK
<1>3. /\ e \in Locals /\ e.entry = req[r].entry /\ e.op = req[r].op /\ e.note = req[r].note
      /\ e.named = req[r].named /\ e.todo = req[r].todo \ {s} /\ e.session = s
  BY <1>1 DEF Locals
<1>4. CASE Mismatch(store[s], n)
  <2>1. f.entry \subseteq e.entry /\ ~Compared(f) /\ ~Adding(f) /\ (Handles(f) => Same(e, f))
    <3>1. "lo_next" \in Continuations /\ "lo_next" \notin {"idle", "lo_clear"}
      BY DEF Continuations
    <3> HIDE DEF e, f, n
    <3> QED
      BY <1>3, <3>1, RewriteFacts DEF f
  <2>2. Looping(f)
    <3> DEFINE h == [e EXCEPT !.then = "lo_next"]
    <3>1. [h EXCEPT !.pc = h.then, !.keys = <<>>, !.entry = {}].pc = "lo_next"
      BY <1>3 DEF Locals
    <3>2. [e EXCEPT !.keys = NoticeKeys(n), !.then = "lo_next", !.pc = "ix_read"].pc = "ix_read"
      BY <1>3 DEF Locals
    <3>3. [e EXCEPT !.keys = NoticeKeys(n), !.then = "lo_next", !.pc = "ix_read"].then = "lo_next"
      BY <1>3 DEF Locals
    <3>4. h.then # "idle"
      BY <1>3 DEF Locals
    <3> HIDE DEF e
    <3> QED
      BY <3>1, <3>2, <3>3, <3>4 DEF Rewrite, Proceed, Looping, Indexing
  <2> HIDE DEF e, f, g, n
  <2> QED
    BY <1>1, <1>2, <1>3, <1>4, <2>1, <2>2 DEF Same, Handles, n
<1>5. CASE ~Mismatch(store[s], n)
  <2>1. /\ g.pc = "forget" /\ g.entry = e.entry /\ g.session = s /\ g.snap = store[s]
        /\ g.note = e.note /\ g.named = e.named /\ g.todo = e.todo /\ g.op = e.op
    BY <1>1, <1>3 DEF Locals
  <2> HIDE DEF e, f, g, n
  <2>2. ~Looping(g) /\ ~Adding(g)
    BY <2>1 DEF Looping, Adding, Indexing
  <2> QED
    BY <1>1, <1>2, <1>3, <1>5, <2>1, <2>2 DEF Compared, n
<1> QED
  BY <1>4, <1>5

LEMMA ClearFacts ==
  ASSUME TypeInv, HandlesInv, NEW r \in Requests, LogoutClear(r)
  PROVE  /\ req[r].pc = "lo_clear" /\ req[r].op = "logout" /\ req[r].note \in 1..Len(notices)
         /\ req[r].session \in SessionIds
         /\ req'[r].entry \subseteq req[r].entry /\ ~Adding(req'[r]) /\ ~Compared(req'[r])
         /\ Looping(req'[r])
         /\ req'[r].op = req[r].op /\ req'[r].note = req[r].note
         /\ req'[r].todo = req[r].todo /\ req'[r].named = req[r].named
<1> DEFINE own == BindingKeys(req[r].snap)
           ks == IF own = <<>> THEN NoticeKeys(notices[req[r].note]) ELSE own
           e == [req[r] EXCEPT !.snap = NoSession]
           f == Rewrite(e, ks, "lo_next")
           h == [e EXCEPT !.then = "lo_next"]
<1>1. /\ req[r] \in Locals /\ req[r].pc = "lo_clear" /\ req[r].session \in SessionIds
      /\ req[r].note \in 1..Len(notices) /\ req[r].op = "logout"
  BY RequestFacts DEF LogoutClear, At, Proper, LoggingOut, HandlesInv, Handles, Compared
<1>2. req'[r] = f
  BY DEF LogoutClear, TypeInv, TypeOK
<1>3. /\ e \in Locals /\ e.entry = req[r].entry /\ e.op = req[r].op /\ e.note = req[r].note
      /\ e.named = req[r].named /\ e.todo = req[r].todo
  BY <1>1 DEF Locals, Sessions, Tokens, NoSession, NoToken
<1>4. f.entry \subseteq e.entry /\ ~Compared(f) /\ ~Adding(f) /\ (Handles(f) => Same(e, f))
  <2>1. "lo_next" \in Continuations /\ "lo_next" \notin {"idle", "lo_clear"}
    BY DEF Continuations
  <2> HIDE DEF e, ks
  <2> QED
    BY <1>3, <2>1, RewriteFacts
<1>5. Looping(f)
  <2>1. [h EXCEPT !.pc = h.then, !.keys = <<>>, !.entry = {}].pc = "lo_next" /\ h.then # "idle"
    BY <1>3 DEF Locals
  <2>2. /\ [e EXCEPT !.keys = ks, !.then = "lo_next", !.pc = "ix_read"].pc = "ix_read"
        /\ [e EXCEPT !.keys = ks, !.then = "lo_next", !.pc = "ix_read"].then = "lo_next"
    BY <1>3 DEF Locals
  <2> HIDE DEF e, ks
  <2> QED
    BY <2>1, <2>2 DEF Rewrite, Proceed, Looping, Indexing
<1> HIDE DEF e, f
<1> QED
  BY <1>1, <1>2, <1>3, <1>4, <1>5 DEF Same, Handles

\* What indexSession goes on to adds the session it read, as one that begins now.
LEMMA AddFacts ==
  ASSUME TypeInv, NEW r \in Requests, IndexSession(r)
  PROVE  /\ req[r].session \in SessionIds /\ req'[r].entry \subseteq req[r].entry /\ ~Handles(req'[r])
         /\ Adding(req'[r]) => /\ req'[r].session = req[r].session /\ req'[r].began = now
                               /\ store[req[r].session].login # 0
<1> DEFINE s == req[r].session
           e == [req[r] EXCEPT !.began = now]
           ks == BindingKeys(store[s])
           f == Rewrite(e, ks, "idle")
<1>1. req[r] \in Locals /\ s \in SessionIds /\ now \in Nat
  BY RequestFacts DEF IndexSession, At, Proper, TypeInv, TypeOK
<1>2. e \in Locals /\ e.session = s /\ e.began = now /\ e.entry = req[r].entry
  BY <1>1 DEF Locals
<1>3. req'[r] = f
  BY <1>2 DEF IndexSession, TypeInv, TypeOK
<1>4. /\ f.entry \subseteq e.entry /\ ~Handles(f)
      /\ Adding(f) => ks # <<>> /\ Same(e, f)
  <2>1. "idle" \in Continuations /\ "idle" \notin {"lo_next", "lo_clear"}
    BY DEF Continuations
  <2> HIDE DEF e, ks
  <2> QED
    BY <1>2, <2>1, RewriteFacts DEF Handles
<1>5. ks # <<>> => store[s].login # 0
  BY DEF BindingKeys
<1> HIDE DEF e, f, ks
<1> QED
  BY <1>1, <1>2, <1>3, <1>4, <1>5 DEF Same

\* What a request reads of an index entry, and what it adds to it.
LEMMA ReadFacts ==
  ASSUME TypeInv, NEW r \in Requests, IndexRead(r) \/ (IndexReadFails(r) /\ At(r, "ix_read"))
  PROVE  /\ Carries(req[r], req'[r])
         /\ Adding(req'[r]) => /\ Adding(req[r])
                               /\ req'[r].session = req[r].session /\ req'[r].began = req[r].began
         /\ \A i \in req'[r].entry :
              \/ i \in index[Head(req[r].keys)]
              \/ Adding(req[r]) /\ i.session = req[r].session /\ i.startedAt = req[r].began
<1> DEFINE e == req[r]
           found == index[Head(e.keys)]
           at(x) == [e EXCEPT !.pc = "ix_remove", !.entry = x]
<1>1. e \in Locals /\ e.then \in Continuations /\ e.pc \in Indexing /\ e.pc # "idle" /\ e.pc = "ix_read"
  BY RequestFacts DEF IndexRead, At, Proper, Indexing
<1>2. /\ Goes(e, NextKey(e)) /\ NextKey(e).entry = {}
  <2> DEFINE g == [e EXCEPT !.entry = {}]
  <2>1. g \in Locals /\ g.entry = {}
    BY <1>1 DEF Locals
  <2>2. NextKey(e) = Rewrite(g, Tail(e.keys), e.then)
    BY DEF NextKey
  <2> HIDE DEF g
  <2> QED
    BY <1>1, <2>1, <2>2, NextKeyGoes, RewriteFacts
<1>3. ASSUME NEW x
      PROVE  at(x).pc = "ix_remove" /\ at(x).then = e.then /\ at(x).entry = x /\ Same(e, at(x))
  BY <1>1 DEF Locals, Same
<1>4. \/ req' = [req EXCEPT ![r] = NextKey(e)]
      \/ \E x : /\ req' = [req EXCEPT ![r] = at(x)]
                /\ \A i \in x : i \in found \/ (e.then = "idle" /\ i = Recorded(e))
  <2>1. CASE IndexRead(r)
    <3> DEFINE gone == Without(found, e.session)
               mine == Without(Live(found), e.session) \cup {Recorded(e)}
    <3>1. req' = [req EXCEPT ![r] = IF e.then = "idle" THEN at(mine)
                                    ELSE IF \E i \in found : i.session = e.session
                                    THEN at(gone) ELSE NextKey(e)]
      BY <2>1 DEF IndexRead
    <3>2. gone \subseteq found /\ \A i \in mine : i \in found \/ i = Recorded(e)
      BY DEF Without, Live
    <3> HIDE DEF at, found, gone, mine
    <3> QED
      BY <3>1, <3>2
  <2>2. CASE IndexReadFails(r)
    BY <1>1, <2>2 DEF IndexReadFails, Find, At
  <2> QED
    BY <2>1, <2>2
<1> HIDE DEF at, found
<1>5. CASE req' = [req EXCEPT ![r] = NextKey(e)]
  <2>1. req'[r] = NextKey(e)
    BY <1>5 DEF TypeInv, TypeOK
  <2> QED
    BY <1>2, <2>1 DEF Goes, Enters
<1>6. ASSUME NEW x, req' = [req EXCEPT ![r] = at(x)],
             \A i \in x : i \in found \/ (e.then = "idle" /\ i = Recorded(e))
      PROVE  /\ Carries(e, req'[r])
             /\ Adding(req'[r]) => /\ Adding(e) /\ req'[r].session = e.session /\ req'[r].began = e.began
             /\ \A i \in req'[r].entry :
                  i \in found \/ (Adding(e) /\ i.session = e.session /\ i.startedAt = e.began)
  <2>1. req'[r] = at(x)
    BY <1>6 DEF TypeInv, TypeOK
  <2>2. req'[r].pc = "ix_remove" /\ req'[r].then = e.then /\ req'[r].entry = x /\ Same(e, req'[r])
    BY <1>3, <2>1
  <2>3. Carries(e, req'[r])
    BY <1>1, <2>2 DEF Same, Carries, Handles, Compared, Looping, Indexing
  <2>4. Adding(req'[r]) => Adding(e)
    BY <1>1, <2>2 DEF Adding
  <2>5. \A i \in x : i \in found \/ (Adding(e) /\ i.session = e.session /\ i.startedAt = e.began)
    BY <1>1, <1>6 DEF Adding, Recorded
  <2> QED
    BY <2>2, <2>3, <2>4, <2>5 DEF Same
<1> QED
  BY <1>4, <1>5, <1>6 DEF found

LEMMA CarriesStep ==
  ASSUME TypeInv, [Next]_vars, NEW q \in Requests,
         ~LogoutClear(q), ~Finds(q), \A s \in SessionIds : ~LogoutNext(q, s)
  PROVE  Carries(req[q], req'[q])
<1>1. CASE IndexSession(q)
  BY <1>1, AddFacts DEF Carries, Handles
<1>2. CASE IndexRead(q) \/ (IndexReadFails(q) /\ At(q, "ix_read"))
  BY <1>2, ReadFacts
<1>3. CASE ~Takes(q)
  BY <1>3, OneTakes, GoingStep, StayGoes DEF Going, Goes
<1> QED
  BY <1>1, <1>2, <1>3 DEF Takes

LEMMA EntersStep ==
  ASSUME TypeInv, HandlesInv, [Next]_vars, NEW q \in Requests,
         ~IndexSession(q), ~IndexRead(q), ~(IndexReadFails(q) /\ At(q, "ix_read"))
  PROVE  Enters(req[q], req'[q])
<1>1. CASE LogoutClear(q)
  BY <1>1, ClearFacts DEF Enters
<1>2. CASE \E s \in SessionIds : LogoutNext(q, s)
  BY <1>2, NextFacts DEF Enters
<1>3. CASE Finds(q)
  BY <1>3, FindFacts DEF Finds, Enters, Adding, Indexing
<1>4. CASE ~Takes(q)
  BY <1>4, OneTakes, GoingStep, StayGoes DEF Going, Goes
<1> QED
  BY <1>1, <1>2, <1>3, <1>4 DEF Takes

LEMMA HandlesStep ==
  ASSUME TypeInv, HandlesInv, [Next]_vars
  PROVE  HandlesInv'
<1> SUFFICES ASSUME NEW q \in Requests, Handles(req'[q]) PROVE req'[q].op = "logout"
  BY DEF HandlesInv, Handles, Compared, Looping
<1>1. CASE LogoutClear(q) \/ (\E s \in SessionIds : LogoutNext(q, s)) \/ Finds(q)
  BY <1>1, ClearFacts, NextFacts, FindFacts DEF Finds
<1>2. CASE Carries(req[q], req'[q])
  BY <1>2 DEF Carries, Handles, HandlesInv
<1> QED
  BY <1>1, <1>2, CarriesStep

-----------------------------------------------------------------------------
(* What a step changes beside its request *)

LEMMA ServerStep ==
  ASSUME [Next]_vars
  PROVE  \/ UNCHANGED server
         \/ \E r \in Requests : ServerRefresh(r) \/ \E x \in Sids : ServerRedeem(r, x)
         \/ \E k \in Keys : ServerLogout(k)
<1>1. ASSUME NEW r \in Requests, Call(r) PROVE UNCHANGED server
  BY <1>1 DEF Call, Check, SwitchCallback, Refresh, Revoke, Clear
<1>2. ASSUME NEW r \in Requests, Step(r) PROVE UNCHANGED server
  BY <1>2 DEF Step, CheckRead, CheckForget, CheckRemove, RefreshSend, RefreshReceive, RefreshSettles,
     RedeemReceive, IndexSession, IndexRead, IndexRemove, IndexSet, Forget, RevokeSend, ClearRemove,
     LogoutNext, LogoutClear, LogoutDone
<1>3. ASSUME NEW r \in Requests, RefreshFails(r) \/ RedeemFails(r) \/ RevokeFails(r) PROVE UNCHANGED server
  BY <1>3 DEF RefreshFails, RedeemFails, RevokeFails
<1>4. ASSUME NEW r \in Requests, NEW j, LogoutFind(r, j) PROVE UNCHANGED server
  BY <1>4 DEF LogoutFind, Find
<1>5. ASSUME NEW r \in Requests, IndexReadFails(r) \/ StoreFails(r) PROVE UNCHANGED server
  BY <1>5 DEF IndexReadFails, StoreFails, Find
<1>6. ASSUME (\E w \in writes : WriteLands(w)) \/ (\E s \in SessionIds : Expire(s)) \/ Tick \/ UNCHANGED vars
      PROVE  UNCHANGED server
  BY <1>6 DEF WriteLands, Expire, Tick, vars
<1> QED
  BY <1>1, <1>2, <1>3, <1>4, <1>5, <1>6 DEF Next, Environment, Reply

\* The server forgets no login and no logout token, and changes neither but for a login's tokens.
ServerGrows ==
  /\ Len(logins) <= Len(logins')
  /\ \A l \in Issued : /\ logins'[l].sid = logins[l].sid /\ logins'[l].session = logins[l].session
                       /\ logins'[l].at = logins[l].at
  /\ \A j \in 1..Len(notices) : notices'[j] = notices[j]
  /\ Len(notices) <= Len(notices')

LEMMA RedeemFacts ==
  ASSUME TypeInv, NEW r \in Requests, NEW x \in Sids, ServerRedeem(r, x)
  PROVE  /\ Len(logins') = Len(logins) + 1
         /\ \A l \in Issued : logins'[l] = logins[l]
         /\ logins'[Len(logins) + 1] = [sid |-> x, session |-> req[r].session, gen |-> 1, at |-> now]
         /\ req[r].pc = "redeem" /\ req'[r].pc = "rd_reply" /\ req'[r].login = Len(logins) + 1
         /\ req'[r].session = req[r].session /\ UNCHANGED notices
<1> DEFINE l == [sid |-> x, session |-> req[r].session, gen |-> 1, at |-> now]
           f == [req[r] EXCEPT !.pc = "rd_reply", !.login = Len(logins) + 1]
<1>1. req[r] \in Locals /\ req[r].session \in SessionIds /\ req[r].pc = "redeem"
  BY RequestFacts DEF Proper, ServerRedeem, At
<1>2. l \in Logins /\ logins \in Seq(Logins) /\ logins' = Append(logins, l)
  BY <1>1 DEF Logins, TypeInv, TypeOK, ServerRedeem
<1>3. f.pc = "rd_reply" /\ f.login = Len(logins) + 1 /\ f.session = req[r].session
  BY <1>1 DEF Locals
<1>4. req'[r] = f
  BY DEF ServerRedeem, TypeInv, TypeOK
<1> HIDE DEF f, l
<1>5. /\ Len(logins') = Len(logins) + 1 /\ logins'[Len(logins) + 1] = l
      /\ \A i \in Issued : logins'[i] = logins[i]
  BY <1>2 DEF Issued
<1> QED
  BY <1>1, <1>3, <1>4, <1>5 DEF l, ServerRedeem

LEMMA RotateFacts ==
  ASSUME TypeInv, NEW r \in Requests, ServerRefresh(r)
  PROVE  Len(logins') = Len(logins) /\ ServerGrows
<1>1. logins \in Seq(Logins) /\ UNCHANGED notices
  BY DEF TypeInv, TypeOK, ServerRefresh
<1>2. CASE UNCHANGED logins
  BY <1>1, <1>2 DEF ServerGrows
<1>3. CASE logins' = [logins EXCEPT ![req[r].sent.login].gen = @ + 1]
  <2>1. Len(logins') = Len(logins)
    BY <1>1, <1>3
  <2>2. \A l \in Issued : logins[l] \in Logins
    BY <1>1, ElementOfSeq DEF Issued
  <2>3. \A l \in Issued : /\ logins'[l].sid = logins[l].sid /\ logins'[l].session = logins[l].session
                          /\ logins'[l].at = logins[l].at
    BY <1>1, <1>3, <2>2 DEF Issued, Logins
  <2> QED
    BY <1>1, <2>1, <2>3 DEF ServerGrows
<1> QED
  BY <1>2, <1>3 DEF ServerRefresh

LEMMA GrowStep ==
  ASSUME TypeInv, [Next]_vars
  PROVE  ServerGrows
<1>1. Len(logins) \in Nat /\ Len(notices) \in Nat
  BY DEF TypeInv, TypeOK
<1>2. CASE UNCHANGED server
  BY <1>1, <1>2 DEF ServerGrows, server
<1>3. ASSUME NEW r \in Requests, ServerRefresh(r) PROVE ServerGrows
  BY <1>3, RotateFacts
<1>4. ASSUME NEW r \in Requests, NEW x \in Sids, ServerRedeem(r, x) PROVE ServerGrows
  <2>1. Len(logins') = Len(logins) + 1 /\ UNCHANGED notices /\ \A l \in Issued : logins'[l] = logins[l]
    BY <1>4, RedeemFacts
  <2> QED
    BY <1>1, <2>1 DEF ServerGrows
<1>5. ASSUME NEW k \in Keys, ServerLogout(k) PROVE ServerGrows
  <2>1. PICK n : notices' = Append(notices, n) /\ UNCHANGED logins
    BY <1>5 DEF ServerLogout
  <2>2. Len(notices') = Len(notices) + 1 /\ \A j \in 1..Len(notices) : notices'[j] = notices[j]
    BY <2>1 DEF TypeInv, TypeOK
  <2> QED
    BY <1>1, <2>1, <2>2 DEF ServerGrows
<1> QED
  BY <1>2, <1>3, <1>4, <1>5, ServerStep

LEMMA HistoryStep ==
  ASSUME [Next]_vars
  PROVE  /\ UNCHANGED endedBy \/ \E r \in Requests : LogoutClear(r)
         /\ UNCHANGED loggedOut \/ \E r \in Requests : LogoutDone(r)
<1>1. ASSUME NEW r \in Requests, Call(r) PROVE UNCHANGED <<endedBy, loggedOut>>
  BY <1>1 DEF Call, Check, SwitchCallback, Refresh, Revoke, Clear, history
<1>2. ASSUME NEW r \in Requests, Step(r), ~LogoutClear(r), ~LogoutDone(r)
      PROVE  UNCHANGED <<endedBy, loggedOut>>
  BY <1>2 DEF Step, CheckRead, CheckForget, CheckRemove, RefreshSend, RefreshReceive, RefreshSettles,
     RedeemReceive, IndexSession, IndexRead, IndexRemove, IndexSet, Forget, RevokeSend, ClearRemove,
     LogoutNext, history
<1>3. ASSUME NEW r \in Requests, Reply(r) PROVE UNCHANGED <<endedBy, loggedOut>>
  BY <1>3 DEF Reply, RefreshFails, RedeemFails, RevokeFails, ServerRefresh, ServerRedeem, limits, history
<1>4. ASSUME NEW r \in Requests, NEW j, LogoutFind(r, j) PROVE UNCHANGED <<endedBy, loggedOut>>
  BY <1>4 DEF LogoutFind, Find, history
<1>5. ASSUME NEW r \in Requests, IndexReadFails(r) \/ StoreFails(r) PROVE UNCHANGED <<endedBy, loggedOut>>
  BY <1>5 DEF IndexReadFails, StoreFails, Find, history
<1>6. ASSUME Environment \/ UNCHANGED vars PROVE UNCHANGED <<endedBy, loggedOut>>
  BY <1>6 DEF Environment, WriteLands, Expire, ServerLogout, Tick, vars, history
<1>7. ASSUME NEW r \in Requests, LogoutClear(r) PROVE UNCHANGED loggedOut
  BY <1>7 DEF LogoutClear
<1>8. ASSUME NEW r \in Requests, LogoutDone(r) PROVE UNCHANGED endedBy
  BY <1>8 DEF LogoutDone
<1> QED
  BY <1>1, <1>2, <1>3, <1>4, <1>5, <1>6, <1>7, <1>8 DEF Next

-----------------------------------------------------------------------------
(* A logout ends the session it compared, or one stored since *)

\* The login belongs to the server session and the subject the token names.
Named(l, n) == (BySid(n) => logins[l].sid = n.key) /\ SubOf[logins[l].sid] = n.sub

\* What a handler is to end matched its token when it was compared, and what it ended so did too.
ComparedInv ==
  /\ \A r \in Requests :
       Compared(req[r]) /\ req[r].snap.login # 0 => Named(req[r].snap.login, notices[req[r].note])
  /\ \A x \in endedBy :
       /\ x.login \in Issued /\ x.note \in 1..Len(notices)
       /\ x.checked => Named(x.login, notices[x.note])

LEMMA NamedStays ==
  ASSUME ServerGrows, NEW l \in Issued, NEW j \in 1..Len(notices), Named(l, notices[j])
  PROVE  Named(l, notices[j])'
BY DEF ServerGrows, Named, BySid

LEMMA MatchedIsNamed ==
  ASSUME NEW d, NEW n, ~Mismatch(d, n), d.login # 0
  PROVE  Named(d.login, n)
BY DEF Mismatch, Named

LEMMA ComparedNote ==
  ASSUME TypeInv, NEW r \in Requests, Handles(req[r])
  PROVE  req[r].note \in 1..Len(notices)
BY RequestFacts DEF Proper, Handles, Compared, Looping, LoggingOut

LEMMA ClearEnds ==
  ASSUME TypeInv, HandlesInv, ComparedInv, NEW r \in Requests, LogoutClear(r),
         NEW x \in endedBy', x \notin endedBy
  PROVE  /\ x.login \in Issued /\ x.login = store[req[r].session].login /\ x.note = req[r].note
         /\ x.note \in 1..Len(notices) /\ Compared(req[r])
         /\ x.checked => Named(x.login, notices[x.note])
<1> DEFINE l == store[req[r].session].login
           e == req[r]
<1>1. l # 0 /\ x = [login |-> l, note |-> e.note, checked |-> l = e.snap.login]
  BY DEF LogoutClear
<1>2. l \in 0..Len(logins) /\ e.note \in 1..Len(notices)
  BY ClearFacts DEF TypeInv, Known
<1>3. l \in Issued /\ Len(logins) \in Nat
  BY <1>1, <1>2 DEF Issued, TypeInv, TypeOK
<1>4. Compared(e)
  BY DEF LogoutClear, At, Compared
<1> HIDE DEF l
<1>5. /\ x.login = l /\ x.note = e.note
      /\ x.checked => l = e.snap.login
  BY <1>1
<1> QED
  BY <1>1, <1>2, <1>3, <1>4, <1>5 DEF ComparedInv, l

LEMMA ComparedStep ==
  ASSUME TypeInv, HandlesInv, ComparedInv, [Next]_vars
  PROVE  ComparedInv'
<1>1. ServerGrows
  BY GrowStep
<1>2. ASSUME NEW q \in Requests, Compared(req'[q]), req'[q].snap.login # 0
      PROVE  Named(req[q].snap.login, notices[req[q].note])'
  <2> DEFINE l == req'[q].snap.login
             j == req'[q].note
  <2> SUFFICES l \in Issued /\ j \in 1..Len(notices) /\ Named(l, notices[j])
    BY <1>1, NamedStays
  <2>1. CASE Finds(q)
    BY <1>2, <2>1, FindFacts DEF Finds, Compared, Indexing
  <2>2. CASE LogoutClear(q)
    BY <1>2, <2>2, ClearFacts
  <2>3. ASSUME NEW s \in SessionIds, LogoutNext(q, s)
        PROVE  l \in Issued /\ j \in 1..Len(notices) /\ Named(l, notices[j])
    <3>1. /\ ~Mismatch(store[s], notices[req[q].note]) /\ req'[q].snap = store[s]
          /\ j = req[q].note /\ j \in 1..Len(notices)
      BY <1>2, <2>3, NextFacts
    <3>2. l \in Issued
      BY <1>2, <3>1 DEF TypeInv, TypeOK, Known, Issued
    <3> QED
      BY <1>2, <3>1, <3>2, MatchedIsNamed
  <2>4. CASE Carries(req[q], req'[q])
    <3>1. Compared(req[q]) /\ l = req[q].snap.login /\ j = req[q].note
      BY <1>2, <2>4 DEF Carries, Handles
    <3>2. j \in 1..Len(notices)
      BY <3>1, ComparedNote DEF Handles
    <3>3. l \in Issued
      BY <1>2, <3>1, RequestFacts DEF Proper, Known, Issued
    <3> QED
      BY <1>2, <3>1, <3>2, <3>3 DEF ComparedInv
  <2> QED
    BY <2>1, <2>2, <2>3, <2>4, CarriesStep
<1>3. ASSUME NEW x \in endedBy'
      PROVE  /\ x.login \in Issued' /\ x.note \in 1..Len(notices')
             /\ x.checked => Named(x.login, notices[x.note])'
  <2>1. /\ x.login \in Issued /\ x.note \in 1..Len(notices)
        /\ x.checked => Named(x.login, notices[x.note])
    BY <1>3, HistoryStep, ClearEnds DEF ComparedInv
  <2>2. Len(logins) \in Nat /\ Len(notices) \in Nat /\ Len(logins') \in Nat /\ Len(notices') \in Nat
    BY TypeStep DEF TypeInv, TypeOK
  <2> QED
    BY <1>1, <2>1, <2>2, NamedStays DEF ServerGrows, Issued
<1> QED
  BY <1>2, <1>3 DEF ComparedInv, Compared

LEMMA ComparedInit == Init => TypeInv /\ HandlesInv /\ ComparedInv
<1>1. Init => \A r \in Requests : ~Handles(req[r])
  BY DEF Init, Idle, Handles, Compared, Looping, Indexing
<1>2. Init => endedBy = {}
  BY DEF Init
<1> QED
  BY <1>1, <1>2, InitType DEF HandlesInv, ComparedInv, Handles

\* Back-channel logout leaves a session of another server session or subject alone, whatever runs
\* beside it: it ends one only when that one was stored after the handler had compared the binding
\* of the session before it (handleBackchannelLogout).
THEOREM OthersAreLeft == Spec => []OnlyNamedEnded
<1> DEFINE Inv == TypeInv /\ HandlesInv /\ ComparedInv
<1>1. Init => Inv
  BY ComparedInit
<1>2. Inv /\ [Next]_vars => Inv'
  BY TypeStep, HandlesStep, ComparedStep
<1>3. Inv => OnlyNamedEnded
  BY DEF ComparedInv, OnlyNamedEnded, Named
<1> QED
  BY <1>1, <1>2, <1>3, PTL DEF Spec

-----------------------------------------------------------------------------
(* What a step does to the store, the index and the clock *)

LEMMA CallFrame ==
  ASSUME NEW r \in Requests, Call(r)
  PROVE  UNCHANGED <<store, writes, index, limits, late>>
BY DEF Call, Check, SwitchCallback, Refresh, Revoke, Clear, history

LEMMA ReplyFrame ==
  ASSUME NEW r \in Requests, Reply(r)
  PROVE  UNCHANGED <<store, writes, index, limits, late>>
<1>1. CASE RefreshFails(r) \/ RedeemFails(r) \/ RevokeFails(r)
  BY <1>1 DEF RefreshFails, RedeemFails, RevokeFails, history
<1>2. CASE ServerRefresh(r) \/ \E x \in Sids : ServerRedeem(r, x)
  BY <1>2 DEF ServerRefresh, ServerRedeem, history
<1> QED
  BY <1>1, <1>2 DEF Reply

\* Reading the index for a logout token.
LEMMA FindFrame ==
  ASSUME NEW r \in Requests, NEW j, NEW entry, Find(r, j, entry)
  PROVE  UNCHANGED <<store, writes, index, now, late>>
BY DEF Find, history

LEMMA FailsFrame ==
  ASSUME NEW r \in Requests, IndexReadFails(r) \/ StoreFails(r)
  PROVE  UNCHANGED <<store, writes, index, now, late>>
<1>1. CASE IndexReadFails(r)
  BY <1>1 DEF IndexReadFails, Find, history
<1>2. CASE StoreFails(r)
  BY <1>2 DEF StoreFails, history
<1> QED
  BY <1>1, <1>2

LEMMA StepFrame ==
  ASSUME NEW r \in Requests, Step(r)
  PROVE  /\ UNCHANGED limits
         /\ UNCHANGED <<store, late>> \/ RemoveSession(req[r].session)
         /\ UNCHANGED writes \/ RefreshReceive(r) \/ RedeemReceive(r)
         /\ UNCHANGED index \/ IndexRemove(r) \/ IndexSet(r)
<1>1. CASE CheckRead(r) \/ CheckForget(r) \/ RefreshSend(r) \/ RefreshSettles(r) \/ IndexSession(r)
           \/ IndexRead(r) \/ Forget(r) \/ RevokeSend(r)
  BY <1>1 DEF CheckRead, CheckForget, RefreshSend, RefreshSettles, IndexSession, IndexRead, Forget,
     RevokeSend, history
<1>2. CASE RefreshReceive(r) \/ RedeemReceive(r)
  BY <1>2 DEF RefreshReceive, RedeemReceive, history
<1>3. CASE IndexRemove(r) \/ IndexSet(r)
  BY <1>3 DEF IndexRemove, IndexSet, history
<1>4. CASE CheckRemove(r) \/ ClearRemove(r) \/ LogoutClear(r)
  BY <1>4 DEF CheckRemove, ClearRemove, LogoutClear
<1>5. CASE (\E s \in SessionIds : LogoutNext(r, s)) \/ LogoutDone(r)
  BY <1>5 DEF LogoutNext, LogoutDone, history
<1> QED
  BY <1>1, <1>2, <1>3, <1>4, <1>5 DEF Step

LEMMA FrameStep ==
  ASSUME TypeInv, [Next]_vars
  PROVE  /\ \/ UNCHANGED <<store, late>>
            \/ \E s \in SessionIds : RemoveSession(s) \/ Expire(s)
            \/ \E w \in writes : WriteLands(w)
         /\ \/ UNCHANGED writes
            \/ \E r \in Requests : RefreshReceive(r) \/ RedeemReceive(r)
            \/ \E w \in writes : WriteLands(w)
         /\ UNCHANGED index \/ \E r \in Requests : IndexRemove(r) \/ IndexSet(r)
         /\ now' >= now
<1> DEFINE Goal ==
      /\ \/ UNCHANGED <<store, late>>
         \/ \E s \in SessionIds : RemoveSession(s) \/ Expire(s)
         \/ \E w \in writes : WriteLands(w)
      /\ \/ UNCHANGED writes
         \/ \E r \in Requests : RefreshReceive(r) \/ RedeemReceive(r)
         \/ \E w \in writes : WriteLands(w)
      /\ UNCHANGED index \/ \E r \in Requests : IndexRemove(r) \/ IndexSet(r)
      /\ now' >= now
<1> SUFFICES Goal
  OBVIOUS
<1>1. now \in Nat
  BY DEF TypeInv, TypeOK
<1>2. ASSUME UNCHANGED <<store, writes, index, now, late>> PROVE Goal
  BY <1>1, <1>2
<1>3. ASSUME NEW r \in Requests, Step(r) PROVE Goal
  <2>1. CASE RemoveSession(req[r].session) /\ ~UNCHANGED <<store, late>>
    <3>1. CheckRemove(r) \/ ClearRemove(r) \/ LogoutClear(r)
      BY <1>3, <2>1 DEF Step, CheckRead, CheckForget, RefreshSend, RefreshReceive, RefreshSettles,
         RedeemReceive, IndexSession, IndexRead, IndexRemove, IndexSet, Forget, RevokeSend, LogoutNext, LogoutDone, history
    <3>2. req[r].session \in SessionIds
      BY <3>1, RequestFacts DEF Proper, CheckRemove, ClearRemove, LogoutClear, At
    <3> QED
      BY <1>1, <1>3, <2>1, <3>2, StepFrame DEF limits
  <2>2. CASE UNCHANGED <<store, late>>
    BY <1>1, <1>3, <2>2, StepFrame DEF limits
  <2> QED
    BY <1>3, <2>1, <2>2, StepFrame
<1>4. ASSUME NEW r \in Requests,
             \/ Call(r) \/ Reply(r) \/ (\E j \in DOMAIN notices : LogoutFind(r, j))
             \/ IndexReadFails(r) \/ StoreFails(r)
      PROVE  UNCHANGED <<store, writes, index, now, late>>
  BY <1>4, CallFrame, ReplyFrame, FindFrame, FailsFrame DEF LogoutFind, limits
<1>5. CASE Environment
  <2>1. CASE (\E w \in writes : WriteLands(w)) \/ (\E s \in SessionIds : Expire(s))
    BY <1>1, <2>1 DEF WriteLands, Expire, limits
  <2>2. ASSUME NEW k \in Keys, ServerLogout(k) PROVE Goal
    BY <1>2, <2>2 DEF ServerLogout, limits, history
  <2>3. CASE Tick
    <3>1. UNCHANGED <<store, writes, index, late>> /\ now' = now + 1
      BY <2>3 DEF Tick, history
    <3> QED
      BY <1>1, <3>1
  <2> QED
    BY <1>5, <2>1, <2>2, <2>3 DEF Environment
<1>6. CASE UNCHANGED vars
  BY <1>2, <1>6 DEF vars, limits, history
<1> HIDE DEF Goal
<1>7. ASSUME NEW r \in Requests,
             \/ Call(r) \/ Step(r) \/ Reply(r) \/ (\E j \in DOMAIN notices : LogoutFind(r, j))
             \/ IndexReadFails(r) \/ StoreFails(r)
      PROVE  Goal
  BY <1>2, <1>3, <1>4, <1>7
<1>8. CASE Next
  <2>1. Environment \/ \E r \in Requests :
          \/ Call(r) \/ Step(r) \/ Reply(r) \/ (\E j \in DOMAIN notices : LogoutFind(r, j))
          \/ IndexReadFails(r) \/ StoreFails(r)
    BY <1>8, Zenon DEF Next
  <2> QED
    BY <1>5, <1>7, <2>1
<1> QED
  BY <1>6, <1>8

\* Requests that hold a refresh token or a code's answer, and how they come to.
LEMMA HoldStep ==
  ASSUME TypeInv, [Next]_vars, NEW q \in Requests, req'[q].pc \in {"rf_sent", "rf_reply", "rd_reply"}
  PROVE  req'[q] = req[q] \/ RefreshSend(q) \/ ServerRefresh(q) \/ \E x \in Sids : ServerRedeem(q, x)
<1>1. CASE Quiet
  BY <1>1 DEF Quiet, Free, Busy, Refreshing
<1>2. ASSUME NEW r \in Requests, NEW f, req' = [req EXCEPT ![r] = f],
             f.pc \notin {"rf_sent", "rf_reply", "rd_reply"}
      PROVE  req'[q] = req[q]
  BY <1>2 DEF TypeInv, TypeOK
<1>3. ASSUME NEW r \in Requests, NEW f, req' = [req EXCEPT ![r] = f], q # r
      PROVE  req'[q] = req[q]
  BY <1>3 DEF TypeInv, TypeOK
<1>4. ASSUME NEW r \in Requests,
             RefreshSend(r) \/ ServerRefresh(r) \/ (\E x \in Sids : ServerRedeem(r, x)), q # r
      PROVE  req'[q] = req[q]
  BY <1>3, <1>4 DEF RefreshSend, ServerRefresh, ServerRedeem
<1>5. ASSUME NEW r \in Requests, CheckRead(r) PROVE req'[q] = req[q]
  <2> DEFINE e == [req[r] EXCEPT !.snap = store[req[r].session]]
  <2>1. req[r] \in Locals /\ req[r].session \in SessionIds
    BY <1>5, RequestFacts DEF CheckRead, At, Proper
  <2>2. e \in Locals
    BY <2>1 DEF Locals, TypeInv, TypeOK
  <2>3. Free(Answer(e, FALSE))
    BY <2>2, AnswerQuiet
  <2>4. /\ [e EXCEPT !.pc = "ck_forget"].pc = "ck_forget" /\ [e EXCEPT !.pc = "join"].pc = "join"
        /\ [e EXCEPT !.pc = "rf_read"].pc = "rf_read"
    BY <2>2 DEF Locals
  <2>5. PICK g : g.pc \notin {"rf_sent", "rf_reply", "rd_reply"} /\ req' = [req EXCEPT ![r] = g]
    BY <1>5, <2>3, <2>4 DEF CheckRead, Free, Busy, Refreshing
  <2> QED
    BY <1>2, <2>5
<1>6. ASSUME NEW r \in Requests, NEW s \in SessionIds, Refresh(r, s) PROVE req'[q] = req[q]
  <2> DEFINE g == [Idle EXCEPT !.op = "refresh", !.session = s,
                              !.pc = IF Awaited(s) THEN "join" ELSE "rf_read"]
  <2>1. req' = [req EXCEPT ![r] = g] /\ g.pc \in {"join", "rf_read"}
    BY <1>6 DEF Refresh, Begin, Idle
  <2> HIDE DEF g
  <2> QED
    BY <1>2, <2>1
<1>7. ASSUME NEW r \in Requests, NEW l, Goto(r, l), l \in {"rf_failed", "rf_store", "rd_store"}
      PROVE  req'[q] = req[q]
  <2>1. [req[r] EXCEPT !.pc = l].pc = l
    BY RequestFacts DEF Locals
  <2> QED
    BY <1>2, <1>7, <2>1 DEF Goto
<1>8. ASSUME NEW r \in Requests, RefreshFails(r) \/ RefreshReceive(r) \/ RedeemReceive(r)
      PROVE  req'[q] = req[q]
  BY <1>7, <1>8 DEF RefreshFails, RefreshReceive, RedeemReceive
<1>9. ASSUME NEW r \in Requests, RefreshSettles(r) PROVE req'[q] = req[q]
  BY <1>9, SettlesFacts DEF Free, Busy, Refreshing
<1>10. ASSUME NEW r \in Requests, RedeemFails(r) PROVE req'[q] = req[q]
  BY <1>2, <1>10 DEF RedeemFails, Return, Idle
<1>11. ASSUME NEW r \in Requests, IndexSession(r) PROVE req'[q] = req[q]
  <2> DEFINE f == [req[r] EXCEPT !.began = now]
             ks == BindingKeys(store[req[r].session])
  <2>1. f \in Locals /\ f.session = req[r].session /\ "idle" \in Continuations
    <3>1. req[r] \in Locals /\ now \in Nat
      BY RequestFacts DEF TypeInv, TypeOK
    <3> QED
      BY <3>1 DEF Locals, Continuations
  <2>2. Free(Rewrite(f, ks, "idle"))
    BY <2>1, RewriteQuiet
  <2>3. req' = [req EXCEPT ![r] = Rewrite(f, ks, "idle")]
    BY <1>11, <2>1 DEF IndexSession
  <2> HIDE DEF f, ks
  <2> QED
    BY <1>2, <2>2, <2>3 DEF Free, Busy, Refreshing
<1>12. ASSUME NEW w \in writes, WriteLands(w) PROVE req'[q] = req[q]
  BY <1>12 DEF WriteLands
<1> QED
  BY <1>1, <1>4, <1>5, <1>6, <1>8, <1>9, <1>10, <1>11, <1>12, QuietSteps

-----------------------------------------------------------------------------
(* A login is kept under its own session *)

\* The login, if there is one, was redeemed for the session.
Of(l, s) == l = 0 \/ (l \in Issued /\ logins[l].session = s)

\* A request sends a login of its session, and receives one.
HoldsOwn(r) ==
  /\ req[r].pc \in Sent => Of(req[r].sent.login, req[r].session)
  /\ req[r].pc = "rf_reply" => req[r].reply.login \in {0, req[r].sent.login}
  /\ req[r].pc = "rd_reply" => Of(req[r].login, req[r].session)

PlaceInv ==
  /\ \A s \in SessionIds : Of(store[s].login, s) /\ Of(store[s].token.login, s)
  /\ \A w \in writes : Of(w.data.login, w.session) /\ Of(w.data.token.login, w.session)
  /\ \A r \in Requests : HoldsOwn(r)

LEMMA OfStays ==
  ASSUME TypeInv, ServerGrows, NEW l, NEW s, Of(l, s)
  PROVE  Of(l, s)'
<1>1. Len(logins) \in Nat /\ (Len(logins') \in Nat \/ Len(logins') >= Len(logins))
  BY DEF TypeInv, TypeOK, ServerGrows
<1> QED
  BY <1>1 DEF Of, Issued, ServerGrows

\* What is stored of a session: what was, or nothing, or what a write of it carries.
LEMMA StoredStep ==
  ASSUME TypeInv, [Next]_vars, NEW s \in SessionIds
  PROVE  \/ store'[s].login = store[s].login /\ store'[s].token = store[s].token
         \/ store'[s] = NoSession
         \/ \E w \in writes : WriteLands(w) /\ w.session = s /\ store'[s] = w.data
<1>1. store \in [SessionIds -> Sessions]
  BY DEF TypeInv, TypeOK
<1>2. ASSUME NEW x \in SessionIds, RemoveSession(x)
      PROVE  store'[s] = store[s] \/ store'[s] = NoSession
  BY <1>1, <1>2 DEF RemoveSession
<1>3. ASSUME NEW x \in SessionIds, Expire(x)
      PROVE  store'[s].login = store[s].login /\ store'[s].token = store[s].token
  <2>1. store' = [store EXCEPT ![x] = [store[x] EXCEPT !.fresh = FALSE]]
    BY <1>3 DEF Expire
  <2>2. [store[x] EXCEPT !.fresh = FALSE].login = store[x].login
    BY <1>1 DEF Sessions
  <2>3. [store[x] EXCEPT !.fresh = FALSE].token = store[x].token
    BY <1>1 DEF Sessions
  <2> QED
    BY <1>1, <2>1, <2>2, <2>3
<1>4. ASSUME NEW w \in writes, WriteLands(w)
      PROVE  store'[s] = store[s] \/ (w.session = s /\ store'[s] = w.data)
  BY <1>1, <1>4 DEF WriteLands
<1> QED
  BY <1>2, <1>3, <1>4, FrameStep

\* A session write a refresh starts.
LEMMA RefreshWrites ==
  ASSUME TypeInv, NEW r \in Requests, RefreshReceive(r)
  PROVE  \E w : /\ writes' = writes \cup {w}
                /\ w.by = r /\ w.session = req[r].session /\ w.refresh = TRUE
                /\ w.data.login = req[r].sent.login
                /\ w.data.token = IF req[r].reply = NoToken THEN store[req[r].session].token ELSE req[r].reply
<1> DEFINE t == IF req[r].reply = NoToken THEN store[req[r].session].token ELSE req[r].reply
           d == [login |-> req[r].sent.login, fresh |-> TRUE, token |-> t]
           w == [by |-> r, session |-> req[r].session, refresh |-> TRUE, data |-> d]
<1>1. writes' = writes \cup {w}
  BY DEF RefreshReceive
<1>2. w.by = r /\ w.session = req[r].session /\ w.refresh = TRUE /\ w.data = d
  OBVIOUS
<1>3. d.login = req[r].sent.login /\ d.token = t
  OBVIOUS
<1> HIDE DEF d, w, t
<1>4. w.data.login = req[r].sent.login /\ w.data.token = t
  BY <1>2, <1>3
<1> WITNESS w
<1> QED
  BY <1>1, <1>2, <1>4 DEF t

\* A session write a sign-in starts.
LEMMA RedeemWrites ==
  ASSUME TypeInv, NEW r \in Requests, RedeemReceive(r)
  PROVE  \E w : /\ writes' = writes \cup {w}
                /\ w.by = r /\ w.session = req[r].session /\ w.refresh = FALSE
                /\ w.data.login = req[r].login /\ w.data.token.login = req[r].login
<1> DEFINE t == [login |-> req[r].login, gen |-> 1]
           d == [login |-> req[r].login, fresh |-> TRUE, token |-> t]
           w == [by |-> r, session |-> req[r].session, refresh |-> FALSE, data |-> d]
<1>1. writes' = writes \cup {w}
  BY DEF RedeemReceive
<1>2. w.by = r /\ w.session = req[r].session /\ w.refresh = FALSE /\ w.data = d
  OBVIOUS
<1>3. d.login = req[r].login /\ d.token = t /\ t.login = req[r].login
  OBVIOUS
<1> HIDE DEF d, w, t
<1>4. w.data.login = req[r].login /\ w.data.token.login = req[r].login
  BY <1>2, <1>3
<1> WITNESS w
<1> QED
  BY <1>1, <1>2, <1>4

\* What a request sends, and what the server answers it.
LEMMA SendFacts ==
  ASSUME TypeInv, NEW r \in Requests, RefreshSend(r)
  PROVE  /\ req[r].pc = "rf_read" /\ req[r].session \in SessionIds
         /\ req'[r].pc \in {"rf_sent", "rf_failed"} /\ req'[r].session = req[r].session
         /\ req'[r].sent = store[req[r].session].token
         /\ req'[r].pc = "rf_sent" => req'[r].sent # NoToken
<1> DEFINE t == store[req[r].session].token
           f == [req[r] EXCEPT !.sent = t, !.pc = IF t = NoToken THEN "rf_failed" ELSE "rf_sent"]
<1>1. req[r] \in Locals /\ req[r].session \in SessionIds /\ req[r].pc = "rf_read"
  BY RequestFacts DEF RefreshSend, At, Proper
<1>2. req'[r] = f
  BY DEF RefreshSend, TypeInv, TypeOK
<1>3. f.session = req[r].session /\ f.sent = t /\ f.pc = IF t = NoToken THEN "rf_failed" ELSE "rf_sent"
  BY <1>1 DEF Locals
<1> HIDE DEF f
<1> QED
  BY <1>1, <1>2, <1>3

LEMMA AnswerFacts ==
  ASSUME TypeInv, NEW r \in Requests, ServerRefresh(r)
  PROVE  /\ req[r].pc = "rf_sent" /\ req'[r].pc = "rf_reply" /\ req'[r].session = req[r].session
         /\ req'[r].sent = req[r].sent /\ req'[r].reply.login \in {0, req[r].sent.login}
<1> DEFINE t == req[r].sent
<1>1. req[r] \in Locals /\ req[r].pc = "rf_sent" /\ t \in Tokens
  BY RequestFacts DEF ServerRefresh, At, Locals
<1>2. PICK u \in {NoToken, [t EXCEPT !.gen = @ + 1]} :
        req' = [req EXCEPT ![r] = [req[r] EXCEPT !.pc = "rf_reply", !.reply = u]]
  BY DEF ServerRefresh
<1>3. u.login \in {0, t.login}
  BY <1>1 DEF NoToken, Tokens
<1> DEFINE f == [req[r] EXCEPT !.pc = "rf_reply", !.reply = u]
<1>4. req'[r] = f
  BY <1>2 DEF TypeInv, TypeOK
<1>5. f.pc = "rf_reply" /\ f.session = req[r].session /\ f.sent = t /\ f.reply = u
  BY <1>1 DEF Locals
<1> HIDE DEF f
<1> QED
  BY <1>1, <1>3, <1>4, <1>5

LEMMA PlaceStep ==
  ASSUME TypeInv, PlaceInv, [Next]_vars
  PROVE  PlaceInv'
<1>1. \A l, s : Of(l, s) => Of(l, s)'
  BY GrowStep, OfStays
<1>2. NoSession.login = 0 /\ NoSession.token.login = 0 /\ NoToken.login = 0
  BY DEF NoSession, NoToken
<1>3. ASSUME NEW s \in SessionIds PROVE (Of(store'[s].login, s) /\ Of(store'[s].token.login, s))
  BY <1>2, StoredStep DEF PlaceInv, Of
<1>4. ASSUME NEW w \in writes' PROVE Of(w.data.login, w.session) /\ Of(w.data.token.login, w.session)
  <2>1. CASE w \in writes
    BY <2>1 DEF PlaceInv
  <2>2. ASSUME NEW r \in Requests, RefreshReceive(r), w \notin writes
        PROVE  Of(w.data.login, w.session) /\ Of(w.data.token.login, w.session)
    <3>1. /\ w.session = req[r].session /\ w.data.login = req[r].sent.login
          /\ w.data.token = IF req[r].reply = NoToken THEN store[req[r].session].token ELSE req[r].reply
      <4>1. PICK v : /\ writes' = writes \cup {v}
                     /\ v.session = req[r].session /\ v.data.login = req[r].sent.login
                     /\ v.data.token = IF req[r].reply = NoToken THEN store[req[r].session].token
                                       ELSE req[r].reply
        BY <2>2, RefreshWrites
      <4>2. v = w
        BY <1>4, <2>2, <4>1
      <4> QED
        BY <4>1, <4>2
    <3>2. req[r].pc = "rf_reply" /\ req[r].session \in SessionIds
      BY <2>2, RequestFacts DEF RefreshReceive, At, Proper
    <3>3. Of(req[r].sent.login, w.session) /\ req[r].reply.login \in {0, req[r].sent.login}
      BY <3>1, <3>2 DEF PlaceInv, HoldsOwn, Sent
    <3> QED
      BY <3>1, <3>2, <3>3 DEF PlaceInv, Of
  <2>3. ASSUME NEW r \in Requests, RedeemReceive(r), w \notin writes
        PROVE  Of(w.data.login, w.session) /\ Of(w.data.token.login, w.session)
    <3>1. w.session = req[r].session /\ w.data.login = req[r].login /\ w.data.token.login = req[r].login
      <4>1. PICK v : /\ writes' = writes \cup {v}
                     /\ v.session = req[r].session /\ v.data.login = req[r].login
                     /\ v.data.token.login = req[r].login
        BY <2>3, RedeemWrites
      <4>2. v = w
        BY <1>4, <2>3, <4>1
      <4> QED
        BY <4>1, <4>2
    <3>2. req[r].pc = "rd_reply"
      BY <2>3 DEF RedeemReceive, At
    <3> QED
      BY <3>1, <3>2 DEF PlaceInv, HoldsOwn
  <2>4. ASSUME NEW x \in writes, WriteLands(x) PROVE w \in writes
    BY <1>4, <2>4 DEF WriteLands
  <2> QED
    BY <2>1, <2>2, <2>3, <2>4, <1>4, FrameStep
<1>5. ASSUME NEW q \in Requests PROVE HoldsOwn(q)'
  <2>1. CASE req'[q] = req[q]
    BY <1>1, <2>1 DEF PlaceInv, HoldsOwn
  <2>2. CASE RefreshSend(q)
    <3>1. Of(req'[q].sent.login, req'[q].session) /\ req'[q].pc \notin {"rf_reply", "rd_reply"}
      BY <2>2, SendFacts DEF PlaceInv
    <3> QED
      BY <1>1, <3>1 DEF HoldsOwn
  <2>3. CASE ServerRefresh(q)
    <3>1. /\ Of(req'[q].sent.login, req'[q].session) /\ req'[q].pc = "rf_reply"
          /\ req'[q].reply.login \in {0, req'[q].sent.login}
      BY <2>3, AnswerFacts DEF PlaceInv, HoldsOwn, Sent
    <3> QED
      BY <1>1, <3>1 DEF HoldsOwn
  <2>4. ASSUME NEW x \in Sids, ServerRedeem(q, x) PROVE HoldsOwn(q)'
    <3>1. /\ req'[q].pc = "rd_reply" /\ req'[q].login = Len(logins) + 1 /\ req'[q].session = req[q].session
          /\ Len(logins') = Len(logins) + 1 /\ Len(logins) \in Nat
          /\ logins'[Len(logins) + 1].session = req[q].session
      <4>1. logins'[Len(logins) + 1] = [sid |-> x, session |-> req[q].session, gen |-> 1, at |-> now]
        BY <2>4, RedeemFacts
      <4>2. Len(logins) \in Nat
        BY DEF TypeInv, TypeOK
      <4> QED
        BY <2>4, <4>1, <4>2, RedeemFacts
    <3> QED
      BY <3>1 DEF HoldsOwn, Of, Issued, Sent
  <2>5. CASE req'[q].pc \notin {"rf_sent", "rf_reply", "rd_reply"}
    BY <2>5 DEF HoldsOwn, Sent
  <2> QED
    BY <2>1, <2>2, <2>3, <2>4, <2>5, HoldStep
<1> QED
  BY <1>1, <1>3, <1>4, <1>5 DEF PlaceInv

-----------------------------------------------------------------------------
(* Who has signed in again is left signed in *)

\* A login of the session had begun by then.
Begun(s, t) == \E l \in Issued : logins[l].session = s /\ logins[l].at <= t

\* The token is for the session, or for one that had begun when it was issued.
Reached(s, n) == BySid(n) \/ Begun(s, n.at + Tolerance)

BegunInv ==
  /\ \A l \in Issued : logins[l].at <= now
  /\ \A k \in Keys : \A i \in index[k] : Begun(i.session, i.startedAt)
  /\ \A r \in Requests :
       /\ \A i \in req[r].entry : Begun(i.session, i.startedAt)
       /\ Adding(req[r]) => Begun(req[r].session, req[r].began)

ReachedInv ==
  \A r \in Requests :
    /\ Handles(req[r]) => \A s \in req[r].todo : Reached(s, notices[req[r].note])
    /\ Compared(req[r]) => Reached(req[r].session, notices[req[r].note])

\* One login a session, where every sign-in has a session id of its own.
FreshInv == \A k, l \in Issued : logins[k].session = logins[l].session => k = l

LEMMA LoginTime ==
  ASSUME TypeInv, NEW l \in Issued
  PROVE  logins[l].at \in Nat
<1>1. logins \in Seq(Logins) /\ l \in 1..Len(logins)
  BY DEF TypeInv, TypeOK, Issued
<1>2. logins[l] \in Logins
  BY <1>1, ElementOfSeq
<1> QED
  BY <1>2 DEF Logins

LEMMA BegunStays ==
  ASSUME TypeInv, [Next]_vars, NEW s, NEW t, Begun(s, t)
  PROVE  Begun(s, t)'
<1>1. Len(logins) \in Nat /\ Len(logins') \in Nat
  BY TypeStep DEF TypeInv, TypeOK
<1> QED
  BY <1>1, GrowStep DEF Begun, Issued, ServerGrows

LEMMA ReachedStays ==
  ASSUME TypeInv, [Next]_vars, NEW s, NEW j \in 1..Len(notices), Reached(s, notices[j])
  PROVE  Reached(s, notices[j])'
<1>1. notices'[j] = notices[j]
  BY GrowStep DEF ServerGrows
<1> QED
  BY <1>1, BegunStays DEF Reached, BySid

LEMMA BegunStep ==
  ASSUME TypeInv, HandlesInv, PlaceInv, BegunInv, [Next]_vars
  PROVE  BegunInv'
<1>1. \A s, t : Begun(s, t) => Begun(s, t)'
  BY BegunStays
<1>2. ASSUME NEW l \in Issued' PROVE logins'[l].at <= now'
  <2>1. now \in Nat /\ now' \in Nat /\ now' >= now /\ Len(logins) \in Nat
    <3>1. TypeInv' /\ now' >= now
      BY FrameStep, TypeStep
    <3> QED
      BY <3>1 DEF TypeInv, TypeOK
  <2>2. CASE l \in Issued
    <3>1. logins[l].at \in Nat /\ logins[l].at <= now
      BY <2>2, LoginTime DEF BegunInv
    <3> QED
      BY <2>1, <2>2, <3>1, GrowStep DEF ServerGrows
  <2>3. CASE l \notin Issued
    <3>1. Len(logins') # Len(logins)
      BY <2>3 DEF Issued
    <3>2. \A r \in Requests : ~ServerRefresh(r)
      BY <3>1, RotateFacts
    <3>3. \A k \in Keys : ~ServerLogout(k)
      BY <3>1 DEF ServerLogout
    <3>4. PICK r \in Requests, x \in Sids : ServerRedeem(r, x)
      BY <3>1, <3>2, <3>3, ServerStep DEF server
    <3>5. logins'[Len(logins) + 1] = [sid |-> x, session |-> req[r].session, gen |-> 1, at |-> now]
      BY <3>4, RedeemFacts
    <3>6. Len(logins') = Len(logins) + 1
      BY <3>4, RedeemFacts
    <3>7. l = Len(logins) + 1
      BY <2>1, <2>3, <3>6 DEF Issued
    <3> QED
      BY <2>1, <3>5, <3>7
  <2> QED
    BY <2>2, <2>3
<1>3. ASSUME NEW k \in Keys, NEW i \in index'[k] PROVE Begun(i.session, i.startedAt)
  <2>1. CASE UNCHANGED index
    BY <1>3, <2>1 DEF BegunInv
  <2>2. ASSUME NEW r \in Requests, IndexRemove(r) PROVE i \in index[k]
    BY <1>3, <2>2 DEF IndexRemove, TypeInv, TypeOK
  <2>3. ASSUME NEW r \in Requests, IndexSet(r) PROVE i \in index[k] \/ i \in req[r].entry
    BY <1>3, <2>3 DEF IndexSet, TypeInv, TypeOK
  <2> QED
    BY <2>1, <2>2, <2>3, FrameStep DEF BegunInv
<1>4. ASSUME NEW q \in Requests
      PROVE  /\ \A i \in req'[q].entry : Begun(i.session, i.startedAt)
             /\ Adding(req'[q]) => Begun(req'[q].session, req'[q].began)
  <2>1. CASE IndexSession(q)
    <3>1. /\ req[q].session \in SessionIds /\ req'[q].entry \subseteq req[q].entry
          /\ Adding(req'[q]) => /\ req'[q].session = req[q].session /\ req'[q].began = now
                                /\ store[req[q].session].login # 0
      BY <2>1, AddFacts
    <3>2. Adding(req'[q]) => Begun(req[q].session, now)
      BY <3>1 DEF PlaceInv, Of, BegunInv, Begun
    <3> QED
      BY <3>1, <3>2 DEF BegunInv
  <2>2. CASE IndexRead(q) \/ (IndexReadFails(q) /\ At(q, "ix_read"))
    <3>1. /\ Adding(req'[q]) => /\ Adding(req[q])
                                /\ req'[q].session = req[q].session /\ req'[q].began = req[q].began
          /\ \A i \in req'[q].entry :
               \/ i \in index[Head(req[q].keys)]
               \/ Adding(req[q]) /\ i.session = req[q].session /\ i.startedAt = req[q].began
      BY <2>2, ReadFacts
    <3>2. Head(req[q].keys) \in Keys
      <4>1. req[q].keys \in Seq(Keys) /\ req[q].keys # <<>>
        BY <2>2, RequestFacts DEF IndexRead, At, Proper, Locals, Indexing
      <4> QED
        BY <4>1
    <3> QED
      BY <3>1, <3>2 DEF BegunInv
  <2>3. CASE Enters(req[q], req'[q])
    BY <2>3 DEF Enters, BegunInv
  <2> QED
    BY <2>1, <2>2, <2>3, EntersStep
<1> QED
  BY <1>1, <1>2, <1>3, <1>4 DEF BegunInv, Adding

LEMMA NamesReached ==
  ASSUME TypeInv, BegunInv, NEW j \in 1..Len(notices),
         NEW entry \in {{}, index[notices[j].key]}, NEW s \in Names(notices[j], entry)
  PROVE  Reached(s, notices[j])
<1> DEFINE n == notices[j]
<1>1. n \in LogoutTokens
  BY ElementOfSeq DEF TypeInv, TypeOK
<1>2. PICK i \in entry : i.session = s /\ (BySid(n) \/ i.startedAt < n.at + 1 + Tolerance)
  BY DEF Names
<1>3. n.key \in Keys /\ n.at \in Nat /\ Tolerance \in Nat
  BY <1>1, ConstantsAssumption DEF LogoutTokens
<1>4. i \in index[n.key] /\ i \in Entries
  BY <1>2, <1>3 DEF TypeInv, TypeOK
<1>5. i.startedAt \in Nat /\ Begun(s, i.startedAt)
  BY <1>2, <1>3, <1>4 DEF BegunInv, Entries
<1>6. i.startedAt < n.at + 1 + Tolerance => i.startedAt <= n.at + Tolerance
  BY <1>3, <1>5
<1>7. \A l \in Issued : logins[l].at \in Nat
  BY LoginTime
<1> HIDE DEF n
<1>8. i.startedAt <= n.at + Tolerance => Begun(s, n.at + Tolerance)
  BY <1>3, <1>5, <1>7 DEF Begun
<1> QED
  BY <1>2, <1>6, <1>8 DEF Reached, n

LEMMA ReachedStep ==
  ASSUME TypeInv, HandlesInv, BegunInv, ReachedInv, [Next]_vars
  PROVE  ReachedInv'
<1> SUFFICES ASSUME NEW q \in Requests, Handles(req'[q])
             PROVE  /\ req'[q].note \in 1..Len(notices)
                    /\ \A s \in req'[q].todo : Reached(s, notices[req'[q].note])
                    /\ Compared(req'[q]) => Reached(req'[q].session, notices[req'[q].note])
  BY ReachedStays DEF ReachedInv, Handles, Compared, Looping
<1>1. ASSUME NEW s \in SessionIds, LogoutNext(q, s)
      PROVE  /\ req'[q].note \in 1..Len(notices)
             /\ \A x \in req'[q].todo : Reached(x, notices[req'[q].note])
             /\ Compared(req'[q]) => Reached(req'[q].session, notices[req'[q].note])
  <2>1. Handles(req[q])
    BY <1>1, NextFacts DEF Handles, Looping
  <2>2. /\ req'[q].note = req[q].note /\ req[q].note \in 1..Len(notices)
        /\ req'[q].todo \subseteq req[q].todo /\ s \in req[q].todo
        /\ Compared(req'[q]) => req'[q].session = s
    BY <1>1, NextFacts
  <2> QED
    BY <2>1, <2>2 DEF ReachedInv
<1>2. CASE LogoutClear(q)
  <2>1. Handles(req[q])
    BY <1>2, ClearFacts DEF Handles, Compared
  <2>2. /\ req'[q].note = req[q].note /\ req[q].note \in 1..Len(notices)
        /\ req'[q].todo = req[q].todo /\ ~Compared(req'[q])
    BY <1>2, ClearFacts
  <2> QED
    BY <2>1, <2>2 DEF ReachedInv
<1>3. CASE Finds(q)
  <2>1. PICK j \in DOMAIN notices : \E e \in {{}, index[notices[j].key]} : Find(q, j, e)
    BY <1>3 DEF Finds
  <2>2. PICK entry \in {{}, index[notices[j].key]} : Find(q, j, entry)
    BY <2>1
  <2>3. req'[q].note = j /\ req'[q].todo = Names(notices[j], entry) /\ req'[q].pc = "lo_next"
        /\ j \in 1..Len(notices)
    BY <2>2, FindFacts
  <2> QED
    BY <2>3, NamesReached DEF Compared, Indexing
<1>4. CASE Carries(req[q], req'[q])
  <2>1. Handles(req[q]) /\ req'[q].note = req[q].note /\ req'[q].todo = req[q].todo
    BY <1>4 DEF Carries, Handles
  <2>2. Compared(req'[q]) => Compared(req[q]) /\ req'[q].session = req[q].session
    BY <1>4 DEF Carries
  <2> QED
    BY <2>1, <2>2, ComparedNote DEF ReachedInv
<1> QED
  BY <1>1, <1>2, <1>3, <1>4, CarriesStep

LEMMA FreshStep ==
  ASSUME TypeInv, FreshIds, FreshInv, [Next]_vars
  PROVE  FreshInv'
<1>1. CASE Len(logins') = Len(logins)
  BY <1>1, GrowStep DEF FreshInv, ServerGrows, Issued
<1>2. CASE Len(logins') # Len(logins)
  <2>1. \A r \in Requests : ~ServerRefresh(r)
    BY <1>2, RotateFacts
  <2>2. \A k \in Keys : ~ServerLogout(k)
    BY <1>2 DEF ServerLogout
  <2>3. PICK r \in Requests, x \in Sids : ServerRedeem(r, x)
    BY <1>2, <2>1, <2>2, ServerStep DEF server
  <2>4. logins'[Len(logins) + 1] = [sid |-> x, session |-> req[r].session, gen |-> 1, at |-> now]
    BY <2>3, RedeemFacts
  <2>5. /\ Len(logins') = Len(logins) + 1 /\ Len(logins) \in Nat
        /\ \A l \in Issued : logins'[l] = logins[l] /\ logins[l].session # req[r].session
    <3>1. Len(logins') = Len(logins) + 1 /\ \A l \in Issued : logins'[l] = logins[l]
      BY <2>3, RedeemFacts
    <3>2. \A l \in Issued : logins[l].session # req[r].session
      BY <2>3 DEF ServerRedeem, Issued
    <3> QED
      BY <3>1, <3>2 DEF TypeInv, TypeOK
  <2>6. logins'[Len(logins) + 1].session = req[r].session
    BY <2>4
  <2> QED
    BY <2>5, <2>6 DEF FreshInv, Issued
<1> QED
  BY <1>1, <1>2

\* The invariant of the sessions a logout ends, with who has begun them, and when.
BeginsInv == TypeInv /\ HandlesInv /\ ComparedInv /\ PlaceInv /\ BegunInv /\ ReachedInv /\ FreshInv

LEMMA SignedInStep ==
  ASSUME BeginsInv, SignedInAgainStays, [Next]_vars
  PROVE  SignedInAgainStays'
<1> SUFFICES ASSUME NEW x \in endedBy'
             PROVE  /\ x.note \in 1..Len(notices) /\ x.login \in Issued
                    /\ BySid(notices[x.note]) \/ logins[x.login].at <= notices[x.note].at + Tolerance
  BY GrowStep DEF BeginsInv, SignedInAgainStays, ServerGrows, BySid
<1>1. CASE x \in endedBy
  BY <1>1 DEF BeginsInv, ComparedInv, SignedInAgainStays
<1>2. CASE x \notin endedBy
  <2>1. PICK r \in Requests : LogoutClear(r)
    BY <1>2, HistoryStep
  <2>2. /\ x.login \in Issued /\ x.login = store[req[r].session].login /\ x.note = req[r].note
        /\ x.note \in 1..Len(notices) /\ Compared(req[r])
    BY <1>2, <2>1, ClearEnds DEF BeginsInv
  <2>3. req[r].session \in SessionIds
    BY <2>1, ClearFacts DEF BeginsInv
  <2>4. logins[x.login].session = req[r].session
    BY <2>2, <2>3 DEF BeginsInv, PlaceInv, Of, Issued
  <2>5. Reached(req[r].session, notices[x.note])
    BY <2>2 DEF BeginsInv, ReachedInv
  <2> QED
    BY <2>2, <2>4, <2>5 DEF BeginsInv, FreshInv, Reached, Begun
<1> QED
  BY <1>1, <1>2

LEMMA BeginsInit == Init => BeginsInv /\ SignedInAgainStays
<1> SUFFICES ASSUME Init PROVE BeginsInv /\ SignedInAgainStays
  OBVIOUS
<1>1. TypeInv /\ HandlesInv /\ ComparedInv
  BY ComparedInit
<1>2. /\ \A r \in Requests : req[r].pc = "idle" /\ req[r].entry = {}
      /\ \A s \in SessionIds : store[s] = NoSession
      /\ \A k \in Keys : index[k] = {}
      /\ writes = {} /\ Len(logins) = 0 /\ endedBy = {}
  BY DEF Init, Idle
<1>3. NoSession.login = 0 /\ NoSession.token.login = 0
  BY DEF NoSession, NoToken
<1>4. \A r \in Requests : ~Handles(req[r]) /\ ~Adding(req[r]) /\ ~Compared(req[r])
  BY <1>2 DEF Handles, Compared, Looping, Adding, Indexing
<1>5. PlaceInv
  BY <1>2, <1>3 DEF PlaceInv, HoldsOwn, Of, Sent
<1>6. BegunInv /\ ReachedInv /\ FreshInv
  BY <1>2, <1>4 DEF BegunInv, ReachedInv, FreshInv, Issued
<1> QED
  BY <1>1, <1>2, <1>5, <1>6 DEF BeginsInv, SignedInAgainStays

\* Where every sign-in has a session id of its own, a logout token with only a sub ends no session
\* that began after it was issued, give or take the tolerance: a user who has signed in again stays
\* signed in (handleBackchannelLogout).
THEOREM NewcomersStay ==
  ASSUME FreshIds
  PROVE  Spec => []SignedInAgainStays
<1> DEFINE Inv == BeginsInv /\ SignedInAgainStays
<1>1. Init => Inv
  BY BeginsInit
<1>2. Inv /\ [Next]_vars => Inv'
  <2> SUFFICES ASSUME BeginsInv, SignedInAgainStays, [Next]_vars PROVE BeginsInv' /\ SignedInAgainStays'
    OBVIOUS
  <2>1. TypeInv' /\ HandlesInv' /\ ComparedInv'
    BY TypeStep, HandlesStep, ComparedStep DEF BeginsInv
  <2>2. PlaceInv' /\ BegunInv' /\ ReachedInv' /\ FreshInv'
    BY PlaceStep, BegunStep, ReachedStep, FreshStep DEF BeginsInv
  <2> QED
    BY <2>1, <2>2, SignedInStep DEF BeginsInv
<1>3. Inv => SignedInAgainStays
  OBVIOUS
<1> QED
  BY <1>1, <1>2, <1>3, PTL DEF Spec

-----------------------------------------------------------------------------
(* What a logout found is ended, or written back by a refresh *)

\* The login is named by a logout token that is handled, or was.
Remembered(l) ==
  \/ l \in loggedOut
  \/ \E r \in Requests : Handles(req[r]) /\ l \in req[r].named

\* The stored data is not of the login, and its tokens are not either.
Apart(d, l) == d.login # l /\ d.token.login # l

\* A login the process has not stored yet, and so nobody has found.
Unborn(l) ==
  /\ l \in Issued
  /\ \A s \in SessionIds : Apart(store[s], l)
  /\ \A r \in Requests : req[r].pc \in Sent => req[r].sent.login # l
  /\ ~Remembered(l)

\* The login of a code's answer, until it is received, is nowhere else.
Unreceived(r) ==
  /\ Unborn(req[r].login)
  /\ \A w \in writes : Apart(w.data, req[r].login)
  /\ \A q \in Requests \ {r} : req[q].pc = "rd_reply" => req[q].login # req[r].login

\* Nor is the login of a sign-in's write, until it lands.
Unlanded(w) ==
  /\ Unborn(w.data.login)
  /\ \A x \in writes \ {w} : Apart(x.data, w.data.login)

NewInv ==
  /\ \A r \in Requests : req[r].pc = "rd_reply" => Unreceived(r)
  /\ \A w \in writes : ~w.refresh => Unlanded(w)

\* Where the login is stored outside of the sessions X, a refresh wrote it back.
Safe(l, X) == \A s \in SessionIds \ X : store[s].login = l => l \in late
SafeNext(l, X) == \A s \in SessionIds \ X : store'[s].login = l => l \in late'

NamedInv ==
  /\ \A r \in Requests : Handles(req[r]) =>
       \A l \in req[r].named : l \in Issued /\ Named(l, notices[req[r].note])
  /\ loggedOut \subseteq Issued
  /\ readFaults = 0 => \A r \in Requests : Handles(req[r]) =>
                         \A l \in req[r].named : Safe(l, Left(req[r]))
  /\ readFaults = 0 => \A l \in loggedOut : Safe(l, {})

LEMMA FaultStep ==
  ASSUME TypeInv, [Next]_vars, readFaults' = 0
  PROVE  readFaults = 0
<1>1. readFaults \in Nat
  BY DEF TypeInv, TypeOK
<1>2. ASSUME NEW r \in Requests, IndexReadFails(r) PROVE readFaults' = readFaults + 1
  BY <1>2 DEF IndexReadFails
<1>3. ASSUME NEW r \in Requests, Call(r) \/ Reply(r) \/ Step(r) PROVE UNCHANGED readFaults
  BY <1>3, CallFrame, ReplyFrame, StepFrame DEF limits
<1>4. ASSUME NEW r \in Requests, (\E j \in DOMAIN notices : LogoutFind(r, j)) \/ StoreFails(r)
      PROVE  UNCHANGED readFaults
  BY <1>4 DEF LogoutFind, StoreFails
<1>5. Environment \/ UNCHANGED vars => UNCHANGED readFaults
  BY DEF Environment, WriteLands, Expire, ServerLogout, Tick, limits, vars
<1> QED
  BY <1>1, <1>2, <1>3, <1>4, <1>5 DEF Next

LEMMA DoneFacts ==
  ASSUME TypeInv, NEW r \in Requests, LogoutDone(r)
  PROVE  /\ Handles(req[r]) /\ Left(req[r]) = {}
         /\ loggedOut' = loggedOut \cup req[r].named
         /\ UNCHANGED <<store, late, readFaults>>
BY DEF LogoutDone, At, Handles, Looping, Compared, Indexing, Left, limits

LEMMA StoredLogin ==
  ASSUME TypeInv, NEW s \in SessionIds, store[s].login # 0
  PROVE  store[s].login \in Issued
BY DEF TypeInv, Known, Issued

\* What a logout finds is stored, and its token names it.
LEMMA FoundFacts ==
  ASSUME TypeInv, NEW q \in Requests, Finds(q)
  PROVE  \E j \in 1..Len(notices) :
           /\ req'[q].note = j /\ req'[q].pc = "lo_next"
           /\ \A l \in req'[q].named :
                \E s \in SessionIds :
                  /\ store[s].login = l /\ l \in Issued /\ Named(l, notices[j])
                  /\ readFaults' = readFaults + 1 \/ s \in req'[q].todo
<1>1. PICK j \in DOMAIN notices : \E e \in {{}, index[notices[j].key]} :
        Find(q, j, e) /\ (e = index[notices[j].key] \/ readFaults' = readFaults + 1)
  BY DEF Finds
<1>2. PICK e \in {{}, index[notices[j].key]} :
        Find(q, j, e) /\ (e = index[notices[j].key] \/ readFaults' = readFaults + 1)
  BY <1>1
<1> DEFINE n == notices[j]
<1>3. /\ req'[q].note = j /\ req'[q].pc = "lo_next" /\ j \in 1..Len(notices)
      /\ req'[q].todo = Names(n, e)
      /\ req'[q].named = {store[s].login : s \in HeldFor(n)}
  BY <1>2, FindFacts
<1>4. Names(n, index[n.key]) \subseteq SessionIds
  <2>1. n.key \in Keys
    <3>1. notices \in Seq(LogoutTokens)
      BY DEF TypeInv, TypeOK
    <3>2. n \in LogoutTokens
      BY <1>3, <3>1, ElementOfSeq
    <3> QED
      BY <3>2 DEF LogoutTokens
  <2>2. \A i \in index[n.key] : i.session \in SessionIds
    BY <2>1 DEF TypeInv, TypeOK, Entries
  <2> QED
    BY <2>2 DEF Names
<1>5. ASSUME NEW l \in req'[q].named
      PROVE  \E s \in SessionIds :
               /\ store[s].login = l /\ l \in Issued /\ Named(l, n)
               /\ readFaults' = readFaults + 1 \/ s \in req'[q].todo
  <2>1. PICK s \in HeldFor(n) : store[s].login = l
    BY <1>3
  <2>2. s \in Names(n, index[n.key]) /\ store[s].login # 0 /\ ~Mismatch(store[s], n)
    BY DEF HeldFor
  <2>3. s \in SessionIds
    BY <1>4, <2>2
  <2>4. l \in Issued /\ Named(l, n)
    BY <2>1, <2>2, <2>3, StoredLogin, MatchedIsNamed
  <2>5. readFaults' = readFaults + 1 \/ s \in req'[q].todo
    BY <1>2, <1>3, <2>2
  <2> QED
    BY <2>1, <2>3, <2>4, <2>5
<1> QED
  BY <1>3, <1>5

\* A login comes to be remembered only where it is stored.
LEMMA RememberedStep ==
  ASSUME TypeInv, HandlesInv, [Next]_vars, NEW l, Remembered(l)'
  PROVE  Remembered(l) \/ (l \in Issued /\ \E s \in SessionIds : store[s].login = l)
<1>1. CASE l \in loggedOut'
  <2>1. CASE l \in loggedOut
    BY <2>1 DEF Remembered
  <2>2. CASE l \notin loggedOut
    <3>1. PICK r \in Requests : LogoutDone(r)
      BY <1>1, <2>2, HistoryStep
    <3> QED
      BY <1>1, <2>2, <3>1, DoneFacts DEF Remembered
  <2> QED
    BY <2>1, <2>2
<1>2. ASSUME NEW q \in Requests, Handles(req'[q]), l \in req'[q].named
      PROVE  Remembered(l) \/ (l \in Issued /\ \E s \in SessionIds : store[s].login = l)
  <2>1. ASSUME NEW s \in SessionIds, LogoutNext(q, s) PROVE Handles(req[q]) /\ req'[q].named = req[q].named
    BY <2>1, NextFacts DEF Handles, Looping
  <2>2. CASE LogoutClear(q)
    BY <1>2, <2>2, ClearFacts DEF Handles, Compared, Remembered
  <2>3. CASE Finds(q)
    BY <1>2, <2>3, FoundFacts
  <2>4. CASE Carries(req[q], req'[q])
    BY <1>2, <2>4 DEF Carries, Handles, Remembered
  <2> QED
    BY <1>2, <2>1, <2>2, <2>3, <2>4, CarriesStep DEF Remembered
<1> QED
  BY <1>1, <1>2 DEF Remembered, Handles, Compared, Looping

\* A login is stored under its own session only.
LEMMA OnePlace ==
  ASSUME PlaceInv, NEW l \in Issued, l # 0, NEW s \in SessionIds, NEW x \in SessionIds,
         store[s].login = l, store[x].login = l
  PROVE  s = x
BY DEF PlaceInv, Of

\* A remembered login is stored again by a refresh only.
LEMMA SafeStep ==
  ASSUME TypeInv, PlaceInv, NewInv, [Next]_vars,
         NEW l \in Issued, Remembered(l), NEW X, Safe(l, X)
  PROVE  SafeNext(l, X)
<1> SUFFICES ASSUME NEW s \in SessionIds \ X, store'[s].login = l
             PROVE  l \in late'
  BY DEF SafeNext
<1>1. l # 0 /\ NoSession.login = 0
  BY DEF Issued, NoSession
<1>2. store \in [SessionIds -> Sessions]
  BY DEF TypeInv, TypeOK
<1>3. store[s].login = l => l \in late
  BY DEF Safe
<1>4. CASE UNCHANGED <<store, late>>
  BY <1>3, <1>4
<1>5. ASSUME NEW x \in SessionIds, RemoveSession(x) PROVE l \in late'
  <2>1. s # x /\ store[s].login = l
    BY <1>1, <1>2, <1>5 DEF RemoveSession
  <2>2. store[x].login # l
    BY <1>1, <2>1, OnePlace
  <2> QED
    BY <1>3, <1>5, <2>1, <2>2 DEF RemoveSession
<1>6. ASSUME NEW x \in SessionIds, Expire(x) PROVE l \in late'
  <2>1. store' = [store EXCEPT ![x] = [store[x] EXCEPT !.fresh = FALSE]] /\ UNCHANGED late
    BY <1>6 DEF Expire, history
  <2>2. [store[x] EXCEPT !.fresh = FALSE].login = store[x].login
    BY <1>2 DEF Sessions
  <2> QED
    BY <1>2, <1>3, <2>1, <2>2
<1>7. ASSUME NEW w \in writes, WriteLands(w) PROVE l \in late'
  <2>1. /\ store' = [store EXCEPT ![w.session] = w.data]
        /\ late' = IF w.refresh /\ store[w.session].login # w.data.login
                   THEN late \cup {w.data.login} ELSE late
    BY <1>7 DEF WriteLands
  <2>2. CASE w.session # s
    BY <1>2, <1>3, <2>1, <2>2
  <2>3. CASE w.session = s
    <3>1. w.data.login = l
      BY <1>2, <2>1, <2>3
    <3>2. w.refresh
      BY <3>1 DEF NewInv, Unlanded, Unborn
    <3> QED
      BY <1>3, <2>1, <2>3, <3>1, <3>2
  <2> QED
    BY <2>2, <2>3
<1> QED
  BY <1>4, <1>5, <1>6, <1>7, FrameStep

\* Only a write of it stores a login the process has not stored.
LEMMA UnbornStep ==
  ASSUME TypeInv, HandlesInv, [Next]_vars, NEW l, Unborn(l),
         \A w \in writes : WriteLands(w) => Apart(w.data, l)
  PROVE  Unborn(l)'
<1>1. l \in Issued /\ l # 0 /\ l \in Issued'
  <2>1. Len(logins) \in Nat /\ Len(logins') \in Nat /\ Len(logins) <= Len(logins')
    BY TypeStep, GrowStep DEF TypeInv, TypeOK, ServerGrows
  <2> QED
    BY <2>1 DEF Unborn, Issued
<1>2. ASSUME NEW s \in SessionIds PROVE Apart(store'[s], l)
  <2>1. NoSession.login = 0 /\ NoSession.token.login = 0
    BY DEF NoSession, NoToken
  <2> QED
    BY <1>1, <2>1, StoredStep DEF Unborn, Apart
<1>3. ASSUME NEW q \in Requests, req'[q].pc \in Sent PROVE req'[q].sent.login # l
  <2>1. CASE req'[q] = req[q]
    BY <1>3, <2>1 DEF Unborn
  <2>2. CASE RefreshSend(q)
    BY <2>2, SendFacts DEF Unborn, Apart
  <2>3. CASE ServerRefresh(q)
    BY <2>3, AnswerFacts DEF Unborn, Sent
  <2>4. ASSUME NEW x \in Sids PROVE ~ServerRedeem(q, x)
    BY <1>3, RedeemFacts DEF Sent
  <2> QED
    BY <1>3, <2>1, <2>2, <2>3, <2>4, HoldStep DEF Sent
<1>4. ~Remembered(l)'
  BY RememberedStep DEF Unborn, Apart
<1> QED
  BY <1>1, <1>2, <1>3, <1>4 DEF Unborn, Apart, Sent

\* The writes a step starts carry such a login only when they are the sign-in's of it.
LEMMA WritesApart ==
  ASSUME TypeInv, PlaceInv, [Next]_vars, NEW l, Unborn(l),
         \A r \in Requests : RedeemReceive(r) => req[r].login # l,
         NEW w \in writes', w \notin writes
  PROVE  Apart(w.data, l)
<1>1. l # 0
  BY DEF Unborn, Issued
<1>2. ASSUME NEW r \in Requests, RefreshReceive(r) PROVE Apart(w.data, l)
  <2>1. PICK v : /\ writes' = writes \cup {v}
                 /\ v.data.login = req[r].sent.login
                 /\ v.data.token = IF req[r].reply = NoToken THEN store[req[r].session].token
                                   ELSE req[r].reply
    BY <1>2, RefreshWrites
  <2>2. v = w
    BY <2>1
  <2>3. req[r].pc = "rf_reply" /\ req[r].session \in SessionIds
    BY <1>2, RequestFacts DEF RefreshReceive, At, Proper
  <2>4. req[r].sent.login # l /\ store[req[r].session].token.login # l
    BY <2>3 DEF Unborn, Apart, Sent
  <2>5. req[r].reply.login # l
    BY <1>1, <2>3, <2>4 DEF PlaceInv, HoldsOwn
  <2> QED
    BY <2>1, <2>2, <2>4, <2>5 DEF Apart
<1>3. ASSUME NEW r \in Requests, RedeemReceive(r) PROVE Apart(w.data, l)
  <2>1. PICK v : /\ writes' = writes \cup {v}
                 /\ v.data.login = req[r].login /\ v.data.token.login = req[r].login
    BY <1>3, RedeemWrites
  <2>2. v = w
    BY <2>1
  <2> QED
    BY <1>3, <2>1, <2>2 DEF Apart
<1>4. ASSUME NEW x \in writes PROVE ~WriteLands(x)
  BY DEF WriteLands
<1> QED
  BY <1>2, <1>3, <1>4, FrameStep

LEMMA ReceivesFacts ==
  ASSUME TypeInv, NEW r \in Requests, RedeemReceive(r)
  PROVE  req[r].pc = "rd_reply" /\ req'[r].pc = "rd_store"
<1>1. req' = [req EXCEPT ![r] = [req[r] EXCEPT !.pc = "rd_store"]] /\ req[r].pc = "rd_reply"
  BY DEF RedeemReceive, Goto, At
<1>2. [req[r] EXCEPT !.pc = "rd_store"].pc = "rd_store"
  BY RequestFacts DEF Locals
<1> QED
  BY <1>1, <1>2 DEF TypeInv, TypeOK

LEMMA RememberedIssued ==
  ASSUME NamedInv, NEW l, Remembered(l)
  PROVE  l \in Issued
BY DEF NamedInv, Remembered

\* A login just redeemed is nowhere yet.
LEMMA NewbornFacts ==
  ASSUME TypeInv, HandlesInv, PlaceInv, NamedInv, [Next]_vars,
         NEW r \in Requests, NEW x \in Sids, ServerRedeem(r, x)
  PROVE  Unreceived(r)'
<1>0. PICK l : l = Len(logins) + 1
  OBVIOUS
<1>1. Len(logins) \in Nat /\ Len(logins') = l /\ req'[r].login = l /\ l = Len(logins) + 1
  <2>1. Len(logins) \in Nat
    BY DEF TypeInv, TypeOK
  <2> QED
    BY <1>0, <2>1, RedeemFacts
<1>2. l \notin Issued /\ l \in Issued' /\ l # 0
  BY <1>1 DEF Issued
<1>3. UNCHANGED <<store, writes>> /\ \A q \in Requests \ {r} : req'[q] = req[q]
  BY DEF ServerRedeem, TypeInv, TypeOK
<1>4. \A s \in SessionIds : Apart(store[s], l)
  BY <1>1 DEF TypeInv, Known, Apart
<1>5. \A w \in writes : Apart(w.data, l)
  BY <1>1 DEF TypeInv, Known, Apart
<1>6. \A q \in Requests : req'[q].pc \in Sent => req'[q].sent.login # l
  <2>1. \A q \in Requests : req[q].sent.login \in 0..Len(logins)
    BY RequestFacts DEF Proper
  <2>2. req'[r].pc \notin Sent
    BY RedeemFacts DEF Sent
  <2> QED
    BY <1>1, <1>3, <2>1, <2>2
<1>7. \A q \in Requests \ {r} : req'[q].pc = "rd_reply" => req'[q].login # l
  BY <1>1, <1>3, RequestFacts DEF Proper
<1>8. ~Remembered(l)'
  BY <1>2, RememberedStep, RememberedIssued
<1>9. Unborn(l)'
  BY <1>2, <1>3, <1>4, <1>6, <1>8 DEF Unborn, Apart
<1> QED
  BY <1>1, <1>3, <1>5, <1>7, <1>9 DEF Unreceived, Unborn, Apart

LEMMA UnreceivedStep ==
  ASSUME TypeInv, HandlesInv, PlaceInv, NewInv, [Next]_vars,
         NEW r \in Requests, req[r].pc = "rd_reply", req'[r] = req[r]
  PROVE  Unreceived(r)'
<1>0. PICK l : l = req[r].login
  OBVIOUS
<1>1. Unborn(l) /\ Unreceived(r) /\ l = req[r].login
  BY <1>0 DEF NewInv, Unreceived
<1>2. Unborn(l)'
  <2>1. \A w \in writes : Apart(w.data, l)
    BY <1>1 DEF Unreceived
  <2> QED
    BY <1>1, <2>1, UnbornStep
<1>3. ASSUME NEW w \in writes' PROVE Apart(w.data, l)
  <2>1. ASSUME NEW q \in Requests, RedeemReceive(q) PROVE req[q].login # l
    BY <1>1, <2>1, ReceivesFacts DEF Unreceived
  <2> QED
    BY <1>1, <1>3, <2>1, WritesApart DEF Unreceived
<1>4. ASSUME NEW q \in Requests \ {r}, req'[q].pc = "rd_reply" PROVE req'[q].login # l
  <2>1. CASE req'[q] = req[q]
    BY <1>1, <1>4, <2>1 DEF Unreceived
  <2>2. ASSUME NEW x \in Sids, ServerRedeem(q, x) PROVE req'[q].login # l
    <3>1. req'[q].login = Len(logins) + 1
      BY <2>2, RedeemFacts
    <3>2. Len(logins) \in Nat
      BY DEF TypeInv, TypeOK
    <3> QED
      BY <1>1, <3>1, <3>2 DEF Unborn, Issued
  <2> QED
    BY <1>4, <2>1, <2>2, HoldStep, SendFacts, AnswerFacts
<1> QED
  BY <1>1, <1>2, <1>3, <1>4 DEF Unreceived, Unborn, Apart

LEMMA UnlandedStep ==
  ASSUME TypeInv, HandlesInv, PlaceInv, NewInv, [Next]_vars,
         NEW w \in writes, w \in writes', ~w.refresh
  PROVE  Unlanded(w)'
<1> DEFINE l == w.data.login
<1>1. Unborn(l) /\ Unlanded(w)
  BY DEF NewInv, Unlanded
<1>2. Unborn(l)'
  <2>1. ASSUME NEW x \in writes, WriteLands(x) PROVE Apart(x.data, l)
    <3>1. x # w
      BY <2>1 DEF WriteLands
    <3> QED
      BY <1>1, <3>1 DEF Unlanded
  <2> QED
    BY <1>1, <2>1, UnbornStep
<1>3. ASSUME NEW x \in writes' \ {w} PROVE Apart(x.data, l)
  <2>1. ASSUME NEW q \in Requests, RedeemReceive(q) PROVE req[q].login # l
    BY <2>1, ReceivesFacts DEF NewInv, Unreceived, Apart
  <2> QED
    BY <1>1, <1>3, <2>1, WritesApart DEF Unlanded
<1> QED
  BY <1>2, <1>3 DEF Unlanded, Unborn, Apart

LEMMA StartedStep ==
  ASSUME TypeInv, HandlesInv, PlaceInv, NewInv, [Next]_vars,
         NEW w \in writes', w \notin writes, ~w.refresh
  PROVE  Unlanded(w)'
<1>1. ASSUME NEW r \in Requests, RefreshReceive(r) PROVE FALSE
  <2>1. PICK v : writes' = writes \cup {v} /\ v.refresh = TRUE
    BY <1>1, RefreshWrites
  <2> QED
    BY <2>1
<1>2. PICK r \in Requests : RedeemReceive(r)
  BY <1>1, FrameStep DEF WriteLands
<1>3. writes' = writes \cup {w} /\ w.data.login = req[r].login
  <2>1. PICK v : writes' = writes \cup {v} /\ v.data.login = req[r].login
    BY <1>2, RedeemWrites
  <2> QED
    BY <2>1
<1>4. Unreceived(r)
  BY <1>2, ReceivesFacts DEF NewInv
<1>5. PICK l : l = req[r].login
  OBVIOUS
<1>6. Unborn(l)'
  BY <1>4, <1>5, UnbornStep DEF Unreceived
<1> QED
  BY <1>3, <1>4, <1>5, <1>6 DEF Unlanded, Unreceived, Unborn, Apart

LEMMA NewStep ==
  ASSUME TypeInv, HandlesInv, PlaceInv, NamedInv, NewInv, [Next]_vars
  PROVE  NewInv'
<1>1. ASSUME NEW r \in Requests, req'[r].pc = "rd_reply" PROVE Unreceived(r)'
  <2>1. CASE req'[r] = req[r]
    BY <1>1, <2>1, UnreceivedStep
  <2>2. ASSUME NEW x \in Sids, ServerRedeem(r, x) PROVE Unreceived(r)'
    BY <2>2, NewbornFacts
  <2> QED
    BY <1>1, <2>1, <2>2, HoldStep, SendFacts, AnswerFacts
<1>2. ASSUME NEW w \in writes', ~w.refresh PROVE Unlanded(w)'
  BY <1>2, UnlandedStep, StartedStep
<1> QED
  BY <1>1, <1>2 DEF NewInv

\* What a handler has found of its token is ended, is still to be ended, or was written back.
LEMMA HandledStep ==
  ASSUME TypeInv, HandlesInv, PlaceInv, NamedInv, NewInv, [Next]_vars, readFaults' = 0,
         NEW q \in Requests, Handles(req'[q]), NEW l \in req'[q].named
  PROVE  SafeNext(l, Left(req'[q]))
<1>1. readFaults = 0
  BY FaultStep
<1>2. ASSUME NEW X, Handles(req[q]), l \in req[q].named, Safe(l, X) PROVE SafeNext(l, X)
  BY <1>2, SafeStep DEF NamedInv, Remembered
<1>3. ASSUME Handles(req[q]), l \in req[q].named PROVE Safe(l, Left(req[q])) /\ l \in Issued /\ l # 0
  BY <1>1, <1>3 DEF NamedInv, Issued
<1>4. ASSUME NEW s \in SessionIds, LogoutNext(q, s) PROVE SafeNext(l, Left(req'[q]))
  <2> DEFINE n == notices[req[q].note]
  <2>1. Handles(req[q]) /\ l \in req[q].named /\ ~Compared(req[q])
    BY <1>4, NextFacts DEF Handles, Looping, Compared, Indexing
  <2>2. /\ req'[q].todo = req[q].todo \ {s} /\ s \in req[q].todo
        /\ Mismatch(store[s], n) => ~Compared(req'[q])
        /\ ~Mismatch(store[s], n) => Compared(req'[q]) /\ req'[q].session = s
    BY <1>4, NextFacts
  <2>3. UNCHANGED <<store, late>>
    BY <1>4 DEF LogoutNext, history
  <2>4. Named(l, n)
    BY <2>1 DEF NamedInv
  <2>5. Mismatch(store[s], n) => store[s].login # l
    BY <2>4 DEF Mismatch, Named
  <2>6. Safe(l, req[q].todo)
    BY <1>3, <2>1 DEF Left
  <2> HIDE DEF n
  <2> QED
    BY <2>2, <2>3, <2>5, <2>6 DEF Safe, SafeNext, Left, Compared
<1>5. CASE LogoutClear(q)
  <2>1. /\ Handles(req[q]) /\ l \in req[q].named /\ Compared(req[q]) /\ ~Compared(req'[q])
        /\ req'[q].todo = req[q].todo /\ req[q].session \in SessionIds
    BY <1>5, ClearFacts DEF Handles, Compared
  <2>2. SafeNext(l, req[q].todo \cup {req[q].session})
    BY <1>2, <1>3, <2>1 DEF Left
  <2>3. store'[req[q].session] = NoSession /\ NoSession.login = 0
    BY <1>5, <2>1 DEF LogoutClear, RemoveSession, TypeInv, TypeOK, NoSession
  <2>4. l # 0
    BY <1>3, <2>1
  <2> QED
    BY <2>1, <2>2, <2>3, <2>4 DEF Safe, SafeNext, Left, Compared
<1>6. CASE Finds(q)
  <2>1. PICK j \in 1..Len(notices) :
          \A k \in req'[q].named :
            \E s \in SessionIds :
              /\ store[s].login = k /\ k \in Issued /\ Named(k, notices[j])
              /\ readFaults' = readFaults + 1 \/ s \in req'[q].todo
    BY <1>6, FoundFacts
  <2>2. PICK s \in SessionIds : store[s].login = l /\ l \in Issued /\ s \in req'[q].todo
    BY <1>1, <2>1
  <2>3. UNCHANGED <<store, late>>
    BY <1>6 DEF Finds, Find, history
  <2>4. l # 0
    BY <2>2 DEF Issued
  <2> QED
    BY <2>2, <2>3, <2>4, OnePlace DEF Safe, SafeNext, Left
<1>7. CASE Carries(req[q], req'[q])
  <2>1. Handles(req[q]) /\ l \in req[q].named
    BY <1>7 DEF Carries, Handles
  <2>2. /\ req'[q].todo = req[q].todo
        /\ Compared(req'[q]) => Compared(req[q]) /\ req'[q].session = req[q].session
    BY <1>7 DEF Carries
  <2>3. ~Compared(req'[q]) => ~Compared(req[q])
    BY <1>7 DEF Carries, Handles, Looping, Compared, Indexing
  <2>4. Left(req'[q]) = Left(req[q])
    BY <2>2, <2>3 DEF Left
  <2>5. Safe(l, Left(req[q]))
    BY <1>3, <2>1
  <2>6. SafeNext(l, Left(req[q]))
    BY <1>2, <2>1, <2>5
  <2> QED
    BY <2>4, <2>6
<1> QED
  BY <1>4, <1>5, <1>6, <1>7, CarriesStep

LEMMA NamedStep ==
  ASSUME TypeInv, HandlesInv, PlaceInv, NamedInv, NewInv, [Next]_vars
  PROVE  NamedInv'
<1>1. \A l \in Issued : l \in Issued'
  <2>1. Len(logins) \in Nat /\ Len(logins') \in Nat /\ Len(logins) <= Len(logins')
    BY TypeStep, GrowStep DEF TypeInv, TypeOK, ServerGrows
  <2> QED
    BY <2>1 DEF Issued
<1>2. ASSUME NEW q \in Requests, Handles(req'[q]), NEW l \in req'[q].named
      PROVE  l \in Issued /\ req'[q].note \in 1..Len(notices) /\ Named(l, notices[req'[q].note])
  <2>1. ASSUME NEW s \in SessionIds, LogoutNext(q, s)
        PROVE  Handles(req[q]) /\ req'[q].note = req[q].note /\ req'[q].named = req[q].named
    BY <2>1, NextFacts DEF Handles, Looping
  <2>2. CASE LogoutClear(q)
    <3>1. Handles(req[q]) /\ req'[q].note = req[q].note /\ req'[q].named = req[q].named
      BY <2>2, ClearFacts DEF Handles, Compared
    <3> QED
      BY <1>2, <3>1, ComparedNote DEF NamedInv
  <2>3. CASE Finds(q)
    BY <1>2, <2>3, FoundFacts
  <2>4. CASE Carries(req[q], req'[q])
    <3>1. Handles(req[q]) /\ req'[q].note = req[q].note /\ req'[q].named = req[q].named
      BY <1>2, <2>4 DEF Carries, Handles
    <3> QED
      BY <1>2, <3>1, ComparedNote DEF NamedInv
  <2> QED
    BY <1>2, <2>1, <2>2, <2>3, <2>4, CarriesStep, ComparedNote DEF NamedInv
<1>3. ASSUME NEW q \in Requests, Handles(req'[q]), NEW l \in req'[q].named
      PROVE  l \in Issued' /\ Named(l, notices[req[q].note])'
  <2>1. PICK j : j = req'[q].note
    OBVIOUS
  <2>2. Named(l, notices[j])'
    BY <1>2, <1>3, <2>1, GrowStep, NamedStays
  <2> QED
    BY <1>1, <1>2, <1>3, <2>1, <2>2
<1>4. loggedOut' \subseteq Issued'
  <2>1. ASSUME NEW r \in Requests, LogoutDone(r) PROVE loggedOut' \subseteq Issued
    BY <2>1, DoneFacts DEF NamedInv
  <2> QED
    BY <1>1, <2>1, HistoryStep DEF NamedInv
<1>5. ASSUME readFaults' = 0, NEW l \in loggedOut' PROVE SafeNext(l, {})
  <2>1. readFaults = 0
    BY <1>5, FaultStep
  <2>2. CASE l \in loggedOut
    BY <2>1, <2>2, SafeStep DEF NamedInv, Remembered
  <2>3. CASE l \notin loggedOut
    <3>1. PICK r \in Requests : LogoutDone(r)
      BY <1>5, <2>3, HistoryStep
    <3>2. /\ Handles(req[r]) /\ Left(req[r]) = {} /\ l \in req[r].named
          /\ UNCHANGED <<store, late>>
      BY <1>5, <2>3, <3>1, DoneFacts
    <3> QED
      BY <2>1, <3>2 DEF NamedInv, Safe, SafeNext
  <2> QED
    BY <2>2, <2>3
<1>6. ASSUME readFaults' = 0, NEW q \in Requests, Handles(req'[q]), NEW l \in req'[q].named
      PROVE  SafeNext(l, Left(req'[q]))
  BY <1>6, HandledStep
<1> QED
  BY <1>3, <1>4, <1>5, <1>6 DEF NamedInv, Safe, SafeNext, Handles, Compared, Looping, Left

\* As long as no read of the index fails, back-channel logout ends every session it found for the
\* token, whatever runs beside it, is retried or fails: such a session is stored afterwards only
\* when a refresh that was already under way wrote it back (handleBackchannelLogout).
THEOREM NamedAreEnded == Spec => [](readFaults = 0 => LogoutEndsNamed)
<1> DEFINE Inv == TypeInv /\ HandlesInv /\ PlaceInv /\ NamedInv /\ NewInv
<1>1. Init => Inv
  <2> SUFFICES ASSUME Init PROVE Inv
    OBVIOUS
  <2>1. TypeInv /\ HandlesInv /\ PlaceInv
    BY ComparedInit, BeginsInit DEF BeginsInv
  <2>2. /\ writes = {} /\ loggedOut = {}
        /\ \A r \in Requests : req[r].pc = "idle"
    BY DEF Init, Idle
  <2>3. \A r \in Requests : ~Handles(req[r])
    BY <2>2 DEF Handles, Compared, Looping, Indexing
  <2> QED
    BY <2>1, <2>2, <2>3 DEF NamedInv, NewInv
<1>2. Inv /\ [Next]_vars => Inv'
  BY TypeStep, HandlesStep, PlaceStep, NamedStep, NewStep
<1>3. Inv => (readFaults = 0 => LogoutEndsNamed)
  BY DEF NamedInv, Safe, LogoutEndsNamed
<1> QED
  BY <1>1, <1>2, <1>3, PTL DEF Spec

=============================================================================
