-------------------------- MODULE CookieSession_proofs --------------------------
(***************************************************************************)
(* What CookieSession promises, for any number of browsers, of requests    *)
(* and of sign-ins, and any lifetimes.  What needs logout tokens to be     *)
(* handled one after the other, or a relation between two lifetimes, has   *)
(* that as a hypothesis.                                                   *)
(***************************************************************************)
EXTENDS CookieSession, TLAPS

-----------------------------------------------------------------------------
(* The types *)

RequestType ==
  [pc : {"idle", "check", "verify", "fetch", "mint", "recheck", "answer"},
   path : AllPaths \cup {"callback"}, browser : Browsers \cup {NoBrowser}, token : Tokens,
   since : Nat, asked : Nat, served : BOOLEAN, late : BOOLEAN, lost : BOOLEAN, answer : Answers]

PostType == [pc : {"idle", "handle", "read", "write"}, note : Nat, expiresAt : Nat, endedAt : Nat]

CookieType == [token : Tokens, until : Nat]
LoginType  == [sid : Sids, gen : Nat, at : Nat]
NoticeType == [key : Keys, at : Nat, gone : SUBSET Sids]

\* A token of a login there is.
Known(t) == t.login \in DOMAIN logins

\* Cookies and requests have tokens of logins there have been, but for a request that only clears.
RequestsTyped ==
  /\ req \in [Requests -> RequestType]
  /\ \A r \in Requests : ~At(r, "idle") =>
       Known(req[r].token) \/ (At(r, "answer") /\ req[r].answer = "clear" /\ req[r].path = "callback")

CookiesTyped ==
  /\ cookie \in [Browsers -> CookieType]
  /\ \A b \in Browsers : cookie[b].token = NoToken \/ Known(cookie[b].token)

PostsTyped ==
  /\ post \in [Handlers -> PostType] /\ records \in [Keys -> Records]
  /\ \A h \in Handlers : ~PostAt(h, "idle") => post[h].note \in DOMAIN notices

ServerTyped ==
  /\ logins \in Seq(LoginType) /\ ended \subseteq Sids /\ notices \in Seq(NoticeType)
  /\ now \in Nat /\ faults \in Nat

PastTyped ==
  /\ handled \subseteq DOMAIN notices /\ replayed \subseteq handled /\ failed \subseteq DOMAIN notices
  /\ closed \subseteq DOMAIN logins /\ revived \subseteq DOMAIN logins

TypeInv == RequestsTyped /\ CookiesTyped /\ PostsTyped /\ ServerTyped /\ PastTyped

-----------------------------------------------------------------------------
(* Records *)

\* The constants the proofs need.
LEMMA Constants ==
  /\ SubOf \in [Sids -> Subs] /\ Sids \cap Subs = {} /\ Paths \subseteq AllPaths /\ NoBrowser \notin Browsers
  /\ CookieTtl \in Nat /\ CookieTtl > 0 /\ AccessTtl \in Nat /\ AccessTtl > 0
  /\ Buffer \in Nat /\ Tolerance \in Nat /\ MaxDelay \in Nat
BY ConstantsAssumption

LEMMA Fields ==
  /\ \A t \in Tokens : t.login \in Nat /\ t.gen \in Nat /\ t.signedInAt \in Nat /\ t.exp \in Nat /\ t.made \in Nat
  /\ \A e \in RequestType :
       /\ e.path \in AllPaths \cup {"callback"} /\ e.browser \in Browsers \cup {NoBrowser} /\ e.token \in Tokens
       /\ e.since \in Nat /\ e.asked \in Nat /\ e.answer \in Answers
       /\ e.served \in BOOLEAN /\ e.late \in BOOLEAN /\ e.lost \in BOOLEAN
  /\ \A p \in PostType : p.note \in Nat /\ p.expiresAt \in Nat /\ p.endedAt \in Nat
  /\ \A c \in CookieType : c.token \in Tokens /\ c.until \in Nat
  /\ \A n \in NoticeType : n.key \in Keys /\ n.at \in Nat /\ n.gone \subseteq Sids
  /\ \A l \in LoginType : l.sid \in Sids /\ l.gen \in Nat /\ l.at \in Nat
  /\ \A x \in Records : x.endedAt \in Nat /\ x.expiresAt \in Nat
BY DEF Tokens, RequestType, PostType, CookieType, NoticeType, LoginType, Records

LEMMA Nones ==
  /\ NoToken \in Tokens /\ NoToken.login = 0 /\ NoToken.gen = 0 /\ NoToken.signedInAt = 0 /\ NoToken.exp = 0
  /\ NoToken.made = 0
  /\ NoCookie \in CookieType /\ NoCookie.token = NoToken
  /\ NoRecord \in Records /\ NoRecord.expiresAt = 0
  /\ IdleRequest \in RequestType /\ IdleRequest.pc = "idle" /\ IdleRequest.token = NoToken
  /\ ~IdleRequest.served /\ ~IdleRequest.late
  /\ IdlePost \in PostType /\ IdlePost.pc = "idle"
BY DEF NoToken, NoCookie, NoRecord, IdleRequest, IdlePost, Tokens, CookieType, Records, RequestType, PostType,
   AllPaths, Answers

\* The parts of the state by their types.
LEMMA StateIs ==
  ASSUME TypeInv
  PROVE  /\ \A r \in Requests : req[r] \in RequestType
         /\ \A b \in Browsers : cookie[b] \in CookieType
         /\ \A h \in Handlers : post[h] \in PostType
         /\ \A k \in Keys : records[k] \in Records
         /\ \A l \in DOMAIN logins : logins[l] \in LoginType
         /\ \A j \in DOMAIN notices : notices[j] \in NoticeType
         /\ DOMAIN logins = 1..Len(logins) /\ Len(logins) \in Nat
         /\ DOMAIN notices = 1..Len(notices) /\ Len(notices) \in Nat
BY DEF TypeInv, RequestsTyped, CookiesTyped, PostsTyped, ServerTyped

\* The one request that changes.
Changes(r) == req' \in [Requests -> RequestType] /\ \A q \in Requests : q # r => req'[q] = req[q]

LEMMA StepEffect ==
  ASSUME TypeInv, NEW r \in Requests, NEW e \in RequestType, Step(r, e)
  PROVE  Changes(r) /\ req'[r] = e
BY DEF Step, Changes, TypeInv, RequestsTyped

\* What stays of a request that goes on.
Stays(e, f) ==
  f.path = e.path /\ f.browser = e.browser /\ f.since = e.since /\ f.late = e.late

\* Its state alone changes.
LEMMA PcIs ==
  ASSUME NEW e \in RequestType, NEW label \in {"verify", "fetch", "mint", "recheck"}
  PROVE  LET f == [e EXCEPT !.pc = label]
         IN  /\ f \in RequestType /\ f.pc = label /\ Stays(e, f) /\ f.token = e.token
             /\ f.asked = e.asked /\ f.served = e.served /\ f.lost = e.lost /\ f.answer = e.answer
BY DEF RequestType, Stays

\* It is answered.
LEMMA AnswerIs ==
  ASSUME NEW e \in RequestType, NEW served \in BOOLEAN, NEW answer \in Answers
  PROVE  LET f == Answer(e, served, answer)
         IN  /\ f \in RequestType /\ f.pc = "answer" /\ Stays(e, f) /\ f.token = e.token
             /\ f.asked = e.asked /\ f.served = served /\ f.lost = e.lost /\ f.answer = answer
BY DEF RequestType, Stays, Answer

\* It is served.
LEMMA ServedIs ==
  ASSUME NEW e \in RequestType, NEW answer \in {"keep", "set"}
  PROVE  LET f == Answer(e, TRUE, answer)
         IN  /\ f \in RequestType /\ f.pc = "answer" /\ Stays(e, f) /\ f.token = e.token
             /\ f.asked = e.asked /\ f.served /\ f.lost = e.lost /\ f.answer = answer
<1>1. answer \in Answers /\ TRUE \in BOOLEAN
  BY DEF Answers
<1> QED BY <1>1 DEF RequestType, Stays, Answer

\* It is refused.
LEMMA RefuseIs ==
  ASSUME NEW e \in RequestType
  PROVE  LET f == Refuse(e)
         IN  /\ f \in RequestType /\ f.pc = "answer" /\ Stays(e, f) /\ f.token = e.token
             /\ f.asked = e.asked /\ ~f.served /\ f.lost = e.lost
             /\ f.answer = IF e.path \in NextPaths THEN "clear" ELSE "keep"
<1> DEFINE answer == IF e.path \in NextPaths THEN "clear" ELSE "keep"
<1>1. answer \in Answers /\ FALSE \in BOOLEAN
  BY DEF Answers
<1>2. Refuse(e) = Answer(e, FALSE, answer) /\ answer = IF e.path \in NextPaths THEN "clear" ELSE "keep"
  BY DEF Refuse
<1> HIDE DEF answer
<1>3. LET f == Answer(e, FALSE, answer)
      IN  /\ f \in RequestType /\ f.pc = "answer" /\ Stays(e, f) /\ f.token = e.token
          /\ f.asked = e.asked /\ f.served = FALSE /\ f.lost = e.lost /\ f.answer = answer
  BY <1>1, AnswerIs
<1> QED BY <1>2, <1>3

-----------------------------------------------------------------------------
(* What a request does *)

\* It arrives, with the cookie of its browser.
LEMMA ArriveEffect ==
  ASSUME TypeInv, NEW r \in Requests, NEW b \in Browsers, NEW p, Arrive(r, b, p)
  PROVE  LET f == req'[r]
         IN  /\ At(r, "idle") /\ Changes(r) /\ f.pc \in {"check", "verify"} /\ f.path = p /\ p \in Paths
             /\ f.browser = b /\ f.token = cookie[b].token /\ Known(f.token) /\ f.since = now /\ f.asked = 0
             /\ ~f.served /\ ~f.lost /\ f.answer = "keep"
             /\ f.late = (f.token.login \in closed)
<1> DEFINE label == IF p = "action" THEN "verify" ELSE "check"
           late == cookie[b].token.login \in closed
           e == [IdleRequest EXCEPT !.pc = label, !.path = p, !.browser = b,
                   !.token = cookie[b].token, !.since = now, !.late = late]
<1>0. Step(r, e) /\ At(r, "idle") /\ cookie[b].token # NoToken
  BY DEF Arrive
<1>1. cookie[b].token \in Tokens /\ now \in Nat /\ p \in AllPaths /\ p \in Paths
  BY StateIs, Fields, Constants DEF TypeInv, ServerTyped, Arrive
<1>2. label \in {"check", "verify"} /\ late \in BOOLEAN /\ late = (cookie[b].token.login \in closed)
  OBVIOUS
<1> HIDE DEF label, late
<1>3. /\ e \in RequestType
      /\ e.pc = label /\ e.path = p /\ e.browser = b /\ e.token = cookie[b].token
      /\ e.since = now /\ e.asked = 0 /\ e.served = FALSE /\ e.lost = FALSE /\ e.answer = "keep" /\ e.late = late
  BY <1>1, <1>2 DEF RequestType, IdleRequest, Answers
<1> HIDE DEF e
<1>5. Changes(r) /\ req'[r] = e
  BY <1>0, <1>3, StepEffect
<1>6. Known(cookie[b].token)
  BY <1>0 DEF TypeInv, CookiesTyped
<1> QED BY <1>0, <1>1, <1>2, <1>3, <1>5, <1>6

\* A callback begins, with a login of its own.
LEMMA CallbackEffect ==
  ASSUME TypeInv, NEW r \in Requests, NEW b \in Browsers, NEW x \in Sids, Callback(r, b, x)
  PROVE  LET f == req'[r]
             l == Len(logins) + 1
         IN  /\ At(r, "idle") /\ Changes(r) /\ f.pc = "mint" /\ f.path = "callback" /\ f.browser = b
             /\ f.token \in Tokens /\ f.token.login = l /\ f.token.gen = 1 /\ f.token.made = 0
             /\ f.token.signedInAt = 0 /\ f.token.exp = 0
             /\ f.since = now /\ f.asked = 0 /\ ~f.served /\ ~f.late /\ ~f.lost /\ f.answer = "keep"
             /\ logins' \in Seq(LoginType) /\ DOMAIN logins' = DOMAIN logins \cup {l} /\ l \notin DOMAIN logins
             /\ logins'[l].sid = x /\ logins'[l].gen = 1 /\ x \notin ended
             /\ \A k \in DOMAIN logins : logins'[k] = logins[k]
<1> DEFINE t == [NoToken EXCEPT !.login = Len(logins) + 1, !.gen = 1]
           e == [IdleRequest EXCEPT !.pc = "mint", !.browser = b, !.since = now, !.token = t]
           n == [sid |-> x, gen |-> 1, at |-> now]
<1>0. now \in Nat /\ Len(logins) \in Nat /\ logins \in Seq(LoginType)
  BY StateIs DEF TypeInv, ServerTyped
<1>1. /\ t \in Tokens /\ t.login = Len(logins) + 1 /\ t.gen = 1 /\ t.made = 0 /\ t.signedInAt = 0 /\ t.exp = 0
  <2>1. Len(logins) + 1 \in Nat
    BY <1>0
  <2> QED BY <2>1 DEF Tokens, NoToken
<1>2. Step(r, e) /\ At(r, "idle") /\ logins' = Append(logins, n) /\ x \notin ended
  BY DEF Callback
<1>3. n \in LoginType /\ n.sid = x /\ n.gen = 1
  BY <1>0 DEF LoginType
<1> HIDE DEF t, n
<1>4. e \in RequestType /\ e.pc = "mint" /\ e.path = "callback" /\ e.browser = b /\ e.token = t
      /\ e.since = now /\ e.asked = 0 /\ e.served = FALSE /\ e.late = FALSE /\ e.lost = FALSE /\ e.answer = "keep"
  BY <1>0, <1>1 DEF RequestType, IdleRequest, Answers
<1> HIDE DEF e
<1>5. Changes(r) /\ req'[r] = e
  BY <1>2, <1>4, StepEffect
<1>6. /\ logins' \in Seq(LoginType) /\ Len(logins') = Len(logins) + 1 /\ logins'[Len(logins) + 1] = n
      /\ \A k \in 1..Len(logins) : logins'[k] = logins[k]
  BY <1>0, <1>2, <1>3
<1>7. DOMAIN logins' = 1..Len(logins') /\ DOMAIN logins = 1..Len(logins)
  BY <1>0, <1>6
<1>8. DOMAIN logins' = DOMAIN logins \cup {Len(logins) + 1} /\ Len(logins) + 1 \notin DOMAIN logins
  BY <1>0, <1>6, <1>7
<1> QED BY <1>1, <1>2, <1>3, <1>4, <1>5, <1>6, <1>7, <1>8

\* clearSession is answered at once.
LEMMA ClearSessionEffect ==
  ASSUME TypeInv, NEW r \in Requests, NEW b \in Browsers, ClearSession(r, b)
  PROVE  LET f == req'[r]
         IN  /\ At(r, "idle") /\ Changes(r) /\ f.pc = "answer" /\ f.path = "callback" /\ f.browser = b
             /\ f.token = NoToken /\ f.since = now /\ f.asked = 0 /\ ~f.served /\ ~f.late /\ ~f.lost
             /\ f.answer = "clear"
<1> DEFINE i == [IdleRequest EXCEPT !.browser = b, !.since = now]
           e == Answer(i, FALSE, "clear")
<1>0. now \in Nat
  BY DEF TypeInv, ServerTyped
<1>1. i \in RequestType /\ i.path = "callback" /\ i.browser = b /\ i.token = NoToken /\ i.since = now
      /\ i.asked = 0 /\ i.late = FALSE /\ i.lost = FALSE
  BY <1>0, Nones DEF RequestType, IdleRequest, Answers
<1>2. Step(r, e) /\ At(r, "idle")
  BY DEF ClearSession
<1> HIDE DEF i
<1>3. e \in RequestType /\ e.pc = "answer" /\ Stays(i, e) /\ e.token = i.token
      /\ e.asked = i.asked /\ e.served = FALSE /\ e.lost = i.lost /\ e.answer = "clear"
  <2>1. "clear" \in Answers /\ FALSE \in BOOLEAN
    BY DEF Answers
  <2> QED BY <1>1, <2>1, AnswerIs
<1> HIDE DEF e
<1>4. Changes(r) /\ req'[r] = e
  BY <1>2, <1>3, StepEffect
<1> QED BY <1>1, <1>2, <1>3, <1>4 DEF Stays

\* The session in the cookie is checked: it will do, or is to be refreshed, or is refused.
LEMMA CheckEffect ==
  ASSUME TypeInv, NEW r \in Requests, Check(r)
  PROVE  LET e == req[r]
             f == req'[r]
         IN  /\ e.pc = "check" /\ Changes(r) /\ Stays(e, f) /\ f.token = e.token /\ f.asked = now /\ f.lost = e.lost
             /\ \/ /\ f.pc = "answer" /\ f.served /\ f.answer = "keep"
                   /\ Current(e) /\ ~LoggedOut(e.token)
                \/ f.pc = "fetch" /\ f.served = e.served /\ f.answer = e.answer
                \/ f.pc = "verify" /\ f.served = e.served /\ f.answer = e.answer
                \/ /\ f.pc = "answer" /\ ~f.served /\ e.path # "proxy"
                   /\ f.answer = IF e.path \in NextPaths THEN "clear" ELSE "keep"
<1> DEFINE i == [req[r] EXCEPT !.asked = now]
<1>0. req[r] \in RequestType /\ now \in Nat
  BY StateIs DEF TypeInv, ServerTyped
<1>1. i \in RequestType /\ Stays(req[r], i) /\ i.token = req[r].token /\ i.asked = now
      /\ i.served = req[r].served /\ i.lost = req[r].lost /\ i.answer = req[r].answer
  BY <1>0 DEF RequestType, Stays
<1>2. req[r].pc = "check"
  BY DEF Check, At
<1>3. \/ Current(i) /\ ~LoggedOut(i.token) /\ Step(r, Answer(i, TRUE, "keep"))
      \/ Step(r, [i EXCEPT !.pc = "fetch"])
      \/ Step(r, [i EXCEPT !.pc = "verify"])
      \/ i.path # "proxy" /\ Step(r, Refuse(i))
  BY DEF Check
<1>4. Current(i) <=> Current(req[r])
  BY <1>1 DEF Current, Stays
<1> HIDE DEF i
<1>5. CASE Current(i) /\ ~LoggedOut(i.token) /\ Step(r, Answer(i, TRUE, "keep"))
  <2> DEFINE f == Answer(i, TRUE, "keep")
  <2>2. f \in RequestType /\ f.pc = "answer" /\ Stays(i, f) /\ f.token = i.token
        /\ f.asked = i.asked /\ f.served /\ f.lost = i.lost /\ f.answer = "keep"
    BY <1>1, ServedIs
  <2> HIDE DEF f
  <2>3. Changes(r) /\ req'[r] = f
    BY <1>5, <2>2, StepEffect DEF f
  <2> QED BY <1>1, <1>2, <1>4, <1>5, <2>2, <2>3 DEF Stays
<1>6. ASSUME NEW label \in {"fetch", "verify"}, Step(r, [i EXCEPT !.pc = label])
      PROVE  /\ Changes(r) /\ Stays(req[r], req'[r]) /\ req'[r].token = req[r].token /\ req'[r].asked = now
             /\ req'[r].lost = req[r].lost /\ req'[r].pc = label
             /\ req'[r].served = req[r].served /\ req'[r].answer = req[r].answer
  <2> DEFINE f == [i EXCEPT !.pc = label]
  <2>1. f \in RequestType /\ f.pc = label /\ Stays(i, f) /\ f.token = i.token
        /\ f.asked = i.asked /\ f.served = i.served /\ f.lost = i.lost /\ f.answer = i.answer
    <3>1. label \in {"verify", "fetch", "mint", "recheck"}
      OBVIOUS
    <3> QED BY <1>1, <3>1, PcIs
  <2> HIDE DEF f
  <2>2. Changes(r) /\ req'[r] = f
    BY <1>6, <2>1, StepEffect DEF f
  <2> QED BY <1>1, <2>1, <2>2 DEF Stays
<1>7. CASE i.path # "proxy" /\ Step(r, Refuse(i))
  <2> DEFINE f == Refuse(i)
  <2>1. f \in RequestType /\ f.pc = "answer" /\ Stays(i, f) /\ f.token = i.token
        /\ f.asked = i.asked /\ ~f.served /\ f.lost = i.lost
        /\ f.answer = IF i.path \in NextPaths THEN "clear" ELSE "keep"
    BY <1>1, RefuseIs
  <2> HIDE DEF f
  <2>2. Changes(r) /\ req'[r] = f
    BY <1>7, <2>1, StepEffect DEF f
  <2> QED BY <1>1, <1>2, <1>7, <2>1, <2>2 DEF Stays
<1> QED BY <1>2, <1>3, <1>5, <1>6, <1>7

\* A session to be refreshed is refused for a record only.
LEMMA VerifyEffect ==
  ASSUME TypeInv, NEW r \in Requests, Verify(r)
  PROVE  LET e == req[r]
             f == req'[r]
         IN  /\ e.pc = "verify" /\ Changes(r) /\ Stays(e, f) /\ f.token = e.token /\ f.asked = e.asked
             /\ f.lost = e.lost
             /\ \/ /\ f.pc = "answer" /\ ~f.served /\ LoggedOut(e.token)
                   /\ f.answer = IF e.path \in NextPaths THEN "clear" ELSE "keep"
                \/ f.pc = "fetch" /\ f.served = e.served /\ f.answer = e.answer
<1>0. req[r] \in RequestType /\ req[r].pc = "verify"
  BY StateIs DEF Verify, At
<1>1. CASE LoggedOut(req[r].token)
  <2> DEFINE f == Refuse(req[r])
  <2>1. f \in RequestType /\ f.pc = "answer" /\ Stays(req[r], f) /\ f.token = req[r].token
        /\ f.asked = req[r].asked /\ ~f.served /\ f.lost = req[r].lost
        /\ f.answer = IF req[r].path \in NextPaths THEN "clear" ELSE "keep"
    BY <1>0, RefuseIs
  <2>2. Step(r, f)
    BY <1>1 DEF Verify
  <2> HIDE DEF f
  <2>3. Changes(r) /\ req'[r] = f
    BY <2>1, <2>2, StepEffect
  <2> QED BY <1>0, <1>1, <2>1, <2>3
<1>2. CASE ~LoggedOut(req[r].token)
  <2> DEFINE f == [req[r] EXCEPT !.pc = "fetch"]
  <2>1. f \in RequestType /\ f.pc = "fetch" /\ Stays(req[r], f) /\ f.token = req[r].token
        /\ f.asked = req[r].asked /\ f.served = req[r].served /\ f.lost = req[r].lost /\ f.answer = req[r].answer
    BY <1>0, PcIs
  <2>2. Step(r, f)
    BY <1>2 DEF Verify
  <2> HIDE DEF f
  <2>3. Changes(r) /\ req'[r] = f
    BY <2>1, <2>2, StepEffect
  <2> QED BY <1>0, <2>1, <2>3
<1> QED BY <1>1, <1>2

\* The token endpoint answers: the refresh token of the request is the one of its login.
LEMMA ServerRefreshEffect ==
  ASSUME TypeInv, NEW r \in Requests, ServerRefresh(r)
  PROVE  LET e == req[r]
             f == req'[r]
         IN  /\ e.pc = "fetch" /\ Valid(e.token) /\ Changes(r) /\ Stays(e, f) /\ f.asked = e.asked
             /\ f.lost = e.lost /\ f.pc = "mint" /\ f.served = e.served /\ f.answer = e.answer
             /\ f.token.login = e.token.login /\ f.token.made = e.token.made /\ f.token.exp = e.token.exp
             /\ f.token.signedInAt = e.token.signedInAt
             /\ f.token.gen = logins'[e.token.login].gen
             /\ logins' \in Seq(LoginType) /\ DOMAIN logins' = DOMAIN logins
             /\ \A k \in DOMAIN logins : logins'[k].sid = logins[k].sid /\ logins'[k].gen >= logins[k].gen
<1> DEFINE e == req[r]
           l == req[r].token.login
<1>0. /\ e \in RequestType /\ e.pc = "fetch" /\ Valid(e.token) /\ e.token \in Tokens /\ l \in DOMAIN logins
      /\ logins[l].gen = e.token.gen /\ e.token.gen \in Nat /\ logins \in Seq(LoginType)
  <2>1. e \in RequestType /\ e.pc = "fetch" /\ Valid(e.token) /\ logins \in Seq(LoginType)
    BY StateIs DEF ServerRefresh, At, TypeInv, ServerTyped
  <2>2. e.token \in Tokens /\ e.token.gen \in Nat
    BY <2>1, Fields
  <2>3. Known(e.token)
    BY <2>1 DEF TypeInv, RequestsTyped, At
  <2> QED BY <2>1, <2>2, <2>3 DEF Valid, Known
<1>1. CASE Step(r, [e EXCEPT !.pc = "mint"]) /\ UNCHANGED logins
  <2> DEFINE f == [e EXCEPT !.pc = "mint"]
  <2>1. f \in RequestType /\ f.pc = "mint" /\ Stays(e, f) /\ f.token = e.token
        /\ f.asked = e.asked /\ f.served = e.served /\ f.lost = e.lost /\ f.answer = e.answer
    BY <1>0, PcIs
  <2> HIDE DEF f
  <2>2. Changes(r) /\ req'[r] = f
    BY <1>1, <2>1, StepEffect DEF f
  <2>3. \A k \in DOMAIN logins : logins[k].gen \in Nat
    BY StateIs, Fields
  <2> QED BY <1>0, <1>1, <2>1, <2>2, <2>3
<1>2. CASE Step(r, [e EXCEPT !.pc = "mint", !.token.gen = @ + 1]) /\ logins' = [logins EXCEPT ![l].gen = @ + 1]
  <2> DEFINE t == [e.token EXCEPT !.gen = @ + 1]
             f == [e EXCEPT !.pc = "mint", !.token = t]
             g == [logins[l] EXCEPT !.gen = @ + 1]
  <2>1. t \in Tokens /\ t.login = l /\ t.made = e.token.made /\ t.exp = e.token.exp
        /\ t.signedInAt = e.token.signedInAt /\ t.gen = e.token.gen + 1
    BY <1>0 DEF Tokens
  <2>2. [e EXCEPT !.pc = "mint", !.token.gen = @ + 1] = f
    BY <1>0 DEF RequestType
  <2>3. g \in LoginType /\ g.sid = logins[l].sid /\ g.gen = logins[l].gen + 1
    <3>1. logins[l] \in LoginType /\ logins[l].gen + 1 \in Nat
      BY <1>0, StateIs, Fields
    <3> QED BY <3>1 DEF LoginType
  <2>4. logins' = [logins EXCEPT ![l] = g]
    BY <1>2
  <2> HIDE DEF t, g
  <2>5. f \in RequestType /\ f.pc = "mint" /\ Stays(e, f) /\ f.token = t
        /\ f.asked = e.asked /\ f.served = e.served /\ f.lost = e.lost /\ f.answer = e.answer
    BY <1>0, <2>1 DEF RequestType, Stays
  <2> HIDE DEF f
  <2>6. Changes(r) /\ req'[r] = f
    BY <1>2, <2>2, <2>5, StepEffect
  <2>7. logins' \in Seq(LoginType) /\ DOMAIN logins' = DOMAIN logins /\ logins'[l] = g
        /\ \A k \in DOMAIN logins : k # l => logins'[k] = logins[k]
    BY <1>0, <2>3, <2>4
  <2>8. \A k \in DOMAIN logins : logins'[k].sid = logins[k].sid /\ logins'[k].gen >= logins[k].gen
    <3>1. \A k \in DOMAIN logins : logins[k].gen \in Nat
      BY StateIs, Fields
    <3> QED BY <2>3, <2>7, <3>1
  <2> QED BY <1>0, <2>1, <2>3, <2>5, <2>6, <2>7, <2>8
<1> QED BY <1>1, <1>2 DEF ServerRefresh

\* The refresh is refused, or lost.
LEMMA RefreshFailsEffect ==
  ASSUME TypeInv, NEW r \in Requests, RefreshFails(r)
  PROVE  LET e == req[r]
             f == req'[r]
         IN  /\ e.pc = "fetch" /\ Changes(r) /\ Stays(e, f) /\ f.token = e.token /\ f.asked = e.asked
             /\ f.pc = "answer" /\ ~f.served /\ (f.lost \/ (~Valid(e.token) /\ f.lost = e.lost))
             /\ f.answer = IF e.path \in NextPaths THEN "clear" ELSE "keep"
<1> DEFINE f == Refuse(req[r])
           g == [f EXCEPT !.lost = TRUE]
<1>0. req[r] \in RequestType /\ req[r].pc = "fetch"
  BY StateIs DEF RefreshFails, At
<1>1. f \in RequestType /\ f.pc = "answer" /\ Stays(req[r], f) /\ f.token = req[r].token
      /\ f.asked = req[r].asked /\ ~f.served /\ f.lost = req[r].lost
      /\ f.answer = IF req[r].path \in NextPaths THEN "clear" ELSE "keep"
  BY <1>0, RefuseIs
<1>2. (~Valid(req[r].token) /\ Step(r, f)) \/ Step(r, g)
  BY DEF RefreshFails
<1> HIDE DEF f
<1>3. g \in RequestType /\ g.pc = "answer" /\ Stays(req[r], g) /\ g.token = req[r].token
      /\ g.asked = req[r].asked /\ g.served = f.served /\ g.lost = TRUE /\ g.answer = f.answer
  BY <1>1 DEF RequestType, Stays
<1> HIDE DEF g
<1>4. (~Valid(req[r].token) /\ Changes(r) /\ req'[r] = f) \/ (Changes(r) /\ req'[r] = g)
  BY <1>1, <1>2, <1>3, StepEffect
<1> QED BY <1>0, <1>1, <1>3, <1>4

\* The new token.
LEMMA MintedIs ==
  ASSUME TypeInv, NEW e \in RequestType
  PROVE  LET t == Minted(e)
         IN  /\ t \in Tokens /\ t.login = e.token.login /\ t.gen = e.token.gen /\ t.made = now
             /\ t.exp = (IF e.path = "token" THEN e.asked ELSE now) + AccessTtl
             /\ t.signedInAt = IF e.path = "callback" THEN now ELSE e.token.signedInAt
<1> DEFINE exp == (IF e.path = "token" THEN e.asked ELSE now) + AccessTtl
           at == IF e.path = "callback" THEN now ELSE e.token.signedInAt
           t == [e.token EXCEPT !.made = now, !.exp = exp, !.signedInAt = at]
<1>1. now \in Nat /\ e.token \in Tokens /\ exp \in Nat /\ at \in Nat
  BY Constants, Fields DEF TypeInv, ServerTyped
<1>2. Minted(e) = t
  BY DEF Minted
<1>3. exp = (IF e.path = "token" THEN e.asked ELSE now) + AccessTtl
      /\ at = IF e.path = "callback" THEN now ELSE e.token.signedInAt
  OBVIOUS
<1> HIDE DEF exp, at
<1>4. t \in Tokens /\ t.login = e.token.login /\ t.gen = e.token.gen /\ t.made = now /\ t.exp = exp
      /\ t.signedInAt = at
  BY <1>1 DEF Tokens
<1> QED BY <1>2, <1>3, <1>4

LEMMA MintEffect ==
  ASSUME TypeInv, NEW r \in Requests, Mint(r)
  PROVE  LET e == req[r]
             f == req'[r]
         IN  /\ e.pc = "mint" /\ Changes(r) /\ Stays(e, f) /\ f.token = Minted(e) /\ f.asked = e.asked
             /\ f.lost = e.lost
             /\ \/ e.path = "proxy" /\ f.pc = "recheck" /\ f.served = e.served /\ f.answer = e.answer
                \/ e.path # "proxy" /\ f.pc = "answer" /\ f.served /\ f.answer = "set"
<1> DEFINE t == Minted(req[r])
           i == [req[r] EXCEPT !.token = t]
<1>0. req[r] \in RequestType /\ req[r].pc = "mint"
  BY StateIs DEF Mint, At
<1>1. t \in Tokens
  BY <1>0, MintedIs
<1>2. Step(r, IF i.path = "proxy" THEN [i EXCEPT !.pc = "recheck"] ELSE Answer(i, TRUE, "set"))
  BY DEF Mint
<1>3. i \in RequestType /\ Stays(req[r], i) /\ i.token = t /\ i.asked = req[r].asked
      /\ i.served = req[r].served /\ i.lost = req[r].lost /\ i.answer = req[r].answer
  <2> HIDE DEF t
  <2> QED BY <1>0, <1>1 DEF RequestType, Stays
<1> HIDE DEF i
<1>4. CASE i.path = "proxy"
  <2> DEFINE f == [i EXCEPT !.pc = "recheck"]
  <2>1. f \in RequestType /\ f.pc = "recheck" /\ Stays(i, f) /\ f.token = i.token
        /\ f.asked = i.asked /\ f.served = i.served /\ f.lost = i.lost /\ f.answer = i.answer
    BY <1>3, PcIs
  <2>2. Step(r, f)
    BY <1>2, <1>4
  <2> HIDE DEF f, t
  <2>3. Changes(r) /\ req'[r] = f
    BY <2>1, <2>2, StepEffect
  <2> QED BY <1>0, <1>3, <1>4, <2>1, <2>3 DEF Stays, t
<1>5. CASE i.path # "proxy"
  <2> DEFINE f == Answer(i, TRUE, "set")
  <2>1. f \in RequestType /\ f.pc = "answer" /\ Stays(i, f) /\ f.token = i.token
        /\ f.asked = i.asked /\ f.served /\ f.lost = i.lost /\ f.answer = "set"
    BY <1>3, ServedIs
  <2>2. Step(r, f)
    BY <1>2, <1>5
  <2> HIDE DEF f, t
  <2>3. Changes(r) /\ req'[r] = f
    BY <2>1, <2>2, StepEffect
  <2> QED BY <1>0, <1>3, <1>5, <2>1, <2>3 DEF Stays, t
<1> QED BY <1>4, <1>5

\* The proxy checks the new token.
LEMMA RecheckEffect ==
  ASSUME TypeInv, NEW r \in Requests, Recheck(r)
  PROVE  LET e == req[r]
             f == req'[r]
         IN  /\ e.pc = "recheck" /\ Changes(r) /\ Stays(e, f) /\ f.token = e.token /\ f.asked = e.asked
             /\ f.lost = e.lost /\ f.pc = "answer"
             /\ \/ f.served /\ f.answer = "set"
                \/ /\ ~f.served /\ (~Current(e) \/ LoggedOut(e.token))
                   /\ f.answer = IF e.path \in NextPaths THEN "clear" ELSE "keep"
<1>0. req[r] \in RequestType /\ req[r].pc = "recheck"
  BY StateIs DEF Recheck, At
<1> DEFINE ok == Current(req[r]) /\ ~LoggedOut(req[r].token)
<1>1. CASE ok
  <2> DEFINE f == Answer(req[r], TRUE, "set")
  <2>1. f \in RequestType /\ f.pc = "answer" /\ Stays(req[r], f) /\ f.token = req[r].token
        /\ f.asked = req[r].asked /\ f.served /\ f.lost = req[r].lost /\ f.answer = "set"
    BY <1>0, ServedIs
  <2>2. Step(r, f)
    BY <1>1 DEF Recheck
  <2> HIDE DEF f
  <2>3. Changes(r) /\ req'[r] = f
    BY <2>1, <2>2, StepEffect
  <2> QED BY <1>0, <2>1, <2>3
<1>2. CASE ~ok
  <2> DEFINE f == Refuse(req[r])
  <2>1. f \in RequestType /\ f.pc = "answer" /\ Stays(req[r], f) /\ f.token = req[r].token
        /\ f.asked = req[r].asked /\ ~f.served /\ f.lost = req[r].lost
        /\ f.answer = IF req[r].path \in NextPaths THEN "clear" ELSE "keep"
    BY <1>0, RefuseIs
  <2>2. Step(r, f)
    BY <1>2 DEF Recheck
  <2> HIDE DEF f
  <2>3. Changes(r) /\ req'[r] = f
    BY <2>1, <2>2, StepEffect
  <2> QED BY <1>0, <1>2, <2>1, <2>3
<1> QED BY <1>1, <1>2

\* The browser applies the answer.
LEMMA DeliverEffect ==
  ASSUME TypeInv, NEW r \in Requests, Deliver(r)
  PROVE  /\ req[r].pc = "answer" /\ Changes(r) /\ req'[r] = IdleRequest
         /\ cookie' \in [Browsers -> CookieType]
         /\ \A b \in Browsers :
              \/ cookie'[b] = cookie[b] \/ cookie'[b].token = NoToken
              \/ req[r].answer = "set" /\ cookie'[b].token = req[r].token
<1>0. req[r] \in RequestType /\ req[r].pc = "answer" /\ cookie \in [Browsers -> CookieType] /\ now \in Nat
  BY StateIs DEF Deliver, At, TypeInv, CookiesTyped, ServerTyped
<1>1. Step(r, IdleRequest)
  BY DEF Deliver
<1>2. Changes(r) /\ req'[r] = IdleRequest
  BY <1>1, Nones, StepEffect
<1> DEFINE c == [token |-> req[r].token, until |-> now + CookieTtl]
<1>3. c \in CookieType /\ c.token = req[r].token
  <2>1. req[r].token \in Tokens /\ now + CookieTtl \in Nat
    BY <1>0, Constants, Fields
  <2> QED BY <2>1 DEF CookieType
<1>4. \/ req[r].answer = "keep" /\ cookie' = cookie
      \/ req[r].answer = "clear" /\ cookie' = [cookie EXCEPT ![req[r].browser] = NoCookie]
      \/ req[r].answer = "set" /\ cookie' = [cookie EXCEPT ![req[r].browser] = c]
  <2>1. req[r].answer \in {"keep", "set", "clear"}
    BY <1>0, Fields DEF Answers
  <2> QED BY <2>1 DEF Deliver
<1> HIDE DEF c
<1>5. CASE req[r].answer = "keep" /\ cookie' = cookie
  BY <1>0, <1>2, <1>5
<1>6. CASE req[r].answer = "clear" /\ cookie' = [cookie EXCEPT ![req[r].browser] = NoCookie]
  <2>1. cookie' \in [Browsers -> CookieType] /\ \A b \in Browsers : cookie'[b] = cookie[b] \/ cookie'[b] = NoCookie
    BY <1>0, <1>6, Nones
  <2> QED BY <1>0, <1>2, <2>1, Nones
<1>7. CASE req[r].answer = "set" /\ cookie' = [cookie EXCEPT ![req[r].browser] = c]
  <2>1. cookie' \in [Browsers -> CookieType] /\ \A b \in Browsers : cookie'[b] = cookie[b] \/ cookie'[b] = c
    BY <1>0, <1>3, <1>7
  <2> QED BY <1>0, <1>2, <1>3, <1>7, <2>1
<1> QED BY <1>4, <1>5, <1>6, <1>7

-----------------------------------------------------------------------------
(* What a step leaves alone *)

\* A request makes logins at most, and those of sessions that have not ended.
RequestFrame ==
  /\ UNCHANGED <<post, records, handled, ended, notices, now, closed, replayed, failed>>
  /\ logins' \in Seq(LoginType) /\ DOMAIN logins \subseteq DOMAIN logins'
  /\ \A l \in DOMAIN logins : logins'[l].sid = logins[l].sid /\ logins'[l].gen >= logins[l].gen
  /\ \A l \in DOMAIN logins' : l \in DOMAIN logins \/ logins'[l].sid \notin ended
  /\ revived \subseteq revived' /\ revived' \subseteq DOMAIN logins
  /\ faults' \in Nat

LEMMA RequestLeaves ==
  ASSUME TypeInv, NEW r \in Requests, Ask(r) \/ Serve(r)
  PROVE  RequestFrame
<1>0. /\ logins \in Seq(LoginType) /\ revived \subseteq DOMAIN logins /\ faults \in Nat
      /\ \A l \in DOMAIN logins : logins[l].gen \in Nat
  BY StateIs, Fields DEF TypeInv, ServerTyped, PastTyped
<1> DEFINE Same == UNCHANGED <<post, records, handled, ended, notices, now, closed, replayed, failed>>
<1>1. ASSUME Same, UNCHANGED <<logins, revived>>, faults' \in Nat
      PROVE  RequestFrame
  <2>1. \A l \in DOMAIN logins : logins[l].gen >= logins[l].gen
    BY <1>0
  <2> QED BY <1>0, <1>1, <2>1 DEF RequestFrame
<1>2. ASSUME NEW b \in Browsers, NEW p \in Paths, Arrive(r, b, p)
      PROVE  RequestFrame
  BY <1>0, <1>1, <1>2 DEF Arrive, logout, server, history
<1>3. ASSUME NEW b \in Browsers, NEW x \in Sids, Callback(r, b, x)
      PROVE  RequestFrame
  <2>1. Same /\ UNCHANGED <<revived, faults>>
    BY <1>3 DEF Callback, logout, history
  <2>2. /\ logins' \in Seq(LoginType) /\ DOMAIN logins' = DOMAIN logins \cup {Len(logins) + 1}
        /\ \A k \in DOMAIN logins : logins'[k] = logins[k]
        /\ logins'[Len(logins) + 1].sid = x /\ x \notin ended
    BY <1>3, CallbackEffect
  <2>3. \A l \in DOMAIN logins : logins[l].gen >= logins[l].gen
    BY <1>0
  <2> QED BY <1>0, <2>1, <2>2, <2>3 DEF RequestFrame
<1>4. ASSUME NEW b \in Browsers, ClearSession(r, b)
      PROVE  RequestFrame
  BY <1>0, <1>1, <1>4 DEF ClearSession, logout, server, history
<1>5. CASE Check(r)
  BY <1>0, <1>1, <1>5 DEF Check, logout, server, history
<1>6. CASE Verify(r)
  BY <1>0, <1>1, <1>6 DEF Verify, logout, server, history
<1>7. CASE ServerRefresh(r)
  <2>1. Same /\ UNCHANGED <<revived, faults>>
    BY <1>7 DEF ServerRefresh, logout, history
  <2>2. /\ logins' \in Seq(LoginType) /\ DOMAIN logins' = DOMAIN logins
        /\ \A k \in DOMAIN logins : logins'[k].sid = logins[k].sid /\ logins'[k].gen >= logins[k].gen
    BY <1>7, ServerRefreshEffect
  <2> QED BY <1>0, <2>1, <2>2 DEF RequestFrame
<1>8. CASE RefreshFails(r)
  <2>1. Same /\ UNCHANGED <<logins, revived>> /\ (faults' = faults \/ faults' = faults + 1)
    BY <1>8 DEF RefreshFails, logout, server, history
  <2>2. faults' \in Nat
    BY <1>0, <2>1
  <2> QED BY <1>1, <2>1, <2>2
<1>9. CASE Mint(r)
  <2>1. Same /\ UNCHANGED <<logins, faults>>
    BY <1>9 DEF Mint, logout, server
  <2>2. revived' = revived \/ (revived' = revived \cup {req[r].token.login})
    BY <1>9 DEF Mint
  <2>3. req[r].token.login \in DOMAIN logins
    BY <1>9 DEF Mint, TypeInv, RequestsTyped, At, Known
  <2>4. \A l \in DOMAIN logins : logins[l].gen >= logins[l].gen
    BY <1>0
  <2> QED BY <1>0, <2>1, <2>2, <2>3, <2>4 DEF RequestFrame
<1>10. CASE Recheck(r)
  BY <1>0, <1>1, <1>10 DEF Recheck, logout, server, history
<1>11. CASE Deliver(r)
  BY <1>0, <1>1, <1>11 DEF Deliver, logout, server, history
<1> HIDE DEF Same
<1> QED BY <1>2, <1>3, <1>4, <1>5, <1>6, <1>7, <1>8, <1>9, <1>10, <1>11 DEF Ask, Serve

\* What is known stays known.
LEMMA KnownStays ==
  ASSUME RequestFrame, NEW t, Known(t)
  PROVE  /\ t.login \in DOMAIN logins'
         /\ logins'[t.login].sid = logins[t.login].sid /\ logins'[t.login].gen >= logins[t.login].gen
BY DEF RequestFrame, Known

\* A handler leaves the requests and the server alone.
HandlerFrame == UNCHANGED <<cookie, req, logins, ended, notices, now, revived>>

HandlerStep(h) == (\E j \in 1..MaxNotices : Post(h, j)) \/ Record(h) \/ RecordFails(h)

LEMMA HandlerLeaves ==
  ASSUME NEW h \in Handlers, HandlerStep(h)
  PROVE  HandlerFrame
<1>1. ASSUME NEW j, Post(h, j)
      PROVE  HandlerFrame
  BY <1>1 DEF Post, server, HandlerFrame
<1>2. CASE Handle(h)
  BY <1>2 DEF Handle, server, history, HandlerFrame
<1>3. CASE Read(h)
  BY <1>3 DEF Read, server, history, HandlerFrame
<1>4. CASE Write(h)
  BY <1>4 DEF Write, server, HandlerFrame
<1>5. CASE RecordFails(h)
  BY <1>5 DEF RecordFails, server, HandlerFrame
<1> QED BY <1>1, <1>2, <1>3, <1>4, <1>5 DEF HandlerStep, Record

-----------------------------------------------------------------------------
(* What a handler does *)

\* The one handler that changes.
Moves(h) == post' \in [Handlers -> PostType] /\ \A g \in Handlers : g # h => post'[g] = post[g]

LEMMA PostStepEffect ==
  ASSUME TypeInv, NEW h \in Handlers, NEW e \in PostType, PostStep(h, e)
  PROVE  Moves(h) /\ post'[h] = e
BY DEF PostStep, Moves, TypeInv, PostsTyped

LEMMA PostEffect ==
  ASSUME TypeInv, NEW h \in Handlers, NEW j, Post(h, j)
  PROVE  /\ post[h].pc = "idle" /\ j \in DOMAIN notices /\ Moves(h)
         /\ UNCHANGED <<records, handled, closed, failed>> /\ faults' = faults
         /\ \/ j \in handled /\ replayed' = replayed \cup {j} /\ post'[h] = post[h]
            \/ j \notin handled /\ replayed' = replayed /\ post'[h].pc = "handle" /\ post'[h].note = j
<1> DEFINE e == [IdlePost EXCEPT !.pc = "handle", !.note = j]
<1>1. post[h].pc = "idle" /\ j \in DOMAIN notices /\ UNCHANGED <<records, handled, closed, failed>> /\ faults' = faults
  BY DEF Post, PostAt
<1>2. j \in Nat
  BY <1>1, StateIs
<1>3. e \in PostType /\ e.pc = "handle" /\ e.note = j
  BY <1>2 DEF PostType, IdlePost
<1>4. CASE j \in handled
  BY <1>1, <1>4 DEF Post, Moves, TypeInv, PostsTyped
<1>5. CASE j \notin handled
  <2>1. PostStep(h, e) /\ replayed' = replayed
    BY <1>5 DEF Post
  <2> HIDE DEF e
  <2> QED BY <1>1, <1>3, <1>5, <2>1, PostStepEffect
<1> QED BY <1>4, <1>5

LEMMA HandleEffect ==
  ASSUME TypeInv, NEW h \in Handlers, Handle(h)
  PROVE  /\ post[h].pc = "handle" /\ post[h].note \in DOMAIN notices /\ Moves(h)
         /\ post'[h].pc = "read" /\ post'[h].note = post[h].note
         /\ handled' = handled \cup {post[h].note}
         /\ UNCHANGED <<records, closed, replayed, failed>> /\ faults' = faults
<1> DEFINE e == [post[h] EXCEPT !.pc = "read"]
<1>1. post[h].pc = "handle" /\ PostStep(h, e) /\ handled' = handled \cup {post[h].note}
      /\ UNCHANGED <<records, closed, replayed, failed>> /\ faults' = faults
  BY DEF Handle, PostAt, history
<1>2. post[h] \in PostType /\ post[h].note \in DOMAIN notices
  BY <1>1, StateIs DEF TypeInv, PostsTyped, PostAt
<1>3. e \in PostType /\ e.pc = "read" /\ e.note = post[h].note
  BY <1>2 DEF PostType
<1> HIDE DEF e
<1> QED BY <1>1, <1>2, <1>3, PostStepEffect

\* What the record to be written says of the time its sessions began.
ExistingAt(h) ==
  LET k == notices[post[h].note].key IN IF Live(k) THEN records[k].endedAt ELSE 0

LEMMA ReadEffect ==
  ASSUME TypeInv, NEW h \in Handlers, Read(h)
  PROVE  LET n == notices[post[h].note]
         IN  /\ post[h].pc = "read" /\ post[h].note \in DOMAIN notices /\ Moves(h)
             /\ post'[h].pc = "write" /\ post'[h].note = post[h].note
             /\ post'[h].expiresAt = now + CookieTtl
             /\ post'[h].endedAt = IF BySid(n) THEN 0 ELSE Latest(n.at, ExistingAt(h))
             /\ UNCHANGED <<records, handled, closed, replayed, failed>> /\ faults' = faults
<1> DEFINE n == notices[post[h].note]
           till == now + CookieTtl
           at == IF BySid(n) THEN 0 ELSE Latest(n.at, ExistingAt(h))
           e == [post[h] EXCEPT !.pc = "write", !.expiresAt = till, !.endedAt = at]
<1>1. post[h].pc = "read" /\ PostStep(h, e) /\ UNCHANGED <<records, handled, closed, replayed, failed>>
      /\ faults' = faults
  BY DEF Read, PostAt, history, ExistingAt, RecordExpiry
<1>2. post[h] \in PostType /\ post[h].note \in DOMAIN notices
  BY <1>1, StateIs DEF TypeInv, PostsTyped, PostAt
<1>3. n \in NoticeType /\ n.at \in Nat /\ n.key \in Keys
  BY <1>2, StateIs, Fields
<1>4. ExistingAt(h) \in Nat
  <2>1. records[n.key].endedAt \in Nat
    BY <1>3, StateIs, Fields
  <2> QED BY <2>1 DEF ExistingAt
<1>5. till \in Nat /\ at \in Nat
  <2>1. now \in Nat /\ CookieTtl \in Nat /\ Tolerance \in Nat /\ n.at + Tolerance \in Nat
    BY <1>3, Constants DEF TypeInv, ServerTyped
  <2> HIDE DEF n
  <2> QED BY <1>4, <2>1 DEF Latest
<1>6. at = IF BySid(n) THEN 0 ELSE Latest(n.at, ExistingAt(h))
  OBVIOUS
<1>7. till = now + CookieTtl
  OBVIOUS
<1> HIDE DEF till, at, n
<1>8. e \in PostType /\ e.pc = "write" /\ e.note = post[h].note /\ e.expiresAt = till /\ e.endedAt = at
  BY <1>2, <1>5 DEF PostType
<1> HIDE DEF e
<1>9. Moves(h) /\ post'[h] = e
  BY <1>1, <1>8, PostStepEffect
<1> QED BY <1>1, <1>2, <1>6, <1>7, <1>8, <1>9 DEF n

LEMMA WriteEffect ==
  ASSUME TypeInv, NEW h \in Handlers, Write(h)
  PROVE  LET n == notices[post[h].note]
         IN  /\ post[h].pc = "write" /\ post[h].note \in DOMAIN notices /\ Moves(h) /\ post'[h] = IdlePost
             /\ n.key \in Keys /\ records' \in [Keys -> Records]
             /\ records'[n.key].endedAt = post[h].endedAt /\ records'[n.key].expiresAt = post[h].expiresAt
             /\ \A k \in Keys : k # n.key => records'[k] = records[k]
             /\ closed' = closed \cup {l \in DOMAIN logins : logins[l].sid \in n.gone}
             /\ UNCHANGED <<handled, replayed, failed>> /\ faults' = faults
<1> DEFINE n == notices[post[h].note]
           c == [endedAt |-> post[h].endedAt, expiresAt |-> post[h].expiresAt]
<1>1. /\ post[h].pc = "write" /\ PostStep(h, IdlePost) /\ UNCHANGED <<handled, replayed, failed>> /\ faults' = faults
      /\ records' = [records EXCEPT ![n.key] = c]
      /\ closed' = closed \cup {l \in DOMAIN logins : logins[l].sid \in n.gone}
  BY DEF Write, PostAt
<1>2. post[h] \in PostType /\ post[h].note \in DOMAIN notices
  BY <1>1, StateIs DEF TypeInv, PostsTyped, PostAt
<1>3. n.key \in Keys
  BY <1>2, StateIs, Fields
<1>4. c \in Records /\ c.endedAt = post[h].endedAt /\ c.expiresAt = post[h].expiresAt
  BY <1>2, Fields DEF Records
<1>5. Moves(h) /\ post'[h] = IdlePost
  BY <1>1, Nones, PostStepEffect
<1>6. records \in [Keys -> Records]
  BY DEF TypeInv, PostsTyped
<1> HIDE DEF c
<1>7. records' \in [Keys -> Records] /\ records'[n.key] = c /\ \A k \in Keys : k # n.key => records'[k] = records[k]
  <2> HIDE DEF n
  <2> QED BY <1>1, <1>3, <1>4, <1>6
<1> QED BY <1>1, <1>2, <1>3, <1>4, <1>5, <1>7

LEMMA RecordFailsEffect ==
  ASSUME TypeInv, NEW h \in Handlers, RecordFails(h)
  PROVE  /\ post[h].pc \in {"read", "write"} /\ post[h].note \in DOMAIN notices /\ Moves(h) /\ post'[h] = IdlePost
         /\ failed' = failed \cup {post[h].note}
         /\ UNCHANGED <<records, handled, closed, replayed>> /\ faults' \in Nat
<1>1. post[h].pc \in {"read", "write"} /\ PostStep(h, IdlePost) /\ failed' = failed \cup {post[h].note}
      /\ UNCHANGED <<records, handled, closed, replayed>> /\ faults' = faults + 1
  BY DEF RecordFails, PostAt
<1>2. post[h].note \in DOMAIN notices
  BY <1>1 DEF TypeInv, PostsTyped, PostAt
<1>3. faults' \in Nat
  BY <1>1 DEF TypeInv, ServerTyped
<1> QED BY <1>1, <1>2, <1>3, Nones, PostStepEffect

-----------------------------------------------------------------------------
(* What the server does *)

\* It issues a logout token, of sessions that had not ended.
LEMMA ServerLogoutEffect ==
  ASSUME TypeInv, NEW k \in Keys, ServerLogout(k)
  PROVE  LET j == Len(notices) + 1
             n == notices'[j]
         IN  /\ UNCHANGED <<cookie, req, post, records, handled, logins, now, faults, closed, revived, replayed, failed>>
             /\ notices' \in Seq(NoticeType) /\ DOMAIN notices' = DOMAIN notices \cup {j} /\ j \notin DOMAIN notices
             /\ \A i \in DOMAIN notices : notices'[i] = notices[i]
             /\ n.key = k /\ n.at = now /\ n.gone \subseteq Sids /\ n.gone \cap ended = {} /\ n.gone # {}
             /\ (k \in Sids => n.gone \subseteq {k})
             /\ (k \notin Sids => \A x \in n.gone : SubOf[x] = k)
             /\ ended' = ended \cup n.gone /\ ended' \subseteq Sids
<1> DEFINE used == {logins[l].sid : l \in DOMAIN logins} \ ended
           gone == IF k \in Sids THEN {k} \cap used ELSE {x \in used : SubOf[x] = k}
           n == [key |-> k, at |-> now, gone |-> gone]
<1>1. /\ gone # {} /\ ended' = ended \cup gone /\ notices' = Append(notices, n)
      /\ UNCHANGED <<cookie, req, post, records, handled, logins, now, faults, closed, revived, replayed, failed>>
  BY DEF ServerLogout, logout, history
<1>2. used \subseteq Sids /\ used \cap ended = {}
  BY StateIs, Fields
<1>3. /\ gone \subseteq Sids /\ gone \cap ended = {} /\ (k \in Sids => gone \subseteq {k})
      /\ (k \notin Sids => \A x \in gone : SubOf[x] = k)
  BY <1>2
<1> HIDE DEF used, gone
<1>4. n \in NoticeType /\ n.key = k /\ n.at = now /\ n.gone = gone
  <2>1. now \in Nat
    BY DEF TypeInv, ServerTyped
  <2> QED BY <1>3, <2>1 DEF NoticeType
<1> HIDE DEF n
<1>5. notices \in Seq(NoticeType) /\ Len(notices) \in Nat /\ DOMAIN notices = 1..Len(notices) /\ ended \subseteq Sids
  BY StateIs DEF TypeInv, ServerTyped
<1>6. /\ notices' \in Seq(NoticeType) /\ Len(notices') = Len(notices) + 1 /\ notices'[Len(notices) + 1] = n
      /\ \A i \in 1..Len(notices) : notices'[i] = notices[i]
  BY <1>1, <1>4, <1>5
<1>7. DOMAIN notices' = 1..Len(notices')
  BY <1>6
<1>8. DOMAIN notices' = DOMAIN notices \cup {Len(notices) + 1} /\ Len(notices) + 1 \notin DOMAIN notices
  BY <1>5, <1>6, <1>7
<1> QED BY <1>1, <1>3, <1>4, <1>5, <1>6, <1>8

\* A second passes, for requests that have the time.
LEMMA TickEffect ==
  ASSUME TypeInv, Tick
  PROVE  /\ UNCHANGED <<cookie, req, post, records, handled, logins, ended, notices, faults,
                        closed, revived, replayed, failed>>
         /\ now' = now + 1 /\ now' \in Nat
         /\ \A r \in Requests : req[r].pc # "idle" => now < req[r].since + MaxDelay
BY DEF Tick, At, logout, server, history, TypeInv, ServerTyped

-----------------------------------------------------------------------------
(* The types are kept *)

LEMMA TypeInit == Init => TypeInv
<1> SUFFICES ASSUME Init
             PROVE  TypeInv
  OBVIOUS
<1>1. RequestsTyped /\ CookiesTyped
  BY Nones DEF Init, Started, RequestsTyped, CookiesTyped, At
<1>2. PostsTyped
  BY Nones DEF Init, Started, PostsTyped, PostAt
<1>3. ServerTyped /\ PastTyped
  BY DEF Init, Started, ServerTyped, PastTyped
<1> QED BY <1>1, <1>2, <1>3 DEF TypeInv

\* What the next state of the one request that changes must be.
Typed(e, f) ==
  \/ f.pc = "idle"
  \/ f.token.login \in DOMAIN logins'
  \/ f.pc = "answer" /\ f.answer = "clear" /\ f.path = "callback"

LEMMA RequestTypeStep ==
  ASSUME TypeInv, NEW r \in Requests, Ask(r) \/ Serve(r)
  PROVE  TypeInv'
<1>0. RequestFrame
  BY RequestLeaves
<1>1. Changes(r) /\ Typed(req[r], req'[r])
  <2>0. ASSUME NEW e, req[r] = e, Known(e.token), req'[r].token.login = e.token.login
        PROVE  Typed(req[r], req'[r])
    BY <1>0, <2>0, KnownStays DEF Typed
  <2>1. ASSUME NEW b \in Browsers, NEW p \in Paths, Arrive(r, b, p)
        PROVE  Changes(r) /\ Typed(req[r], req'[r])
    BY <1>0, <2>1, ArriveEffect, KnownStays DEF Typed
  <2>2. ASSUME NEW b \in Browsers, NEW x \in Sids, Callback(r, b, x)
        PROVE  Changes(r) /\ Typed(req[r], req'[r])
    BY <2>2, CallbackEffect DEF Typed
  <2>3. ASSUME NEW b \in Browsers, ClearSession(r, b)
        PROVE  Changes(r) /\ Typed(req[r], req'[r])
    BY <2>3, ClearSessionEffect DEF Typed
  <2>4. ASSUME req[r].pc \in {"check", "verify", "fetch", "mint", "recheck"}
        PROVE  Known(req[r].token)
    BY <2>4 DEF TypeInv, RequestsTyped, At
  <2>5. CASE Check(r)
    BY <2>0, <2>4, <2>5, CheckEffect
  <2>6. CASE Verify(r)
    BY <2>0, <2>4, <2>6, VerifyEffect
  <2>7. CASE ServerRefresh(r)
    BY <2>0, <2>4, <2>7, ServerRefreshEffect
  <2>8. CASE RefreshFails(r)
    BY <2>0, <2>4, <2>8, RefreshFailsEffect
  <2>9. CASE Mint(r)
    <3>1. req'[r].token.login = req[r].token.login
      BY <2>9, MintEffect, MintedIs, StateIs
    <3> QED BY <2>0, <2>4, <2>9, <3>1, MintEffect
  <2>10. CASE Recheck(r)
    BY <2>0, <2>4, <2>10, RecheckEffect
  <2>11. CASE Deliver(r)
    BY <2>11, DeliverEffect, Nones DEF Typed
  <2> QED BY <2>1, <2>2, <2>3, <2>5, <2>6, <2>7, <2>8, <2>9, <2>10, <2>11 DEF Ask, Serve
<1>2. RequestsTyped'
  <2>1. ASSUME NEW q \in Requests, req'[q].pc # "idle"
        PROVE  \/ req'[q].token.login \in DOMAIN logins'
               \/ req'[q].pc = "answer" /\ req'[q].answer = "clear" /\ req'[q].path = "callback"
    <3>1. CASE q = r
      BY <1>1, <2>1, <3>1 DEF Typed
    <3>2. CASE q # r
      <4>1. req'[q] = req[q]
        BY <1>1, <3>2 DEF Changes
      <4>2. Known(req[q].token) \/ (req[q].pc = "answer" /\ req[q].answer = "clear" /\ req[q].path = "callback")
        BY <2>1, <4>1 DEF TypeInv, RequestsTyped, At
      <4> QED BY <1>0, <4>1, <4>2, KnownStays
    <3> QED BY <3>1, <3>2
  <2> QED BY <1>1, <2>1 DEF RequestsTyped, Changes, At, Known
<1>3. CookiesTyped'
  <2>1. ASSUME cookie' = cookie
        PROVE  CookiesTyped'
    BY <1>0, <2>1, KnownStays DEF TypeInv, CookiesTyped, Known
  <2>2. CASE Deliver(r)
    <3>1. ASSUME NEW b \in Browsers
          PROVE  cookie'[b].token = NoToken \/ cookie'[b].token.login \in DOMAIN logins'
      <4>1. CASE cookie'[b] = cookie[b]
        <5>1. cookie[b].token = NoToken \/ Known(cookie[b].token)
          BY DEF TypeInv, CookiesTyped
        <5> QED BY <1>0, <4>1, <5>1, KnownStays
      <4>2. CASE req[r].answer = "set" /\ cookie'[b].token = req[r].token
        <5>1. Known(req[r].token)
          BY <2>2, <4>2, DeliverEffect DEF TypeInv, RequestsTyped, At
        <5> QED BY <1>0, <4>2, <5>1, KnownStays
      <4> QED BY <2>2, <4>1, <4>2, DeliverEffect
    <3> QED BY <2>2, <3>1, DeliverEffect DEF CookiesTyped, Known
  <2>3. Deliver(r) \/ cookie' = cookie
    BY DEF Ask, Serve, Arrive, Callback, ClearSession, Check, Verify, ServerRefresh, RefreshFails, Mint, Recheck
  <2> QED BY <2>1, <2>2, <2>3
<1>4. PostsTyped'
  BY <1>0 DEF TypeInv, PostsTyped, RequestFrame, PostAt
<1>5. ServerTyped' /\ PastTyped'
  BY <1>0 DEF TypeInv, ServerTyped, PastTyped, RequestFrame
<1> QED BY <1>2, <1>3, <1>4, <1>5 DEF TypeInv

LEMMA HandlerTypeStep ==
  ASSUME TypeInv, NEW h \in Handlers, HandlerStep(h)
  PROVE  TypeInv'
<1>0. HandlerFrame
  BY HandlerLeaves
<1>1. /\ Moves(h) /\ (post'[h].pc = "idle" \/ post'[h].note \in DOMAIN notices)
      /\ records' \in [Keys -> Records] /\ faults' \in Nat /\ PastTyped'
  <2>0. /\ records \in [Keys -> Records] /\ faults \in Nat /\ PastTyped /\ DOMAIN notices \subseteq DOMAIN notices'
    BY <1>0 DEF TypeInv, PostsTyped, ServerTyped, HandlerFrame
  <2> DEFINE Good == /\ Moves(h) /\ (post'[h].pc = "idle" \/ post'[h].note \in DOMAIN notices)
                     /\ records' \in [Keys -> Records] /\ faults' \in Nat /\ PastTyped'
  <2>1. ASSUME NEW j, Post(h, j)
        PROVE  Good
    <3>1. PastTyped'
      BY <1>0, <2>0, <2>1, PostEffect DEF PastTyped, HandlerFrame
    <3> QED BY <2>0, <2>1, <3>1, PostEffect
  <2>2. ASSUME Handle(h)
        PROVE  Good
    <3>1. PastTyped'
      BY <1>0, <2>0, <2>2, HandleEffect DEF PastTyped, HandlerFrame
    <3> QED BY <2>0, <2>2, <3>1, HandleEffect
  <2>3. ASSUME Read(h)
        PROVE  Good
    <3>1. PastTyped'
      BY <1>0, <2>0, <2>3, ReadEffect DEF PastTyped, HandlerFrame
    <3> QED BY <2>0, <2>3, <3>1, ReadEffect
  <2>4. ASSUME Write(h)
        PROVE  Good
    <3>1. PastTyped'
      BY <1>0, <2>0, <2>4, WriteEffect DEF PastTyped, HandlerFrame
    <3> QED BY <2>0, <2>4, <3>1, WriteEffect, Nones
  <2>5. ASSUME RecordFails(h)
        PROVE  Good
    <3>1. PastTyped'
      BY <1>0, <2>0, <2>5, RecordFailsEffect DEF PastTyped, HandlerFrame
    <3> QED BY <2>0, <2>5, <3>1, RecordFailsEffect, Nones
  <2> HIDE DEF Good
  <2>6. Good
    BY <2>1, <2>2, <2>3, <2>4, <2>5 DEF HandlerStep, Record
  <2> QED BY <2>6 DEF Good
<1>2. PostsTyped'
  <2>1. ASSUME NEW g \in Handlers, post'[g].pc # "idle"
        PROVE  post'[g].note \in DOMAIN notices
    <3>1. CASE g = h
      BY <1>1, <2>1, <3>1
    <3>2. CASE g # h
      BY <1>1, <2>1, <3>2 DEF Moves, TypeInv, PostsTyped, PostAt
    <3> QED BY <3>1, <3>2
  <2> QED BY <1>0, <1>1, <2>1 DEF PostsTyped, PostAt, Moves, HandlerFrame
<1>3. RequestsTyped' /\ CookiesTyped'
  BY <1>0 DEF TypeInv, RequestsTyped, CookiesTyped, HandlerFrame, At, Known
<1>4. ServerTyped'
  BY <1>0, <1>1 DEF TypeInv, ServerTyped, HandlerFrame
<1> QED BY <1>1, <1>2, <1>3, <1>4 DEF TypeInv

LEMMA TypeStep == TypeInv /\ [Next]_vars => TypeInv'
<1> SUFFICES ASSUME TypeInv, [Next]_vars
             PROVE  TypeInv'
  OBVIOUS
<1>1. ASSUME NEW r \in Requests, Ask(r) \/ Serve(r)
      PROVE  TypeInv'
  BY <1>1, RequestTypeStep
<1>2. ASSUME NEW h \in Handlers, HandlerStep(h)
      PROVE  TypeInv'
  BY <1>2, HandlerTypeStep
<1>3. ASSUME NEW k \in Keys, ServerLogout(k)
      PROVE  TypeInv'
  <2>1. UNCHANGED <<cookie, req, post, records, handled, logins, now, faults, closed, revived, replayed, failed>>
        /\ notices' \in Seq(NoticeType) /\ DOMAIN notices \subseteq DOMAIN notices' /\ ended' \subseteq Sids
    BY <1>3, ServerLogoutEffect
  <2>2. RequestsTyped' /\ CookiesTyped'
    BY <2>1 DEF TypeInv, RequestsTyped, CookiesTyped, At, Known
  <2>3. PostsTyped' /\ ServerTyped' /\ PastTyped'
    BY <2>1 DEF TypeInv, PostsTyped, ServerTyped, PastTyped, PostAt
  <2> QED BY <2>2, <2>3 DEF TypeInv
<1>4. CASE Tick
  <2>1. /\ UNCHANGED <<cookie, req, post, records, handled, logins, ended, notices, faults,
                       closed, revived, replayed, failed>>
        /\ now' \in Nat
    BY <1>4, TickEffect
  <2> QED BY <2>1 DEF TypeInv, RequestsTyped, CookiesTyped, At, Known, PostsTyped, ServerTyped, PastTyped, PostAt
<1>5. CASE UNCHANGED vars
  BY <1>5 DEF vars, logout, server, history, TypeInv, RequestsTyped, CookiesTyped, At, Known, PostsTyped,
     ServerTyped, PastTyped, PostAt
<1> QED BY <1>1, <1>2, <1>3, <1>4, <1>5 DEF Next, HandlerStep

LEMMA TypeKept == Spec => []TypeInv
BY TypeInit, TypeStep, PTL DEF Spec

LEMMA TypesImply == TypeInv => TypeOK
<1> SUFFICES ASSUME TypeInv
             PROVE  TypeOK
  OBVIOUS
<1>1. cookie \in [Browsers -> CookieType] /\ req \in [Requests -> RequestType]
      /\ post \in [Handlers -> PostType] /\ records \in [Keys -> Records]
  BY DEF TypeInv, RequestsTyped, CookiesTyped, PostsTyped
<1>2. logins \in Seq(LoginType) /\ ended \subseteq Sids /\ notices \in Seq(NoticeType) /\ now \in Nat /\ faults \in Nat
  BY DEF TypeInv, ServerTyped
<1>3. handled \subseteq Nat /\ closed \subseteq Nat /\ revived \subseteq Nat /\ replayed \subseteq Nat /\ failed \subseteq Nat
  <2>1. DOMAIN logins \subseteq Nat /\ DOMAIN notices \subseteq Nat
    BY StateIs
  <2> QED BY <2>1 DEF TypeInv, PastTyped
<1> QED BY <1>1, <1>2, <1>3 DEF TypeOK, CookieType, RequestType, PostType, LoginType, NoticeType

\* Every variable keeps to its type.
THEOREM TypesHold == Spec => []TypeOK
BY TypeKept, TypesImply, PTL

-----------------------------------------------------------------------------
(* Logout tokens and records *)

\* What a logout token says has ended, and no two say it of one server session.
NoteInv ==
  /\ \A j \in DOMAIN notices :
       LET n == notices[j] IN
       /\ n.gone \subseteq ended /\ n.at <= now
       /\ n.key \in Sids => n.gone \subseteq {n.key}
       /\ n.key \notin Sids => \A x \in n.gone : SubOf[x] = n.key
  /\ \A i, j \in DOMAIN notices : i # j => notices[i].gone \cap notices[j].gone = {}

\* A logout token of this key accounts for this time.
Said(k, at) ==
  \E j \in DOMAIN notices : notices[j].key = k /\ (k \notin Sids => at = notices[j].at + Tolerance)

\* Every record, and every record about to be made, is what a logout token said.
SaidInv ==
  /\ \A k \in Keys : records[k].expiresAt > 0 => Said(k, records[k].endedAt)
  /\ \A h \in Handlers : PostAt(h, "write") => Said(notices[post[h].note].key, post[h].endedAt)

\* A logout token that was remembered is recorded, about to be, or failed.
HandledInv ==
  \A j \in handled \ failed : Recorded(j) \/ \E h \in Handlers : post[h].pc \in {"read", "write"} /\ post[h].note = j

\* A login is closed for a logout token.
Ends(j, l) == logins[l].sid \in notices[j].gone
ClosedInv == \A l \in closed : \E j \in DOMAIN notices : Ends(j, l)

LogInv == NoteInv /\ SaidInv /\ HandledInv /\ ClosedInv

LEMMA LogInit == Init => LogInv
<1> SUFFICES ASSUME Init
             PROVE  LogInv
  OBVIOUS
<1>1. NoteInv /\ HandledInv /\ ClosedInv
  BY DEF Init, Started, NoteInv, HandledInv, ClosedInv
<1>2. SaidInv
  BY Nones DEF Init, Started, SaidInv, PostAt
<1> QED BY <1>1, <1>2 DEF LogInv

\* A session that has not ended is in no logout token.
LEMMA AliveIsUnnamed ==
  ASSUME NoteInv, NEW j \in DOMAIN notices, NEW x, x \notin ended
  PROVE  x \notin notices[j].gone
BY DEF NoteInv

LEMMA LogRequest ==
  ASSUME TypeInv, LogInv, RequestFrame
  PROVE  LogInv'
<1>1. NoteInv'
  BY DEF LogInv, NoteInv, RequestFrame
<1>2. SaidInv'
  BY DEF LogInv, SaidInv, Said, RequestFrame, PostAt
<1>3. \A j \in DOMAIN notices : Recorded(j) => Recorded(j)'
  <2> SUFFICES ASSUME NEW j \in DOMAIN notices, Recorded(j), NEW l \in DOMAIN logins', logins'[l].sid \in notices[j].gone
               PROVE  l \in closed
    BY DEF Recorded, RequestFrame
  <2>1. l \in DOMAIN logins
    BY AliveIsUnnamed DEF RequestFrame, LogInv
  <2> QED BY <2>1 DEF RequestFrame, Recorded
<1>4. HandledInv'
  <2>1. handled \subseteq DOMAIN notices
    BY DEF TypeInv, PastTyped
  <2> SUFFICES ASSUME NEW j \in handled \ failed
               PROVE  Recorded(j)' \/ \E h \in Handlers : post[h].pc \in {"read", "write"} /\ post[h].note = j
    BY DEF HandledInv, RequestFrame
  <2> QED BY <1>3, <2>1 DEF LogInv, HandledInv
<1>5. ClosedInv'
  <2>1. closed \subseteq DOMAIN logins
    BY DEF TypeInv, PastTyped
  <2> QED BY <2>1 DEF LogInv, ClosedInv, Ends, RequestFrame
<1> QED BY <1>1, <1>2, <1>4, <1>5 DEF LogInv

\* What is said for a key and its latest time.
LEMMA ReadSays ==
  ASSUME TypeInv, SaidInv, NEW h \in Handlers, Read(h)
  PROVE  LET n == notices[post[h].note]
         IN  Said(n.key, post'[h].endedAt)
<1> DEFINE n == notices[post[h].note]
<1>1. /\ post'[h].endedAt = IF BySid(n) THEN 0 ELSE Latest(n.at, ExistingAt(h))
      /\ post[h].note \in DOMAIN notices
  BY ReadEffect
<1>2. n.key \in Keys /\ n.at \in Nat
  BY <1>1, StateIs, Fields
<1>3. CASE n.key \in Sids
  BY <1>1, <1>3 DEF Said
<1>4. CASE n.key \notin Sids /\ post'[h].endedAt = n.at + Tolerance
  BY <1>1, <1>4 DEF Said
<1>5. CASE n.key \notin Sids /\ post'[h].endedAt = ExistingAt(h) /\ ExistingAt(h) > n.at + Tolerance
  <2>1. ExistingAt(h) # 0
    BY <1>2, <1>5, Constants
  <2>2. Live(n.key) /\ ExistingAt(h) = records[n.key].endedAt
    BY <2>1 DEF ExistingAt
  <2>3. records[n.key].expiresAt > 0
    <3>1. records[n.key].expiresAt \in Nat /\ now \in Nat
      BY <1>2, StateIs, Fields DEF TypeInv, ServerTyped
    <3> HIDE DEF n
    <3> QED BY <2>2, <3>1 DEF Live
  <2> HIDE DEF n
  <2> QED BY <1>2, <1>5, <2>2, <2>3 DEF SaidInv, n
<1> QED BY <1>1, <1>3, <1>4, <1>5 DEF BySid, Latest

LEMMA LogHandler ==
  ASSUME TypeInv, LogInv, NEW h \in Handlers, HandlerStep(h)
  PROVE  LogInv'
<1>0. HandlerFrame
  BY HandlerLeaves
<1>1. NoteInv'
  BY <1>0 DEF LogInv, NoteInv, HandlerFrame
<1>2. \A k, at : Said(k, at)' <=> Said(k, at)
  BY <1>0 DEF Said, HandlerFrame
<1>3. closed \subseteq closed' => \A j : Recorded(j) => Recorded(j)'
  BY <1>0 DEF Recorded, HandlerFrame
<1> DEFINE Kept == HandledInv' /\ ClosedInv'
<1> DEFINE SaysSo == SaidInv'
<1>10. ASSUME records' = records, Moves(h), post'[h].pc # "write"
       PROVE  SaysSo
  BY <1>0, <1>2, <1>10 DEF LogInv, SaidInv, Moves, HandlerFrame, PostAt
<1>11. ASSUME closed' = closed
       PROVE  ClosedInv'
  BY <1>0, <1>11 DEF LogInv, ClosedInv, Ends, HandlerFrame
<1>4. ASSUME NEW j, Post(h, j)
      PROVE  SaysSo /\ Kept
  <2>1. /\ post[h].pc = "idle" /\ Moves(h) /\ UNCHANGED <<records, handled, closed, failed>>
        /\ post'[h].pc # "write"
    BY <1>4, PostEffect
  <2>2. HandledInv'
    <3> SUFFICES ASSUME NEW i \in handled \ failed
                 PROVE  Recorded(i)' \/ \E g \in Handlers : post'[g].pc \in {"read", "write"} /\ post'[g].note = i
      BY <2>1 DEF HandledInv
    <3>1. CASE Recorded(i)
      BY <1>3, <2>1, <3>1
    <3>2. ASSUME NEW g \in Handlers, post[g].pc \in {"read", "write"}, post[g].note = i
          PROVE  post'[g].pc \in {"read", "write"} /\ post'[g].note = i
      BY <2>1, <3>2 DEF Moves
    <3> QED BY <3>1, <3>2 DEF LogInv, HandledInv
  <2> QED BY <1>10, <1>11, <2>1, <2>2
<1>5. ASSUME Handle(h)
      PROVE  SaysSo /\ Kept
  <2>1. /\ post[h].pc = "handle" /\ Moves(h) /\ UNCHANGED <<records, closed, failed>>
        /\ post'[h].pc = "read" /\ post'[h].note = post[h].note /\ handled' = handled \cup {post[h].note}
    BY <1>5, HandleEffect
  <2>2. HandledInv'
    <3> SUFFICES ASSUME NEW i \in handled' \ failed'
                 PROVE  Recorded(i)' \/ \E g \in Handlers : post'[g].pc \in {"read", "write"} /\ post'[g].note = i
      BY DEF HandledInv
    <3>1. CASE i = post[h].note
      BY <2>1, <3>1
    <3>2. CASE i \in handled \ failed /\ Recorded(i)
      BY <1>3, <2>1, <3>2
    <3>3. ASSUME NEW g \in Handlers, post[g].pc \in {"read", "write"}, post[g].note = i
          PROVE  post'[g].pc \in {"read", "write"} /\ post'[g].note = i
      BY <2>1, <3>3 DEF Moves
    <3> QED BY <2>1, <3>1, <3>2, <3>3 DEF LogInv, HandledInv
  <2> QED BY <1>10, <1>11, <2>1, <2>2
<1>6. ASSUME Read(h)
      PROVE  SaysSo /\ Kept
  <2>1. /\ post[h].pc = "read" /\ Moves(h) /\ UNCHANGED <<records, handled, closed, failed>>
        /\ post'[h].pc = "write" /\ post'[h].note = post[h].note
    BY <1>6, ReadEffect
  <2>2. HandledInv'
    <3> SUFFICES ASSUME NEW i \in handled \ failed
                 PROVE  Recorded(i)' \/ \E g \in Handlers : post'[g].pc \in {"read", "write"} /\ post'[g].note = i
      BY <2>1 DEF HandledInv
    <3>1. CASE Recorded(i)
      BY <1>3, <2>1, <3>1
    <3>2. ASSUME NEW g \in Handlers, post[g].pc \in {"read", "write"}, post[g].note = i
          PROVE  post'[g].pc \in {"read", "write"} /\ post'[g].note = i
      BY <2>1, <3>2 DEF Moves
    <3> QED BY <3>1, <3>2 DEF LogInv, HandledInv
  <2>3. SaysSo
    <3>1. Said(notices[post[h].note].key, post'[h].endedAt)
      BY <1>6, ReadSays DEF LogInv
    <3>2. ASSUME NEW g \in Handlers, post'[g].pc = "write"
          PROVE  Said(notices[post'[g].note].key, post'[g].endedAt)
      BY <2>1, <3>1, <3>2 DEF Moves, LogInv, SaidInv, PostAt
    <3> QED BY <1>0, <1>2, <2>1, <3>2 DEF LogInv, SaidInv, HandlerFrame, PostAt
  <2> QED BY <1>11, <2>1, <2>2, <2>3
<1>7. ASSUME Write(h)
      PROVE  SaysSo /\ Kept
  <2> DEFINE n == notices[post[h].note]
             all == {l \in DOMAIN logins : logins[l].sid \in n.gone}
  <2>1. /\ post[h].pc = "write" /\ post[h].note \in DOMAIN notices /\ Moves(h) /\ post'[h] = IdlePost
        /\ n.key \in Keys /\ records'[n.key].endedAt = post[h].endedAt
        /\ \A k \in Keys : k # n.key => records'[k] = records[k]
        /\ closed' = closed \cup all /\ UNCHANGED <<handled, failed>>
    BY <1>7, WriteEffect
  <2>2. HandledInv'
    <3> SUFFICES ASSUME NEW i \in handled \ failed
                 PROVE  Recorded(i)' \/ \E g \in Handlers : post'[g].pc \in {"read", "write"} /\ post'[g].note = i
      BY <2>1 DEF HandledInv
    <3>1. CASE Recorded(i)
      BY <1>3, <2>1, <3>1
    <3>2. CASE i = post[h].note
      BY <1>0, <2>1, <3>2 DEF Recorded, HandlerFrame
    <3>3. ASSUME NEW g \in Handlers, post[g].pc \in {"read", "write"}, post[g].note = i, g # h
          PROVE  post'[g].pc \in {"read", "write"} /\ post'[g].note = i
      BY <2>1, <3>3 DEF Moves
    <3> QED BY <3>1, <3>2, <3>3 DEF LogInv, HandledInv
  <2>3. ClosedInv'
    BY <1>0, <2>1 DEF LogInv, ClosedInv, Ends, HandlerFrame
  <2>4. SaysSo
    <3>1. Said(n.key, post[h].endedAt)
      BY <2>1 DEF LogInv, SaidInv, PostAt
    <3>2. ASSUME NEW k \in Keys, records'[k].expiresAt > 0
          PROVE  Said(k, records'[k].endedAt)
      <4>1. CASE k = n.key
        BY <2>1, <3>1, <4>1
      <4>2. CASE k # n.key
        BY <2>1, <3>2, <4>2 DEF LogInv, SaidInv
      <4> QED BY <4>1, <4>2
    <3>3. ASSUME NEW g \in Handlers, post'[g].pc = "write"
          PROVE  Said(notices[post'[g].note].key, post'[g].endedAt)
      BY <2>1, <3>3, Nones DEF Moves, LogInv, SaidInv, PostAt
    <3> QED BY <1>0, <1>2, <3>2, <3>3 DEF SaidInv, HandlerFrame, PostAt
  <2> QED BY <2>2, <2>3, <2>4
<1>8. ASSUME RecordFails(h)
      PROVE  SaysSo /\ Kept
  <2>1. /\ Moves(h) /\ post'[h].pc = "idle" /\ UNCHANGED <<records, handled, closed>>
        /\ failed' = failed \cup {post[h].note}
    BY <1>8, RecordFailsEffect, Nones
  <2>2. HandledInv'
    <3> SUFFICES ASSUME NEW i \in handled \ failed, i # post[h].note
                 PROVE  Recorded(i)' \/ \E g \in Handlers : post'[g].pc \in {"read", "write"} /\ post'[g].note = i
      BY <2>1 DEF HandledInv
    <3>1. CASE Recorded(i)
      BY <1>3, <2>1, <3>1
    <3>2. ASSUME NEW g \in Handlers, post[g].pc \in {"read", "write"}, post[g].note = i
          PROVE  post'[g].pc \in {"read", "write"} /\ post'[g].note = i
      BY <2>1, <3>2 DEF Moves
    <3> QED BY <3>1, <3>2 DEF LogInv, HandledInv
  <2> QED BY <1>10, <1>11, <2>1, <2>2
<1> HIDE DEF Kept, SaysSo
<1>9. SaysSo /\ Kept
  BY <1>4, <1>5, <1>6, <1>7, <1>8 DEF HandlerStep, Record
<1> QED BY <1>1, <1>9 DEF LogInv, Kept, SaysSo

LEMMA LogServer ==
  ASSUME TypeInv, LogInv, NEW k \in Keys, ServerLogout(k)
  PROVE  LogInv'
<1> DEFINE j == Len(notices) + 1
           n == notices'[j]
<1>1. /\ UNCHANGED <<cookie, req, post, records, handled, logins, now, faults, closed, revived, replayed, failed>>
      /\ DOMAIN notices' = DOMAIN notices \cup {j} /\ j \notin DOMAIN notices
      /\ \A i \in DOMAIN notices : notices'[i] = notices[i]
      /\ n.key = k /\ n.at = now /\ n.gone \cap ended = {}
      /\ (k \in Sids => n.gone \subseteq {k})
      /\ (k \notin Sids => \A x \in n.gone : SubOf[x] = k)
      /\ ended' = ended \cup n.gone /\ now \in Nat
  BY ServerLogoutEffect DEF TypeInv, ServerTyped
<1> HIDE DEF j
<1>2. NoteInv'
  <2>1. ASSUME NEW i \in DOMAIN notices'
        PROVE  LET m == notices'[i] IN
               /\ m.gone \subseteq ended' /\ m.at <= now'
               /\ m.key \in Sids => m.gone \subseteq {m.key}
               /\ m.key \notin Sids => \A x \in m.gone : SubOf[x] = m.key
    BY <1>1 DEF LogInv, NoteInv
  <2>2. ASSUME NEW i \in DOMAIN notices', NEW m \in DOMAIN notices', i # m
        PROVE  notices'[i].gone \cap notices'[m].gone = {}
    BY <1>1, <2>2 DEF LogInv, NoteInv
  <2> QED BY <2>1, <2>2 DEF NoteInv
<1>3. \A x, at : Said(x, at) => Said(x, at)'
  BY <1>1 DEF Said
<1>4. SaidInv'
  <2>1. \A h \in Handlers : PostAt(h, "write") => post[h].note \in DOMAIN notices
    BY DEF TypeInv, PostsTyped, PostAt
  <2> QED BY <1>1, <1>3, <2>1 DEF LogInv, SaidInv, PostAt
<1>5. HandledInv'
  <2>1. handled \subseteq DOMAIN notices
    BY DEF TypeInv, PastTyped
  <2>2. \A i \in DOMAIN notices : Recorded(i) => Recorded(i)'
    BY <1>1 DEF Recorded
  <2> QED BY <1>1, <2>1, <2>2 DEF LogInv, HandledInv
<1>6. ClosedInv'
  BY <1>1 DEF LogInv, ClosedInv, Ends
<1> QED BY <1>2, <1>4, <1>5, <1>6 DEF LogInv

LEMMA LogTick ==
  ASSUME TypeInv, LogInv, Tick
  PROVE  LogInv'
<1>1. /\ UNCHANGED <<cookie, req, post, records, handled, logins, ended, notices, closed, failed>>
      /\ now' = now + 1 /\ now \in Nat
  BY TickEffect DEF TypeInv, ServerTyped
<1>2. NoteInv'
  <2>1. \A i \in DOMAIN notices : notices[i].at \in Nat
    BY StateIs, Fields
  <2> QED BY <1>1, <2>1 DEF LogInv, NoteInv
<1> QED BY <1>1, <1>2 DEF LogInv, SaidInv, HandledInv, ClosedInv, Said, Ends, Recorded, PostAt

LEMMA LogStep == TypeInv /\ LogInv /\ [Next]_vars => LogInv'
<1> SUFFICES ASSUME TypeInv, LogInv, [Next]_vars
             PROVE  LogInv'
  OBVIOUS
<1>1. ASSUME NEW r \in Requests, Ask(r) \/ Serve(r)
      PROVE  LogInv'
  BY <1>1, RequestLeaves, LogRequest
<1>2. ASSUME NEW h \in Handlers, HandlerStep(h)
      PROVE  LogInv'
  BY <1>2, LogHandler
<1>3. ASSUME NEW k \in Keys, ServerLogout(k)
      PROVE  LogInv'
  BY <1>3, LogServer
<1>4. ASSUME Tick
      PROVE  LogInv'
  BY <1>4, LogTick
<1>5. ASSUME UNCHANGED vars
      PROVE  LogInv'
  BY <1>5 DEF vars, logout, server, history, LogInv, NoteInv, SaidInv, HandledInv, ClosedInv, Said, Ends, Recorded,
     PostAt
<1> QED BY <1>1, <1>2, <1>3, <1>4, <1>5 DEF Next, HandlerStep

LEMMA LogKept == Spec => [](TypeInv /\ LogInv)
<1>1. Init => TypeInv /\ LogInv
  BY TypeInit, LogInit
<1>2. (TypeInv /\ LogInv) /\ [Next]_vars => (TypeInv /\ LogInv)'
  BY TypeStep, LogStep
<1> QED BY <1>1, <1>2, PTL DEF Spec

\* A session the records refuse is one a logout token names.
LEMMA RefusedIsNamed ==
  ASSUME TypeInv, LogInv, NEW t \in Tokens, Known(t), LoggedOut(t)
  PROVE  \E j \in DOMAIN notices : NamedBy(t, notices[j])
<1> DEFINE x == SidOf(t)
<1>1. x \in Sids /\ SubOf[x] \in Subs /\ SubOf[x] \notin Sids
  <2>1. logins[t.login].sid \in Sids
    BY StateIs, Fields DEF Known
  <2> QED BY <2>1, Constants DEF SidOf
<1>2. ASSUME NEW k \in Keys, Live(k)
      PROVE  Said(k, records[k].endedAt)
  <2>1. now \in Nat /\ records[k].expiresAt \in Nat
    BY StateIs, Fields DEF TypeInv, ServerTyped
  <2> QED BY <1>2, <2>1 DEF Live, LogInv, SaidInv
<1>3. CASE Live(x)
  <2>1. Said(x, records[x].endedAt)
    BY <1>1, <1>2, <1>3 DEF Keys
  <2> QED BY <1>1, <2>1 DEF Said, NamedBy, BySid
<1>4. CASE Live(SubOf[x]) /\ t.signedInAt <= records[SubOf[x]].endedAt
  <2>1. Said(SubOf[x], records[SubOf[x]].endedAt)
    BY <1>1, <1>2, <1>4 DEF Keys
  <2> QED BY <1>1, <1>4, <2>1 DEF Said, NamedBy, BySid
<1> QED BY <1>3, <1>4 DEF LoggedOut

\* Back-channel logout ends no other session.
THEOREM OnlyTheNamedAreRefused == Spec => []OnlyNamedRefused
<1>1. TypeInv /\ LogInv => OnlyNamedRefused
  <2> SUFFICES ASSUME TypeInv, LogInv, NEW b \in Browsers, cookie[b].token # NoToken, LoggedOut(cookie[b].token)
               PROVE  \E j \in DOMAIN notices : NamedBy(cookie[b].token, notices[j])
    BY DEF OnlyNamedRefused
  <2>1. cookie[b].token \in Tokens /\ Known(cookie[b].token)
    BY StateIs, Fields DEF TypeInv, CookiesTyped
  <2> QED BY <2>1, RefusedIsNamed
<1> QED BY <1>1, LogKept, PTL

\* A logout token that is refused as a replay is recorded, about to be, or failed.
THEOREM ReplaysAreRecorded == Spec => []ReplayedIsRecorded
<1>1. TypeInv /\ LogInv => ReplayedIsRecorded
  BY DEF TypeInv, PastTyped, LogInv, HandledInv, ReplayedIsRecorded
<1> QED BY <1>1, LogKept, PTL

-----------------------------------------------------------------------------
(* Tokens and the time *)

\* A token was made by this long after the logout.
MadeBy(t, j, delay) == t.made <= notices[j].at + delay /\ t.signedInAt <= notices[j].at + delay

\* A token, and what it may be after the logout of its login: made by then, unless a request that
\* was under way has revived the login, and that takes no longer than a request may.
Sound(t) ==
  /\ Known(t) \/ t.login = 0
  /\ t.made <= now /\ t.signedInAt <= now /\ t.exp <= t.made + AccessTtl
  /\ Known(t) =>
       /\ t.gen <= logins[t.login].gen
       /\ \A j \in DOMAIN notices : Ends(j, t.login) =>
            MadeBy(t, j, MaxDelay) /\ (t.login \notin revived => MadeBy(t, j, 0))

\* A request: it is in time, was not late when the server was asked, and has a token that will do.
Right(e) ==
  /\ e.served => e.pc = "answer"
  /\ e.pc = "check" => e.path \in Paths
  /\ e.pc # "idle" =>
       /\ Sound(e.token)
       /\ e.since <= now /\ now <= e.since + MaxDelay /\ e.asked <= now
       /\ e.late => e.token.login \in closed
       /\ e.pc \in {"mint", "recheck"} => ~e.late
       /\ e.pc = "mint" => \A j \in DOMAIN notices : Ends(j, e.token.login) => e.since <= notices[j].at
       /\ e.pc = "recheck" => e.path = "proxy" /\ e.token.exp >= e.since + AccessTtl

TokenInv ==
  /\ \A b \in Browsers : Sound(cookie[b].token)
  /\ \A r \in Requests : Right(req[r])

Inv == TypeInv /\ LogInv /\ TokenInv

LEMMA NoTokenIsSound == TypeInv => Sound(NoToken)
<1> SUFFICES ASSUME TypeInv
             PROVE  Sound(NoToken)
  OBVIOUS
<1>1. ~Known(NoToken)
  BY StateIs, Nones DEF Known
<1> QED BY <1>1, Nones, Constants DEF Sound, TypeInv, ServerTyped

LEMMA IdleIsRight == Right(IdleRequest)
BY Nones DEF Right

LEMMA TokenInit == Init => TokenInv
<1> SUFFICES ASSUME Init
             PROVE  TokenInv
  OBVIOUS
<1>1. Sound(NoToken)
  BY TypeInit, NoTokenIsSound
<1>2. \A b \in Browsers : cookie[b].token = NoToken
  BY Nones DEF Init, Started
<1>3. \A r \in Requests : req[r] = IdleRequest
  BY DEF Init, Started
<1> QED BY <1>1, <1>2, <1>3, IdleIsRight DEF TokenInv

\* A token stays sound whatever is done.
LEMMA SoundStays ==
  ASSUME Inv, [Next]_vars, NEW t \in Tokens, Sound(t)
  PROVE  Sound(t)'
<1>0. t.made \in Nat /\ t.signedInAt \in Nat /\ t.exp \in Nat /\ t.gen \in Nat /\ now \in Nat
      /\ MaxDelay \in Nat /\ AccessTtl \in Nat
  BY Fields, Constants DEF Inv, TypeInv, ServerTyped
<1>1. ASSUME NEW r \in Requests, Ask(r) \/ Serve(r)
      PROVE  Sound(t)'
  <2>1. RequestFrame
    BY <1>1, RequestLeaves DEF Inv
  <2>2. CASE Known(t)
    <3>1. t.login \in DOMAIN logins' /\ logins'[t.login].sid = logins[t.login].sid
          /\ logins'[t.login].gen >= logins[t.login].gen
      BY <2>1, <2>2, KnownStays
    <3>2. logins[t.login].gen \in Nat /\ logins'[t.login].gen \in Nat
      <4>1. logins[t.login] \in LoginType /\ logins'[t.login] \in LoginType
        BY <2>1, <2>2, <3>1, StateIs DEF Inv, Known, RequestFrame
      <4> QED BY <4>1, Fields
    <3>3. t.gen <= logins'[t.login].gen
      BY <1>0, <2>2, <3>1, <3>2 DEF Sound
    <3> QED BY <2>1, <2>2, <3>1, <3>3 DEF Sound, Ends, MadeBy, Known, RequestFrame
  <2>3. CASE t.login = 0
    <3>1. 0 \notin DOMAIN logins'
      <4>1. TypeInv'
        BY TypeStep DEF Inv
      <4>2. DOMAIN logins' = 1..Len(logins') /\ Len(logins') \in Nat
        BY <2>1 DEF RequestFrame
      <4> QED BY <4>2
    <3> QED BY <2>1, <2>3, <3>1 DEF Sound, Known, RequestFrame
  <2> QED BY <2>2, <2>3 DEF Sound
<1>2. ASSUME NEW h \in Handlers, HandlerStep(h)
      PROVE  Sound(t)'
  BY <1>2, HandlerLeaves DEF Sound, Ends, MadeBy, Known, HandlerFrame
<1>3. ASSUME NEW k \in Keys, ServerLogout(k)
      PROVE  Sound(t)'
  <2> DEFINE j == Len(notices) + 1
  <2>1. /\ UNCHANGED <<logins, now, revived>> /\ DOMAIN notices' = DOMAIN notices \cup {j}
        /\ \A i \in DOMAIN notices : notices'[i] = notices[i]
        /\ notices'[j].at = now
    BY <1>3, ServerLogoutEffect DEF Inv
  <2> HIDE DEF j
  <2>2. ASSUME Known(t), NEW i \in DOMAIN notices', Ends(i, t.login)'
        PROVE  MadeBy(t, i, MaxDelay)' /\ (t.login \notin revived' => MadeBy(t, i, 0)')
    <3>1. CASE i = j
      BY <1>0, <2>1, <3>1 DEF Sound, MadeBy
    <3>2. CASE i \in DOMAIN notices
      BY <2>1, <2>2, <3>2 DEF Sound, MadeBy, Ends
    <3> QED BY <2>1, <3>1, <3>2
  <2> QED BY <2>1, <2>2 DEF Sound, Known
<1>4. ASSUME Tick
      PROVE  Sound(t)'
  <2>1. UNCHANGED <<logins, notices, revived>> /\ now' = now + 1
    BY <1>4, TickEffect DEF Inv
  <2>2. t.made <= now' /\ t.signedInAt <= now'
    BY <1>0, <2>1 DEF Sound
  <2> QED BY <2>1, <2>2 DEF Sound, Ends, MadeBy, Known
<1>5. ASSUME UNCHANGED vars
      PROVE  Sound(t)'
  BY <1>5 DEF vars, server, history, Sound, Ends, MadeBy, Known
<1> QED BY <1>1, <1>2, <1>3, <1>4, <1>5 DEF Next, HandlerStep

\* What a request that goes on stays, while nobody asks the server for it.
LEMMA RightStays ==
  ASSUME Inv, [Next]_vars, NEW r \in Requests, req'[r] = req[r]
  PROVE  Right(req[r])'
<1> DEFINE e == req[r]
<1>0. e \in RequestType /\ e.token \in Tokens /\ e.since \in Nat /\ e.asked \in Nat
      /\ now \in Nat /\ MaxDelay \in Nat /\ Right(e)
  BY StateIs, Fields, Constants DEF Inv, TypeInv, ServerTyped, TokenInv
<1>1. e.pc # "idle" => Sound(e.token)'
  BY <1>0, SoundStays DEF Right
<1>2. e.pc \in {"mint", "recheck", "fetch", "verify", "check"} => Known(e.token)
  BY DEF Inv, TypeInv, RequestsTyped, At
<1>3. closed \subseteq closed' /\ now' >= now /\ (e.pc # "idle" => now' <= e.since + MaxDelay)
  <2>1. ASSUME NEW q \in Requests, Ask(q) \/ Serve(q)
        PROVE  closed' = closed /\ now' = now
    BY <2>1, RequestLeaves DEF RequestFrame, Inv
  <2>2. ASSUME NEW h \in Handlers, HandlerStep(h)
        PROVE  closed \subseteq closed' /\ now' = now
    BY <2>2 DEF HandlerStep, Record, Post, Handle, Read, Write, RecordFails, history
  <2>3. ASSUME NEW k \in Keys, ServerLogout(k)
        PROVE  closed' = closed /\ now' = now
    BY <2>3, ServerLogoutEffect DEF Inv
  <2>4. ASSUME Tick
        PROVE  closed' = closed /\ now' = now + 1 /\ (e.pc # "idle" => now < e.since + MaxDelay)
    BY <2>4, TickEffect DEF Inv
  <2>5. ASSUME UNCHANGED vars
        PROVE  closed' = closed /\ now' = now
    BY <2>5 DEF vars, history
  <2>6. \/ closed \subseteq closed' /\ now' = now
        \/ closed' = closed /\ now' = now + 1 /\ (e.pc # "idle" => now < e.since + MaxDelay)
    BY <2>1, <2>2, <2>3, <2>4, <2>5 DEF Next, HandlerStep
  <2>7. e.pc # "idle" => now <= e.since + MaxDelay
    BY <1>0 DEF Right
  <2> HIDE DEF e
  <2> QED BY <1>0, <2>6, <2>7
<1>4. ASSUME e.pc = "mint", NEW j \in DOMAIN notices', Ends(j, e.token.login)'
      PROVE  e.since <= notices'[j].at
  <2>1. \A i \in DOMAIN notices : Ends(i, e.token.login) => e.since <= notices[i].at
    BY <1>0, <1>4 DEF Right
  <2>2. Known(e.token)
    BY <1>2, <1>4
  <2>3. ASSUME NEW q \in Requests, Ask(q) \/ Serve(q)
        PROVE  e.since <= notices'[j].at
    <3>1. RequestFrame
      BY <2>3, RequestLeaves DEF Inv
    <3> QED BY <1>4, <2>1, <2>2, <3>1 DEF RequestFrame, Ends, Known
  <2>4. ASSUME NEW k \in Keys, ServerLogout(k)
        PROVE  e.since <= notices'[j].at
    <3> DEFINE i == Len(notices) + 1
    <3>1. /\ logins' = logins /\ DOMAIN notices' = DOMAIN notices \cup {i}
          /\ \A m \in DOMAIN notices : notices'[m] = notices[m]
          /\ notices'[i].at = now
      BY <2>4, ServerLogoutEffect DEF Inv
    <3> HIDE DEF i
    <3>2. CASE j = i
      BY <1>0, <1>4, <3>1, <3>2 DEF Right
    <3>3. CASE j \in DOMAIN notices
      BY <1>4, <2>1, <3>1, <3>3 DEF Ends
    <3> QED BY <3>1, <3>2, <3>3
  <2>5. ASSUME UNCHANGED <<logins, notices>>
        PROVE  e.since <= notices'[j].at
    BY <1>4, <2>1, <2>5 DEF Ends
  <2>6. ASSUME NEW h \in Handlers, HandlerStep(h)
        PROVE  UNCHANGED <<logins, notices>>
    BY <2>6, HandlerLeaves DEF HandlerFrame
  <2>7. Tick => UNCHANGED <<logins, notices>>
    BY TickEffect DEF Inv
  <2>8. UNCHANGED vars => UNCHANGED <<logins, notices>>
    BY DEF vars, server
  <2> HIDE DEF e
  <2> QED BY <2>3, <2>4, <2>5, <2>6, <2>7, <2>8 DEF Next, HandlerStep
<1>5. (e.served => e.pc = "answer") /\ (e.pc = "check" => e.path \in Paths)
  BY <1>0 DEF Right
<1>6. ASSUME e.pc # "idle"
      PROVE  /\ e.since <= now' /\ e.asked <= now' /\ now' <= e.since + MaxDelay
             /\ e.late => e.token.login \in closed'
             /\ e.pc \in {"mint", "recheck"} => ~e.late
             /\ e.pc = "recheck" => e.path = "proxy" /\ e.token.exp >= e.since + AccessTtl
  <2>1. e.since <= now /\ e.asked <= now
        /\ (e.late => e.token.login \in closed) /\ (e.pc \in {"mint", "recheck"} => ~e.late)
        /\ (e.pc = "recheck" => e.path = "proxy" /\ e.token.exp >= e.since + AccessTtl)
    BY <1>0, <1>6 DEF Right
  <2>2. now' \in Nat
    BY TypeStep DEF Inv, TypeInv, ServerTyped
  <2> HIDE DEF e
  <2>3. e.since <= now' /\ e.asked <= now'
    BY <1>0, <1>3, <2>1, <2>2
  <2> QED BY <1>3, <1>6, <2>1, <2>3
<1>7. req[r]' = e
  OBVIOUS
<1> QED BY <1>1, <1>4, <1>5, <1>6, <1>7 DEF Right

\* The request goes on with its token, to anything but the token endpoint's answer.
LEMMA RightOn ==
  ASSUME Inv, [Next]_vars, RequestFrame, NEW r \in Requests,
         req[r].pc # "idle", Stays(req[r], req'[r]), req'[r].token = req[r].token,
         req'[r].asked = req[r].asked \/ req'[r].asked = now,
         req'[r].pc \in {"verify", "fetch", "answer"}, req'[r].served => req'[r].pc = "answer"
  PROVE  Right(req[r])'
<1>0. Right(req[r]) /\ req[r].token \in Tokens /\ now \in Nat
  BY StateIs, Fields DEF Inv, TypeInv, ServerTyped, TokenInv
<1>1. Sound(req[r].token)'
  <2>1. Sound(req[r].token)
    BY <1>0 DEF Right
  <2> QED BY <1>0, <2>1, SoundStays
<1>2. now' = now /\ closed' = closed
  BY DEF RequestFrame
<1> QED BY <1>0, <1>1, <1>2 DEF Right, Stays

LEMMA RightArrive ==
  ASSUME Inv, [Next]_vars, NEW r \in Requests, NEW b \in Browsers, NEW p \in Paths, Arrive(r, b, p)
  PROVE  Right(req[r])'
<1>0. now \in Nat /\ MaxDelay \in Nat /\ cookie[b].token \in Tokens
  BY StateIs, Fields, Constants DEF Inv, TypeInv, ServerTyped
<1>1. UNCHANGED <<now, closed>>
  BY DEF Arrive, history
<1>2. Sound(cookie[b].token)
  BY DEF Inv, TokenInv
<1>3. req'[r].token = cookie[b].token /\ req'[r].pc \in {"check", "verify"} /\ req'[r].path \in Paths
      /\ req'[r].since = now
      /\ req'[r].asked = 0 /\ ~req'[r].served /\ (req'[r].late => req'[r].token.login \in closed)
  BY ArriveEffect DEF Inv
<1>4. Sound(req[r].token)'
  BY <1>0, <1>2, <1>3, SoundStays
<1> QED BY <1>0, <1>1, <1>3, <1>4 DEF Right

LEMMA RightCallback ==
  ASSUME Inv, [Next]_vars, NEW r \in Requests, NEW b \in Browsers, NEW x \in Sids, Callback(r, b, x)
  PROVE  Right(req[r])'
<1> DEFINE l == Len(logins) + 1
<1>0. now \in Nat /\ MaxDelay \in Nat /\ AccessTtl \in Nat /\ NoteInv
  BY Constants DEF Inv, TypeInv, ServerTyped, LogInv
<1>1. UNCHANGED <<now, closed, notices>>
  BY DEF Callback, history
<1>2. /\ req'[r].pc = "mint" /\ req'[r].token \in Tokens /\ req'[r].token.login = l /\ req'[r].token.gen = 1
      /\ req'[r].token.made = 0 /\ req'[r].token.signedInAt = 0 /\ req'[r].token.exp = 0
      /\ req'[r].since = now /\ req'[r].asked = 0 /\ ~req'[r].served /\ ~req'[r].late
      /\ DOMAIN logins' = DOMAIN logins \cup {l}
      /\ logins'[l].sid = x /\ logins'[l].gen = 1 /\ x \notin ended
  BY CallbackEffect DEF Inv
<1> HIDE DEF l
<1>3. \A j \in DOMAIN notices : logins'[l].sid \notin notices[j].gone
  BY <1>0, <1>2, AliveIsUnnamed
<1>4. Sound(req[r].token)'
  BY <1>0, <1>1, <1>2, <1>3 DEF Sound, Known, Ends
<1> QED BY <1>0, <1>1, <1>2, <1>3, <1>4 DEF Right, Ends

LEMMA RightClearSession ==
  ASSUME Inv, [Next]_vars, NEW r \in Requests, NEW b \in Browsers, ClearSession(r, b)
  PROVE  Right(req[r])'
<1>0. now \in Nat /\ MaxDelay \in Nat
  BY Constants DEF Inv, TypeInv, ServerTyped
<1>1. UNCHANGED <<now, closed>>
  BY DEF ClearSession, history
<1>2. req'[r].token = NoToken /\ req'[r].pc = "answer" /\ req'[r].since = now
      /\ req'[r].asked = 0 /\ ~req'[r].served /\ ~req'[r].late
  BY ClearSessionEffect DEF Inv
<1>3. Sound(req[r].token)'
  BY <1>2, NoTokenIsSound, Nones, SoundStays DEF Inv
<1> QED BY <1>0, <1>1, <1>2, <1>3 DEF Right

\* The server answers for a session that has not ended.
LEMMA RightServerRefresh ==
  ASSUME Inv, [Next]_vars, NEW r \in Requests, ServerRefresh(r)
  PROVE  Right(req[r])'
<1> DEFINE e == req[r]
           l == req[r].token.login
<1>0. Right(e) /\ e.token \in Tokens /\ now \in Nat /\ RequestFrame /\ NoteInv
  <2>1. RequestFrame
    BY RequestLeaves DEF Inv, Serve
  <2> QED BY <2>1, StateIs, Fields DEF Inv, TypeInv, ServerTyped, TokenInv, LogInv
<1>1. /\ e.pc = "fetch" /\ Valid(e.token) /\ Stays(e, req'[r]) /\ req'[r].asked = e.asked
      /\ req'[r].pc = "mint" /\ req'[r].served = e.served
      /\ req'[r].token.login = l /\ req'[r].token.made = e.token.made
      /\ req'[r].token.exp = e.token.exp /\ req'[r].token.signedInAt = e.token.signedInAt
      /\ req'[r].token.gen = logins'[l].gen /\ logins' \in Seq(LoginType)
      /\ DOMAIN logins' = DOMAIN logins
      /\ \A k \in DOMAIN logins : logins'[k].sid = logins[k].sid
  BY ServerRefreshEffect DEF Inv
<1>2. Known(e.token) /\ logins[l].sid \notin ended
  BY <1>1 DEF Inv, TypeInv, RequestsTyped, At, Valid
<1>3. UNCHANGED <<now, closed, notices, ended>>
  BY <1>0 DEF RequestFrame
<1>4. \A j \in DOMAIN notices : ~Ends(j, l) /\ ~Ends(j, l)'
  <2>1. \A j \in DOMAIN notices : logins[l].sid \notin notices[j].gone
    BY <1>0, <1>2, AliveIsUnnamed
  <2> QED BY <1>1, <1>2, <1>3, <2>1 DEF Ends, Known
<1>5. l \notin closed
  <2>1. ~\E j \in DOMAIN notices : Ends(j, l)
    BY <1>4
  <2> QED BY <2>1 DEF Inv, LogInv, ClosedInv
<1>6. logins'[l].gen \in Nat
  BY <1>1, <1>2, Fields DEF Known
<1>7. Sound(req[r].token)'
  <2>1. Sound(e.token)
    BY <1>0, <1>1 DEF Right
  <2>2. e.token.made <= now /\ e.token.signedInAt <= now /\ e.token.exp <= e.token.made + AccessTtl
    BY <2>1 DEF Sound
  <2> HIDE DEF e, l
  <2> QED BY <1>1, <1>2, <1>3, <1>4, <1>6, <2>2 DEF Sound, Known, l, e
<1>8. e.since <= now /\ now <= e.since + MaxDelay /\ e.asked <= now /\ ~e.served /\ ~e.late
  BY <1>0, <1>1, <1>5 DEF Right
<1> HIDE DEF e
<1> QED BY <1>1, <1>3, <1>4, <1>7, <1>8 DEF Right, Stays

\* The new token is made within the time of the request that began before any logout.
LEMMA RightMint ==
  ASSUME Inv, [Next]_vars, NEW r \in Requests, Mint(r)
  PROVE  Right(req[r])'
<1> DEFINE e == req[r]
           t == Minted(e)
<1>0. Right(e) /\ e \in RequestType /\ e.token \in Tokens /\ now \in Nat /\ RequestFrame
      /\ e.since \in Nat /\ e.asked \in Nat /\ MaxDelay \in Nat /\ AccessTtl \in Nat
  <2>1. RequestFrame
    BY RequestLeaves DEF Inv, Serve
  <2> QED BY <2>1, StateIs, Fields, Constants DEF Inv, TypeInv, ServerTyped, TokenInv
<1>1. /\ e.pc = "mint" /\ Stays(e, req'[r]) /\ req'[r].token = t /\ req'[r].asked = e.asked
      /\ \/ e.path = "proxy" /\ req'[r].pc = "recheck" /\ req'[r].served = e.served
         \/ e.path # "proxy" /\ req'[r].pc = "answer" /\ req'[r].served
  BY MintEffect DEF Inv
<1>2. t \in Tokens /\ t.login = e.token.login /\ t.gen = e.token.gen /\ t.made = now
      /\ t.exp = (IF e.path = "token" THEN e.asked ELSE now) + AccessTtl
      /\ t.signedInAt = IF e.path = "callback" THEN now ELSE e.token.signedInAt
  BY <1>0, MintedIs DEF Inv
<1>3. Known(e.token)
  BY <1>1 DEF Inv, TypeInv, RequestsTyped, At
<1>4. /\ Sound(e.token) /\ e.since <= now /\ now <= e.since + MaxDelay /\ e.asked <= now /\ ~e.served /\ ~e.late
      /\ \A j \in DOMAIN notices : Ends(j, e.token.login) => e.since <= notices[j].at
  BY <1>0, <1>1 DEF Right
<1>5. UNCHANGED <<now, closed, notices, logins, ended>>
      /\ revived' = IF SidOf(e.token) \in ended THEN revived \cup {e.token.login} ELSE revived
  BY DEF Mint, server
<1>6. t.made <= now /\ t.signedInAt <= now /\ t.exp <= t.made + AccessTtl /\ t.exp \in Nat
      /\ (e.path = "proxy" => t.exp = now + AccessTtl)
  <2>1. e.token.signedInAt <= now
    BY <1>4 DEF Sound
  <2>2. t.exp <= t.made + AccessTtl
    <3> HIDE DEF t, e
    <3> QED BY <1>0, <1>2, <1>4
  <2> QED BY <1>0, <1>2, <2>1, <2>2, Fields
<1> HIDE DEF t
<1>7. ASSUME NEW j \in DOMAIN notices, Ends(j, e.token.login)
      PROVE  MadeBy(t, j, MaxDelay) /\ e.token.login \in revived'
  <2>1. e.since <= notices[j].at /\ notices[j].at \in Nat
    BY <1>4, <1>7, StateIs, Fields DEF Inv
  <2>2. now <= notices[j].at + MaxDelay
    <3> HIDE DEF e
    <3> QED BY <1>0, <1>4, <2>1
  <2>3. MadeBy(t, j, MaxDelay)
    <3>1. t.made \in Nat /\ t.signedInAt \in Nat
      BY <1>2, Fields
    <3> QED BY <1>0, <1>6, <2>1, <2>2, <3>1 DEF MadeBy
  <2>4. SidOf(e.token) \in ended
    BY <1>7 DEF Ends, SidOf, Inv, LogInv, NoteInv
  <2> QED BY <1>5, <2>3, <2>4
<1>8. Sound(req[r].token)'
  <2>1. e.token.gen <= logins[e.token.login].gen
    BY <1>3, <1>4 DEF Sound
  <2> HIDE DEF e
  <2> QED BY <1>1, <1>2, <1>3, <1>5, <1>6, <1>7, <2>1 DEF Sound, Known, Ends, MadeBy
<1>9. e.path = "proxy" => t.exp >= e.since + AccessTtl
  <2> HIDE DEF e
  <2> QED BY <1>0, <1>4, <1>6
<1> HIDE DEF e
<1> QED BY <1>1, <1>2, <1>4, <1>5, <1>8, <1>9 DEF Right, Stays

LEMMA TokenStep == Inv /\ [Next]_vars => TokenInv'
<1> SUFFICES ASSUME Inv, [Next]_vars
             PROVE  TokenInv'
  OBVIOUS
<1>0. TypeInv /\ TokenInv
  BY DEF Inv
<1>1. ASSUME cookie' = cookie
      PROVE  \A b \in Browsers : Sound(cookie[b].token)'
  <2> SUFFICES ASSUME NEW b \in Browsers
               PROVE  Sound(cookie[b].token)'
    OBVIOUS
  <2>1. cookie[b].token \in Tokens /\ Sound(cookie[b].token)
    BY <1>0, StateIs, Fields DEF TokenInv
  <2> QED BY <1>1, <2>1, SoundStays
<1>2. ASSUME req' = req
      PROVE  \A r \in Requests : Right(req[r])'
  BY <1>2, RightStays
<1>3. ASSUME NEW r \in Requests, Ask(r) \/ Serve(r)
      PROVE  TokenInv'
  <2>0. RequestFrame
    BY <1>0, <1>3, RequestLeaves
  <2> DEFINE Good == Changes(r) /\ Right(req[r])'
  <2>1. ASSUME NEW b \in Browsers, NEW p \in Paths, Arrive(r, b, p)
        PROVE  Good /\ cookie' = cookie
    BY <1>0, <2>1, ArriveEffect, RightArrive DEF Arrive
  <2>2. ASSUME NEW b \in Browsers, NEW x \in Sids, Callback(r, b, x)
        PROVE  Good /\ cookie' = cookie
    BY <1>0, <2>2, CallbackEffect, RightCallback DEF Callback
  <2>3. ASSUME NEW b \in Browsers, ClearSession(r, b)
        PROVE  Good /\ cookie' = cookie
    BY <1>0, <2>3, ClearSessionEffect, RightClearSession DEF ClearSession
  <2>4. req[r].pc # "answer" => ~req[r].served
    BY <1>0 DEF TokenInv, Right
  <2>5. ASSUME Check(r)
        PROVE  Good /\ cookie' = cookie
    <3>1. Changes(r) /\ cookie' = cookie
      BY <1>0, <2>5, CheckEffect DEF Check
    <3>2. Right(req[r])'
      BY <1>0, <2>0, <2>4, <2>5, CheckEffect, RightOn
    <3> QED BY <3>1, <3>2
  <2>6. ASSUME Verify(r)
        PROVE  Good /\ cookie' = cookie
    <3>1. Changes(r) /\ cookie' = cookie
      BY <1>0, <2>6, VerifyEffect DEF Verify
    <3>2. Right(req[r])'
      BY <1>0, <2>0, <2>4, <2>6, VerifyEffect, RightOn
    <3> QED BY <3>1, <3>2
  <2>7. ASSUME ServerRefresh(r)
        PROVE  Good /\ cookie' = cookie
    BY <1>0, <2>7, ServerRefreshEffect, RightServerRefresh DEF ServerRefresh
  <2>8. ASSUME RefreshFails(r)
        PROVE  Good /\ cookie' = cookie
    <3>1. Changes(r) /\ cookie' = cookie
      BY <1>0, <2>8, RefreshFailsEffect DEF RefreshFails
    <3>2. Right(req[r])'
      BY <1>0, <2>0, <2>8, RefreshFailsEffect, RightOn
    <3> QED BY <3>1, <3>2
  <2>9. ASSUME Mint(r)
        PROVE  Good /\ cookie' = cookie
    BY <1>0, <2>9, MintEffect, RightMint DEF Mint
  <2>10. ASSUME Recheck(r)
         PROVE  Good /\ cookie' = cookie
    <3>1. Changes(r) /\ cookie' = cookie
      BY <1>0, <2>10, RecheckEffect DEF Recheck
    <3>2. Right(req[r])'
      BY <1>0, <2>0, <2>10, RecheckEffect, RightOn
    <3> QED BY <3>1, <3>2
  <2>11. ASSUME Deliver(r)
         PROVE  Good /\ \A b \in Browsers : Sound(cookie[b].token)'
    <3>1. Good
      BY <1>0, <2>11, DeliverEffect, IdleIsRight, Nones DEF Right
    <3>2. ASSUME NEW b \in Browsers
          PROVE  Sound(cookie[b].token)'
      <4>1. CASE cookie'[b] = cookie[b]
        <5>1. cookie[b].token \in Tokens /\ Sound(cookie[b].token)
          BY <1>0, StateIs, Fields DEF TokenInv
        <5> QED BY <4>1, <5>1, SoundStays
      <4>2. CASE cookie'[b].token = NoToken
        BY <1>0, <4>2, NoTokenIsSound, Nones, SoundStays
      <4>3. CASE cookie'[b].token = req[r].token
        <5>1. req[r].token \in Tokens /\ Sound(req[r].token)
          BY <1>0, <2>11, StateIs, Fields, DeliverEffect DEF TokenInv, Right
        <5> QED BY <4>3, <5>1, SoundStays
      <4> QED BY <1>0, <2>11, <4>1, <4>2, <4>3, DeliverEffect
    <3> QED BY <3>1, <3>2
  <2> HIDE DEF Good
  <2>12. Good /\ \A b \in Browsers : Sound(cookie[b].token)'
    BY <1>1, <1>3, <2>1, <2>2, <2>3, <2>5, <2>6, <2>7, <2>8, <2>9, <2>10, <2>11 DEF Ask, Serve
  <2>13. \A q \in Requests : Right(req[q])'
    BY <2>12, RightStays DEF Good, Changes
  <2> QED BY <2>12, <2>13 DEF TokenInv
<1>4. ASSUME NEW h \in Handlers, HandlerStep(h)
      PROVE  UNCHANGED <<cookie, req>>
  BY <1>4, HandlerLeaves DEF HandlerFrame
<1>5. ASSUME NEW k \in Keys, ServerLogout(k)
      PROVE  UNCHANGED <<cookie, req>>
  BY <1>0, <1>5, ServerLogoutEffect
<1>6. Tick \/ UNCHANGED vars => UNCHANGED <<cookie, req>>
  BY <1>0, TickEffect DEF vars
<1> QED BY <1>1, <1>2, <1>3, <1>4, <1>5, <1>6 DEF TokenInv, Next, HandlerStep

LEMMA InvInit == Init => Inv
BY TypeInit, LogInit, TokenInit DEF Inv

LEMMA InvStep == Inv /\ [Next]_vars => Inv'
BY TypeStep, LogStep, TokenStep DEF Inv

LEMMA InvKept == Spec => []Inv
BY InvInit, InvStep, PTL DEF Spec

-----------------------------------------------------------------------------
(* The cookie the proxy deletes *)

\* The refresh token is good for nothing any more.
Spent(t) == t.gen < logins[t.login].gen \/ logins[t.login].sid \in ended

\* What the proxy has found of a session whose cookie it is to delete.
Cleared(e) ==
  e.pc = "answer" /\ e.answer = "clear" /\ e.path = "proxy" /\ ~e.lost =>
    Spent(e.token) \/ \E j \in DOMAIN notices : NamedBy(e.token, notices[j])

ClearInv == \A r \in Requests : Cleared(req[r])

\* No request takes as long as an access token lasts.
Prompt == MaxDelay < AccessTtl

LEMMA FoundStays ==
  ASSUME TypeInv, [Next]_vars, NEW t \in Tokens, Known(t)
  PROVE  /\ Spent(t) => Spent(t)'
         /\ (\E j \in DOMAIN notices : NamedBy(t, notices[j])) => (\E j \in DOMAIN notices : NamedBy(t, notices[j]))'
<1>0. t.gen \in Nat /\ logins[t.login].gen \in Nat
  BY StateIs, Fields DEF Known
<1>1. ASSUME NEW r \in Requests, Ask(r) \/ Serve(r)
      PROVE  /\ UNCHANGED <<ended, notices>> /\ logins'[t.login].sid = logins[t.login].sid
             /\ logins'[t.login].gen >= logins[t.login].gen /\ logins'[t.login].gen \in Nat
  <2>1. RequestFrame
    BY <1>1, RequestLeaves
  <2>2. t.login \in DOMAIN logins' /\ logins'[t.login].sid = logins[t.login].sid
        /\ logins'[t.login].gen >= logins[t.login].gen
    BY <2>1, KnownStays
  <2>3. logins'[t.login].gen \in Nat
    <3>1. logins'[t.login] \in LoginType
      BY <2>1, <2>2 DEF RequestFrame
    <3> QED BY <3>1, Fields
  <2> QED BY <2>1, <2>2, <2>3 DEF RequestFrame
<1>2. ASSUME NEW r \in Requests, Ask(r) \/ Serve(r)
      PROVE  /\ Spent(t) => Spent(t)'
             /\ (\E j \in DOMAIN notices : NamedBy(t, notices[j])) => (\E j \in DOMAIN notices : NamedBy(t, notices[j]))'
  <2>1. Spent(t) => Spent(t)'
    BY <1>0, <1>1, <1>2 DEF Spent
  <2> QED BY <1>1, <1>2, <2>1 DEF NamedBy, BySid, SidOf
<1>3. ASSUME NEW h \in Handlers, HandlerStep(h)
      PROVE  UNCHANGED <<logins, ended, notices>>
  BY <1>3, HandlerLeaves DEF HandlerFrame
<1>4. ASSUME NEW k \in Keys, ServerLogout(k)
      PROVE  /\ logins' = logins /\ ended \subseteq ended' /\ DOMAIN notices \subseteq DOMAIN notices'
             /\ \A i \in DOMAIN notices : notices'[i] = notices[i]
  BY <1>4, ServerLogoutEffect
<1>5. Tick \/ UNCHANGED vars => UNCHANGED <<logins, ended, notices>>
  BY TickEffect DEF vars, server
<1>6. \/ \E r \in Requests : Ask(r) \/ Serve(r)
      \/ /\ logins' = logins /\ ended \subseteq ended' /\ DOMAIN notices \subseteq DOMAIN notices'
         /\ \A i \in DOMAIN notices : notices'[i] = notices[i]
  BY <1>3, <1>4, <1>5 DEF Next, HandlerStep
<1>7. CASE /\ logins' = logins /\ ended \subseteq ended' /\ DOMAIN notices \subseteq DOMAIN notices'
           /\ \A i \in DOMAIN notices : notices'[i] = notices[i]
  BY <1>7 DEF Spent, NamedBy, BySid, SidOf
<1> QED BY <1>2, <1>6, <1>7

LEMMA ClearInit == Init => ClearInv
BY Nones DEF Init, Started, ClearInv, Cleared

LEMMA ClearStep == Prompt /\ Inv /\ ClearInv /\ [Next]_vars => ClearInv'
<1> SUFFICES ASSUME Prompt, Inv, ClearInv, [Next]_vars
             PROVE  ClearInv'
  OBVIOUS
<1>0. TypeInv /\ LogInv
  BY DEF Inv
<1> DEFINE Found(t) == Spent(t) \/ \E j \in DOMAIN notices : NamedBy(t, notices[j])
<1>1. ASSUME NEW t \in Tokens, Known(t), Found(t)
      PROVE  Spent(t)' \/ (\E j \in DOMAIN notices : NamedBy(t, notices[j]))'
  BY <1>0, <1>1, FoundStays
<1>2. ASSUME NEW r \in Requests, req'[r] = req[r]
      PROVE  Cleared(req[r])'
  <2>1. ASSUME req[r].pc = "answer", req[r].path = "proxy"
        PROVE  Known(req[r].token) /\ req[r].token \in Tokens
    BY <1>0, <2>1, StateIs, Fields DEF TypeInv, RequestsTyped, At
  <2>2. Cleared(req[r])
    BY DEF ClearInv
  <2> QED BY <1>1, <1>2, <2>1, <2>2 DEF Cleared
<1>3. ASSUME NEW r \in Requests, req[r].pc \in {"verify", "fetch", "recheck"}, Stays(req[r], req'[r]),
             req'[r].token = req[r].token,
             req'[r].answer = "clear" /\ req[r].path = "proxy" /\ ~req'[r].lost => Found(req[r].token)
      PROVE  Cleared(req[r])'
  <2>1. Known(req[r].token) /\ req[r].token \in Tokens
    BY <1>0, <1>3, StateIs, Fields DEF TypeInv, RequestsTyped, At
  <2> QED BY <1>1, <1>3, <2>1 DEF Cleared, Stays
<1>4. ASSUME NEW r \in Requests, LoggedOut(req[r].token), Known(req[r].token)
      PROVE  Found(req[r].token)
  BY <1>0, <1>4, RefusedIsNamed, StateIs, Fields
<1> HIDE DEF Found
<1>5. ASSUME NEW r \in Requests, Ask(r) \/ Serve(r)
      PROVE  Changes(r) /\ Cleared(req[r])'
  <2> DEFINE Good == Changes(r) /\ Cleared(req[r])'
  <2>0. req[r].pc \in {"check", "verify", "fetch", "mint", "recheck"} => Known(req[r].token)
    BY <1>0 DEF TypeInv, RequestsTyped, At
  <2>1. ASSUME NEW b \in Browsers, NEW p \in Paths, Arrive(r, b, p)
        PROVE  Good
    BY <1>0, <2>1, ArriveEffect DEF Cleared
  <2>2. ASSUME NEW b \in Browsers, NEW x \in Sids, Callback(r, b, x)
        PROVE  Good
    BY <1>0, <2>2, CallbackEffect DEF Cleared
  <2>3. ASSUME NEW b \in Browsers, ClearSession(r, b)
        PROVE  Good
    BY <1>0, <2>3, ClearSessionEffect DEF Cleared
  <2>4. ASSUME Check(r)
        PROVE  Good
    BY <1>0, <2>4, CheckEffect DEF Cleared, Stays
  <2>5. ASSUME Verify(r)
        PROVE  Good
    <3>1. /\ req[r].pc = "verify" /\ Changes(r) /\ Stays(req[r], req'[r]) /\ req'[r].token = req[r].token
          /\ \/ LoggedOut(req[r].token)
             \/ req'[r].pc = "fetch"
      BY <1>0, <2>5, VerifyEffect
    <3>2. CASE LoggedOut(req[r].token)
      BY <1>3, <1>4, <2>0, <3>1, <3>2
    <3> QED BY <3>1, <3>2 DEF Cleared
  <2>6. ASSUME ServerRefresh(r)
        PROVE  Good
    BY <1>0, <2>6, ServerRefreshEffect DEF Cleared
  <2>7. ASSUME RefreshFails(r)
        PROVE  Good
    <3>1. /\ req[r].pc = "fetch" /\ Changes(r) /\ Stays(req[r], req'[r]) /\ req'[r].token = req[r].token
          /\ (req'[r].lost \/ ~Valid(req[r].token))
      BY <1>0, <2>7, RefreshFailsEffect
    <3>2. ~Valid(req[r].token) => Found(req[r].token)
      <4>1. Sound(req[r].token) /\ Known(req[r].token)
        BY <2>0, <3>1 DEF Inv, TokenInv, Right
      <4>2. req[r].token.gen \in Nat /\ logins[req[r].token.login].gen \in Nat
        BY <1>0, <4>1, StateIs, Fields DEF Known
      <4> QED BY <4>1, <4>2 DEF Sound, Valid, Spent, Found
    <3> QED BY <1>3, <3>1, <3>2
  <2>8. ASSUME Mint(r)
        PROVE  Good
    BY <1>0, <2>8, MintEffect DEF Cleared, Stays
  <2>9. ASSUME Recheck(r)
        PROVE  Good
    <3>1. /\ req[r].pc = "recheck" /\ Changes(r) /\ Stays(req[r], req'[r]) /\ req'[r].token = req[r].token
          /\ (req'[r].answer = "set" \/ ~Current(req[r]) \/ LoggedOut(req[r].token))
      BY <1>0, <2>9, RecheckEffect
    <3>2. Current(req[r])
      <4>1. req[r].path = "proxy" /\ req[r].token.exp >= req[r].since + AccessTtl /\ now <= req[r].since + MaxDelay
        BY <3>1 DEF Inv, TokenInv, Right
      <4>2. req[r].token.exp \in Nat /\ req[r].since \in Nat /\ now \in Nat /\ MaxDelay \in Nat /\ AccessTtl \in Nat
        BY <1>0, StateIs, Fields, Constants DEF TypeInv, ServerTyped
      <4>3. now < req[r].token.exp
        BY <4>1, <4>2 DEF Prompt
      <4> QED BY <4>1, <4>3 DEF Current, NextPaths
    <3>3. LoggedOut(req[r].token) => Found(req[r].token)
      BY <1>4, <2>0, <3>1
    <3> QED BY <1>3, <3>1, <3>2, <3>3
  <2>10. ASSUME Deliver(r)
         PROVE  Good
    BY <1>0, <2>10, DeliverEffect, Nones DEF Cleared
  <2> HIDE DEF Good
  <2>11. Good
    BY <1>5, <2>1, <2>2, <2>3, <2>4, <2>5, <2>6, <2>7, <2>8, <2>9, <2>10 DEF Ask, Serve
  <2> QED BY <2>11 DEF Good
<1>6. ASSUME NEW r \in Requests, Ask(r) \/ Serve(r)
      PROVE  ClearInv'
  BY <1>2, <1>5, <1>6 DEF ClearInv, Changes
<1>7. ASSUME NEW h \in Handlers, HandlerStep(h)
      PROVE  req' = req
  BY <1>7, HandlerLeaves DEF HandlerFrame
<1>8. ASSUME NEW k \in Keys, ServerLogout(k)
      PROVE  req' = req
  BY <1>0, <1>8, ServerLogoutEffect
<1>9. Tick \/ UNCHANGED vars => req' = req
  BY <1>0, TickEffect DEF vars
<1>10. req' = req => ClearInv'
  BY <1>2 DEF ClearInv
<1> QED BY <1>6, <1>7, <1>8, <1>9, <1>10 DEF Next, HandlerStep

\* The session whose cookie the proxy deletes is dead: its refresh token is good for nothing, or a
\* logout token names it, where no request takes as long as an access token lasts.
THEOREM OnlyTheDeadAreCleared ==
  ASSUME Prompt
  PROVE  Spec => ClearedIsDead
<1>1. Init => Inv /\ ClearInv
  BY InvInit, ClearInit
<1>2. (Inv /\ ClearInv) /\ [Next]_vars => (Inv /\ ClearInv)'
  BY InvStep, ClearStep
<1>3. Inv /\ ClearInv =>
        \A r \in Requests :
          LET t == cookie[req[r].browser].token IN
          At(r, "answer") /\ req[r].answer = "clear" /\ req[r].path = "proxy" /\ req'[r].pc = "idle"
            /\ ~req[r].lost /\ t = req[r].token =>
            t = NoToken \/ ~Valid(t) \/ \E j \in DOMAIN notices : NamedBy(t, notices[j])
  <2> SUFFICES ASSUME Inv, ClearInv, NEW r \in Requests, At(r, "answer"), req[r].answer = "clear",
                      req[r].path = "proxy", ~req[r].lost
               PROVE  ~Valid(req[r].token) \/ \E j \in DOMAIN notices : NamedBy(req[r].token, notices[j])
    OBVIOUS
  <2>1. Spent(req[r].token) \/ \E j \in DOMAIN notices : NamedBy(req[r].token, notices[j])
    BY DEF ClearInv, Cleared, At
  <2>2. Known(req[r].token) /\ req[r].token.gen \in Nat
    BY StateIs, Fields DEF Inv, TypeInv, RequestsTyped, At
  <2>3. Spent(req[r].token) => ~Valid(req[r].token)
    <3>1. logins[req[r].token.login].gen \in Nat
      BY <2>2, StateIs, Fields DEF Inv, Known
    <3> QED BY <2>2, <3>1 DEF Spent, Valid
  <2> QED BY <2>1, <2>3
<1> QED BY <1>1, <1>2, <1>3, PTL DEF Spec, ClearedIsDead

-----------------------------------------------------------------------------
(* Records are kept *)

\* Logout tokens are handled one after the other.
OneByOne == \A g, h \in Handlers : g = h

\* A logout token has ended a login: it was answered with 200.
Told(j) == \E l \in closed : Ends(j, l)

\* No cookie made before the logout can be left.
OutOfDate(j) == now >= notices[j].at + CookieTtl

\* The record ends the sessions the logout token names, for as long as their cookies may last.
Covers(record, j) ==
  /\ record.expiresAt >= notices[j].at + CookieTtl
  /\ ~BySid(notices[j]) => record.endedAt >= notices[j].at + Tolerance

RecordInv ==
  /\ \A j \in DOMAIN notices : Told(j) => OutOfDate(j) \/ Covers(records[notices[j].key], j)
  /\ \A h \in Handlers : PostAt(h, "write") =>
       /\ Covers(post[h], post[h].note)
       /\ \A j \in DOMAIN notices : Told(j) /\ notices[j].key = notices[post[h].note].key =>
            OutOfDate(j) \/ Covers(post[h], j)

LEMMA RecordInit == Init => RecordInv
BY DEF Init, Started, RecordInv, Told, PostAt, IdlePost

\* What is read covers the logout token in hand, and all the record covered.
LEMMA ReadCovers ==
  ASSUME Inv, RecordInv, NEW h \in Handlers, Read(h)
  PROVE  /\ Covers(post'[h], post[h].note)
         /\ \A j \in DOMAIN notices : Told(j) /\ notices[j].key = notices[post[h].note].key =>
              OutOfDate(j) \/ Covers(post'[h], j)
<1> DEFINE n == notices[post[h].note]
<1>0. TypeInv /\ NoteInv
  BY DEF Inv, LogInv
<1>1. /\ post[h].note \in DOMAIN notices /\ post'[h].expiresAt = now + CookieTtl
      /\ post'[h].endedAt = IF BySid(n) THEN 0 ELSE Latest(n.at, ExistingAt(h))
  BY <1>0, ReadEffect
<1>2. n.key \in Keys /\ now \in Nat /\ CookieTtl \in Nat /\ Tolerance \in Nat
      /\ records[n.key].endedAt \in Nat /\ records[n.key].expiresAt \in Nat
      /\ \A j \in DOMAIN notices : notices[j].at \in Nat /\ notices[j].at <= now
  BY <1>0, <1>1, StateIs, Fields, Constants DEF TypeInv, ServerTyped, NoteInv
<1>3. n.at \in Nat /\ ExistingAt(h) \in Nat
  BY <1>1, <1>2 DEF ExistingAt
<1>4. ~BySid(n) => post'[h].endedAt >= n.at + Tolerance /\ post'[h].endedAt >= ExistingAt(h)
  <2> HIDE DEF n
  <2> QED BY <1>1, <1>2, <1>3 DEF Latest
<1>5. \A j \in DOMAIN notices : post'[h].expiresAt >= notices[j].at + CookieTtl
  BY <1>1, <1>2
<1>6. Covers(post'[h], post[h].note)
  BY <1>1, <1>4, <1>5 DEF Covers
<1>7. ASSUME NEW j \in DOMAIN notices, Told(j), notices[j].key = n.key, ~OutOfDate(j)
      PROVE  Covers(post'[h], j)
  <2>1. Covers(records[n.key], j)
    BY <1>7 DEF RecordInv
  <2>2. CASE BySid(n)
    BY <1>5, <1>7, <2>2 DEF Covers, BySid
  <2>3. CASE ~BySid(n)
    <3>1. Live(n.key)
      <4> HIDE DEF n
      <4> QED BY <1>2, <1>7, <2>1 DEF Covers, Live, OutOfDate
    <3>2. records[n.key].endedAt >= notices[j].at + Tolerance
      BY <1>7, <2>1, <2>3 DEF Covers, BySid
    <3>3. ExistingAt(h) = records[n.key].endedAt
      BY <3>1 DEF ExistingAt
    <3>4. post'[h].endedAt \in Nat
      BY <1>0, HandlerTypeStep, StateIs, Fields, ReadEffect DEF HandlerStep, Record, Moves
    <3>5. post'[h].endedAt >= notices[j].at + Tolerance
      <4>1. notices[j].at \in Nat /\ post'[h].endedAt >= ExistingAt(h)
        BY <1>2, <1>4, <2>3
      <4> HIDE DEF n
      <4> QED BY <1>2, <3>2, <3>3, <3>4, <4>1
    <3> QED BY <1>5, <3>5 DEF Covers
  <2> QED BY <2>2, <2>3
<1> QED BY <1>6, <1>7

LEMMA RecordHandler ==
  ASSUME OneByOne, Inv, RecordInv, NEW h \in Handlers, HandlerStep(h)
  PROVE  RecordInv'
<1>0. TypeInv /\ NoteInv /\ HandlerFrame /\ \A g \in Handlers : g = h
  BY HandlerLeaves DEF Inv, LogInv, OneByOne
<1>1. UNCHANGED <<notices, now, logins>>
  BY <1>0 DEF HandlerFrame
<1> DEFINE Good == RecordInv'
<1>2. ASSUME UNCHANGED <<records, closed>>, post'[h].pc # "write"
      PROVE  Good
  BY <1>0, <1>1, <1>2 DEF RecordInv, Told, OutOfDate, Covers, BySid, Ends, PostAt
<1>3. ASSUME NEW j, Post(h, j)
      PROVE  Good
  BY <1>0, <1>2, <1>3, PostEffect
<1>4. ASSUME Handle(h)
      PROVE  Good
  BY <1>0, <1>2, <1>4, HandleEffect
<1>5. ASSUME Read(h)
      PROVE  Good
  <2>1. UNCHANGED <<records, closed>> /\ post'[h].note = post[h].note
    BY <1>0, <1>5, ReadEffect
  <2>2. /\ Covers(post'[h], post[h].note)
        /\ \A j \in DOMAIN notices : Told(j) /\ notices[j].key = notices[post[h].note].key =>
             OutOfDate(j) \/ Covers(post'[h], j)
    BY <1>5, ReadCovers
  <2> QED BY <1>0, <1>1, <2>1, <2>2 DEF RecordInv, Told, OutOfDate, Covers, BySid, Ends
<1>6. ASSUME Write(h)
      PROVE  Good
  <2> DEFINE note == post[h].note
             n == notices[note]
  <2>1. /\ post[h].pc = "write" /\ note \in DOMAIN notices /\ post'[h] = IdlePost
        /\ n.key \in Keys
        /\ records'[n.key].endedAt = post[h].endedAt /\ records'[n.key].expiresAt = post[h].expiresAt
        /\ \A k \in Keys : k # n.key => records'[k] = records[k]
        /\ closed' = closed \cup {l \in DOMAIN logins : logins[l].sid \in n.gone}
    BY <1>0, <1>6, WriteEffect
  <2>2. /\ Covers(post[h], note)
        /\ \A j \in DOMAIN notices : Told(j) /\ notices[j].key = n.key => OutOfDate(j) \/ Covers(post[h], j)
    BY <2>1 DEF RecordInv, PostAt
  <2>3. ASSUME NEW j \in DOMAIN notices, Told(j)'
        PROVE  Told(j) \/ j = note
    <3>1. PICK l \in closed' : logins[l].sid \in notices[j].gone
      BY <1>1, <2>3 DEF Told, Ends
    <3>2. CASE l \in closed
      BY <3>1, <3>2 DEF Told, Ends
    <3>3. CASE logins[l].sid \in n.gone
      BY <1>0, <2>1, <3>1, <3>3 DEF NoteInv
    <3> QED BY <2>1, <3>1, <3>2, <3>3
  <2>4. ASSUME NEW j \in DOMAIN notices, Told(j)'
        PROVE  OutOfDate(j) \/ Covers(records'[notices[j].key], j)
    <3>1. notices[j].key \in Keys
      BY <1>0, StateIs, Fields
    <3>2. CASE notices[j].key = n.key
      <4>1. OutOfDate(j) \/ Covers(post[h], j)
        BY <2>2, <2>3, <2>4, <3>2
      <4>2. Covers(post[h], j) => Covers(records'[n.key], j)
        BY <2>1 DEF Covers
      <4> QED BY <3>2, <4>1, <4>2
    <3>3. CASE notices[j].key # n.key
      <4>1. Told(j) /\ records'[notices[j].key] = records[notices[j].key]
        BY <2>1, <2>3, <2>4, <3>1, <3>3
      <4> QED BY <4>1 DEF RecordInv
    <3> QED BY <3>2, <3>3
  <2>5. \A g \in Handlers : post'[g].pc # "write"
    BY <1>0, <2>1, Nones
  <2> QED BY <1>1, <2>4, <2>5 DEF RecordInv, OutOfDate, Covers, BySid, PostAt
<1>7. ASSUME RecordFails(h)
      PROVE  Good
  BY <1>0, <1>2, <1>7, RecordFailsEffect, Nones
<1> HIDE DEF Good
<1>8. Good
  BY <1>3, <1>4, <1>5, <1>6, <1>7 DEF HandlerStep, Record
<1> QED BY <1>8 DEF Good

LEMMA RecordStep == OneByOne /\ Inv /\ RecordInv /\ [Next]_vars => RecordInv'
<1> SUFFICES ASSUME OneByOne, Inv, RecordInv, [Next]_vars
             PROVE  RecordInv'
  OBVIOUS
<1>0. TypeInv /\ NoteInv /\ ClosedInv
  BY DEF Inv, LogInv
<1>1. closed \subseteq DOMAIN logins /\ \A h \in Handlers : PostAt(h, "write") => post[h].note \in DOMAIN notices
  BY <1>0 DEF TypeInv, PastTyped, PostsTyped, PostAt
<1>2. ASSUME NEW r \in Requests, Ask(r) \/ Serve(r)
      PROVE  RecordInv'
  <2>1. RequestFrame
    BY <1>0, <1>2, RequestLeaves
  <2>2. \A j \in DOMAIN notices : Told(j)' => Told(j)
    BY <1>1, <2>1 DEF Told, Ends, RequestFrame
  <2> QED BY <2>1, <2>2 DEF RecordInv, RequestFrame, OutOfDate, Covers, BySid, PostAt
<1>3. ASSUME NEW h \in Handlers, HandlerStep(h)
      PROVE  RecordInv'
  BY <1>3, RecordHandler
<1>4. ASSUME NEW k \in Keys, ServerLogout(k)
      PROVE  RecordInv'
  <2> DEFINE i == Len(notices) + 1
  <2>1. /\ UNCHANGED <<post, records, logins, now, closed>> /\ DOMAIN notices' = DOMAIN notices \cup {i}
        /\ \A j \in DOMAIN notices : notices'[j] = notices[j]
        /\ notices'[i].gone \cap ended = {}
    BY <1>0, <1>4, ServerLogoutEffect
  <2> HIDE DEF i
  <2>2. \A l \in closed : logins[l].sid \in ended
    BY <1>0 DEF ClosedInv, Ends, NoteInv
  <2>3. \A j \in DOMAIN notices' : Told(j)' => j \in DOMAIN notices /\ Told(j)
    BY <2>1, <2>2 DEF Told, Ends
  <2> QED BY <1>1, <2>1, <2>3 DEF RecordInv, OutOfDate, Covers, BySid, PostAt
<1>5. ASSUME Tick
      PROVE  RecordInv'
  <2>1. UNCHANGED <<post, records, logins, notices, closed>> /\ now' = now + 1 /\ now \in Nat
    BY <1>0, <1>5, TickEffect DEF TypeInv, ServerTyped
  <2>2. \A j \in DOMAIN notices : OutOfDate(j) => OutOfDate(j)'
    <3>1. \A j \in DOMAIN notices : notices[j].at + CookieTtl \in Nat
      BY <1>0, StateIs, Fields, Constants
    <3> QED BY <2>1, <3>1 DEF OutOfDate
  <2> QED BY <2>1, <2>2 DEF RecordInv, Told, Ends, Covers, BySid, PostAt
<1>6. ASSUME UNCHANGED vars
      PROVE  RecordInv'
  BY <1>6 DEF vars, logout, server, history, RecordInv, Told, Ends, OutOfDate, Covers, BySid, PostAt
<1> QED BY <1>2, <1>3, <1>4, <1>5, <1>6 DEF Next, HandlerStep

-----------------------------------------------------------------------------
(* Who is ended is refused *)

\* A late session whose token was made by this long after the logout is refused.
LEMMA LateIsRefused ==
  ASSUME Inv, RecordInv, NEW e \in RequestType, Known(e.token), e.token.login \in closed, Sound(e.token),
         Current(e), NEW delay \in Nat, delay <= Tolerance,
         \A j \in DOMAIN notices : Ends(j, e.token.login) => MadeBy(e.token, j, delay),
         IF e.path \in NextPaths THEN AccessTtl + delay <= CookieTtl ELSE delay = 0
  PROVE  LoggedOut(e.token)
<1> DEFINE t == e.token
           l == e.token.login
           x == logins[l].sid
<1>0. TypeInv /\ NoteInv /\ ClosedInv /\ t \in Tokens /\ l \in DOMAIN logins
  BY Fields DEF Inv, LogInv, Known
<1>1. PICK j \in DOMAIN notices : Ends(j, l)
  BY <1>0 DEF ClosedInv
<1> DEFINE n == notices[j]
<1>2. Told(j)
  BY <1>1 DEF Told
<1>3. t.made <= n.at + delay /\ t.signedInAt <= n.at + delay
  BY <1>1 DEF MadeBy
<1>4. /\ t.made \in Nat /\ t.signedInAt \in Nat /\ t.exp \in Nat /\ n.at \in Nat /\ n.key \in Keys /\ now \in Nat
      /\ CookieTtl \in Nat /\ AccessTtl \in Nat /\ Tolerance \in Nat
      /\ records[n.key].endedAt \in Nat /\ records[n.key].expiresAt \in Nat
  <2>1. n \in NoticeType /\ n.key \in Keys
    BY <1>0, StateIs, Fields
  <2> QED BY <1>0, <2>1, StateIs, Fields, Constants DEF TypeInv, ServerTyped
<1>5. t.exp <= t.made + AccessTtl
  BY DEF Sound
<1>6. now < n.at + CookieTtl
  <2>1. CASE e.path \in NextPaths
    <3>1. now < t.exp /\ AccessTtl + delay <= CookieTtl
      BY <2>1 DEF Current
    <3> HIDE DEF t, n
    <3> QED BY <1>3, <1>4, <1>5, <3>1
  <2>2. CASE e.path \notin NextPaths
    <3>1. now < t.made + CookieTtl /\ delay = 0
      BY <2>2 DEF Current
    <3> HIDE DEF t, n
    <3> QED BY <1>3, <1>4, <3>1
  <2> QED BY <2>1, <2>2
<1>7. Covers(records[n.key], j)
  <2>1. ~OutOfDate(j)
    <3> HIDE DEF n
    <3> QED BY <1>4, <1>6 DEF OutOfDate, n
  <2> QED BY <1>2, <2>1 DEF RecordInv
<1>8. Live(n.key)
  <2>1. records[n.key].expiresAt >= n.at + CookieTtl
    BY <1>7 DEF Covers
  <2> HIDE DEF n
  <2> QED BY <1>4, <1>6, <2>1 DEF Live
<1>9. CASE BySid(n)
  <2>1. n.key = x
    BY <1>0, <1>1, <1>9 DEF NoteInv, Ends, BySid
  <2> QED BY <1>8, <2>1 DEF LoggedOut, SidOf
<1>10. CASE ~BySid(n)
  <2>1. SubOf[x] = n.key
    BY <1>0, <1>1, <1>10 DEF NoteInv, Ends, BySid
  <2>2. records[n.key].endedAt >= n.at + Tolerance
    BY <1>7, <1>10 DEF Covers
  <2>3. t.signedInAt <= records[n.key].endedAt
    <3> HIDE DEF t, n
    <3> QED BY <1>3, <1>4, <2>2
  <2> QED BY <1>8, <2>1, <2>3 DEF LoggedOut, SidOf
<1> QED BY <1>9, <1>10

\* A late request is served where it was, or for a session that passes the check.
LEMMA ServedLate ==
  ASSUME Inv, [Next]_vars, NEW r \in Requests, req'[r].served, req'[r].late
  PROVE  /\ req'[r].token = req[r].token /\ req[r].late
         /\ \/ req[r].served
            \/ req[r].pc = "check" /\ Current(req[r]) /\ ~LoggedOut(req[r].token)
<1>0. TypeInv /\ \A q \in Requests : Right(req[q])
  BY DEF Inv, TokenInv
<1> DEFINE Good == /\ req'[r].token = req[r].token /\ req[r].late
                   /\ \/ req[r].served
                      \/ req[r].pc = "check" /\ Current(req[r]) /\ ~LoggedOut(req[r].token)
<1>1. ASSUME req'[r] = req[r]
      PROVE  Good
  BY <1>1
<1>2. ASSUME NEW q \in Requests, Ask(q) \/ Serve(q), q # r
      PROVE  req'[r] = req[r]
  <2>1. Changes(q)
    BY <1>0, <1>2, ArriveEffect, CallbackEffect, ClearSessionEffect, CheckEffect, VerifyEffect, ServerRefreshEffect,
       RefreshFailsEffect, MintEffect, RecheckEffect, DeliverEffect DEF Ask, Serve
  <2> QED BY <1>2, <2>1 DEF Changes
<1>3. ASSUME Ask(r) \/ Serve(r)
      PROVE  Good
  <2>0. Right(req[r])
    BY <1>0
  <2>1. ASSUME NEW b \in Browsers, NEW p \in Paths, Arrive(r, b, p)
        PROVE  Good
    BY <1>0, <2>1, ArriveEffect
  <2>2. ASSUME NEW b \in Browsers, NEW x \in Sids, Callback(r, b, x)
        PROVE  Good
    BY <1>0, <2>2, CallbackEffect
  <2>3. ASSUME NEW b \in Browsers, ClearSession(r, b)
        PROVE  Good
    BY <1>0, <2>3, ClearSessionEffect
  <2>4. ASSUME Check(r)
        PROVE  Good
    BY <1>0, <2>0, <2>4, CheckEffect DEF Right, Stays
  <2>5. ASSUME Verify(r)
        PROVE  Good
    BY <1>0, <2>0, <2>5, VerifyEffect DEF Right, Stays
  <2>6. ASSUME ServerRefresh(r)
        PROVE  Good
    BY <1>0, <2>0, <2>6, ServerRefreshEffect DEF Right
  <2>7. ASSUME RefreshFails(r)
        PROVE  Good
    BY <1>0, <2>7, RefreshFailsEffect
  <2>8. ASSUME Mint(r)
        PROVE  Good
    BY <1>0, <2>0, <2>8, MintEffect DEF Right, Stays
  <2>9. ASSUME Recheck(r)
        PROVE  Good
    BY <1>0, <2>0, <2>9, RecheckEffect DEF Right, Stays
  <2>10. ASSUME Deliver(r)
         PROVE  Good
    BY <1>0, <2>10, DeliverEffect, Nones
  <2> HIDE DEF Good
  <2> QED BY <1>3, <2>1, <2>2, <2>3, <2>4, <2>5, <2>6, <2>7, <2>8, <2>9, <2>10 DEF Ask, Serve
<1>4. ASSUME NEW h \in Handlers, HandlerStep(h)
      PROVE  req' = req
  BY <1>4, HandlerLeaves DEF HandlerFrame
<1>5. ASSUME NEW k \in Keys, ServerLogout(k)
      PROVE  req' = req
  BY <1>0, <1>5, ServerLogoutEffect
<1>6. Tick \/ UNCHANGED vars => req' = req
  BY <1>0, TickEffect DEF vars
<1> HIDE DEF Good
<1>7. Good
  BY <1>1, <1>2, <1>3, <1>4, <1>5, <1>6 DEF Next, HandlerStep
<1> QED BY <1>7 DEF Good

\* What a login was revived for, it stays revived for.
LEMMA RevivedStays == TypeInv /\ [Next]_vars => revived \subseteq revived'
<1> SUFFICES ASSUME TypeInv, [Next]_vars
             PROVE  revived \subseteq revived'
  OBVIOUS
<1>1. ASSUME NEW r \in Requests, Ask(r) \/ Serve(r)
      PROVE  revived \subseteq revived'
  BY <1>1, RequestLeaves DEF RequestFrame
<1>2. ASSUME NEW h \in Handlers, HandlerStep(h)
      PROVE  revived \subseteq revived'
  BY <1>2, HandlerLeaves DEF HandlerFrame
<1>3. ASSUME NEW k \in Keys, ServerLogout(k)
      PROVE  revived \subseteq revived'
  BY <1>3, ServerLogoutEffect
<1>4. Tick \/ UNCHANGED vars => revived \subseteq revived'
  BY TickEffect DEF vars, history
<1> QED BY <1>1, <1>2, <1>3, <1>4 DEF Next, HandlerStep

\* A request that is being checked, and is late, has the token of a login that was closed.
LEMMA CheckedLate ==
  ASSUME Inv, NEW r \in Requests, req[r].pc = "check", req[r].late
  PROVE  /\ req[r] \in RequestType /\ req[r].path \in Paths
         /\ Known(req[r].token) /\ req[r].token.login \in closed /\ Sound(req[r].token)
<1>1. Right(req[r]) /\ Known(req[r].token) /\ req[r] \in RequestType
  BY StateIs DEF Inv, TokenInv, TypeInv, RequestsTyped, At
<1> QED BY <1>1 DEF Right

\* The record of a logout outlives every session made before it.
RecordsOutlive == Paths \cap NextPaths = {} \/ AccessTtl <= CookieTtl

\* Once a logout token was answered with 200, no request that arrives afterwards is served as a login
\* the token ended, but for a login a cookie was made for after the server had ended it.
THEOREM EndedAreRefusedUnlessRevived ==
  ASSUME OneByOne, RecordsOutlive
  PROVE  Spec => []EndedUnlessRevived
<1>1. Init => Inv /\ RecordInv /\ EndedUnlessRevived
  BY InvInit, RecordInit, Nones DEF Init, Started, EndedUnlessRevived
<1>2. Inv /\ RecordInv /\ EndedUnlessRevived /\ [Next]_vars => EndedUnlessRevived'
  <2> SUFFICES ASSUME Inv, RecordInv, EndedUnlessRevived, [Next]_vars,
                      NEW r \in Requests, req'[r].served, req'[r].late
               PROVE  req'[r].token.login \in revived'
    BY DEF EndedUnlessRevived
  <2>1. /\ req'[r].token = req[r].token /\ req[r].late
        /\ \/ req[r].served
           \/ req[r].pc = "check" /\ Current(req[r]) /\ ~LoggedOut(req[r].token)
    BY ServedLate
  <2>2. revived \subseteq revived'
    BY RevivedStays DEF Inv
  <2>3. CASE req[r].served
    BY <2>1, <2>2, <2>3 DEF EndedUnlessRevived
  <2>4. CASE req[r].pc = "check" /\ Current(req[r]) /\ ~LoggedOut(req[r].token)
    <3> SUFFICES ASSUME req[r].token.login \notin revived
                 PROVE  FALSE
      BY <2>1, <2>2
    <3>1. /\ req[r] \in RequestType /\ req[r].path \in Paths
          /\ Known(req[r].token) /\ req[r].token.login \in closed /\ Sound(req[r].token)
      BY <2>1, <2>4, CheckedLate
    <3>2. \A j \in DOMAIN notices : Ends(j, req[r].token.login) => MadeBy(req[r].token, j, 0)
      BY <3>1 DEF Sound
    <3>3. req[r].path \in NextPaths => AccessTtl + 0 <= CookieTtl
      BY <3>1, Constants DEF RecordsOutlive
    <3>4. 0 \in Nat /\ 0 <= Tolerance
      BY Constants
    <3>5. LoggedOut(req[r].token)
      BY <2>4, <3>1, <3>2, <3>3, <3>4, LateIsRefused
    <3> QED BY <2>4, <3>5
  <2> QED BY <2>1, <2>3, <2>4
<1>3. (Inv /\ RecordInv /\ EndedUnlessRevived) /\ [Next]_vars => (Inv /\ RecordInv /\ EndedUnlessRevived)'
  BY <1>2, InvStep, RecordStep
<1> QED BY <1>1, <1>3, PTL DEF Spec

\* The record outlives even a session that was refreshed while the server ended it.
RecordsOutliveAll == Paths \subseteq NextPaths /\ AccessTtl + MaxDelay <= CookieTtl /\ MaxDelay <= Tolerance

\* Once a logout token was answered with 200, no request that arrives afterwards is served as a login
\* the token ended, where the record outlives what a request under way may have made of the session.
THEOREM EndedAreRefused ==
  ASSUME OneByOne, RecordsOutliveAll
  PROVE  Spec => []EndedIsRefused
<1>1. Init => Inv /\ RecordInv /\ EndedIsRefused
  BY InvInit, RecordInit, Nones DEF Init, Started, EndedIsRefused
<1>2. Inv /\ RecordInv /\ EndedIsRefused /\ [Next]_vars => EndedIsRefused'
  <2> SUFFICES ASSUME Inv, RecordInv, EndedIsRefused, [Next]_vars,
                      NEW r \in Requests, req'[r].served, req'[r].late
               PROVE  FALSE
    BY DEF EndedIsRefused
  <2>1. /\ req'[r].token = req[r].token /\ req[r].late
        /\ req[r].pc = "check" /\ Current(req[r]) /\ ~LoggedOut(req[r].token)
    BY ServedLate DEF EndedIsRefused
  <2>2. /\ req[r] \in RequestType /\ req[r].path \in Paths
        /\ Known(req[r].token) /\ req[r].token.login \in closed /\ Sound(req[r].token)
    BY <2>1, CheckedLate
  <2>3. \A j \in DOMAIN notices : Ends(j, req[r].token.login) => MadeBy(req[r].token, j, MaxDelay)
    BY <2>2 DEF Sound
  <2>4. req[r].path \in NextPaths /\ AccessTtl + MaxDelay <= CookieTtl /\ MaxDelay <= Tolerance /\ MaxDelay \in Nat
    BY <2>2, Constants DEF RecordsOutliveAll
  <2>5. LoggedOut(req[r].token)
    BY <2>1, <2>2, <2>3, <2>4, LateIsRefused
  <2> QED BY <2>1, <2>5
<1>3. (Inv /\ RecordInv /\ EndedIsRefused) /\ [Next]_vars => (Inv /\ RecordInv /\ EndedIsRefused)'
  BY <1>2, InvStep, RecordStep
<1> QED BY <1>1, <1>3, PTL DEF Spec

-----------------------------------------------------------------------------
(* The records implement the ledger *)

\* A record lasts no longer than a cookie made now, and the next one takes nothing back.
TermInv ==
  /\ \A k \in Keys : records[k].expiresAt <= now + CookieTtl
  /\ \A h \in Handlers : PostAt(h, "write") =>
       LET k == notices[post[h].note].key IN
       /\ records[k].expiresAt <= post[h].expiresAt /\ post[h].expiresAt <= now + CookieTtl
       /\ k \notin Sids /\ Live(k) => records[k].endedAt <= post[h].endedAt

LEMMA TermInit == Init => TermInv
<1> SUFFICES ASSUME Init
             PROVE  TermInv
  OBVIOUS
<1>1. 0 <= now + CookieTtl
  BY Constants DEF Init, Started
<1> QED BY <1>1, Nones DEF Init, Started, TermInv, PostAt

LEMMA TermHandler ==
  ASSUME OneByOne, TypeInv, TermInv, NEW h \in Handlers, HandlerStep(h)
  PROVE  TermInv'
<1>0. HandlerFrame /\ \A g \in Handlers : g = h
  BY HandlerLeaves DEF OneByOne
<1>1. UNCHANGED <<notices, now>>
  BY <1>0 DEF HandlerFrame
<1> DEFINE Good == TermInv'
<1>2. ASSUME UNCHANGED records, post'[h].pc # "write"
      PROVE  Good
  BY <1>0, <1>1, <1>2 DEF TermInv, PostAt
<1>3. ASSUME NEW j, Post(h, j)
      PROVE  Good
  BY <1>2, <1>3, PostEffect
<1>4. ASSUME Handle(h)
      PROVE  Good
  BY <1>2, <1>4, HandleEffect
<1>5. ASSUME Read(h)
      PROVE  Good
  <2> DEFINE n == notices[post[h].note]
  <2>1. /\ post[h].note \in DOMAIN notices /\ post'[h].note = post[h].note
        /\ post'[h].expiresAt = now + CookieTtl
        /\ post'[h].endedAt = IF BySid(n) THEN 0 ELSE Latest(n.at, ExistingAt(h))
        /\ records' = records
    BY <1>5, ReadEffect
  <2>2. n.key \in Keys /\ n.at \in Nat /\ now + CookieTtl \in Nat /\ Tolerance \in Nat
        /\ records[n.key].endedAt \in Nat /\ records[n.key].expiresAt \in Nat
    BY <2>1, StateIs, Fields, Constants DEF TypeInv, ServerTyped
  <2>3. n.key \notin Sids /\ Live(n.key) => records[n.key].endedAt <= post'[h].endedAt
    <3>1. Live(n.key) => ExistingAt(h) = records[n.key].endedAt
      BY DEF ExistingAt
    <3> HIDE DEF n
    <3> QED BY <2>1, <2>2, <3>1 DEF Latest, BySid
  <2>4. records[n.key].expiresAt <= now + CookieTtl
    BY <2>2 DEF TermInv
  <2>5. now + CookieTtl <= now + CookieTtl
    BY <2>2
  <2> QED BY <1>0, <1>1, <2>1, <2>3, <2>4, <2>5 DEF TermInv, Live
<1>6. ASSUME Write(h)
      PROVE  Good
  <2>1. LET n == notices[post[h].note]
        IN  /\ post[h].pc = "write" /\ post'[h] = IdlePost
            /\ records'[n.key].expiresAt = post[h].expiresAt
            /\ \A k \in Keys : k # n.key => records'[k] = records[k]
    BY <1>6, WriteEffect
  <2>2. post[h].expiresAt <= now + CookieTtl
    BY <2>1 DEF TermInv, PostAt
  <2>3. \A k \in Keys : records'[k].expiresAt <= now + CookieTtl
    BY <2>1, <2>2 DEF TermInv
  <2>4. \A g \in Handlers : post'[g].pc # "write"
    BY <1>0, <2>1, Nones
  <2> QED BY <1>1, <2>3, <2>4 DEF TermInv, PostAt
<1>7. ASSUME RecordFails(h)
      PROVE  Good
  BY <1>2, <1>7, RecordFailsEffect, Nones
<1> HIDE DEF Good
<1>8. Good
  BY <1>3, <1>4, <1>5, <1>6, <1>7 DEF HandlerStep, Record
<1> QED BY <1>8 DEF Good

LEMMA TermStep == OneByOne /\ TypeInv /\ TermInv /\ [Next]_vars => TermInv'
<1> SUFFICES ASSUME OneByOne, TypeInv, TermInv, [Next]_vars
             PROVE  TermInv'
  OBVIOUS
<1>1. ASSUME NEW r \in Requests, Ask(r) \/ Serve(r)
      PROVE  TermInv'
  <2>1. RequestFrame
    BY <1>1, RequestLeaves
  <2> QED BY <2>1 DEF TermInv, RequestFrame, PostAt, Live
<1>2. ASSUME NEW h \in Handlers, HandlerStep(h)
      PROVE  TermInv'
  BY <1>2, TermHandler
<1>3. ASSUME NEW k \in Keys, ServerLogout(k)
      PROVE  TermInv'
  <2>1. UNCHANGED <<post, records, now>> /\ \A j \in DOMAIN notices : notices'[j] = notices[j]
    BY <1>3, ServerLogoutEffect
  <2>2. \A h \in Handlers : PostAt(h, "write") => post[h].note \in DOMAIN notices
    BY DEF TypeInv, PostsTyped, PostAt
  <2> QED BY <2>1, <2>2 DEF TermInv, PostAt, Live
<1>4. ASSUME Tick
      PROVE  TermInv'
  <2>1. UNCHANGED <<post, records, notices>> /\ now' = now + 1 /\ now \in Nat /\ CookieTtl \in Nat
    BY <1>4, TickEffect, Constants DEF TypeInv, ServerTyped
  <2>2. \A k \in Keys : records[k].expiresAt \in Nat /\ records[k].expiresAt <= now + CookieTtl
    BY StateIs, Fields DEF TermInv
  <2>3. \A k \in Keys : records[k].expiresAt <= now' + CookieTtl
    BY <2>1, <2>2
  <2>4. ASSUME NEW h \in Handlers, PostAt(h, "write")
        PROVE  LET k == notices[post[h].note].key IN
               /\ records[k].expiresAt <= post[h].expiresAt /\ post[h].expiresAt <= now' + CookieTtl
               /\ k \notin Sids /\ (Live(k))' => records[k].endedAt <= post[h].endedAt
    <3> DEFINE k == notices[post[h].note].key
    <3>1. k \in Keys /\ post[h].expiresAt \in Nat
      BY <2>4, StateIs, Fields DEF TypeInv, PostsTyped, PostAt
    <3>2. /\ records[k].expiresAt <= post[h].expiresAt /\ post[h].expiresAt <= now + CookieTtl
          /\ k \notin Sids /\ Live(k) => records[k].endedAt <= post[h].endedAt
      BY <2>4 DEF TermInv
    <3>3. records[k].expiresAt > now' => Live(k)
      <4> HIDE DEF k
      <4> QED BY <2>1, <2>2, <3>1 DEF Live
    <3>4. post[h].expiresAt <= now' + CookieTtl
      BY <2>1, <3>1, <3>2
    <3> QED BY <2>1, <3>2, <3>3, <3>4 DEF Live
  <2> QED BY <2>1, <2>3, <2>4 DEF TermInv, PostAt, Live
<1>5. ASSUME UNCHANGED vars
      PROVE  TermInv'
  BY <1>5 DEF vars, logout, server, TermInv, PostAt, Live
<1> QED BY <1>1, <1>2, <1>3, <1>4, <1>5 DEF Next, HandlerStep

-----------------------------------------------------------------------------
(* The steps of the ledger *)

Times == 0..MaxTime

\* Until when the one record says, and the other.
BySidUntil(x) == IF Live(x) THEN records[x].expiresAt ELSE 0
BySubUntil(x, t) == IF Live(SubOf[x]) /\ t <= records[SubOf[x]].endedAt THEN records[SubOf[x]].expiresAt ELSE 0

LEMMA UntilIs ==
  ASSUME TypeInv, NEW x \in Sids, NEW t \in Times
  PROVE  /\ RefusedUntil(x, t) = IF BySubUntil(x, t) > BySidUntil(x) THEN BySubUntil(x, t) ELSE BySidUntil(x)
         /\ BySidUntil(x) \in Nat /\ BySubUntil(x, t) \in Nat
         /\ x \in Keys /\ SubOf[x] \in Keys /\ SubOf[x] \in Subs /\ SubOf[x] \notin Sids
<1>1. x \in Keys /\ SubOf[x] \in Keys /\ SubOf[x] \in Subs /\ SubOf[x] \notin Sids
  BY Constants DEF Keys
<1>2. records[x].expiresAt \in Nat /\ records[SubOf[x]].expiresAt \in Nat
  BY <1>1, StateIs, Fields
<1> QED BY <1>1, <1>2 DEF RefusedUntil, BySidUntil, BySubUntil

\* Nothing changes for who is refused while the records and the time stay.
LEMMA RefusedStays ==
  ASSUME UNCHANGED <<records, now>>
  PROVE  \A x, t : RefusedUntil(x, t)' = RefusedUntil(x, t)
BY DEF RefusedUntil, Live

\* A second lets in those whose record ran out.
LEMMA RefusedTick ==
  ASSUME TypeInv, Tick, NEW x \in Sids, NEW t \in Times
  PROVE  RefusedUntil(x, t)' = IF RefusedUntil(x, t) > now' THEN RefusedUntil(x, t) ELSE 0
<1>1. UNCHANGED records /\ now' = now + 1 /\ now \in Nat
  BY TickEffect DEF TypeInv, ServerTyped
<1>2. x \in Keys /\ SubOf[x] \in Keys
  BY UntilIs
<1>3. records[x].expiresAt \in Nat /\ records[SubOf[x]].expiresAt \in Nat
  BY <1>2, StateIs, Fields
<1> DEFINE one == records[x].expiresAt
           two == records[SubOf[x]].expiresAt
           in == t <= records[SubOf[x]].endedAt
<1>4. /\ RefusedUntil(x, t) =
           LET bySid == IF one > now THEN one ELSE 0
               bySub == IF two > now /\ in THEN two ELSE 0
           IN  IF bySub > bySid THEN bySub ELSE bySid
      /\ RefusedUntil(x, t)' =
           LET bySid == IF one > now' THEN one ELSE 0
               bySub == IF two > now' /\ in THEN two ELSE 0
           IN  IF bySub > bySid THEN bySub ELSE bySid
  BY <1>1 DEF RefusedUntil, Live
<1>5. one \in Nat /\ two \in Nat
  BY <1>3
<1> HIDE DEF one, two, in
<1> QED BY <1>1, <1>4, <1>5

\* The sessions the record about to be made ends.
Reached(h, x, t) ==
  LET k == notices[post[h].note].key IN x = k \/ (SubOf[x] = k /\ t <= post[h].endedAt)

\* A record that has run out before it is stored changes nothing; any other makes the sessions it
\* reaches refused until it ends, or longer.
LEMMA RefusedWrite ==
  ASSUME TypeInv, TermInv, NEW h \in Handlers, Write(h), NEW x \in Sids, NEW t \in Times
  PROVE  RefusedUntil(x, t)' =
           IF post[h].expiresAt > now /\ Reached(h, x, t) /\ post[h].expiresAt > RefusedUntil(x, t)
           THEN post[h].expiresAt ELSE RefusedUntil(x, t)
<1> DEFINE k == notices[post[h].note].key
           s == SubOf[x]
           end == post[h].expiresAt
           one == records[x].expiresAt
           two == records[s].expiresAt
           in == t <= records[s].endedAt
<1>1. /\ post[h].pc = "write" /\ k \in Keys /\ records'[k].endedAt = post[h].endedAt /\ records'[k].expiresAt = end
      /\ \A i \in Keys : i # k => records'[i] = records[i]
  BY WriteEffect
<1>2. x \in Keys /\ s \in Keys /\ s \notin Sids /\ now \in Nat /\ now' = now
  BY UntilIs, HandlerLeaves DEF TypeInv, ServerTyped, HandlerStep, Record, HandlerFrame
<1>3. end \in Nat /\ one \in Nat /\ two \in Nat /\ t \in Nat /\ post[h].endedAt \in Nat /\ records[s].endedAt \in Nat
  BY <1>2, StateIs, Fields DEF Times
<1>4. /\ records[k].expiresAt <= end
      /\ k \notin Sids /\ Live(k) => records[k].endedAt <= post[h].endedAt
  BY <1>1 DEF TermInv, PostAt
<1>5. RefusedUntil(x, t) =
        LET bySid == IF one > now THEN one ELSE 0
            bySub == IF two > now /\ in THEN two ELSE 0
        IN  IF bySub > bySid THEN bySub ELSE bySid
  BY DEF RefusedUntil, Live
<1>6. CASE x = k
  <2>1. RefusedUntil(x, t)' =
          LET bySid == IF end > now THEN end ELSE 0
              bySub == IF two > now /\ in THEN two ELSE 0
          IN  IF bySub > bySid THEN bySub ELSE bySid
    BY <1>1, <1>2, <1>6 DEF RefusedUntil, Live
  <2>2. Reached(h, x, t) /\ one <= end
    BY <1>4, <1>6 DEF Reached
  <2> HIDE DEF k, s, end, one, two, in
  <2> QED BY <1>2, <1>3, <1>5, <2>1, <2>2 DEF end
<1>7. CASE s = k
  <2> DEFINE now_in == t <= post[h].endedAt
  <2>1. RefusedUntil(x, t)' =
          LET bySid == IF one > now THEN one ELSE 0
              bySub == IF end > now /\ now_in THEN end ELSE 0
          IN  IF bySub > bySid THEN bySub ELSE bySid
    BY <1>1, <1>2, <1>7 DEF RefusedUntil, Live
  <2>2. (Reached(h, x, t) <=> now_in) /\ two <= end
    BY <1>2, <1>4, <1>7 DEF Reached
  <2>3. two > now /\ in => now_in
    <3>1. two > now => records[s].endedAt <= post[h].endedAt
      BY <1>2, <1>4, <1>7 DEF Live
    <3> HIDE DEF two, s
    <3> QED BY <1>3, <3>1
  <2> HIDE DEF k, s, end, one, two, in, now_in
  <2> QED BY <1>2, <1>3, <1>5, <2>1, <2>2, <2>3 DEF end
<1>8. CASE x # k /\ s # k
  <2>1. RefusedUntil(x, t)' = RefusedUntil(x, t)
    BY <1>1, <1>2, <1>8 DEF RefusedUntil, Live
  <2>2. ~Reached(h, x, t)
    BY <1>8 DEF Reached
  <2> QED BY <2>1, <2>2
<1> QED BY <1>6, <1>7, <1>8

\* The ledger's variables.
Refused == [x \in Sids |-> [t \in Times |-> RefusedUntil(x, t)]]
Issued == [j \in DOMAIN notices |-> [key |-> notices[j].key, at |-> notices[j].at]]

LEMMA LedgerInit == Init => Ledger!Init
<1> SUFFICES ASSUME Init
             PROVE  Ledger!Init
  OBVIOUS
<1>1. \A x \in Sids, t \in Times : RefusedUntil(x, t) = 0
  <2>1. TypeInv
    BY TypeInit
  <2>2. \A k \in Keys : ~Live(k)
    BY Nones DEF Init, Started, Live
  <2> QED BY <2>1, <2>2, UntilIs DEF BySidUntil, BySubUntil
<1>2. Refused = [x \in Sids |-> [t \in Times |-> 0]]
  BY <1>1 DEF Refused
<1>3. Issued = <<>>
  BY DEF Init, Started, Issued
<1>4. now = 0
  BY DEF Init, Started
<1> QED BY <1>2, <1>3, <1>4 DEF Ledger!Init, Refused, Issued, Times

\* Steps that leave the records, the logout tokens and the time alone.
LEMMA LedgerStutter ==
  ASSUME UNCHANGED <<records, notices, now>>
  PROVE  UNCHANGED Ledger!ledger
<1>1. Refused' = Refused
  BY RefusedStays DEF Refused
<1>2. Issued' = Issued
  BY DEF Issued
<1> QED BY <1>1, <1>2 DEF Ledger!ledger, Refused, Issued, Times

LEMMA LedgerIssue ==
  ASSUME TypeInv, NEW k \in Keys, ServerLogout(k)
  PROVE  Ledger!Next
<1> DEFINE i == Len(notices) + 1
           n == [key |-> k, at |-> now]
<1>1. /\ UNCHANGED <<records, now>> /\ DOMAIN notices' = DOMAIN notices \cup {i}
      /\ \A j \in DOMAIN notices : notices'[j] = notices[j]
      /\ notices'[i].key = k /\ notices'[i].at = now
  BY ServerLogoutEffect
<1>2. DOMAIN notices = 1..Len(notices) /\ Len(notices) \in Nat
  BY StateIs
<1>3. Issued' = Append(Issued, n)
  <2>1. Issued \in Seq([key : Keys, at : Nat]) /\ Len(Issued) = Len(notices) /\ n \in [key : Keys, at : Nat]
    <3>1. \A j \in DOMAIN notices : notices[j].key \in Keys /\ notices[j].at \in Nat
      BY StateIs, Fields
    <3>2. \A j \in 1..Len(notices) : [key |-> notices[j].key, at |-> notices[j].at] \in [key : Keys, at : Nat]
      BY <1>2, <3>1
    <3>3. now \in Nat
      BY DEF TypeInv, ServerTyped
    <3> QED BY <1>2, <3>2, <3>3 DEF Issued
  <2>2. Append(Issued, n) = [j \in 1..Len(notices) + 1 |-> IF j = Len(notices) + 1 THEN n ELSE Issued[j]]
    BY <1>2, <2>1
  <2>3. Issued' = [j \in 1..Len(notices) + 1 |-> IF j = Len(notices) + 1 THEN n ELSE Issued[j]]
    <3>1. DOMAIN notices' = 1..Len(notices) + 1
      BY <1>1, <1>2
    <3>2. Issued' = [j \in 1..Len(notices) + 1 |-> [key |-> notices'[j].key, at |-> notices'[j].at]]
      BY <3>1 DEF Issued
    <3>3. \A j \in 1..Len(notices) + 1 : j # Len(notices) + 1 => j \in DOMAIN notices
      BY <1>2
    <3>4. \A j \in 1..Len(notices) + 1 :
            [key |-> notices'[j].key, at |-> notices'[j].at] = IF j = Len(notices) + 1 THEN n ELSE Issued[j]
      BY <1>1, <3>3 DEF Issued
    <3> QED BY <3>2, <3>4
  <2> QED BY <2>2, <2>3
<1>4. Refused' = Refused
  BY <1>1, RefusedStays DEF Refused
<1>5. Ledger!Issue(k)
  BY <1>1, <1>3, <1>4 DEF Ledger!Issue, Refused, Issued, Times
<1> QED BY <1>5 DEF Ledger!Next, Keys

LEMMA LedgerTick ==
  ASSUME TypeInv, Tick
  PROVE  Ledger!Next
<1>1. UNCHANGED notices /\ now' = now + 1
  BY TickEffect
<1>2. Issued' = Issued
  BY <1>1 DEF Issued
<1>3. Refused' = [x \in Sids |-> [t \in Times |-> IF Refused[x][t] > now' THEN Refused[x][t] ELSE 0]]
  <2>1. \A x \in Sids, t \in Times : RefusedUntil(x, t)' = IF Refused[x][t] > now' THEN Refused[x][t] ELSE 0
    BY RefusedTick DEF Refused
  <2> QED BY <2>1 DEF Refused
<1>4. Ledger!Tick
  BY <1>1, <1>2, <1>3 DEF Ledger!Tick, Refused, Issued, Times
<1> QED BY <1>4 DEF Ledger!Next

\* The logout token in hand, or a later one of its subject, says which sessions the record reaches.
LEMMA WriteReach ==
  ASSUME Inv, RecordInv, NEW h \in Handlers, Write(h)
  PROVE  LET n == Issued[post[h].note]
         IN  /\ post[h].note \in DOMAIN Issued
             /\ \E latest \in Ledger!Reach(n) : \A x \in Sids, t \in Times :
                  Reached(h, x, t) <=> Ledger!Reaches(n, latest, x, t)
<1> DEFINE j == post[h].note
           n == Issued[j]
<1>0. TypeInv
  BY DEF Inv
<1>1. PostAt(h, "write") /\ j \in DOMAIN notices
  BY <1>0, WriteEffect DEF PostAt
<1>2. /\ j \in DOMAIN Issued /\ n.key = notices[j].key /\ n.at = notices[j].at
      /\ \A i \in DOMAIN notices : Issued[i].key = notices[i].key /\ Issued[i].at = notices[i].at
      /\ DOMAIN Issued = DOMAIN notices
  BY <1>1 DEF Issued
<1>3. Said(n.key, post[h].endedAt) /\ Covers(post[h], j)
  BY <1>1, <1>2 DEF Inv, LogInv, SaidInv, RecordInv
<1>4. \A i \in DOMAIN notices : notices[i].at \in Nat /\ notices[i].key \in Keys
  BY <1>0, StateIs, Fields
<1>5. \A x \in Sids : SubOf[x] \notin Sids
  BY Constants
<1>6. ASSUME NEW i \in DOMAIN notices, notices[i].key = n.key, notices[i].at >= n.at
      PROVE  notices[i].at + Tolerance \in Ledger!Reach(n)
  BY <1>2, <1>6 DEF Ledger!Reach, Issued
<1>7. CASE n.key \in Sids
  <2>1. n.at >= n.at
    BY <1>1, <1>2, <1>4
  <2>2. n.at + Tolerance \in Ledger!Reach(n)
    BY <1>1, <1>2, <1>6, <2>1
  <2>3. \A x \in Sids, t \in Times : Reached(h, x, t) <=> Ledger!Reaches(n, n.at + Tolerance, x, t)
    BY <1>2, <1>5, <1>7 DEF Reached, Ledger!Reaches
  <2> QED BY <1>2, <2>2, <2>3
<1>8. CASE n.key \notin Sids
  <2>1. PICK i \in DOMAIN notices : notices[i].key = n.key /\ post[h].endedAt = notices[i].at + Tolerance
    BY <1>3, <1>8 DEF Said
  <2>2. notices[i].at >= n.at
    <3>1. notices[i].at + Tolerance >= notices[j].at + Tolerance
      BY <1>2, <1>3, <1>8, <2>1 DEF Covers, BySid
    <3>2. notices[i].at \in Nat /\ notices[j].at \in Nat /\ Tolerance \in Nat
      BY <1>1, <1>4, <2>1, Constants
    <3>3. n.at = notices[j].at
      BY <1>2
    <3> HIDE DEF n, j
    <3> QED BY <3>1, <3>2, <3>3
  <2>3. post[h].endedAt \in Ledger!Reach(n)
    BY <1>6, <2>1, <2>2
  <2>4. \A x \in Sids, t \in Times : Reached(h, x, t) <=> Ledger!Reaches(n, post[h].endedAt, x, t)
    BY <1>2 DEF Reached, Ledger!Reaches
  <2> QED BY <1>2, <2>3, <2>4
<1> QED BY <1>7, <1>8

LEMMA LedgerWrite ==
  ASSUME Inv, RecordInv, TermInv, NEW h \in Handlers, Write(h)
  PROVE  [Ledger!Next]_(Ledger!ledger)
<1> DEFINE end == post[h].expiresAt
           n == Issued[post[h].note]
<1>0. TypeInv
  BY DEF Inv
<1>1. UNCHANGED <<notices, now>> /\ now \in Nat
  BY <1>0, HandlerLeaves DEF TypeInv, ServerTyped, HandlerStep, Record, HandlerFrame
<1>2. Issued' = Issued
  BY <1>1 DEF Issued
<1>3. \A x \in Sids, t \in Times :
        RefusedUntil(x, t)' =
          IF end > now /\ Reached(h, x, t) /\ end > RefusedUntil(x, t) THEN end ELSE RefusedUntil(x, t)
  BY <1>0, RefusedWrite
<1>4. CASE Refused' = Refused
  BY <1>1, <1>2, <1>4 DEF Ledger!ledger, Refused, Issued, Times
<1>5. CASE Refused' # Refused
  <2>1. end > now
    <3> SUFFICES ASSUME ~(end > now)
                 PROVE  FALSE
      OBVIOUS
    <3>1. \A x \in Sids, t \in Times : RefusedUntil(x, t)' = RefusedUntil(x, t)
      BY <1>3
    <3> QED BY <1>5, <3>1 DEF Refused
  <2>2. end \in now + 1 .. now + CookieTtl
    <3>1. end <= now + CookieTtl /\ end \in Nat /\ CookieTtl \in Nat
      BY <1>0, WriteEffect, StateIs, Fields, Constants DEF TermInv, PostAt
    <3> HIDE DEF end
    <3> QED BY <1>1, <2>1, <3>1
  <2>3. n \in {Issued[j] : j \in DOMAIN Issued}
    BY WriteReach
  <2>4. PICK latest \in Ledger!Reach(n) : \A x \in Sids, t \in Times :
          Reached(h, x, t) <=> Ledger!Reaches(n, latest, x, t)
    BY WriteReach
  <2>5. \A x \in Sids, t \in Times :
          Refused'[x][t] = IF Ledger!Reaches(n, latest, x, t) /\ end > Refused[x][t] THEN end ELSE Refused[x][t]
    <3> HIDE DEF end, n
    <3> QED BY <1>3, <2>1, <2>4 DEF Refused
  <2>6. Ledger!Record
    <3> HIDE DEF end, n
    <3> QED BY <1>1, <1>2, <1>5, <2>2, <2>3, <2>4, <2>5 DEF Ledger!Record, Refused, Issued, Times
  <2> QED BY <2>6 DEF Ledger!Next
<1> QED BY <1>4, <1>5

LEMMA LedgerStep ==
  ASSUME Inv, RecordInv, TermInv, [Next]_vars
  PROVE  [Ledger!Next]_(Ledger!ledger)
<1> DEFINE Goal == [Ledger!Next]_(Ledger!ledger)
<1>0. TypeInv
  BY DEF Inv
<1>1. ASSUME UNCHANGED <<records, notices, now>>
      PROVE  Goal
  BY <1>1, LedgerStutter
<1>2. ASSUME NEW r \in Requests, Ask(r) \/ Serve(r)
      PROVE  Goal
  BY <1>0, <1>1, <1>2, RequestLeaves DEF RequestFrame
<1>3. ASSUME NEW h \in Handlers, HandlerStep(h)
      PROVE  Goal
  <2>1. CASE Write(h)
    BY <2>1, LedgerWrite
  <2>2. UNCHANGED <<notices, now>>
    BY <1>3, HandlerLeaves DEF HandlerFrame
  <2>3. Write(h) \/ records' = records
    BY <1>3 DEF HandlerStep, Record, Post, Handle, Read, RecordFails
  <2> HIDE DEF Goal
  <2> QED BY <1>1, <2>1, <2>2, <2>3 DEF Goal
<1>4. ASSUME NEW k \in Keys, ServerLogout(k)
      PROVE  Goal
  BY <1>0, <1>4, LedgerIssue
<1>5. ASSUME Tick
      PROVE  Goal
  BY <1>0, <1>5, LedgerTick
<1>6. ASSUME UNCHANGED vars
      PROVE  Goal
  BY <1>1, <1>6 DEF vars, logout, server
<1> HIDE DEF Goal
<1>7. Goal
  BY <1>2, <1>3, <1>4, <1>5, <1>6 DEF Next, HandlerStep
<1> QED BY <1>7 DEF Goal

\* The records implement the ledger, where logout tokens are handled one after the other, in any
\* order: no record takes back what another said, none reaches a session no logout token names, and
\* only time lets a session in again.
THEOREM RecordsImplementTheLedger ==
  ASSUME OneByOne
  PROVE  Spec => LogoutsAreKept
<1>1. Init => Inv /\ RecordInv /\ TermInv
  BY InvInit, RecordInit, TermInit
<1>2. (Inv /\ RecordInv /\ TermInv) /\ [Next]_vars => (Inv /\ RecordInv /\ TermInv)'
  BY InvStep, RecordStep, TermStep DEF Inv
<1>3. (Inv /\ RecordInv /\ TermInv) /\ [Next]_vars => [Ledger!Next]_(Ledger!ledger)
  BY LedgerStep
<1> QED BY <1>1, <1>2, <1>3, LedgerInit, PTL DEF Spec, LogoutsAreKept, Ledger!Spec

=============================================================================
