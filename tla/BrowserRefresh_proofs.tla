------------------------- MODULE BrowserRefresh_proofs -------------------------
(***************************************************************************)
(* What BrowserRefresh promises holds for any number of refreshes under    *)
(* way, of requests that wait, of sign-ins and of refresh tokens.          *)
(***************************************************************************)
EXTENDS BrowserRefresh, FiniteSetTheorems, TLAPS

-----------------------------------------------------------------------------
(* The invariant *)

SessionType == [login : Nat, gen : Nat, short : BOOLEAN]

RunType ==
  [pc : {"idle", "sent", "ok", "failed"}, by : Causes, login : Nat, gen : Nat,
   short : BOOLEAN, holds : BOOLEAN]

\* The types; logins are numbered from 1, and sessions and refreshes are of logins there have been.
TypeInv ==
  /\ store \in SessionType /\ (store = NoSession \/ store.login \in Logins)
  /\ timer \in BOOLEAN /\ loose \in Nat /\ revoking \in {"no", "none", "stored", "loose"}
  /\ loading \in BOOLEAN /\ refreshing \in BOOLEAN /\ erred \in BOOLEAN
  /\ stalled \in BOOLEAN /\ twice \in BOOLEAN
  /\ run \in [Runs -> RunType] /\ (\A n \in Runs : Active(n) => run[n].login \in Logins)
  /\ waiting \subseteq Requests
  /\ gens \in [Logins -> Nat] /\ (\E k \in Nat : Logins = 1..k)
  /\ ended \subseteq Logins /\ closed \subseteq Logins /\ raced \subseteq Logins /\ excused \subseteq Logins

\* The timer a revocation read is the one that is stored, or one of the others.
TimerInv == (revoking = "stored" => timer) /\ (revoking = "loose" => loose >= 1)

\* One run takes down each flag that is up, and the one of the timer's flag goes on with the chain.
FlagInv ==
  /\ \A n \in Runs : Active(n) /\ run[n].holds => loading /\ run[n].by # "all"
  /\ \A n \in Runs : Active(n) /\ run[n].by = "request" => refreshing
  /\ loading => \E n \in Runs : Active(n) /\ run[n].holds
  /\ refreshing => \E n \in Runs : Active(n) /\ run[n].by = "request"
  /\ \A n, m \in Runs : Active(n) /\ Active(m) /\ run[n].holds /\ run[m].holds => n = m
  /\ \A n, m \in Runs : Active(n) /\ Active(m) /\ run[n].by = "request" /\ run[m].by = "request" => n = m

\* A refresh is of the session that is stored, unless a session was closed beside one.
FreshInv ==
  /\ KeptFresh
  /\ \A n \in Runs : Active(n) => run[n].login = store.login \/ raced # {}

\* A chain that is one has one refresh of the timer under way, and then no timer.
ChainInv ==
  /\ OneChain
  /\ ~twice => \A n, m \in Runs :
       Active(n) /\ Active(m) /\ run[n].by = "timer" /\ run[m].by = "timer" => n = m

\* What is put down to a login.
Spent(l) == l \in closed \cup excused
Dead(l)  == l \in ended \/ Spent(l)

\* A refresh of a login with nothing put down to it: it is of the session that is stored, it is the
\* only one of its login, and it sends or brings the refresh token the server expects.
InOrder(n) ==
  /\ run[n].login = store.login \/ Spent(run[n].login)
  /\ run[n].login = store.login \/ store.login = 0 \/ Spent(store.login)
  /\ run[n].login \in closed => run[n].login \in raced
  /\ run[n].pc \in {"sent", "ok"} => run[n].gen = gens[run[n].login] \/ Dead(run[n].login)
  /\ run[n].pc = "failed" => Dead(run[n].login)
  /\ \A m \in Runs : Active(m) /\ m # n /\ run[m].login = run[n].login => run[n].login \in excused

\* Every refresh is in order, and the stored session is, unless something is put down to its login.
DeadInv ==
  /\ \A n \in Runs : Active(n) => InOrder(n)
  /\ store # NoSession => Racing(store.login) \/ store.gen = gens[store.login] \/ Dead(store.login)
  /\ erred /\ store # NoSession => Dead(store.login)
  /\ SignedOutStays

-----------------------------------------------------------------------------
(* What the steps do *)

\* A refresh that begins: it alone changes.
Begins(n, by, session, held) ==
  /\ run' \in [Runs -> RunType]
  /\ run'[n].pc = "sent" /\ run'[n].by = by /\ run'[n].login = session.login
  /\ run'[n].gen = session.gen /\ (run'[n].holds <=> held)
  /\ \A m \in Runs : m # n => run'[m] = run[m]

\* A refresh that ends: it alone changes, and the flags it holds come down.
Ends(n) ==
  /\ run' \in [Runs -> RunType] /\ run'[n].pc = "idle"
  /\ \A m \in Runs : m # n => run'[m] = run[m]

\* The fields of a session and of a run.
LEMMA Fields ==
  /\ \A s \in SessionType : s.login \in Nat /\ s.gen \in Nat /\ s.short \in BOOLEAN
  /\ \A r \in RunType :
       /\ r.pc \in {"idle", "sent", "ok", "failed"} /\ r.by \in Causes /\ r.login \in Nat
       /\ r.gen \in Nat /\ r.short \in BOOLEAN /\ r.holds \in BOOLEAN
  /\ NoSession \in SessionType /\ NoSession.login = 0
  /\ IdleRun \in RunType /\ IdleRun.pc = "idle"
BY DEF SessionType, RunType, NoSession, IdleRun, Causes

\* A run that has sent a session's refresh token.
LEMMA SentRun ==
  ASSUME NEW by \in Causes, NEW session \in SessionType, NEW held \in BOOLEAN
  PROVE  LET r == Sent(by, session, held)
         IN  r \in RunType /\ r.pc = "sent" /\ r.by = by /\ r.login = session.login
             /\ r.gen = session.gen /\ r.holds = held
BY DEF Sent, SessionType, RunType

\* No login is 0.
LEMMA LoginsArePositive == ASSUME TypeInv PROVE 0 \notin Logins
BY DEF TypeInv

\* The session of a login is a session.
LEMMA StoreIs ==
  ASSUME TypeInv PROVE /\ store = NoSession => store.login = 0
                       /\ store # NoSession => store.login \in Logins /\ store.login # 0
BY Fields, LoginsArePositive DEF TypeInv

\* Starting a refresh of a session.
LEMMA StartEffect ==
  ASSUME TypeInv, NEW n \in Runs, NEW by \in Causes, NEW session \in SessionType, Start(n, by, session)
  PROVE  ~Active(n) /\ Begins(n, by, session, by = "timer")
<1> DEFINE held == by = "timer"
           r == Sent(by, session, held)
<1>1. held \in BOOLEAN
  OBVIOUS
<1>2. run' = [run EXCEPT ![n] = r] /\ ~Active(n)
  BY DEF Start
<1> HIDE DEF held
<1>3. r \in RunType /\ r.pc = "sent" /\ r.by = by /\ r.login = session.login
      /\ r.gen = session.gen /\ r.holds = held
  BY <1>1, SentRun
<1> HIDE DEF r
<1>4. Begins(n, by, session, held)
  BY <1>2, <1>3 DEF Begins, TypeInv
<1> QED BY <1>2, <1>4 DEF held

\* Ending one.
LEMMA EndEffect ==
  ASSUME TypeInv, NEW n \in Runs, End(n)
  PROVE  /\ Ends(n)
         /\ refreshing' = (refreshing /\ run[n].by # "request") /\ loading' = (loading /\ ~run[n].holds)
BY Fields DEF End, Ends, TypeInv

\* Scheduling a refresh: a timer, a refresh that begins, or neither under the flag of another.
LEMMA ScheduleEffect ==
  ASSUME TypeInv, NEW session \in SessionType, Schedule(session)
  PROVE  /\ loose' = loose /\ revoking' = IF revoking = "stored" THEN "none" ELSE revoking
         /\ twice' = (twice \/ \E n \in Runs : Chained(n))
         /\ \/ timer' = TRUE /\ stalled' = FALSE /\ loading' = loading /\ run' = run
            \/ /\ timer' = FALSE /\ ~loading /\ loading' = TRUE /\ stalled' = stalled
               /\ \E n \in Runs : ~Active(n) /\ Begins(n, "timer", session, TRUE)
            \/ timer' = FALSE /\ stalled' = TRUE /\ loading' = loading /\ run' = run
<1>1. loose' = loose /\ revoking' = IF revoking = "stored" THEN "none" ELSE revoking
  BY DEF Schedule, Unset
<1>2. twice' = (twice \/ \E n \in Runs : Chained(n))
  BY DEF Schedule
<1>3. ASSUME NEW n \in Runs, Start(n, "timer", session) PROVE ~Active(n) /\ Begins(n, "timer", session, TRUE)
  <2>1. "timer" \in Causes
    BY DEF Causes
  <2> QED BY <1>3, <2>1, StartEffect DEF Begins
<1> QED BY <1>1, <1>2, <1>3 DEF Schedule

\* The session of an answer.
LEMMA AnsweredIs ==
  ASSUME TypeInv, NEW n \in Runs
  PROVE  /\ Answered(n) \in SessionType /\ Answered(n).login = run[n].login
         /\ Answered(n).gen = run[n].gen
BY Fields DEF Answered, SessionType, TypeInv

\* The four ways on from a refresh.
LEMMA ContinueEffect ==
  ASSUME TypeInv, NEW n \in Runs, Continue(n)
  PROVE  \/ /\ End(n) /\ Ends(n) /\ UNCHANGED excused
            /\ \/ run[n].by = "all" /\ UNCHANGED <<timer, loose, revoking, stalled, twice>>
               \/ run[n].by # "all" /\ SetTimer /\ twice' = (twice \/ run[n].by \in {"app", "request"})
               \/ /\ run[n].by # "all" /\ stalled' = TRUE
                  /\ UNCHANGED <<timer, loose, revoking, twice>>
         \/ /\ run[n].by # "all" /\ ~loading /\ loading' = TRUE
            /\ Begins(n, run[n].by, Answered(n), TRUE)
            /\ excused' = IF \E m \in Runs \ {n} : Active(m) /\ run[m].login = run[n].login
                          THEN excused \cup {run[n].login} ELSE excused
            /\ UNCHANGED <<timer, loose, revoking, refreshing, stalled, twice>>
<1> DEFINE r == Sent(run[n].by, Answered(n), TRUE)
<1>1. r \in RunType /\ r.pc = "sent" /\ r.by = run[n].by /\ r.login = Answered(n).login
      /\ r.gen = Answered(n).gen /\ r.holds = TRUE
  <2>1. run[n].by \in Causes
    BY Fields DEF TypeInv
  <2> QED BY <2>1, SentRun, AnsweredIs
<1> HIDE DEF r
<1>2. run' = [run EXCEPT ![n] = r] => Begins(n, run[n].by, Answered(n), TRUE)
  BY <1>1 DEF Begins, TypeInv
<1>3. CASE End(n)
  BY <1>3, EndEffect DEF Continue, timing
<1>4. CASE run' = [run EXCEPT ![n] = r]
  BY <1>2, <1>3, <1>4 DEF Continue, timing
<1> QED BY <1>3, <1>4 DEF Continue, r

\* A timer more that runs on.
LEMMA LoosenEffect ==
  ASSUME TypeInv, TimerInv, Loosen
  PROVE  /\ loose' \in Nat /\ revoking' \in {"no", "none", "stored", "loose"}
         /\ revoking' # "stored" /\ (revoking' = "loose" => loose' >= 1)
         /\ (timer => loose' = loose + 1) /\ (~timer => loose' = loose)
BY DEF Loosen, TypeInv, TimerInv

\* Closing a session: it goes on record, with whether a refresh was under way for it.
LEMMA ClosedEffect ==
  ASSUME TypeInv, Closed
  PROVE  /\ closed \subseteq closed' /\ closed' \subseteq Logins /\ raced \subseteq raced' /\ raced' \subseteq Logins
         /\ \A l \in closed' : l \in closed \/ l = store.login
         /\ store # NoSession => store.login \in closed'
         /\ Racing(store.login) => store.login \in raced'
<1>1. store.login # 0 => store.login \in Logins
  BY StoreIs
<1>2. Racing(store.login) => store.login \in Logins
  BY DEF Racing, TypeInv
<1>3. closed' \subseteq Logins /\ closed \subseteq closed' /\ \A l \in closed' : l \in closed \/ l = store.login
  BY <1>1 DEF Closed, TypeInv
<1>4. raced' \subseteq Logins /\ raced \subseteq raced'
  BY <1>2 DEF Closed, TypeInv
<1> QED BY <1>3, <1>4, StoreIs DEF Closed

\* A sign-in: the next login.
LEMMA SignInEffect ==
  ASSUME TypeInv, SignIn
  PROVE  \E l \in Nat, short \in BOOLEAN :
           /\ l \notin Logins /\ DOMAIN gens' = Logins \cup {l} /\ gens' \in [DOMAIN gens' -> Nat]
           /\ \E k \in Nat : DOMAIN gens' = 1..k
           /\ gens'[l] = 1 /\ \A j \in Logins : gens'[j] = gens[j]
           /\ store' = [login |-> l, gen |-> 1, short |-> short] /\ store' \in SessionType /\ l # 0
           /\ Schedule(store')
           /\ excused' = IF erred \/ \E n \in Runs : Active(n) THEN excused \cup {l} ELSE excused
<1>1. PICK k \in Nat : Logins = 1..k
  BY DEF TypeInv
<1>2. Cardinality(Logins) = k
  <2>1. Cardinality(1..k) = IF 1 > k THEN 0 ELSE k - 1 + 1
    BY FS_Interval
  <2> QED BY <1>1, <2>1
<1> DEFINE l == k + 1
<1>3. PICK short \in BOOLEAN :
        /\ gens' = [j \in Logins \cup {l} |-> IF j = l THEN 1 ELSE gens[j]]
        /\ store' = [login |-> l, gen |-> 1, short |-> short] /\ Schedule(store')
        /\ excused' = IF erred \/ \E n \in Runs : Active(n) THEN excused \cup {l} ELSE excused
  BY <1>2 DEF SignIn
<1>4. l \in Nat /\ l # 0 /\ l \notin Logins /\ Logins \cup {l} = 1..l
  BY <1>1
<1>5. DOMAIN gens' = Logins \cup {l} /\ gens'[l] = 1
  BY <1>3
<1>6. \A j \in Logins : gens'[j] = gens[j]
  BY <1>3, <1>4
<1>7. gens' \in [DOMAIN gens' -> Nat]
  <2>1. \A j \in Logins : gens[j] \in Nat
    BY DEF TypeInv
  <2> QED BY <1>3, <2>1
<1>8. store' \in SessionType
  BY <1>3, <1>4 DEF SessionType
<1> HIDE DEF l
<1> QED BY <1>3, <1>4, <1>5, <1>6, <1>7, <1>8

-----------------------------------------------------------------------------
(* Types *)

\* What is said of the runs, the sessions and the logins, each part with a name.
RunsTyped   == run \in [Runs -> RunType] /\ (\A n \in Runs : Active(n) => run[n].login \in Logins)
StoreTyped  == store \in SessionType /\ (store = NoSession \/ store.login \in Logins)
TimesTyped  == /\ timer \in BOOLEAN /\ loose \in Nat /\ revoking \in {"no", "none", "stored", "loose"}
               /\ TimerInv
FlagsTyped  == loading \in BOOLEAN /\ refreshing \in BOOLEAN /\ erred \in BOOLEAN
               /\ stalled \in BOOLEAN /\ twice \in BOOLEAN
ServerTyped == gens \in [Logins -> Nat] /\ (\E k \in Nat : Logins = 1..k)
PastTyped   == /\ ended \subseteq Logins /\ closed \subseteq Logins
               /\ raced \subseteq Logins /\ excused \subseteq Logins

LEMMA TypeParts ==
  /\ TypeInv /\ TimerInv
       <=> RunsTyped /\ StoreTyped /\ TimesTyped /\ FlagsTyped /\ waiting \subseteq Requests
           /\ ServerTyped /\ PastTyped
  /\ TypeInv' /\ TimerInv'
       <=> RunsTyped' /\ StoreTyped' /\ TimesTyped' /\ FlagsTyped' /\ waiting' \subseteq Requests
           /\ ServerTyped' /\ PastTyped'
BY DEF TypeInv, RunsTyped, StoreTyped, TimesTyped, FlagsTyped, ServerTyped, PastTyped

\* The runs keep to their type where one begins for a login there is, or ends, or none changes.
LEMMA RunsStay ==
  ASSUME RunsTyped, Logins \subseteq Logins',
         \/ run' = run
         \/ \E n \in Runs : Ends(n)
         \/ \E n \in Runs, by \in Causes, session \in SessionType, held \in BOOLEAN :
              Begins(n, by, session, held) /\ session.login \in Logins'
  PROVE  RunsTyped'
<1>1. CASE run' = run
  BY <1>1 DEF RunsTyped, Active
<1>2. ASSUME NEW n \in Runs, Ends(n) PROVE RunsTyped'
  BY <1>2 DEF RunsTyped, Active, Ends
<1>3. ASSUME NEW n \in Runs, NEW by, NEW session, NEW held,
             Begins(n, by, session, held), session.login \in Logins'
      PROVE  RunsTyped'
  BY <1>3 DEF RunsTyped, Active, Begins
<1> QED BY <1>1, <1>2, <1>3

\* The initial state is of its type.
LEMMA TypeInit == Init => TypeInv /\ TimerInv
<1> SUFFICES ASSUME Init PROVE TypeInv /\ TimerInv OBVIOUS
<1>1. Logins = {} /\ gens \in [Logins -> Nat]
  BY DEF Init, Logins
<1>2. 0 \in Nat /\ Logins = 1..0
  BY <1>1
<1>3. run = [n \in Runs |-> IdleRun] /\ run \in [Runs -> RunType]
  BY Fields DEF Init
<1>4. \A n \in Runs : ~Active(n)
  BY <1>3, Fields DEF Active
<1>5. RunsTyped /\ ServerTyped
  BY <1>1, <1>2, <1>3, <1>4 DEF RunsTyped, ServerTyped
<1>6. StoreTyped
  BY Fields DEF Init, StoreTyped
<1>7. TimesTyped /\ FlagsTyped /\ PastTyped /\ waiting \subseteq Requests
  BY DEF Init, TimesTyped, FlagsTyped, PastTyped, TimerInv
<1> QED BY <1>5, <1>6, <1>7, TypeParts

\* Every step keeps to the types, and a revocation's timer among the timers.
LEMMA TypeStep == ASSUME TypeInv, TimerInv, [Next]_vars PROVE TypeInv' /\ TimerInv'
<1> DEFINE Typed == TypeInv' /\ TimerInv'
<1>0. RunsTyped /\ StoreTyped /\ TimesTyped /\ FlagsTyped /\ waiting \subseteq Requests
      /\ ServerTyped /\ PastTyped
  BY TypeParts
<1>k. Typed <=> RunsTyped' /\ StoreTyped' /\ TimesTyped' /\ FlagsTyped' /\ waiting' \subseteq Requests
                /\ ServerTyped' /\ PastTyped'
  BY TypeParts
<1> SUFFICES Typed
  OBVIOUS
<1> HIDE DEF Typed
<1>u. UNCHANGED gens => Logins' = Logins /\ ServerTyped'
  BY <1>0 DEF ServerTyped, Logins
<1>p. UNCHANGED gens /\ UNCHANGED <<ended, closed, raced>>
        /\ (excused' = excused \/ (excused' = excused \cup {store.login} /\ store # NoSession)) => PastTyped'
  BY <1>0, <1>u DEF PastTyped, StoreTyped
<1>t. UNCHANGED gens /\ UNCHANGED store => StoreTyped'
  BY <1>0, <1>u DEF StoreTyped
<1>r. UNCHANGED gens /\ UNCHANGED run => RunsTyped'
  BY <1>0, <1>u, RunsStay
<1>m. UNCHANGED timing => TimesTyped'
  BY <1>0 DEF TimesTyped, TimerInv, timing
<1>o. store # NoSession => store \in SessionType /\ store.login \in Logins
  BY <1>0 DEF StoreTyped
<1>1. CASE SignIn
  <2>1. PICK l \in Nat, short \in BOOLEAN :
           /\ l \notin Logins /\ DOMAIN gens' = Logins \cup {l} /\ gens' \in [DOMAIN gens' -> Nat]
           /\ \E k \in Nat : DOMAIN gens' = 1..k
           /\ gens'[l] = 1 /\ \A j \in Logins : gens'[j] = gens[j]
           /\ store' = [login |-> l, gen |-> 1, short |-> short] /\ store' \in SessionType /\ l # 0
           /\ Schedule(store')
           /\ excused' = IF erred \/ \E n \in Runs : Active(n) THEN excused \cup {l} ELSE excused
    BY <1>1, SignInEffect
  <2>2. Logins' = Logins \cup {l} /\ ServerTyped'
    BY <2>1 DEF ServerTyped, Logins
  <2>3. StoreTyped' /\ store'.login = l
    BY <2>1, <2>2 DEF StoreTyped
  <2>4. PastTyped'
    BY <1>0, <1>1, <2>1, <2>2 DEF PastTyped, SignIn
  <2>5. RunsTyped'
    <3>1. "timer" \in Causes
      BY DEF Causes
    <3>2. run' = run \/ \E n \in Runs : Begins(n, "timer", store', TRUE)
      BY <2>1, ScheduleEffect
    <3> QED BY <1>0, <2>1, <2>2, <2>3, <3>1, <3>2, RunsStay
  <2>6. TimesTyped' /\ FlagsTyped'
    BY <1>0, <1>1, <2>1, ScheduleEffect DEF TimesTyped, FlagsTyped, TimerInv, SignIn
  <2> QED BY <1>0, <1>k, <1>1, <2>2, <2>3, <2>4, <2>5, <2>6 DEF SignIn
<1>2. CASE StartAutoRefreshToken
  <2>1. UNCHANGED <<store, refreshing, waiting, erred, gens, ended, closed, raced>> /\ Schedule(store)
        /\ store # NoSession /\ (excused' = excused \/ excused' = excused \cup {store.login})
    BY <1>2 DEF StartAutoRefreshToken, Overlap, server
  <2>2. RunsTyped'
    <3>1. "timer" \in Causes
      BY DEF Causes
    <3>2. run' = run \/ \E n \in Runs : Begins(n, "timer", store, TRUE)
      BY <1>o, <2>1, ScheduleEffect
    <3> QED BY <1>0, <1>u, <1>o, <2>1, <3>1, <3>2, RunsStay
  <2>3. TimesTyped' /\ FlagsTyped'
    BY <1>0, <1>o, <2>1, ScheduleEffect DEF TimesTyped, FlagsTyped, TimerInv
  <2> QED BY <1>0, <1>k, <1>u, <1>p, <1>t, <2>1, <2>2, <2>3
<1>3. CASE Fire
  <2>1. UNCHANGED <<store, refreshing, waiting, gens, ended, closed, raced, twice>>
        /\ (excused' = excused \/ (excused' = excused \cup {store.login} /\ store # NoSession))
    <3>1. UNCHANGED <<store, refreshing, waiting, server, closed, raced, twice>>
      BY <1>3 DEF Fire
    <3>2. UNCHANGED excused \/ (store # NoSession /\ Overlap(store.login))
      BY <1>3 DEF Fire
    <3> QED BY <3>1, <3>2 DEF Overlap, server
  <2>2. RunsTyped'
    <3>1. "timer" \in Causes
      BY DEF Causes
    <3>2. run' = run \/ (store # NoSession /\ \E n \in Runs : Begins(n, "timer", store, "timer" = "timer"))
      BY <1>3, <1>o, <3>1, StartEffect DEF Fire
    <3> QED BY <1>0, <1>u, <1>o, <2>1, <3>1, <3>2, RunsStay
  <2>3. TimesTyped'
    <3>1. CASE timer /\ timer' = FALSE /\ Unset
      BY <1>0, <3>1 DEF Unset, TimesTyped, TimerInv
    <3>2. CASE /\ loose > 0 /\ loose' = loose - 1 /\ UNCHANGED timer
               /\ \/ revoking = "loose" /\ revoking' = "none"
                  \/ (revoking = "loose" => loose > 1) /\ UNCHANGED revoking
      BY <1>0, <3>2 DEF TimesTyped, TimerInv
    <3> QED BY <1>3, <3>1, <3>2 DEF Fire
  <2>4. FlagsTyped'
    BY <1>0, <1>3 DEF Fire, Fails, FlagsTyped
  <2> QED BY <1>0, <1>k, <1>u, <1>p, <1>t, <2>1, <2>2, <2>3, <2>4
<1>4. ASSUME NEW n \in Runs, NEW by \in Causes, RefreshNow(n, by) PROVE Typed
  <2>1. /\ UNCHANGED <<store, timing, loading, refreshing, waiting, erred, gens, ended, closed, raced, stalled, twice>>
        /\ store # NoSession /\ Start(n, by, store)
        /\ (excused' = excused \/ excused' = excused \cup {store.login})
    BY <1>4 DEF RefreshNow, Overlap, server
  <2>2. RunsTyped'
    BY <1>0, <1>u, <1>o, <2>1, StartEffect, RunsStay
  <2>3. FlagsTyped'
    BY <1>0, <2>1 DEF FlagsTyped
  <2> QED BY <1>0, <1>k, <1>u, <1>p, <1>t, <1>m, <2>1, <2>2, <2>3
<1>5. ASSUME NEW n \in Runs, Reject(n) PROVE Typed
  <2>1. /\ UNCHANGED <<store, timing, loading, waiting, erred, gens, ended, closed, raced, stalled, twice>>
        /\ refreshing' = TRUE /\ store # NoSession /\ Start(n, "request", store) /\ "request" \in Causes
        /\ (excused' = excused \/ excused' = excused \cup {store.login})
    BY <1>5 DEF Reject, Overlap, server, Causes
  <2>2. RunsTyped'
    BY <1>0, <1>u, <1>o, <2>1, StartEffect, RunsStay
  <2>3. FlagsTyped'
    BY <1>0, <2>1 DEF FlagsTyped
  <2> QED BY <1>0, <1>k, <1>u, <1>p, <1>t, <1>m, <2>1, <2>2, <2>3
<1>6. ASSUME NEW q \in Requests, Wait(q) \/ Retry(q) PROVE Typed
  <2>1. /\ UNCHANGED <<store, timing, loading, refreshing, run, erred, gens, ended, closed, raced, excused,
                       stalled, twice>>
        /\ waiting' \subseteq waiting \cup {q}
    BY <1>6 DEF Wait, Retry, server, history
  <2>2. FlagsTyped'
    BY <1>0, <2>1 DEF FlagsTyped
  <2> QED BY <1>0, <1>k, <1>u, <1>p, <1>t, <1>m, <1>r, <2>1, <2>2
<1>7. ASSUME NEW n \in Runs, ServerRefresh(n) PROVE Typed
  <2>1. /\ UNCHANGED <<store, timing, loading, refreshing, waiting, erred, ended, closed, raced, excused,
                       stalled, twice>>
        /\ run[n].pc = "sent" /\ gens' = [gens EXCEPT ![run[n].login] = @ + 1]
    BY <1>7 DEF ServerRefresh, history
  <2>2. Logins' = Logins /\ ServerTyped'
    <3>1. run[n].login \in Logins
      BY <1>0, <2>1 DEF RunsTyped, Active
    <3>2. gens \in [Logins -> Nat] /\ gens[run[n].login] \in Nat
      BY <1>0, <3>1 DEF ServerTyped
    <3>3. gens' \in [Logins -> Nat]
      BY <2>1, <3>1, <3>2
    <3>4. Logins' = Logins
      BY <3>3 DEF Logins
    <3> QED BY <1>0, <3>3, <3>4 DEF ServerTyped
  <2>3. RunsTyped'
    <3>1. PICK short \in BOOLEAN : run' = [run EXCEPT ![n].pc = "ok", ![n].gen = @ + 1, ![n].short = short]
      BY <1>7 DEF ServerRefresh
    <3> DEFINE r == [run[n] EXCEPT !.pc = "ok", !.gen = @ + 1, !.short = short]
    <3>2. run' = [run EXCEPT ![n] = r]
      BY <3>1
    <3>3. run[n] \in RunType /\ run[n].gen + 1 \in Nat
      BY <1>0, Fields DEF RunsTyped
    <3>4. r \in RunType /\ r.login = run[n].login
      BY <3>3 DEF RunType
    <3> HIDE DEF r
    <3> QED BY <1>0, <2>1, <2>2, <3>2, <3>4 DEF RunsTyped, Active
  <2>4. StoreTyped' /\ PastTyped' /\ FlagsTyped'
    BY <1>0, <2>1, <2>2 DEF StoreTyped, PastTyped, FlagsTyped
  <2> QED BY <1>0, <1>k, <1>m, <2>1, <2>2, <2>3, <2>4
<1>8. ASSUME NEW n \in Runs, RefreshFails(n) PROVE Typed
  <2>1. /\ UNCHANGED <<store, timing, loading, refreshing, waiting, erred, ended, closed, raced,
                       stalled, twice>>
        /\ run[n].pc = "sent" /\ run' = [run EXCEPT ![n].pc = "failed"]
        /\ gens' = gens \/ gens' = [gens EXCEPT ![run[n].login] = IF @ < MaxGen THEN @ + 1 ELSE @]
        /\ excused' = excused \/ excused' = excused \cup {run[n].login}
    BY <1>8 DEF RefreshFails
  <2>2. Logins' = Logins /\ ServerTyped'
    <3>1. run[n].login \in Logins
      BY <1>0, <2>1 DEF RunsTyped, Active
    <3>2. gens \in [Logins -> Nat] /\ gens[run[n].login] \in Nat
      BY <1>0, <3>1 DEF ServerTyped
    <3>3. gens' \in [Logins -> Nat]
      BY <2>1, <3>1, <3>2
    <3>4. Logins' = Logins
      BY <3>3 DEF Logins
    <3> QED BY <1>0, <3>3, <3>4 DEF ServerTyped
  <2>3. RunsTyped'
    <3> DEFINE r == [run[n] EXCEPT !.pc = "failed"]
    <3>1. run' = [run EXCEPT ![n] = r]
      BY <2>1
    <3>2. run[n] \in RunType
      BY <1>0 DEF RunsTyped
    <3>3. r \in RunType /\ r.login = run[n].login
      BY <3>2 DEF RunType
    <3> HIDE DEF r
    <3> QED BY <1>0, <2>1, <2>2, <3>1, <3>3 DEF RunsTyped, Active
  <2>4. StoreTyped' /\ FlagsTyped'
    BY <1>0, <2>1, <2>2 DEF StoreTyped, FlagsTyped
  <2>5. PastTyped'
    BY <1>0, <2>1, <2>2 DEF PastTyped, RunsTyped, Active
  <2> QED BY <1>0, <1>k, <1>m, <2>1, <2>2, <2>3, <2>4, <2>5
<1>9. ASSUME NEW n \in Runs, Receive(n) PROVE Typed
  <2>1. UNCHANGED <<waiting, gens, ended, closed, raced>> /\ Active(n) /\ run[n].login \in Logins
    BY <1>0, <1>9 DEF Receive, RunsTyped, Active, server
  <2>2. CASE store' = Answered(n) /\ Continue(n) /\ UNCHANGED erred
    <3>1. StoreTyped'
      BY <1>u, <2>1, <2>2, AnsweredIs DEF StoreTyped
    <3>2. RunsTyped'
      <4>1. run[n].by \in Causes
        BY <1>0, Fields DEF RunsTyped
      <4>2. Ends(n) \/ Begins(n, run[n].by, Answered(n), TRUE)
        BY <2>2, ContinueEffect
      <4> QED BY <1>0, <1>u, <2>1, <4>1, <4>2, AnsweredIs, RunsStay
    <3>3. PastTyped'
      <4>1. excused' = excused \/ excused' = excused \cup {run[n].login}
        BY <2>2, ContinueEffect
      <4> QED BY <1>0, <1>u, <2>1, <4>1 DEF PastTyped
    <3>4. TimesTyped'
      <4>1. CASE SetTimer
        BY <4>1, LoosenEffect DEF SetTimer, TimesTyped, TimerInv
      <4>2. CASE UNCHANGED timing
        BY <1>m, <4>2
      <4> QED BY <2>2, <4>1, <4>2, ContinueEffect DEF timing
    <3>5. FlagsTyped'
      <4>1. \/ refreshing' = refreshing /\ loading' = TRUE
            \/ refreshing' = (refreshing /\ run[n].by # "request") /\ loading' = (loading /\ ~run[n].holds)
        BY <2>2, ContinueEffect, EndEffect
      <4>2. stalled' \in BOOLEAN /\ twice' \in BOOLEAN
        BY <1>0, <2>2, ContinueEffect DEF FlagsTyped, SetTimer
      <4> QED BY <1>0, <2>2, <4>1, <4>2 DEF FlagsTyped
    <3> QED BY <1>0, <1>k, <1>u, <2>1, <3>1, <3>2, <3>3, <3>4, <3>5
  <2>3. CASE /\ EndFailed(n) /\ UNCHANGED <<store, timing, excused, twice>>
             /\ IF run[n].by = "all" THEN UNCHANGED <<erred, stalled>> ELSE Fails
    <3>1. RunsTyped'
      BY <1>0, <1>u, <2>1, <2>3, EndEffect, RunsStay DEF EndFailed
    <3>2. FlagsTyped'
      BY <1>0, <2>3, EndEffect DEF EndFailed, Fails, FlagsTyped
    <3> QED BY <1>0, <1>k, <1>u, <1>p, <1>t, <1>m, <2>1, <2>3, <3>1, <3>2
  <2> QED BY <1>9, <2>2, <2>3 DEF Receive
<1>c. ASSUME ClearSession, UNCHANGED <<loading, refreshing, run, waiting, gens, ended, excused, stalled>>,
             erred' \in BOOLEAN
      PROVE  Typed
  <2>1. Closed /\ Loosen /\ timer' = FALSE /\ twice' = (twice \/ timer \/ loose > 0) /\ store' = NoSession
    BY <1>c DEF ClearSession, Closes
  <2>2. StoreTyped'
    BY <2>1, Fields DEF StoreTyped
  <2>3. PastTyped'
    BY <1>0, <1>c, <1>u, <2>1, ClosedEffect DEF PastTyped
  <2>4. TimesTyped'
    BY <2>1, LoosenEffect DEF TimesTyped, TimerInv
  <2>5. FlagsTyped'
    BY <1>0, <1>c, <2>1 DEF FlagsTyped, TimesTyped
  <2> QED BY <1>0, <1>c, <1>k, <1>u, <1>r, <2>2, <2>3, <2>4, <2>5
<1>10. CASE SignOut
  <2>1. erred' \in BOOLEAN /\ ClearSession
        /\ UNCHANGED <<loading, refreshing, run, waiting, gens, ended, excused, stalled>>
    BY <1>0, <1>10 DEF SignOut, FlagsTyped, server
  <2> QED BY <1>c, <2>1
<1>11. CASE SignOutForError
  <2>1. erred' = FALSE /\ UNCHANGED <<loading, refreshing, run, waiting, gens, ended, excused, stalled>>
    BY <1>11 DEF SignOutForError, server
  <2>2. CASE ClearSession
    BY <1>c, <2>1, <2>2
  <2>3. CASE UNCHANGED <<store, timing, closed, raced, twice>>
    <3>1. FlagsTyped'
      BY <1>0, <2>1, <2>3 DEF FlagsTyped
    <3> QED BY <1>0, <1>k, <1>u, <1>p, <1>t, <1>m, <1>r, <2>1, <2>3, <3>1
  <2> QED BY <1>11, <2>2, <2>3 DEF SignOutForError
<1>12. CASE Revoke \/ RevokeFails
  <2>1. UNCHANGED <<store, timer, loose, loading, refreshing, run, waiting, erred, gens, ended, closed, raced,
                    excused, stalled, twice>>
    BY <1>12 DEF Revoke, RevokeFails, server, history
  <2>2. TimesTyped'
    BY <1>0, <1>12 DEF Revoke, RevokeFails, TimesTyped, TimerInv
  <2>3. FlagsTyped'
    BY <1>0, <2>1 DEF FlagsTyped
  <2> QED BY <1>0, <1>k, <1>u, <1>p, <1>t, <1>r, <2>1, <2>2, <2>3
<1>13. CASE Revoked
  <2>1. /\ UNCHANGED <<loading, refreshing, run, waiting, erred, gens, ended, excused, stalled>>
        /\ Closed /\ store' = NoSession /\ timer' = FALSE /\ revoking' = "no"
        /\ twice' = (twice \/ loose' > 0)
        /\ loose' = loose + (IF timer /\ revoking # "stored" THEN 1 ELSE 0) - (IF revoking = "loose" THEN 1 ELSE 0)
    BY <1>13 DEF Revoked, server
  <2>2. StoreTyped'
    BY <2>1, Fields DEF StoreTyped
  <2>3. PastTyped'
    BY <1>0, <1>u, <2>1, ClosedEffect DEF PastTyped
  <2>4. TimesTyped'
    <3>1. loose \in Nat /\ (revoking = "loose" => loose >= 1)
      BY <1>0 DEF TimesTyped, TimerInv
    <3>2. loose' \in Nat
      BY <2>1, <3>1
    <3> QED BY <2>1, <3>2 DEF TimesTyped, TimerInv
  <2>5. FlagsTyped'
    BY <1>0, <2>1, <2>4 DEF FlagsTyped, TimesTyped
  <2> QED BY <1>0, <1>k, <1>u, <1>r, <2>1, <2>2, <2>3, <2>4, <2>5
<1>14. ASSUME NEW l \in 1..MaxLogins, ServerEnds(l) PROVE Typed
  <2>1. /\ UNCHANGED <<store, timing, loading, refreshing, run, waiting, erred, gens, closed, raced, excused,
                       stalled, twice>>
        /\ ended' = ended \cup {l} /\ l \in Logins
    BY <1>14 DEF ServerEnds, history
  <2>2. PastTyped'
    BY <1>0, <1>u, <2>1 DEF PastTyped
  <2>3. FlagsTyped'
    BY <1>0, <2>1 DEF FlagsTyped
  <2> QED BY <1>0, <1>k, <1>u, <1>t, <1>m, <1>r, <2>1, <2>2, <2>3
<1>15. CASE UNCHANGED vars
  <2>1. UNCHANGED <<store, timing, loading, refreshing, run, waiting, erred, gens, ended, closed, raced,
                    excused, stalled, twice>>
    BY <1>15 DEF vars, timing, server, history
  <2>2. FlagsTyped'
    BY <1>0, <2>1 DEF FlagsTyped
  <2> QED BY <1>0, <1>k, <1>u, <1>p, <1>t, <1>m, <1>r, <2>1, <2>2
<1> QED
  BY <1>1, <1>2, <1>3, <1>4, <1>5, <1>6, <1>7, <1>8, <1>9, <1>10, <1>11, <1>12, <1>13, <1>14,
     <1>15 DEF Next

-----------------------------------------------------------------------------
(* Flags *)

\* What a step may do to the runs and their flags.
NoRunChanges == run' = run /\ loading' = loading /\ refreshing' = refreshing

RunBegins(n, by, session) ==
  /\ ~Active(n) /\ Begins(n, by, session, by = "timer")
  /\ (by = "timer" /\ ~loading /\ loading') \/ (by # "timer" /\ loading' = loading)
  /\ (by = "request" /\ ~refreshing /\ refreshing') \/ (by # "request" /\ refreshing' = refreshing)

RunEnds(n) ==
  /\ Active(n) /\ Ends(n)
  /\ refreshing' = (refreshing /\ run[n].by # "request") /\ loading' = (loading /\ ~run[n].holds)

RunGoesOn(n) ==
  /\ Active(n) /\ run[n].by # "all" /\ ~loading /\ loading' /\ refreshing' = refreshing
  /\ Begins(n, run[n].by, Answered(n), TRUE)

RunIsServed(n) ==
  /\ loading' = loading /\ refreshing' = refreshing
  /\ run[n].pc = "sent" /\ run' \in [Runs -> RunType] /\ run'[n].pc \in {"ok", "failed"}
  /\ run'[n].by = run[n].by /\ run'[n].login = run[n].login /\ run'[n].holds = run[n].holds
  /\ run'[n].gen = IF run'[n].pc = "ok" THEN run[n].gen + 1 ELSE run[n].gen
  /\ \A m \in Runs : m # n => run'[m] = run[m]

LEMMA ServedEffect ==
  ASSUME TypeInv, NEW n \in Runs, ServerRefresh(n) \/ RefreshFails(n)
  PROVE  RunIsServed(n) /\ (ServerRefresh(n) => run'[n].pc = "ok") /\ (RefreshFails(n) => run'[n].pc = "failed")
<1>0. run \in [Runs -> RunType] /\ run[n] \in RunType /\ run[n].gen + 1 \in Nat
  BY Fields DEF TypeInv
<1>1. CASE ServerRefresh(n)
  <2>1. PICK short \in BOOLEAN : run' = [run EXCEPT ![n].pc = "ok", ![n].gen = @ + 1, ![n].short = short]
    BY <1>1 DEF ServerRefresh
  <2> DEFINE r == [run[n] EXCEPT !.pc = "ok", !.gen = @ + 1, !.short = short]
  <2>2. run' = [run EXCEPT ![n] = r]
    BY <2>1
  <2>3. r \in RunType /\ r.login = run[n].login /\ r.by = run[n].by /\ r.holds = run[n].holds
        /\ r.pc = "ok" /\ r.gen = run[n].gen + 1
    BY <1>0 DEF RunType
  <2> HIDE DEF r
  <2>4. run' \in [Runs -> RunType] /\ run'[n] = r /\ \A m \in Runs : m # n => run'[m] = run[m]
    BY <1>0, <2>2, <2>3
  <2>5. loading' = loading /\ refreshing' = refreshing /\ run[n].pc = "sent"
    BY <1>1 DEF ServerRefresh
  <2>6. run'[n].pc = "ok"
    BY <2>3, <2>4
  <2>7. ~RefreshFails(n)
    <3>1. [run EXCEPT ![n].pc = "failed"][n].pc = "failed"
      BY <1>0 DEF RunType
    <3> QED BY <2>6, <3>1 DEF RefreshFails
  <2> QED BY <2>3, <2>4, <2>5, <2>6, <2>7 DEF RunIsServed
<1>2. CASE RefreshFails(n)
  <2> DEFINE r == [run[n] EXCEPT !.pc = "failed"]
  <2>1. run' = [run EXCEPT ![n] = r]
    BY <1>2 DEF RefreshFails
  <2>2. r \in RunType /\ r.login = run[n].login /\ r.by = run[n].by /\ r.holds = run[n].holds
        /\ r.pc = "failed" /\ r.gen = run[n].gen
    BY <1>0 DEF RunType
  <2> HIDE DEF r
  <2>3. run' \in [Runs -> RunType] /\ run'[n] = r /\ \A m \in Runs : m # n => run'[m] = run[m]
    BY <1>0, <2>1, <2>2
  <2>4. loading' = loading /\ refreshing' = refreshing /\ run[n].pc = "sent"
    BY <1>2 DEF RefreshFails
  <2>5. run'[n].pc = "failed"
    BY <2>2, <2>3
  <2>6. CASE ServerRefresh(n)
    BY <1>1, <2>6
  <2>7. CASE ~ServerRefresh(n)
    BY <2>2, <2>3, <2>4, <2>5, <2>7 DEF RunIsServed
  <2> QED BY <2>6, <2>7
<1> QED BY <1>1, <1>2

\* An answer of a run: it ends, or goes on.
LEMMA ReceiveEffect ==
  ASSUME TypeInv, NEW n \in Runs, Receive(n)
  PROVE  RunEnds(n) \/ RunGoesOn(n)
<1>1. Active(n)
  BY DEF Receive, Active
<1>2. End(n) => RunEnds(n)
  BY <1>1, EndEffect DEF RunEnds
<1>3. Continue(n) => RunEnds(n) \/ RunGoesOn(n)
  BY <1>1, <1>2, ContinueEffect DEF RunGoesOn
<1> QED BY <1>2, <1>3 DEF Receive, EndFailed

\* Every step is one of these.
LEMMA RunsStep ==
  ASSUME TypeInv, TypeInv', [Next]_vars
  PROVE  \/ NoRunChanges
         \/ \E n \in Runs, by \in Causes, session \in SessionType : RunBegins(n, by, session)
         \/ \E n \in Runs : RunEnds(n) \/ RunGoesOn(n) \/ RunIsServed(n)
<1> USE DEF NoRunChanges
<1>0. "timer" \in Causes /\ "request" \in Causes
  BY DEF Causes
<1>1. ASSUME NEW session \in SessionType, Schedule(session), refreshing' = refreshing
      PROVE  NoRunChanges \/ \E n \in Runs : RunBegins(n, "timer", session)
  <2>1. CASE loading' = loading /\ run' = run
    BY <1>1, <2>1
  <2>2. ASSUME NEW n \in Runs, ~loading, loading' = TRUE, ~Active(n), Begins(n, "timer", session, TRUE)
        PROVE  RunBegins(n, "timer", session)
    BY <1>1, <2>2 DEF RunBegins, Begins
  <2> QED BY <1>1, <2>1, <2>2, ScheduleEffect
<1>2. store \in SessionType /\ store' \in SessionType
  BY DEF TypeInv
<1>3. CASE SignIn \/ StartAutoRefreshToken
  <2>1. refreshing' = refreshing /\ (Schedule(store) \/ Schedule(store'))
    BY <1>3, SignInEffect DEF SignIn, StartAutoRefreshToken
  <2> QED BY <1>0, <1>1, <1>2, <2>1
<1>4. CASE Fire
  <2>1. refreshing' = refreshing
    BY <1>4 DEF Fire
  <2>2. CASE loading' = loading /\ run' = run
    BY <2>1, <2>2
  <2>3. ASSUME NEW n \in Runs, ~loading, loading' = TRUE, Start(n, "timer", store)
        PROVE  RunBegins(n, "timer", store)
    BY <1>0, <1>2, <2>1, <2>3, StartEffect DEF RunBegins
  <2> QED BY <1>0, <1>2, <1>4, <2>2, <2>3 DEF Fire
<1>5. ASSUME NEW n \in Runs, NEW by \in Causes, RefreshNow(n, by) PROVE RunBegins(n, by, store)
  BY <1>2, <1>5, StartEffect DEF RefreshNow, RunBegins
<1>6. ASSUME NEW n \in Runs, Reject(n) PROVE RunBegins(n, "request", store)
  BY <1>0, <1>2, <1>6, StartEffect DEF Reject, RunBegins
<1>7. CASE SignOut \/ SignOutForError \/ Revoke \/ Revoked \/ RevokeFails \/ UNCHANGED vars
  BY <1>7 DEF SignOut, SignOutForError, Revoke, Revoked, RevokeFails, vars
<1>8. ASSUME NEW q \in Requests, Wait(q) \/ Retry(q) PROVE NoRunChanges
  BY <1>8 DEF Wait, Retry
<1>9. ASSUME NEW l \in 1..MaxLogins, ServerEnds(l) PROVE NoRunChanges
  BY <1>9 DEF ServerEnds
<1> HIDE DEF NoRunChanges
<1>10. ASSUME NEW n \in Runs, ServerRefresh(n) \/ RefreshFails(n) PROVE RunIsServed(n)
  BY <1>10, ServedEffect
<1> QED
  BY <1>0, <1>2, <1>3, <1>4, <1>5, <1>6, <1>7, <1>8, <1>9, <1>10, ReceiveEffect DEF Next

\* A flag that is up has the one run that will take it down.
LEMMA FlagStep == ASSUME TypeInv, TypeInv', FlagInv, [Next]_vars PROVE FlagInv'
<1>1. CASE NoRunChanges
  BY <1>1 DEF NoRunChanges, FlagInv, Active
<1>2. ASSUME NEW n \in Runs, NEW by \in Causes, NEW session, RunBegins(n, by, session) PROVE FlagInv'
  BY <1>2 DEF RunBegins, Begins, FlagInv, Active
<1>3. ASSUME NEW n \in Runs, RunEnds(n) PROVE FlagInv'
  <2>0. /\ Active(n) /\ ~Active(n)'
        /\ \A m \in Runs : m # n => run'[m] = run[m] /\ (Active(m)' <=> Active(m))
    BY <1>3 DEF RunEnds, Ends, Active
  <2>1. loading' <=> loading /\ ~run[n].holds
    BY <1>3 DEF RunEnds
  <2>2. refreshing' <=> refreshing /\ run[n].by # "request"
    BY <1>3 DEF RunEnds
  <2>3. \A m \in Runs : Active(m)' /\ run'[m].holds => loading' /\ run'[m].by # "all"
    <3> SUFFICES ASSUME NEW m \in Runs, Active(m)', run'[m].holds PROVE loading' /\ run'[m].by # "all"
      OBVIOUS
    <3>1. m # n /\ Active(m) /\ run[m].holds /\ run'[m] = run[m]
      BY <2>0
    <3>2. loading /\ run[m].by # "all" /\ ~run[n].holds
      BY <2>0, <3>1 DEF FlagInv
    <3> QED BY <2>1, <3>1, <3>2
  <2>4. \A m \in Runs : Active(m)' /\ run'[m].by = "request" => refreshing'
    <3> SUFFICES ASSUME NEW m \in Runs, Active(m)', run'[m].by = "request" PROVE refreshing'
      OBVIOUS
    <3>1. m # n /\ Active(m) /\ run[m].by = "request"
      BY <2>0
    <3>2. refreshing /\ run[n].by # "request"
      BY <2>0, <3>1 DEF FlagInv
    <3> QED BY <2>2, <3>2
  <2>5. loading' => \E m \in Runs : Active(m)' /\ run'[m].holds
    <3> SUFFICES ASSUME loading' PROVE \E m \in Runs : Active(m)' /\ run'[m].holds
      OBVIOUS
    <3>1. PICK m \in Runs : Active(m) /\ run[m].holds
      BY <2>1 DEF FlagInv
    <3>2. m # n
      BY <2>1, <3>1
    <3> QED BY <2>0, <3>1, <3>2
  <2>6. refreshing' => \E m \in Runs : Active(m)' /\ run'[m].by = "request"
    <3> SUFFICES ASSUME refreshing' PROVE \E m \in Runs : Active(m)' /\ run'[m].by = "request"
      OBVIOUS
    <3>1. PICK m \in Runs : Active(m) /\ run[m].by = "request"
      BY <2>2 DEF FlagInv
    <3>2. m # n
      BY <2>2, <3>1
    <3> QED BY <2>0, <3>1, <3>2
  <2>7. \A m, k \in Runs : Active(m)' /\ Active(k)' /\ run'[m].holds /\ run'[k].holds => m = k
    BY <2>0 DEF FlagInv
  <2>8. \A m, k \in Runs :
          Active(m)' /\ Active(k)' /\ run'[m].by = "request" /\ run'[k].by = "request" => m = k
    BY <2>0 DEF FlagInv
  <2> QED BY <2>3, <2>4, <2>5, <2>6, <2>7, <2>8 DEF FlagInv
<1>4. ASSUME NEW n \in Runs, RunGoesOn(n) PROVE FlagInv'
  BY <1>4 DEF RunGoesOn, Begins, FlagInv, Active
<1>5. ASSUME NEW n \in Runs, RunIsServed(n) PROVE FlagInv'
  BY <1>5 DEF RunIsServed, FlagInv, Active
<1> QED BY <1>1, <1>2, <1>3, <1>4, <1>5, RunsStep

\* What the two flags' runs are counted as.
LEMMA FlagsAreHeld == ASSUME FlagInv PROVE FlagsHeld
<1>1. ASSUME loading PROVE Cardinality({n \in Runs : Active(n) /\ run[n].holds}) = 1
  <2>1. PICK n \in Runs : Active(n) /\ run[n].holds
    BY <1>1 DEF FlagInv
  <2>2. {m \in Runs : Active(m) /\ run[m].holds} = {n}
    BY <2>1 DEF FlagInv
  <2> QED BY <2>2, FS_Singleton
<1>2. ASSUME refreshing PROVE Cardinality({n \in Runs : Active(n) /\ run[n].by = "request"}) = 1
  <2>1. PICK n \in Runs : Active(n) /\ run[n].by = "request"
    BY <1>2 DEF FlagInv
  <2>2. {m \in Runs : Active(m) /\ run[m].by = "request"} = {n}
    BY <2>1 DEF FlagInv
  <2> QED BY <2>2, FS_Singleton
<1> QED BY <1>1, <1>2 DEF FlagsHeld

-----------------------------------------------------------------------------
(* The chain of refreshes *)

\* Where the timers, the session and the records of both stay, and every refresh goes on, so does
\* the chain.
LEMMA FreshKept ==
  ASSUME FreshInv, UNCHANGED <<store, timer, loose, stalled, raced>>,
         \A m \in Runs : Active(m) => Active(m)' /\ run'[m].by = run[m].by,
         \A m \in Runs : Active(m)' => run'[m].login = store.login \/ (Active(m) /\ run'[m].login = run[m].login)
  PROVE  FreshInv'
<1>1. \A m \in Runs : Chained(m) => Chained(m)'
  BY DEF Chained
<1>2. KeptFresh'
  BY <1>1 DEF FreshInv, KeptFresh
<1>3. \A m \in Runs : Active(m)' => run'[m].login = store'.login \/ raced' # {}
  BY DEF FreshInv
<1> QED BY <1>2, <1>3 DEF FreshInv

\* A refresh that begins leaves the others as they are.
LEMMA BeginsBeside ==
  ASSUME NEW n \in Runs, NEW by, NEW session, NEW held, Begins(n, by, session, held)
  PROVE  /\ Active(n)' /\ run'[n].login = session.login /\ run'[n].by = by
         /\ \A m \in Runs : m # n => run'[m] = run[m] /\ (Active(m)' <=> Active(m))
BY DEF Begins, Active

\* One that ends does too.
LEMMA EndsBeside ==
  ASSUME NEW n \in Runs, Ends(n)
  PROVE  ~Active(n)' /\ \A m \in Runs : m # n => run'[m] = run[m] /\ (Active(m)' <=> Active(m))
BY DEF Ends, Active

\* So does one that is served, and it goes on.
LEMMA ServedBeside ==
  ASSUME NEW n \in Runs, RunIsServed(n)
  PROVE  /\ Active(n) /\ Active(n)' /\ run'[n].login = run[n].login /\ run'[n].by = run[n].by
         /\ \A m \in Runs : m # n => run'[m] = run[m] /\ (Active(m)' <=> Active(m))
BY DEF RunIsServed, Active

\* A session that is closed has its refreshes on record.
LEMMA FreshClosed ==
  ASSUME TypeInv, FreshInv, Closed, store' = NoSession, run' = run PROVE FreshInv'
<1>1. KeptFresh'
  BY DEF KeptFresh
<1>2. ASSUME NEW n \in Runs, Active(n) PROVE raced' # {}
  BY <1>2, ClosedEffect DEF FreshInv, Racing
<1>3. \A n \in Runs : Active(n)' <=> Active(n)
  BY DEF Active
<1> QED BY <1>1, <1>2, <1>3 DEF FreshInv

\* The chain of refreshes goes on while the user is signed in.
LEMMA FreshStep == ASSUME TypeInv, TypeInv', FlagInv, FreshInv, [Next]_vars PROVE FreshInv'
<1> DEFINE Fresh == FreshInv'
<1>0. store \in SessionType /\ store' \in SessionType /\ "timer" \in Causes /\ "request" \in Causes
  BY DEF TypeInv, Causes
<1>a. ASSUME run' = run, UNCHANGED <<store, timer, loose, stalled, raced>> PROVE FreshInv'
  BY <1>a, FreshKept DEF Active
<1>b. ASSUME NEW n \in Runs, ~Active(n), NEW by, NEW held, Begins(n, by, store, held),
             UNCHANGED <<store, timer, loose, stalled, raced>>
      PROVE  FreshInv'
  <2>1. \A m \in Runs : Active(m) => Active(m)' /\ run'[m].by = run[m].by
    BY <1>b, BeginsBeside
  <2>2. \A m \in Runs : Active(m)' => run'[m].login = store.login \/ (Active(m) /\ run'[m].login = run[m].login)
    <3>1. run'[n].login = store.login /\ \A m \in Runs : m # n => run'[m] = run[m] /\ (Active(m)' <=> Active(m))
      BY <1>b, BeginsBeside
    <3> QED BY <3>1 DEF Active
  <2> QED BY <1>b, <2>1, <2>2, FreshKept
<1>c. ASSUME NEW n \in Runs, ~Active(n), NEW held, Begins(n, "timer", store', held), raced' = raced,
             \A m \in Runs : Active(m) => run[m].login = store'.login \/ raced # {}
      PROVE  FreshInv'
  <2>1. Chained(n)'
    BY <1>c, BeginsBeside DEF Chained
  <2>2. KeptFresh'
    BY <2>1 DEF KeptFresh
  <2>3. \A m \in Runs : Active(m)' => run'[m].login = store'.login \/ raced' # {}
    BY <1>c, BeginsBeside
  <2> QED BY <2>2, <2>3 DEF FreshInv
<1>d. ASSUME run' = run, timer' \/ stalled', raced' = raced,
             \A m \in Runs : Active(m) => run[m].login = store'.login \/ raced # {}
      PROVE  FreshInv'
  BY <1>d DEF FreshInv, KeptFresh, Active
<1>e. ASSUME Schedule(store'), raced' = raced,
             \A m \in Runs : Active(m) => run[m].login = store'.login \/ raced # {}
      PROVE  FreshInv'
  <2>1. CASE run' = run /\ (timer' = TRUE \/ stalled' = TRUE)
    BY <1>d, <1>e, <2>1
  <2>2. CASE \E n \in Runs : ~Active(n) /\ Begins(n, "timer", store', TRUE)
    BY <1>c, <1>e, <2>2
  <2> QED BY <1>0, <1>e, <2>1, <2>2, ScheduleEffect
<1>1. CASE SignIn
  <2>1. Schedule(store') /\ raced' = raced
    BY <1>1, SignInEffect DEF SignIn
  <2>2. \A m \in Runs : Active(m) => run[m].login # 0
    BY LoginsArePositive DEF TypeInv
  <2>3. store.login = 0
    BY <1>1, StoreIs DEF SignIn
  <2> QED BY <1>e, <2>1, <2>2, <2>3 DEF FreshInv
<1>2. CASE StartAutoRefreshToken
  BY <1>2, <1>e DEF StartAutoRefreshToken, FreshInv
<1>3. CASE Fire
  <2>1. store' = store /\ raced' = raced
    BY <1>3 DEF Fire
  <2>2. CASE loading /\ run' = run
    <3>1. \E n \in Runs : Chained(n)
      BY <2>2 DEF FlagInv, Chained
    <3>2. \E n \in Runs : Chained(n)'
      BY <2>2, <3>1 DEF Chained, Active
    <3> QED BY <2>1, <2>2, <3>2 DEF FreshInv, KeptFresh, Active
  <2>3. CASE store = NoSession /\ run' = run
    BY <2>1, <2>3 DEF FreshInv, KeptFresh, Active
  <2>4. CASE \E n \in Runs : Start(n, "timer", store)
    <3>1. PICK n \in Runs : ~Active(n) /\ Begins(n, "timer", store, "timer" = "timer")
      BY <1>0, <2>4, StartEffect
    <3> QED BY <1>c, <2>1, <3>1 DEF FreshInv
  <2> QED BY <1>3, <2>2, <2>3, <2>4 DEF Fire
<1>4. ASSUME NEW n \in Runs, NEW by \in Causes, RefreshNow(n, by) \/ (by = "request" /\ Reject(n))
      PROVE  FreshInv'
  <2>1. ~Active(n) /\ Begins(n, by, store, by = "timer")
    BY <1>0, <1>4, StartEffect DEF RefreshNow, Reject
  <2>2. UNCHANGED <<store, timer, loose, stalled, raced>>
    BY <1>4 DEF RefreshNow, Reject, timing
  <2> QED BY <1>b, <2>1, <2>2
<1>5. ASSUME NEW n \in Runs, ServerRefresh(n) \/ RefreshFails(n) PROVE FreshInv'
  <2>1. RunIsServed(n)
    BY <1>5, ServedEffect
  <2>2. UNCHANGED <<store, timer, loose, stalled, raced>>
    BY <1>5 DEF ServerRefresh, RefreshFails, timing, history
  <2>3. \A m \in Runs : Active(m) => Active(m)' /\ run'[m].by = run[m].by
    BY <2>1, ServedBeside
  <2>4. \A m \in Runs : Active(m)' => run'[m].login = store.login \/ (Active(m) /\ run'[m].login = run[m].login)
    BY <2>1, ServedBeside
  <2> QED BY <2>2, <2>3, <2>4, FreshKept
<1>6. ASSUME NEW n \in Runs, Receive(n) PROVE FreshInv'
  <2>0. Active(n) /\ raced' = raced /\ run[n].login # 0
    BY <1>6, LoginsArePositive DEF Receive, Active, TypeInv
  <2>1. run[n].login = store.login \/ raced # {}
    BY <2>0 DEF FreshInv
  <2>2. store' = Answered(n) \/ store' = store
    BY <1>6 DEF Receive
  <2>3. store'.login = store.login \/ raced # {}
    BY <2>1, <2>2, AnsweredIs
  <2>4. \A m \in Runs : Active(m)' => run'[m].login = store'.login \/ raced' # {}
    <3>1. \A m \in Runs : Active(m)' => Active(m) /\ run'[m].login = run[m].login
      <4>1. CASE Ends(n)
        BY <4>1, EndsBeside
      <4>2. CASE Begins(n, run[n].by, Answered(n), TRUE)
        <5>1. run'[n].login = Answered(n).login /\ \A m \in Runs : m # n => run'[m] = run[m] /\ (Active(m)' <=> Active(m))
          BY <4>2, BeginsBeside
        <5> QED BY <2>0, <5>1, AnsweredIs
      <4> QED BY <1>6, <4>1, <4>2, ReceiveEffect DEF RunEnds, RunGoesOn
    <3> QED BY <2>0, <2>3, <3>1 DEF FreshInv
  <2>5. CASE run[n].by = "all" /\ Ends(n) /\ UNCHANGED <<timer, loose, stalled>>
    <3>1. store' # NoSession => store # NoSession \/ raced # {}
      BY <2>0, <2>1, <2>2, StoreIs
    <3>2. \A m \in Runs : Chained(m) => Chained(m)'
      BY <2>5, EndsBeside DEF Chained
    <3>3. KeptFresh'
      BY <2>0, <2>5, <3>1, <3>2 DEF FreshInv, KeptFresh
    <3> QED BY <2>4, <3>3 DEF FreshInv
  <2>6. CASE timer' = TRUE \/ stalled' = TRUE
    BY <2>4, <2>6 DEF FreshInv, KeptFresh
  <2>7. CASE run[n].by # "all" /\ Begins(n, run[n].by, Answered(n), TRUE)
    <3>1. Chained(n)'
      BY <2>7, BeginsBeside DEF Chained
    <3> QED BY <2>4, <3>1 DEF FreshInv, KeptFresh
  <2>8. Continue(n) => FreshInv'
    BY <2>5, <2>6, <2>7, ContinueEffect DEF SetTimer
  <2>9. EndFailed(n) /\ UNCHANGED timing /\ (run[n].by = "all" \/ Fails)
        /\ (run[n].by = "all" => UNCHANGED stalled) => FreshInv'
    BY <2>5, <2>6, EndEffect DEF EndFailed, Fails, timing
  <2> QED BY <1>6, <2>8, <2>9 DEF Receive
<1>7. CASE SignOut \/ Revoked
  BY <1>7, FreshClosed DEF SignOut, Revoked, ClearSession, Closes
<1>8. CASE SignOutForError
  <2>1. run' = run /\ stalled' = stalled
    BY <1>8 DEF SignOutForError
  <2>2. CASE ClearSession
    BY <2>1, <2>2, FreshClosed DEF ClearSession, Closes
  <2>3. CASE UNCHANGED <<store, timing, closed, raced, twice>>
    BY <1>a, <2>1, <2>3 DEF timing
  <2> QED BY <1>8, <2>2, <2>3 DEF SignOutForError
<1>9. CASE Revoke \/ RevokeFails \/ UNCHANGED vars
  BY <1>9, <1>a DEF Revoke, RevokeFails, vars, timing, history
<1>10. ASSUME NEW q \in Requests, Wait(q) \/ Retry(q) PROVE FreshInv'
  BY <1>10, <1>a DEF Wait, Retry, timing, history
<1>11. ASSUME NEW l \in 1..MaxLogins, ServerEnds(l) PROVE FreshInv'
  BY <1>11, <1>a DEF ServerEnds, timing, history
<1>12. ASSUME NEW n \in Runs, Reject(n) PROVE FreshInv'
  BY <1>0, <1>4, <1>12
<1>f. FreshInv' <=> Fresh
  OBVIOUS
<1> HIDE DEF Fresh
<1> QED
  BY <1>f, <1>1, <1>2, <1>3, <1>4, <1>5, <1>6, <1>7, <1>8, <1>9, <1>10, <1>11, <1>12 DEF Next

-----------------------------------------------------------------------------
(* One chain *)

\* The one refresh of the timer, and no timer beside it.
ChainIsOne == \A n, m \in Runs : Active(n) /\ Active(m) /\ run[n].by = "timer" /\ run[m].by = "timer" => n = m
NoChain    == ~\E n \in Runs : Active(n) /\ run[n].by = "timer"

LEMMA ChainIs ==
  /\ ChainInv <=> (~twice => loose = 0 /\ (timer => NoChain) /\ ChainIsOne)
  /\ ChainInv' <=> (~twice' => loose' = 0 /\ (timer' => NoChain') /\ ChainIsOne')
BY DEF ChainInv, OneChain, ChainIsOne, NoChain, Chained

\* Refreshes of the timer that are there after a step were there before it.
LEMMA ChainKept ==
  ASSUME \A m \in Runs : Active(m)' /\ run'[m].by = "timer" => Active(m) /\ run[m].by = "timer"
  PROVE  (NoChain => NoChain') /\ (ChainIsOne => ChainIsOne')
BY DEF NoChain, ChainIsOne

\* The chains of refreshes do not multiply.
LEMMA ChainStep == ASSUME TypeInv, TypeInv', TimerInv, ChainInv, [Next]_vars PROVE ChainInv'
<1>0. store \in SessionType /\ store' \in SessionType /\ "timer" \in Causes /\ "request" \in Causes
  BY DEF TypeInv, Causes
<1>1. ~twice => loose = 0 /\ (timer => NoChain) /\ ChainIsOne
  BY ChainIs
<1> DEFINE Chain == ~twice' => loose' = 0 /\ (timer' => NoChain') /\ ChainIsOne'
<1> SUFFICES Chain
  BY ChainIs
<1>k. (\A m \in Runs : Active(m)' /\ run'[m].by = "timer" => Active(m) /\ run[m].by = "timer")
        => (NoChain => NoChain') /\ (ChainIsOne => ChainIsOne')
  BY ChainKept
<1>u. run' = run => (NoChain => NoChain') /\ (ChainIsOne => ChainIsOne')
  BY ChainKept DEF Active
<1>b. ASSUME NEW n \in Runs, NEW session, NEW held, ~Active(n), Begins(n, "timer", session, held), NoChain
      PROVE  ChainIsOne'
  <2>1. \A m \in Runs : m # n => run'[m] = run[m] /\ (Active(m)' <=> Active(m))
    BY <1>b, BeginsBeside
  <2> QED BY <1>b, <2>1 DEF NoChain, ChainIsOne, Active
<1>a. UNCHANGED <<run, timer, loose, twice>> => Chain
  BY <1>1, <1>u
<1>e. ASSUME NEW session \in SessionType, Schedule(session) PROVE Chain
  <2> SUFFICES ASSUME ~twice' PROVE loose' = 0 /\ (timer' => NoChain') /\ ChainIsOne'
    OBVIOUS
  <2>1. ~twice /\ loose = 0 /\ loose' = 0 /\ ChainIsOne /\ \A n \in Runs : ~Chained(n)
    BY <1>1, <1>e, ScheduleEffect
  <2>2. NoChain
    BY <2>1 DEF NoChain, Chained
  <2>3. CASE run' = run
    BY <1>u, <2>1, <2>2, <2>3
  <2>4. CASE timer' = FALSE /\ \E n \in Runs : ~Active(n) /\ Begins(n, "timer", session, TRUE)
    BY <1>b, <2>1, <2>2, <2>4
  <2> QED BY <1>e, <2>3, <2>4, ScheduleEffect
<1>d. ASSUME Closes, run' = run PROVE Chain
  <2>1. twice' = (twice \/ timer \/ loose > 0) /\ timer' = FALSE
    BY <1>d DEF Closes
  <2>2. ~twice' => ~twice /\ ~timer /\ loose' = loose
    BY <1>d, <2>1, LoosenEffect DEF Closes
  <2> QED BY <1>1, <1>u, <1>d, <2>1, <2>2
<1>2. CASE SignIn
  <2>1. Schedule(store')
    BY <1>2, SignInEffect
  <2> QED BY <1>0, <1>e, <2>1
<1>3. CASE StartAutoRefreshToken
  BY <1>0, <1>3, <1>e DEF StartAutoRefreshToken
<1>4. CASE Fire
  <2> SUFFICES ASSUME ~twice' PROVE loose' = 0 /\ (timer' => NoChain') /\ ChainIsOne'
    OBVIOUS
  <2>1. ~twice /\ loose = 0 /\ (timer => NoChain) /\ ChainIsOne
    BY <1>1, <1>4 DEF Fire
  <2>2. timer /\ timer' = FALSE /\ loose' = loose
    BY <1>4, <2>1 DEF Fire, Unset
  <2>3. CASE run' = run
    BY <1>u, <2>1, <2>2, <2>3
  <2>4. ASSUME NEW n \in Runs, Start(n, "timer", store) PROVE ChainIsOne'
    <3>1. ~Active(n) /\ Begins(n, "timer", store, "timer" = "timer")
      BY <1>0, <2>4, StartEffect
    <3> QED BY <1>b, <2>1, <2>2, <3>1
  <2> QED BY <1>4, <2>1, <2>2, <2>3, <2>4 DEF Fire
<1>5. ASSUME NEW n \in Runs, NEW by \in Causes, by # "timer", Start(n, by, store), UNCHANGED <<timer, loose, twice>>
      PROVE  Chain
  <2>1. ~Active(n) /\ Begins(n, by, store, by = "timer")
    BY <1>0, <1>5, StartEffect
  <2>2. run'[n].by # "timer" /\ \A m \in Runs : m # n => run'[m] = run[m] /\ (Active(m)' <=> Active(m))
    BY <1>5, <2>1, BeginsBeside
  <2>3. \A m \in Runs : Active(m)' /\ run'[m].by = "timer" => Active(m) /\ run[m].by = "timer"
    BY <2>2 DEF Active
  <2> QED BY <1>1, <1>5, <1>k, <2>3
<1>6. ASSUME NEW n \in Runs, NEW by \in Causes, RefreshNow(n, by) PROVE Chain
  BY <1>5, <1>6 DEF RefreshNow, timing
<1>7. ASSUME NEW n \in Runs, Reject(n) PROVE Chain
  BY <1>0, <1>5, <1>7 DEF Reject, timing
<1>8. ASSUME NEW n \in Runs, ServerRefresh(n) \/ RefreshFails(n) PROVE Chain
  <2>1. RunIsServed(n)
    BY <1>8, ServedEffect
  <2>2. UNCHANGED <<timer, loose, twice>>
    BY <1>8 DEF ServerRefresh, RefreshFails, timing, history
  <2>3. Active(n) /\ run'[n].by = run[n].by /\ \A m \in Runs : m # n => run'[m] = run[m]
    BY <2>1, ServedBeside
  <2>4. \A m \in Runs : Active(m)' /\ run'[m].by = "timer" => Active(m) /\ run[m].by = "timer"
    BY <2>3 DEF Active
  <2> QED BY <1>1, <1>k, <2>2, <2>4
<1>9. ASSUME NEW n \in Runs, Receive(n) PROVE Chain
  <2>0. Active(n)
    BY <1>9 DEF Receive, Active
  <2>1. \A m \in Runs : Active(m)' /\ run'[m].by = "timer" => Active(m) /\ run[m].by = "timer"
    <3>1. CASE Ends(n)
      BY <3>1 DEF Ends, Active
    <3>2. CASE Begins(n, run[n].by, Answered(n), TRUE)
      BY <2>0, <3>2 DEF Begins, Active
    <3> QED BY <1>9, <3>1, <3>2, ReceiveEffect DEF RunEnds, RunGoesOn
  <2>2. (NoChain => NoChain') /\ (ChainIsOne => ChainIsOne')
    BY <1>k, <2>1
  <2>3. CASE UNCHANGED <<timer, loose, twice>>
    BY <1>1, <2>2, <2>3
  <2>4. CASE End(n) /\ SetTimer /\ run[n].by # "all" /\ twice' = (twice \/ run[n].by \in {"app", "request"})
    <3> SUFFICES ASSUME ~twice' PROVE loose' = 0 /\ NoChain' /\ ChainIsOne'
      OBVIOUS
    <3>1. run[n].by \in Causes
      BY Fields DEF TypeInv
    <3>2. ~twice /\ run[n].by = "timer"
      BY <2>4, <3>1 DEF Causes
    <3>3. ~timer /\ loose = 0 /\ ChainIsOne
      BY <1>1, <2>0, <3>2 DEF NoChain
    <3>4. loose' = 0
      BY <2>4, <3>3, LoosenEffect DEF SetTimer
    <3>5. Ends(n)
      BY <2>4, EndEffect
    <3>6. NoChain'
      BY <2>0, <3>2, <3>3, <3>5 DEF NoChain, ChainIsOne, Ends, Active
    <3> QED BY <2>2, <3>3, <3>4, <3>6
  <2>5. Continue(n) => Chain
    BY <2>3, <2>4, ContinueEffect
  <2> QED BY <1>9, <2>3, <2>5 DEF Receive, timing
<1>10. CASE SignOut
  BY <1>10, <1>d DEF SignOut, ClearSession
<1>11. CASE SignOutForError
  BY <1>11, <1>a, <1>d DEF SignOutForError, ClearSession, timing
<1>12. CASE Revoked
  <2>1. ~twice' => ~twice /\ ~(loose' > 0)
    BY <1>12 DEF Revoked
  <2>2. loose' \in Nat
    BY DEF TypeInv
  <2>3. ~twice' => loose' = 0
    BY <2>1, <2>2
  <2> QED BY <1>1, <1>u, <1>12, <2>1, <2>3 DEF Revoked
<1>13. CASE Revoke \/ RevokeFails \/ UNCHANGED vars
  BY <1>13, <1>a DEF Revoke, RevokeFails, vars, timing, history
<1>14. ASSUME NEW q \in Requests, Wait(q) \/ Retry(q) PROVE Chain
  BY <1>14, <1>a DEF Wait, Retry, timing, history
<1>15. ASSUME NEW l \in 1..MaxLogins, ServerEnds(l) PROVE Chain
  BY <1>15, <1>a DEF ServerEnds, timing, history
<1> HIDE DEF Chain
<1> QED
  BY <1>2, <1>3, <1>4, <1>6, <1>7, <1>8, <1>9, <1>10, <1>11, <1>12, <1>13, <1>14, <1>15 DEF Next

-----------------------------------------------------------------------------
(* What ends a session *)

\* What is put down to a login stays so.
LEMMA SpentStays ==
  ASSUME closed \subseteq closed', excused \subseteq excused', ended \subseteq ended'
  PROVE  \A l : (Spent(l) => Spent(l)') /\ (Dead(l) => Dead(l)')
BY DEF Spent, Dead

\* Steps that change no refresh, no session and no token of the server.
LEMMA DeadKept ==
  ASSUME DeadInv, UNCHANGED <<run, store, gens, closed, raced>>,
         excused \subseteq excused', ended \subseteq ended',
         erred' /\ store # NoSession => erred
  PROVE  DeadInv'
<1>1. \A l : (Spent(l) => Spent(l)') /\ (Dead(l) => Dead(l)') /\ (Racing(l)' <=> Racing(l))
  BY SpentStays DEF Racing, Active
<1>2. ASSUME NEW n \in Runs, Active(n)' PROVE InOrder(n)'
  <2>1. InOrder(n)
    BY <1>2 DEF DeadInv, Active
  <2> QED BY <1>1, <2>1 DEF InOrder, Active
<1>3. store' # NoSession => Racing(store.login)' \/ store'.gen = gens'[store'.login] \/ Dead(store.login)'
  BY <1>1 DEF DeadInv
<1>4. erred' /\ store' # NoSession => Dead(store.login)'
  BY <1>1 DEF DeadInv
<1>5. SignedOutStays'
  BY DEF DeadInv, SignedOutStays
<1> QED BY <1>2, <1>3, <1>4, <1>5 DEF DeadInv

\* A refresh of the session that is stored begins; beside another of the login, that is put down to it.
LEMMA DeadBegins ==
  ASSUME TypeInv, DeadInv, NEW n \in Runs, ~Active(n), NEW by, NEW held, Begins(n, by, store, held),
         store # NoSession, Overlap(store.login), UNCHANGED <<store, gens, ended, closed, raced, erred>>
  PROVE  DeadInv'
<1>1. excused \subseteq excused' /\ (Racing(store.login) => store.login \in excused')
  BY DEF Overlap
<1>2. \A l : (Spent(l) => Spent(l)') /\ (Dead(l) => Dead(l)')
  BY <1>1, SpentStays
<1>3. /\ Active(n)' /\ run'[n].login = store.login /\ run'[n].gen = store.gen /\ run'[n].pc = "sent"
      /\ \A m \in Runs : m # n => run'[m] = run[m] /\ (Active(m)' <=> Active(m))
  BY BeginsBeside DEF Begins
<1>4. Racing(store.login)'
  BY <1>3 DEF Racing
<1>5. ASSUME NEW m \in Runs, Active(m)', m # n PROVE InOrder(m)'
  <2>1. InOrder(m) /\ run'[m] = run[m] /\ Active(m)
    BY <1>3, <1>5 DEF DeadInv
  <2>2. run[m].login = store.login => store.login \in excused'
    BY <1>1, <2>1 DEF Racing
  <2>3. \A k \in Runs : Active(k)' /\ k # m /\ run'[k].login = run'[m].login => run'[m].login \in excused'
    BY <1>1, <1>3, <2>1, <2>2 DEF InOrder
  <2> QED BY <1>2, <2>1, <2>3 DEF InOrder
<1>6. InOrder(n)'
  <2>1. \A k \in Runs : Active(k)' /\ k # n /\ run'[k].login = run'[n].login => run'[n].login \in excused'
    BY <1>1, <1>3 DEF Racing
  <2>2. run'[n].gen = gens'[run'[n].login] \/ Dead(run[n].login)'
    <3>1. store.login \in excused' \/ store.gen = gens[store.login] \/ Dead(store.login)
      BY <1>1 DEF DeadInv
    <3> QED BY <1>2, <1>3, <3>1 DEF Dead, Spent
  <2>3. run'[n].login \in closed' => run'[n].login \in raced'
    BY <1>3 DEF DeadInv, SignedOutStays
  <2> QED BY <1>3, <2>1, <2>2, <2>3 DEF InOrder
<1>7. erred' /\ store' # NoSession => Dead(store.login)'
  BY <1>2 DEF DeadInv
<1>8. SignedOutStays'
  BY DEF DeadInv, SignedOutStays
<1>9. \A m \in Runs : Active(m)' => InOrder(m)'
  BY <1>5, <1>6
<1> QED BY <1>4, <1>7, <1>8, <1>9 DEF DeadInv

\* A session that is closed is gone, and so are those of its refreshes on record.
LEMMA DeadCloses ==
  ASSUME TypeInv, DeadInv, Closed, store' = NoSession, UNCHANGED <<run, gens, ended, excused>>
  PROVE  DeadInv'
<1>1. /\ closed \subseteq closed' /\ raced \subseteq raced' /\ closed' \subseteq Logins
      /\ \A l \in closed' : l \in closed \/ l = store.login
      /\ store # NoSession => store.login \in closed'
      /\ Racing(store.login) => store.login \in raced'
  BY ClosedEffect
<1>2. \A l : (Spent(l) => Spent(l)') /\ (Dead(l) => Dead(l)')
  BY <1>1, SpentStays
<1>3. store'.login = 0
  BY Fields
<1>4. ASSUME NEW n \in Runs, Active(n)' PROVE InOrder(n)'
  <2>1. Active(n) /\ InOrder(n) /\ run[n].login # 0
    BY <1>4, LoginsArePositive DEF DeadInv, Active, TypeInv
  <2>2. run[n].login = store.login => run[n].login \in closed'
    BY <1>1, <2>1, StoreIs
  <2>3. run[n].login \in closed' => run[n].login \in raced'
    BY <1>1, <2>1 DEF InOrder, Racing
  <2>4. \A k \in Runs : Active(k)' /\ k # n /\ run'[k].login = run'[n].login => run'[n].login \in excused'
    BY <2>1 DEF InOrder, Active
  <2>5. Spent(run[n].login)'
    BY <1>2, <2>1, <2>2 DEF InOrder, Spent
  <2> QED BY <1>2, <1>3, <2>1, <2>3, <2>4, <2>5 DEF InOrder
<1>5. SignedOutStays'
  BY <1>1, <1>3, LoginsArePositive DEF SignedOutStays
<1> QED BY <1>4, <1>5 DEF DeadInv

\* The answer of a refresh that went well is stored: the session of the login it was of.
LEMMA DeadAnswered ==
  ASSUME TypeInv, DeadInv, NEW n \in Runs, run[n].pc = "ok", store' = Answered(n),
         excused \subseteq excused', UNCHANGED <<gens, ended, closed, raced, erred>>,
         Ends(n) \/ /\ Begins(n, run[n].by, Answered(n), TRUE)
                    /\ \A m \in Runs : Active(m) /\ m # n /\ run[m].login = run[n].login
                         => run[n].login \in excused'
  PROVE  DeadInv'
<1> DEFINE l == run[n].login
<1>1. \A k : (Spent(k) => Spent(k)') /\ (Dead(k) => Dead(k)')
  BY SpentStays
<1>2. Active(n) /\ InOrder(n) /\ l # 0 /\ store'.login = l /\ store'.gen = run[n].gen
  BY AnsweredIs, LoginsArePositive DEF Active, DeadInv, TypeInv
<1>3. /\ run[n].gen = gens[l] \/ Dead(l)
      /\ l = store.login \/ Spent(l)
      /\ l = store.login \/ store.login = 0 \/ Spent(store.login)
      /\ l \in closed => l \in raced
  BY <1>2 DEF InOrder
<1>4. \A m \in Runs : m # n => run'[m] = run[m] /\ (Active(m)' <=> Active(m))
  BY EndsBeside, BeginsBeside
<1>5. Active(n)' => /\ run'[n].login = l /\ run'[n].gen = run[n].gen /\ run'[n].pc = "sent"
                    /\ \A m \in Runs : Active(m) /\ m # n /\ run[m].login = l => l \in excused'
  BY EndsBeside, AnsweredIs DEF Begins
<1> HIDE DEF l
<1>6. ASSUME NEW m \in Runs, Active(m)', m # n PROVE InOrder(m)'
  <2>1. InOrder(m) /\ run'[m] = run[m] /\ Active(m) /\ run[m].login # 0
    BY <1>4, <1>6, LoginsArePositive DEF DeadInv, TypeInv
  <2>2. run[m].login = l \/ Spent(run[m].login)
    BY <1>3, <2>1 DEF InOrder
  <2>3. run[m].login = l \/ Spent(l)
    <3>1. CASE Spent(l)
      BY <3>1
    <3>2. CASE l = store.login
      BY <1>2, <2>1, <3>2 DEF InOrder
    <3> QED BY <1>3, <3>1, <3>2
  <2>4. \A k \in Runs : Active(k)' /\ k # m /\ run'[k].login = run'[m].login => run'[m].login \in excused'
    <3> SUFFICES ASSUME NEW k \in Runs, Active(k)', k # m, run'[k].login = run'[m].login
                 PROVE  run'[m].login \in excused'
      OBVIOUS
    <3>1. Active(k) /\ run[k].login = run[m].login
      BY <1>2, <1>4, <1>5, <2>1 DEF l
    <3> QED BY <2>1, <3>1 DEF InOrder
  <2> QED BY <1>1, <1>2, <2>1, <2>2, <2>3, <2>4 DEF InOrder
<1>7. ASSUME Active(n)' PROVE InOrder(n)'
  <2>1. \A k \in Runs : Active(k)' /\ k # n /\ run'[k].login = run'[n].login => run'[n].login \in excused'
    BY <1>4, <1>5, <1>7
  <2> QED BY <1>1, <1>2, <1>3, <1>5, <1>7, <2>1 DEF InOrder
<1>8. store'.gen = gens'[store'.login] \/ Dead(store.login)'
  BY <1>1, <1>2, <1>3
<1>9. erred' /\ store' # NoSession => Dead(store.login)'
  <2>1. store = NoSession => store.login = 0
    BY StoreIs
  <2>2. erred => Dead(l)
    BY <1>2, <1>3, <2>1 DEF DeadInv, Dead
  <2> QED BY <1>1, <1>2, <2>2
<1>10. SignedOutStays'
  BY <1>2, <1>3 DEF SignedOutStays
<1>11. \A m \in Runs : Active(m)' => InOrder(m)'
  BY <1>6, <1>7
<1> QED BY <1>8, <1>9, <1>10, <1>11 DEF DeadInv

\* A refresh that failed is given up, and its error may be said: its login has come to an end.
LEMMA DeadFailed ==
  ASSUME TypeInv, DeadInv, NEW n \in Runs, run[n].pc = "failed", Ends(n),
         UNCHANGED <<store, gens, ended, closed, raced, excused>>
  PROVE  DeadInv'
<1>1. \A k : (Spent(k)' <=> Spent(k)) /\ (Dead(k)' <=> Dead(k))
  BY DEF Spent, Dead
<1>2. Active(n) /\ InOrder(n) /\ run[n].login # 0
  BY LoginsArePositive DEF Active, DeadInv, TypeInv
<1>3. ~Active(n)' /\ \A m \in Runs : m # n => run'[m] = run[m] /\ (Active(m)' <=> Active(m))
  BY EndsBeside
<1>4. Dead(run[n].login)
  BY <1>2 DEF InOrder
<1>5. ASSUME NEW m \in Runs, Active(m)' PROVE InOrder(m)'
  <2>1. InOrder(m) /\ run'[m] = run[m] /\ Active(m)
    BY <1>3, <1>5 DEF DeadInv
  <2>2. \A k \in Runs : Active(k)' /\ k # m /\ run'[k].login = run'[m].login => run'[m].login \in excused'
    BY <1>3, <2>1 DEF InOrder
  <2> QED BY <1>1, <2>1, <2>2 DEF InOrder
<1>6. store # NoSession => Dead(store.login)
  BY <1>2, <1>4, StoreIs DEF InOrder, Dead
<1>7. SignedOutStays'
  BY DEF DeadInv, SignedOutStays
<1> QED BY <1>1, <1>5, <1>6, <1>7 DEF DeadInv

\* A sign-in: nothing is put down to its login, unless a refresh or an error is still about.
LEMMA DeadSignIn == ASSUME TypeInv, DeadInv, SignIn PROVE DeadInv'
<1>1. PICK l \in Nat, short \in BOOLEAN :
        /\ l \notin Logins /\ gens'[l] = 1 /\ \A j \in Logins : gens'[j] = gens[j]
        /\ store' = [login |-> l, gen |-> 1, short |-> short] /\ store' \in SessionType /\ l # 0
        /\ Schedule(store')
        /\ excused' = IF erred \/ \E n \in Runs : Active(n) THEN excused \cup {l} ELSE excused
  BY SignInEffect
<1>2. UNCHANGED <<erred, ended, closed, raced>> /\ store.login = 0
  BY StoreIs DEF SignIn
<1>3. store'.login = l /\ store'.gen = 1
  BY <1>1
<1>4. excused \subseteq excused' /\ (erred \/ (\E n \in Runs : Active(n)) => l \in excused')
  BY <1>1
<1>5. \A k : (Spent(k) => Spent(k)') /\ (Dead(k) => Dead(k)')
  BY <1>2, <1>4, SpentStays
<1>6. l \notin closed' /\ l \notin raced'
  BY <1>1, <1>2 DEF TypeInv
<1>7. ASSUME NEW m \in Runs, Active(m)
      PROVE  InOrder(m) /\ run[m].login # 0 /\ run[m].login \in Logins /\ run[m].login # l /\ l \in excused'
             /\ Spent(run[m].login)
  <2>1. InOrder(m) /\ run[m].login # 0 /\ run[m].login \in Logins /\ run[m].login # l /\ l \in excused'
    BY <1>1, <1>4, <1>7, LoginsArePositive DEF TypeInv, DeadInv
  <2> QED BY <1>2, <2>1 DEF InOrder
<1>8. ASSUME NEW m \in Runs, Active(m), run'[m] = run[m],
             \A k \in Runs : Active(k)' => (Active(k) /\ run'[k] = run[k]) \/ run'[k].login = l
      PROVE  InOrder(m)'
  <2>1. InOrder(m) /\ run[m].login \in Logins /\ run[m].login # l /\ l \in excused' /\ Spent(run[m].login)
    BY <1>7, <1>8
  <2>2. \A k \in Runs : Active(k)' /\ k # m /\ run'[k].login = run'[m].login => run'[m].login \in excused'
    BY <1>4, <1>8, <2>1 DEF InOrder
  <2>3. Spent(run[m].login)' /\ Spent(store.login)'
    BY <1>3, <1>5, <1>8, <2>1 DEF Spent
  <2>4. run'[m].pc \in {"sent", "ok"} => run'[m].gen = gens'[run'[m].login] \/ Dead(run[m].login)'
    BY <1>1, <1>5, <1>8, <2>1 DEF InOrder
  <2>5. run'[m].pc = "failed" => Dead(run[m].login)'
    BY <1>5, <1>8, <2>1 DEF InOrder
  <2>6. run'[m].login \in closed' => run'[m].login \in raced'
    BY <1>2, <1>8, <2>1 DEF InOrder
  <2> QED BY <2>2, <2>3, <2>4, <2>5, <2>6 DEF InOrder
<1>9. \A m \in Runs : Active(m)' => InOrder(m)'
  <2>1. CASE run' = run
    BY <1>8, <2>1 DEF Active
  <2>2. ASSUME NEW n \in Runs, ~Active(n), Begins(n, "timer", store', TRUE)
        PROVE  \A m \in Runs : Active(m)' => InOrder(m)'
    <3>1. /\ run'[n].login = l /\ run'[n].gen = 1 /\ run'[n].pc = "sent"
          /\ \A m \in Runs : m # n => run'[m] = run[m] /\ (Active(m)' <=> Active(m))
      BY <1>3, <2>2, BeginsBeside DEF Begins
    <3>2. InOrder(n)'
      <4>1. \A k \in Runs : Active(k)' /\ k # n => run'[k].login # l
        BY <1>7, <3>1
      <4> QED BY <1>1, <1>3, <1>6, <3>1, <4>1 DEF InOrder
    <3>3. ASSUME NEW m \in Runs, m # n, Active(m)' PROVE InOrder(m)'
      <4>1. Active(m) /\ run'[m] = run[m]
        BY <3>1, <3>3
      <4>2. \A k \in Runs : Active(k)' => (Active(k) /\ run'[k] = run[k]) \/ run'[k].login = l
        BY <3>1
      <4> QED BY <1>8, <4>1, <4>2
    <3> QED BY <3>2, <3>3
  <2> QED BY <1>1, <2>1, <2>2, ScheduleEffect
<1>10. store'.gen = gens'[store'.login]
  BY <1>1, <1>3
<1>11. erred' /\ store' # NoSession => Dead(store.login)'
  BY <1>2, <1>3, <1>4 DEF Dead, Spent
<1>12. SignedOutStays'
  BY <1>3, <1>6 DEF SignedOutStays
<1> QED BY <1>9, <1>10, <1>11, <1>12 DEF DeadInv

\* The server answers a refresh: its token is the one expected, or the refresh was refused or lost.
LEMMA DeadServed ==
  ASSUME TypeInv, DeadInv, NEW n \in Runs, ServerRefresh(n) \/ RefreshFails(n) PROVE DeadInv'
<1> DEFINE l == run[n].login
<1>1. /\ run[n].pc = "sent" /\ Active(n) /\ Active(n)' /\ run'[n].login = l
      /\ \A m \in Runs : m # n => run'[m] = run[m] /\ (Active(m)' <=> Active(m))
  BY ServedEffect, ServedBeside DEF RunIsServed
<1>2. InOrder(n) /\ l \in Logins
  BY <1>1 DEF DeadInv, TypeInv
<1>3. /\ UNCHANGED <<store, erred, ended, closed, raced>> /\ excused \subseteq excused'
      /\ \A j \in Logins : j # l => gens'[j] = gens[j]
  BY <1>2 DEF ServerRefresh, RefreshFails, history, TypeInv
<1>4. \A k : (Spent(k) => Spent(k)') /\ (Dead(k) => Dead(k)')
  BY <1>3, SpentStays
<1>5. /\ run'[n].pc \in {"sent", "ok"} => run'[n].gen = gens'[l] \/ Dead(l)'
      /\ run'[n].pc = "failed" => Dead(l)'
  <2>1. CASE ServerRefresh(n)
    <3>1. run'[n].pc = "ok" /\ run'[n].gen = run[n].gen + 1
      BY <2>1, ServedEffect DEF RunIsServed
    <3>2. gens'[l] = gens[l] + 1 /\ run[n].gen = gens[l]
      BY <1>2, <2>1 DEF ServerRefresh, Good, TypeInv
    <3> QED BY <3>1, <3>2
  <2>2. CASE RefreshFails(n)
    <3>1. run'[n].pc = "failed"
      BY <2>2, ServedEffect
    <3>2. CASE Good(n)
      BY <2>2, <3>1, <3>2 DEF RefreshFails, Dead, Spent
    <3>3. CASE ~Good(n)
      BY <1>1, <1>2, <1>4, <3>1, <3>3 DEF Good, InOrder, Dead
    <3> QED BY <3>2, <3>3
  <2> QED BY <2>1, <2>2
<1>6. ASSUME NEW m \in Runs, Active(m)' PROVE InOrder(m)'
  <2>1. InOrder(m) /\ run'[m].login = run[m].login /\ Active(m) /\ run[m].login \in Logins
    BY <1>1, <1>2, <1>6 DEF DeadInv, TypeInv
  <2>2. \A k \in Runs : Active(k)' /\ k # m /\ run'[k].login = run'[m].login => run'[m].login \in excused'
    BY <1>1, <1>3, <2>1 DEF InOrder
  <2>3. /\ run'[m].pc \in {"sent", "ok"} => run'[m].gen = gens'[run'[m].login] \/ Dead(run[m].login)'
        /\ run'[m].pc = "failed" => Dead(run[m].login)'
    <3>1. CASE m = n
      BY <1>1, <1>5, <3>1
    <3>2. CASE m # n /\ run[m].login # l
      BY <1>1, <1>3, <1>4, <2>1, <3>2 DEF InOrder
    <3>3. CASE m # n /\ run[m].login = l
      <4>1. l \in excused
        BY <1>1, <2>1, <3>3 DEF InOrder
      <4> QED BY <1>3, <2>1, <3>3, <4>1 DEF Dead, Spent
    <3> QED BY <3>1, <3>2, <3>3
  <2> QED BY <1>3, <1>4, <2>1, <2>2, <2>3 DEF InOrder
<1>7. store' # NoSession => Racing(store.login)' \/ store'.gen = gens'[store'.login] \/ Dead(store.login)'
  <2>1. \A k : Racing(k) => Racing(k)'
    BY <1>1 DEF Racing
  <2>2. store.login = l => Racing(store.login)
    BY <1>1 DEF Racing
  <2> QED BY <1>3, <1>4, <2>1, <2>2, StoreIs DEF DeadInv
<1>8. erred' /\ store' # NoSession => Dead(store.login)'
  BY <1>3, <1>4 DEF DeadInv
<1>9. SignedOutStays'
  BY <1>3 DEF DeadInv, SignedOutStays
<1> QED BY <1>6, <1>7, <1>8, <1>9 DEF DeadInv

\* No step signs out a session the server keeps, or brings back one that was signed out, but those
\* that are put down.
LEMMA DeadStep == ASSUME TypeInv, TypeInv', DeadInv, [Next]_vars PROVE DeadInv'
<1> DEFINE Accounted == DeadInv'
<1>0. store \in SessionType /\ "timer" \in Causes /\ "request" \in Causes /\ (Accounted <=> DeadInv')
  BY DEF TypeInv, Causes
<1> SUFFICES Accounted
  OBVIOUS
<1>1. CASE SignIn
  BY <1>1, DeadSignIn
<1>2. CASE StartAutoRefreshToken
  <2>1. UNCHANGED <<store, gens, ended, closed, raced, erred>> /\ store # NoSession /\ Schedule(store)
        /\ IF run' # run THEN Overlap(store.login) ELSE UNCHANGED excused
    BY <1>2 DEF StartAutoRefreshToken, server
  <2>2. CASE run' = run
    BY <2>1, <2>2, DeadKept
  <2>3. ASSUME NEW n \in Runs, ~Active(n), Begins(n, "timer", store, TRUE) PROVE DeadInv'
    <3>1. run' # run
      BY <2>3 DEF Begins, Active
    <3> QED BY <2>1, <2>3, <3>1, DeadBegins
  <2> QED BY <1>0, <2>1, <2>2, <2>3, ScheduleEffect
<1>3. CASE Fire
  <2>1. UNCHANGED <<store, gens, ended, closed, raced>>
    BY <1>3 DEF Fire, server
  <2>2. CASE run' = run /\ UNCHANGED <<excused, erred>>
    BY <2>1, <2>2, DeadKept
  <2>3. CASE run' = run /\ store = NoSession /\ UNCHANGED excused
    BY <2>1, <2>3, DeadKept
  <2>4. CASE store # NoSession /\ (\E n \in Runs : Start(n, "timer", store)) /\ Overlap(store.login) /\ UNCHANGED erred
    <3>1. PICK n \in Runs : ~Active(n) /\ Begins(n, "timer", store, "timer" = "timer")
      BY <1>0, <2>4, StartEffect
    <3> QED BY <2>1, <2>4, <3>1, DeadBegins
  <2> QED BY <1>3, <2>2, <2>3, <2>4 DEF Fire
<1>4. ASSUME NEW n \in Runs, NEW by \in Causes, RefreshNow(n, by) \/ (by = "request" /\ Reject(n))
      PROVE  Accounted
  <2>1. ~Active(n) /\ Begins(n, by, store, by = "timer")
    BY <1>0, <1>4, StartEffect DEF RefreshNow, Reject
  <2>2. UNCHANGED <<store, gens, ended, closed, raced, erred>> /\ store # NoSession /\ Overlap(store.login)
    BY <1>4 DEF RefreshNow, Reject, server
  <2> QED BY <2>1, <2>2, DeadBegins
<1>5. ASSUME NEW n \in Runs, Reject(n) PROVE Accounted
  BY <1>0, <1>4, <1>5
<1>6. ASSUME NEW n \in Runs, ServerRefresh(n) \/ RefreshFails(n) PROVE Accounted
  BY <1>6, DeadServed
<1>7. ASSUME NEW n \in Runs, Receive(n) PROVE Accounted
  <2>1. UNCHANGED <<gens, ended, closed, raced>>
    BY <1>7 DEF Receive, server
  <2>2. CASE run[n].pc = "ok" /\ store' = Answered(n) /\ Continue(n) /\ UNCHANGED erred
    <3>1. CASE Ends(n) /\ UNCHANGED excused
      BY <2>1, <2>2, <3>1, DeadAnswered
    <3>2. CASE /\ Begins(n, run[n].by, Answered(n), TRUE)
               /\ excused' = IF \E m \in Runs \ {n} : Active(m) /\ run[m].login = run[n].login
                             THEN excused \cup {run[n].login} ELSE excused
      <4>1. excused \subseteq excused'
            /\ \A m \in Runs : Active(m) /\ m # n /\ run[m].login = run[n].login => run[n].login \in excused'
        BY <3>2
      <4> QED BY <2>1, <2>2, <3>2, <4>1, DeadAnswered
    <3> QED BY <2>2, <3>1, <3>2, ContinueEffect
  <2>3. CASE run[n].pc = "failed" /\ EndFailed(n) /\ UNCHANGED <<store, excused>>
    BY <2>1, <2>3, EndEffect, DeadFailed DEF EndFailed
  <2> QED BY <1>7, <2>2, <2>3 DEF Receive
<1>8. CASE SignOut \/ Revoked
  BY <1>8, DeadCloses DEF SignOut, Revoked, ClearSession, Closes, server
<1>9. CASE SignOutForError
  BY <1>9, DeadCloses, DeadKept DEF SignOutForError, ClearSession, Closes, server
<1>10. CASE Revoke \/ RevokeFails \/ UNCHANGED vars
  BY <1>10, DeadKept DEF Revoke, RevokeFails, vars, server, history
<1>11. ASSUME NEW q \in Requests, Wait(q) \/ Retry(q) PROVE Accounted
  BY <1>11, DeadKept DEF Wait, Retry, server, history
<1>12. ASSUME NEW l \in 1..MaxLogins, ServerEnds(l) PROVE Accounted
  BY <1>12, DeadKept DEF ServerEnds, history
<1> HIDE DEF Accounted
<1> QED
  BY <1>0, <1>1, <1>2, <1>3, <1>4, <1>5, <1>6, <1>7, <1>8, <1>9, <1>10, <1>11, <1>12 DEF Next

-----------------------------------------------------------------------------
(* The theorems *)

Inv == TypeInv /\ TimerInv /\ FlagInv /\ FreshInv /\ ChainInv /\ DeadInv

LEMMA InvInit == Init => Inv
<1> SUFFICES ASSUME Init PROVE Inv OBVIOUS
<1>1. TypeInv /\ TimerInv
  BY TypeInit
<1>2. \A n \in Runs : ~Active(n)
  BY Fields DEF Init, Active
<1>3. FlagInv
  BY <1>2 DEF Init, FlagInv
<1>4. FreshInv
  BY <1>2 DEF Init, FreshInv, KeptFresh
<1>5. ChainInv
  BY <1>2 DEF Init, ChainInv, OneChain
<1>6. DeadInv
  BY <1>2 DEF Init, DeadInv, SignedOutStays
<1> QED BY <1>1, <1>3, <1>4, <1>5, <1>6 DEF Inv

LEMMA InvStep == Inv /\ [Next]_vars => Inv'
<1> SUFFICES ASSUME Inv, [Next]_vars PROVE Inv' OBVIOUS
<1>1. TypeInv' /\ TimerInv'
  BY TypeStep DEF Inv
<1>2. FlagInv'
  BY <1>1, FlagStep DEF Inv
<1>3. FreshInv'
  BY <1>1, FreshStep DEF Inv
<1>4. ChainInv'
  BY <1>1, ChainStep DEF Inv
<1>5. DeadInv'
  BY <1>1, DeadStep DEF Inv
<1> QED BY <1>1, <1>2, <1>3, <1>4, <1>5 DEF Inv

LEMMA InvHolds == Spec => []Inv
BY InvInit, InvStep, PTL DEF Spec

\* Every variable keeps to its type.
THEOREM TypesHold == Spec => []TypeOK
<1>1. TypeInv => TypeOK
  BY DEF TypeInv, TypeOK, SessionType, RunType
<1> QED BY <1>1, InvHolds, PTL DEF Inv

\* No request waits for ever, and no timer finds the refresh taken for ever (retryFailedRequests,
\* _isTokenRefreshLoading): a flag that is up has the one refresh that takes it down.
THEOREM FlagsComeDown == Spec => []FlagsHeld
<1>1. FlagInv => FlagsHeld
  BY FlagsAreHeld
<1> QED BY <1>1, InvHolds, PTL DEF Inv

\* The chain of refreshes goes on while the user is signed in (refreshAccessTokenAutomatically).
THEOREM TokenIsKeptFresh == Spec => []KeptFresh
<1>1. FreshInv => KeptFresh
  BY DEF FreshInv
<1> QED BY <1>1, InvHolds, PTL DEF Inv

\* The chains of refreshes do not multiply (REFRESH_TOKEN_TIMER).
THEOREM ChainsDoNotMultiply == Spec => []OneChain
<1>1. ChainInv => OneChain
  BY DEF ChainInv
<1> QED BY <1>1, InvHolds, PTL DEF Inv

\* A session that was signed out comes back from a refresh that was under way only.
THEOREM SignedOutStaysOut == Spec => []SignedOutStays
<1>1. DeadInv => SignedOutStays
  BY DEF DeadInv
<1> QED BY <1>1, InvHolds, PTL DEF Inv

\* autoLogoutOnTokenRefreshError throws out no user whose session the server keeps and whose
\* refreshes went one at a time, each with its answer.
THEOREM OnlyTheDeadAreThrownOut == Spec => OnlyDeadThrownOut
<1>1. Inv /\ [Next]_vars => [SignOutForError /\ store' # store => store.login \in ended \cup closed \cup excused]_vars
  <2> SUFFICES ASSUME Inv, SignOutForError, store' # store
               PROVE  store.login \in ended \cup closed \cup excused
    OBVIOUS
  <2>1. erred /\ store # NoSession
    BY DEF SignOutForError
  <2> QED BY <2>1 DEF Inv, DeadInv, Dead, Spent
<1> QED BY <1>1, InvHolds, PTL DEF Spec, OnlyDeadThrownOut

=============================================================================
