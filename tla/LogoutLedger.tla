----------------------------- MODULE LogoutLedger -----------------------------
(***************************************************************************)
(* What the records of ended sessions promise a cookie session, whatever   *)
(* they are stored as: which sessions are refused, by their server session *)
(* and the time they began, and until when.  Only a logout token makes a   *)
(* session refused, only time makes it accepted again, and no logout takes *)
(* back what an earlier one did.  CookieSession implements it.             *)
(***************************************************************************)
EXTENDS Naturals, Sequences

CONSTANTS
  Sids, Subs, SubOf,
  Times,       \* when sessions may begin
  Term,        \* how long a session is refused, at most
  Tolerance

VARIABLES
  refused,     \* until when the session of a sid that began at a time is refused; 0 when it is not
  issued,      \* the logout tokens issued
  now

ledger == <<refused, issued, now>>

\* The sessions a logout token ends, given the latest beginning it reaches.
Reaches(n, latest, x, t) == x = n.key \/ (SubOf[x] = n.key /\ t <= latest)

\* A logout by subject reaches those begun by its time, or by that of a later one of the subject.
Reach(n) ==
  {m.at + Tolerance : m \in {m \in {issued[i] : i \in DOMAIN issued} : m.key = n.key /\ m.at >= n.at}}

Init ==
  /\ refused = [x \in Sids |-> [t \in Times |-> 0]]
  /\ issued = <<>> /\ now = 0

Issue(k) ==
  /\ issued' = Append(issued, [key |-> k, at |-> now])
  /\ UNCHANGED <<refused, now>>

\* A logout takes effect: the sessions it reaches are refused until `end', or longer already.
Record ==
  /\ UNCHANGED <<issued, now>> /\ refused' # refused
  /\ \E n \in {issued[j] : j \in DOMAIN issued} :
       \E latest \in Reach(n), end \in now + 1 .. now + Term :
         \A x \in Sids, t \in Times :
           refused'[x][t] = IF Reaches(n, latest, x, t) /\ end > refused[x][t] THEN end ELSE refused[x][t]

Tick ==
  /\ now' = now + 1
  /\ refused' = [x \in Sids |-> [t \in Times |-> IF refused[x][t] > now' THEN refused[x][t] ELSE 0]]
  /\ UNCHANGED issued

Next ==
  \/ \E k \in Sids \cup Subs : Issue(k)
  \/ Record
  \/ Tick

Spec == Init /\ [][Next]_ledger
=============================================================================
