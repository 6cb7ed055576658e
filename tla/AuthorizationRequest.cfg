\* Two requests and two callbacks at once; a callback may be handled twice, a token request lost.
SPECIFICATION FairSpec
CONSTANTS
  a1 = a1  a2 = a2  a3 = a3  c1 = c1  c2 = c2  u1 = u1
  NoUnit = NoUnit  Nothing = Nothing
  Requests = {a1, a2}
  Handlers = {c1, c2}
  Units = {u1}
  MaxCallbacks = 2
  MaxFaults = 1
INVARIANTS TypeOK OwnVerifier OwnUnit SentOnce
PROPERTIES SignInCompletes
\* The bounds stop the system.
CHECK_DEADLOCK FALSE
