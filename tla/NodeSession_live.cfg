\* Requests, fetches and writes go on; the server posts a logout token until it is handled.
SPECIFICATION FairSpec
CONSTANTS
  r1 = r1  r2 = r2  r3 = r3  s1 = s1  s2 = s2  x1 = x1  x2 = x2  u1 = u1  u2 = u2
  NoRequest = NoRequest  NoId = NoId
  Requests = {r1, r2}
  SessionIds = {s1}
  Sids = {x1}
  Subs = {u1}
  SubOf <- OneSubject
  Operations = {"signIn", "isSignedIn", "refresh", "logout"}
  LocalStore = TRUE
  FreshIds = TRUE
  Expiry = FALSE
  Tolerance = 0
  MaxLogins = 1
  MaxGen = 1
  MaxNotices = 1
  MaxTime = 0
  MaxFaults = 1
  MaxReadFaults = 1
PROPERTIES JoinersAnswered LogoutHandled
