\* Two sign-ins of one subject at once.
SPECIFICATION Spec
CONSTANTS
  r1 = r1  r2 = r2  r3 = r3  s1 = s1  s2 = s2  x1 = x1  x2 = x2  u1 = u1  u2 = u2
  NoRequest = NoRequest  NoId = NoId
  Requests = {r1, r2}
  SessionIds = {s1, s2}
  Sids = {x1}
  Subs = {u1}
  SubOf <- OneSubject
  Operations = {"signIn", "isSignedIn"}
  LocalStore = TRUE
  FreshIds = TRUE
  Expiry = FALSE
  Tolerance = 0
  MaxLogins = 2
  MaxGen = 1
  MaxNotices = 0
  MaxTime = 0
  MaxFaults = 0
  MaxReadFaults = 0
INVARIANT IndexComplete
