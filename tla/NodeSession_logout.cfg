\* Back-channel logout beside sign-ins of two sessions, with a store fault; every sign-in has its own session id.
SPECIFICATION Spec
CONSTANTS
  r1 = r1  r2 = r2  r3 = r3  s1 = s1  s2 = s2  x1 = x1  x2 = x2  u1 = u1  u2 = u2
  NoRequest = NoRequest  NoId = NoId
  Requests = {r1, r2}
  SessionIds = {s1, s2}
  Sids = {x1, x2}
  Subs = {u1}
  SubOf <- OneSubject
  Operations = {"signIn", "isSignedIn", "logout"}
  LocalStore = TRUE
  FreshIds = TRUE
  Expiry = FALSE
  Tolerance = 0
  MaxLogins = 2
  MaxGen = 1
  MaxNotices = 1
  MaxTime = 1
  MaxFaults = 1
  MaxReadFaults = 0
SYMMETRY Symmetric
INVARIANTS  SignedInAgainStays
