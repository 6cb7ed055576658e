\* A session id that sign-ins share: back-channel logout beside its check, refresh and revocation, with a store fault.
SPECIFICATION Spec
CONSTANTS
  r1 = r1  r2 = r2  r3 = r3  s1 = s1  s2 = s2  x1 = x1  x2 = x2  u1 = u1  u2 = u2
  NoRequest = NoRequest  NoId = NoId
  Requests = {r1, r2}
  SessionIds = {s1}
  Sids = {x1, x2}
  Subs = {u1}
  SubOf <- OneSubject
  Operations = {"signIn", "isSignedIn", "revoke", "logout"}
  LocalStore = TRUE
  FreshIds = FALSE
  Expiry = TRUE
  Tolerance = 0
  MaxLogins = 2
  MaxGen = 1
  MaxNotices = 1
  MaxTime = 0
  MaxFaults = 0
  MaxReadFaults = 0
SYMMETRY Symmetric
INVARIANTS LogoutEndsNamed 
