\* Next.js: two requests of a browser, one session refreshed beside its sign-out and its logout.
SPECIFICATION Spec
CONSTANTS
  b1 = b1  b2 = b2  r1 = r1  r2 = r2  h1 = h1  h2 = h2  x1 = x1  x2 = x2  u1 = u1
  NoBrowser = NoBrowser
  Browsers = {b1}
  Requests = {r1, r2}
  Handlers = {h1}
  Sids = {x1}
  Subs = {u1}
  SubOf <- OneSubject
  Paths = {"proxy", "action"}
  CookieTtl = 3
  AccessTtl = 2
  Buffer = 0
  Tolerance = 1
  MaxDelay = 1
  MaxLogins = 1
  MaxGen = 2
  MaxNotices = 1
  MaxTime = 3
  MaxFaults = 1
SYMMETRY Symmetric
INVARIANTS TypeOK EndedIsRefused 
 
\* The bounds stop the system.
CHECK_DEADLOCK FALSE
