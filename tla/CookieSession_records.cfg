\* Nuxt: two sign-ins of one subject, and two logout tokens in any order.
SPECIFICATION Spec
CONSTANTS
  b1 = b1  b2 = b2  r1 = r1  r2 = r2  h1 = h1  h2 = h2  x1 = x1  x2 = x2  u1 = u1
  NoBrowser = NoBrowser
  Browsers = {b1}
  Requests = {r1}
  Handlers = {h1}
  Sids = {x1, x2}
  Subs = {u1}
  SubOf <- OneSubject
  Paths = {"session", "token"}
  CookieTtl = 2
  AccessTtl = 1
  Buffer = 0
  Tolerance = 1
  MaxDelay = 1
  MaxLogins = 2
  MaxGen = 1
  MaxNotices = 2
  MaxTime = 3
  MaxFaults = 0
SYMMETRY Symmetric
INVARIANTS OnlyNamedRefused EndedUnlessRevived
PROPERTIES LogoutsAreKept
\* The bounds stop the system.
CHECK_DEADLOCK FALSE
