\* A logout token and strays, two at once; the server's keys change; two fetches or records fail.
SPECIFICATION RouteSpec
CONSTANTS
  b1 = b1  r1 = r1  h1 = h1  h2 = h2  x1 = x1  x2 = x2  u1 = u1
  NoBrowser = NoBrowser
  Browsers = {b1}
  Requests = {r1}
  Handlers = {h1, h2}
  Sids = {x1}
  Subs = {u1}
  Users <- OneLogin
  SubOf <- OneSubject
  Paths = {}
  CookieTtl = 2
  AccessTtl = 1
  Buffer = 0
  Tolerance = 0
  MaxDelay = 1
  MaxLogins = 1
  MaxGen = 1
  MaxNotices = 1
  MaxTime = 0
  MaxFaults = 2
  KeysTtl = 3
  MinRefetch = 2
  MaxKids = 2
INVARIANT KeysTypeOK
PROPERTIES FetchesSpaced UnknownIsNew LogoutTakesEffect
\* The bounds stop the system.
CHECK_DEADLOCK FALSE
