\* Fetches settle and the poll goes on; one request or refresh fails.
SPECIFICATION FairSpec
CONSTANTS
  c1 = c1  c2 = c2  NoCall = NoCall
  Calls = {c1, c2}
  Uses = {"read", "check", "api"}
  MaxLogins = 1
  MaxGen = 2
  MaxFaults = 1
PROPERTIES EndIsNoticed CallsEnd
