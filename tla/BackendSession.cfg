\* Two requests of a page and the shared refresh; a session that ends and one that follows it.
SPECIFICATION Spec
CONSTANTS
  c1 = c1  c2 = c2  NoCall = NoCall
  Calls = {c1, c2}
  Uses = {"read", "check", "api", "token", "signOut"}
  MaxLogins = 2
  MaxGen = 3
  MaxFaults = 0
SYMMETRY Symmetric
INVARIANTS TypeOK CachedIsWatched CachedIsFresh ToldIsEnded  
