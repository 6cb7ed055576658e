\* Two refreshes at once, a request that waits, a sign-in that follows a sign-out.
SPECIFICATION Spec
CONSTANTS
  n1 = n1  n2 = n2  q1 = q1  q2 = q2
  Runs = {n1, n2}
  Requests = {q1}
  AutoLogout = TRUE
  MaxLogins = 2
  MaxGen = 2
SYMMETRY Symmetric
INVARIANTS TypeOK FlagsHeld KeptFresh OneChain 
PROPERTIES OnlyDeadThrownOut
\* The bounds stop the system.
CHECK_DEADLOCK FALSE
