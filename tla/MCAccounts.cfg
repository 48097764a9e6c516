CONSTANTS
  Procs = {r1, r2}
  r1 = r1
  r2 = r2
  Passwords = {"old", "new"}
  MaxOps = 4
  MaxSessions = 2
  MaxCodes = 2
  MaxFaults = 1
  MaxAttempts = 1
SYMMETRY Requests
SPECIFICATION Spec
INVARIANTS TypeOK UpdatesSurvive PasswordOwnsSessions TokensRotate CodesServeOnce
CHECK_DEADLOCK FALSE
