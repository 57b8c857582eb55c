SPECIFICATION Spec
CONSTANTS
  Requests = {r1, r2, r3}
  Clients = {c1}
  Admins = {"boss", "clerk", "help"}
  Role <- MCRole
  Nobody = Nobody
  Limit = 1
  Window = 1
  SessionLife = 2
  MaxTime = 2
SYMMETRY MCSymmetry
INVARIANTS
  GuessesAreBounded
  EndedSessionsDoNotAct
  AuditIsTrue
  EffectsAreNamed
  SwitchIsSerial
CHECK_DEADLOCK FALSE
