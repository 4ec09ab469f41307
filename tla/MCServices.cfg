SPECIFICATION ServicesSpec
CONSTANTS
  Conn = {c1, c2}
  Tunnel = {c1}
  Thread = {t}
  KeyKinds = {"body"}
  ToolUse = {c2}
  MaxExchange = 1
  MaxSession = 2
  MaxFailures = 1
  Budget = 1
  Ses = {s1, s2}
  Path = {a, b}
  MaxEvents = 2
  MaxTrouble = 2
  Viewer = {v1}
  Call = {r1, r2, r3}
  RateLimit = 1
  Window = 2
  MaxTime = 4
  MaxMishaps = 1
CHECK_DEADLOCK FALSE
INVARIANTS SessionsCloseOnce  OpenSessionsWillClose AcceptedEventStays MetaMatchesBundle 
