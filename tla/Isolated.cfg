SPECIFICATION SettledSpec
INVARIANTS OneTokenPairPerSession  RefreshTokensAreUsedOnce EverythingExpires
PROPERTIES  RecordsAccumulate  ClosedTokensAreDead
SYMMETRY Symmetry
CONSTANTS
  None = None
  a1 = a1
  a2 = a2
  j1 = j1
  j2 = j2
  j3 = j3
  p1 = p1
  s1 = s1
  t1 = t1
  t2 = t2
  Procs = {p1}
  Sessions = {s1}
  Jtis = {j1, j2, j3}
  Cusnos = {}
  Agents = {a1, a2}
  Turns = {t1, t2}
  SessionTTL = 2
  AccessTTL = 2
  RefreshTTL = 3
  Patches <- EveryPatch
  Collisions = FALSE
  Offered = {"create", "refresh", "close_token", "patch", "close_key", "api_result"}
  Prompt = TRUE
  MaxTime = 4
  Faults = {"lose"}
  MaxFailures = 1
