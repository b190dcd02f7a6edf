SPECIFICATION ReadSpec
INVARIANTS ClosedTokensVerifyNoMore PromisedTimeIsKept  
SYMMETRY Symmetry
CONSTANTS
  r1 = r1
  Readers = {r1}
  None = None
  a1 = a1
  a2 = a2
  c1 = c1
  j1 = j1
  j2 = j2
  p1 = p1
  p2 = p2
  s1 = s1
  t1 = t1
  t2 = t2
  Procs = {p1, p2}
  Sessions = {s1}
  Jtis = {j1, j2}
  Cusnos = {c1}
  Agents = {}
  Turns = {t1, t2}
  SessionTTL = 2
  AccessTTL = 2
  RefreshTTL = 3
  Patches <- NoPatches
  Collisions = FALSE
  Offered = {"create", "refresh", "close_token", "profile"}
  Prompt = TRUE
  MaxTime = 2
  Faults = {}
  MaxFailures = 0
