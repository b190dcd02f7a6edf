SPECIFICATION FairSpec
INVARIANTS TypeOK
PROPERTIES RequestsAreAnswered
CONSTANTS
  None = None
  a1 = a1
  a2 = a2
  c1 = c1
  j1 = j1
  j2 = j2
  p1 = p1
  p2 = p2
  s1 = s1
  t1 = t1
  t2 = t2
  Procs = {p1, p2}
  Sessions = {s1}
  Jtis = {j1, j2}
  Cusnos = {c1}
  Agents = {a1}
  Turns = {t1, t2}
  SessionTTL = 1
  AccessTTL = 1
  RefreshTTL = 2
  Patches <- AgentPatches
  Collisions = FALSE
  Offered = {"create", "refresh", "profile", "patch"}
  Prompt = FALSE
  MaxTime = 1
  Faults = {}
  MaxFailures = 0
