SPECIFICATION Spec
INVARIANTS EverythingExpires
CONSTANTS
  None = None
  a1 = a1
  a2 = a2
  j1 = j1
  p1 = p1
  s1 = s1
  t1 = t1
  t2 = t2
  Procs = {p1}
  Sessions = {s1}
  Jtis = {j1}
  Cusnos = {}
  Agents = {}
  Turns = {t1, t2}
  SessionTTL = 2
  AccessTTL = 2
  RefreshTTL = 3
  Patches <- TurnPatches
  Collisions = FALSE
  Offered = {"create", "patch"}
  Prompt = FALSE
  MaxTime = 4
  Faults = {}
  MaxFailures = 0
