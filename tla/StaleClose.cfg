SPECIFICATION Spec
PROPERTIES EndIsFinal
CONSTANTS
  None = None
  a1 = a1
  a2 = a2
  j1 = j1
  j2 = j2
  j3 = j3
  p1 = p1
  p2 = p2
  s1 = s1
  t1 = t1
  t2 = t2
  Procs = {p1, p2}
  Sessions = {s1}
  Jtis = {j1, j2, j3}
  Cusnos = {}
  Agents = {}
  Turns = {t1, t2}
  SessionTTL = 2
  AccessTTL = 2
  RefreshTTL = 3
  Patches <- NoPatches
  Collisions = FALSE
  Offered = {"create", "refresh", "close_key"}
  Prompt = FALSE
  MaxTime = 4
  Faults = {}
  MaxFailures = 0
