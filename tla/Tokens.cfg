SPECIFICATION Spec
INVARIANTS TokenInv
PROPERTIES TokensFollowTokenLife
SYMMETRY Symmetry
CONSTANTS
  None = None
  a1 = a1
  a2 = a2
  j1 = j1
  j2 = j2
  j3 = j3
  p1 = p1
  p2 = p2
  s1 = s1
  s2 = s2
  t1 = t1
  t2 = t2
  Procs = {p1, p2}
  Sessions = {s1, s2}
  Jtis = {j1, j2, j3}
  Cusnos = {}
  Agents = {}
  Turns = {t1, t2}
  SessionTTL = 1
  AccessTTL = 1
  RefreshTTL = 2
  Patches <- NoPatches
  Collisions = TRUE
  Offered = {"create", "refresh", "close_token"}
  Prompt = FALSE
  MaxTime = 2
  Faults = {"stop", "lose"}
  MaxFailures = 1
