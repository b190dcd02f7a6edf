SPECIFICATION SettledSpec
INVARIANTS ProfileOutlivesSession EverythingExpires
PROPERTIES RequestsAreAtomic
SYMMETRY Symmetry
CONSTANTS
  None = None
  a1 = a1
  a2 = a2
  c1 = c1
  c2 = c2
  j1 = j1
  j2 = j2
  p1 = p1
  s1 = s1
  s2 = s2
  t1 = t1
  t2 = t2
  Procs = {p1}
  Sessions = {s1, s2}
  Jtis = {j1, j2}
  Cusnos = {c1, c2}
  Agents = {}
  Turns = {t1, t2}
  SessionTTL = 2
  AccessTTL = 2
  RefreshTTL = 3
  Patches <- TalkOnly
  Collisions = FALSE
  Offered = {"create", "profile", "patch"}
  Prompt = TRUE
  MaxTime = 3
  Faults = {}
  MaxFailures = 0
