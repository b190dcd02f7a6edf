SPECIFICATION Spec
INVARIANTS AdvertisedExpiryIsKept ImmortalSessionsAreRemnants TurnIdsAreDistinct TurnsOutliveSession
SYMMETRY Symmetry
CONSTANTS
  None = None
  a1 = a1
  a2 = a2
  j1 = j1
  p1 = p1
  p2 = p2
  s1 = s1
  t1 = t1
  t2 = t2
  Procs = {p1, p2}
  Sessions = {s1}
  Jtis = {j1}
  Cusnos = {}
  Agents = {a1}
  Turns = {t1, t2}
  SessionTTL = 2
  AccessTTL = 2
  RefreshTTL = 3
  Patches <- WritePatches
  Collisions = FALSE
  Offered = {"create", "patch", "close_key", "api_result"}
  Prompt = FALSE
  MaxTime = 3
  Faults = {}
  MaxFailures = 0
