SPECIFICATION BatchSpec
INVARIANT NoCiphertext
CONSTANTS
  None = None
  c1 = c1
  c2 = c2
  c3 = c3
  Cusnos = {c1, c2, c3}
  Dates = {1, 2}
  MaxLoad = 2
  Contents <- SomeContents
  Secret <- NamesOnly
  Layouts <- SomeLayouts
  Rotations = {3}
  MaxErrors = 1
  MaxOverlap = 1
