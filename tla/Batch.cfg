SPECIFICATION BatchSpec
INVARIANTS BatchTypeOK RightCustomer ReloadsHideNobody PublishedDataIsServed AnswersAreNamed
CONSTANTS
  None = None
  c1 = c1
  c2 = c2
  c3 = c3
  Cusnos = {c1, c2, c3}
  Dates = {1, 2, 3}
  MaxLoad = 4
  Contents <- SomeContents
  Secret <- SomeSecret
  Layouts <- SomeLayouts
  Rotations = {3, 5}
  MaxErrors = 1
  MaxOverlap = 2
