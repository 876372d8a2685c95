SPECIFICATION Spec
CONSTANTS
  w1 = w1
  w2 = w2
  w3 = w3
  r1 = r1
  Writers = {w1, w2}
  Readers = {r1}
  ChangeIds = {c1, c2}
  MaxVersion = 3
  System = system
  None = none
SYMMETRY Symmetric
CHECK_DEADLOCK FALSE
INVARIANTS HistoryInv ListingIsWhole ExportWasLatest
