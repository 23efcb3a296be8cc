\* Two products, two overlapping updates or removals, one walk at a time.
CONSTANTS
  c1 = c1
  c2 = c2
  NoValue = NoValue
  ProductIds = {1, 2}
  Calls = {c1, c2}
  Limits = {1}
  Sorts <- NewestOrTitle
  Titles = {1, 2}
  MaxTime = 1
  Beside = 1
  MaxGiven = 1
SPECIFICATION ProductsSpec
SYMMETRY Interchangeable
INVARIANTS ProductsTypeOK WalkShowsAll
PROPERTIES UpdateKeepsTheRest
