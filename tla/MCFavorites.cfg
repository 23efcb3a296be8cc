\* One product, two toggles and two loads in flight.
CONSTANTS
  p1 = p1
  c1 = c1
  c2 = c2
  l1 = l1
  l2 = l2
  None = None
  Products = {p1}
  Calls = {c1, c2}
  Loads = {l1, l2}
SPECIFICATION Spec
SYMMETRY Interchangeable
INVARIANTS TypeOK OneRowUnlessTangled
PROPERTIES SoloToggleAgrees RefreshHeals
