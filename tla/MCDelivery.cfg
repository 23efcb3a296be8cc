\* One account, from its registration on: two overlapping calls of any kind,
\* statements that fail, tokens that expire, a deletion.
CONSTANTS
  acc = acc
  p1 = p1
  p2 = p2
  c1 = c1
  c2 = c2
  None = None
  Addresses = {acc}
  Passwords = {p1, p2}
  Calls = {c1, c2}
  Development = TRUE
SPECIFICATION DeliverySpec
SYMMETRY Interchangeable
INVARIANTS DeliveryTypeOK StoredAsAnswered OneOfEach
PROPERTIES LoginAgrees
