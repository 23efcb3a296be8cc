\* Two overlapping calls, two codes; statements and mails that fail.
CONSTANTS
  k1 = k1
  k2 = k2
  c1 = c1
  c2 = c2
  None = None
  Codes = {k1, k2}
  Calls = {c1, c2}
  Ttl = 1
  Cooldown = 1
  MaxAttempts = 2
  MaxTime = 2
  Registered = FALSE
SPECIFICATION Spec
SYMMETRY Interchangeable
INVARIANTS TypeOK NewestMailWorks
PROPERTIES GuessesAreEarned
