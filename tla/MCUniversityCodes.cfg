\* One address, two codes, two calls at a time, a process that may restart.
CONSTANTS
  e1 = e1
  e2 = e2
  k1 = k1
  k2 = k2
  c1 = c1
  c2 = c2
  None = None
  Emails = {e1}
  Codes = {k1, k2}
  Calls = {c1, c2}
  Ttl = 2
  Cooldown = 1
  MaxAttempts = 2
  MaxTime = 4
  Prod = TRUE
SPECIFICATION Spec
SYMMETRY Interchangeable
INVARIANTS TypeOK NewestMailWorks
PROPERTIES PassesAreEarned
