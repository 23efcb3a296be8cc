\* Three users, so two pairs, and as many accepts at once as connections.
CONSTANTS
  u1 = u1
  u2 = u2
  u3 = u3
  c1 = c1
  c2 = c2
  NoUser = NoUser
  Users = {u1, u2, u3}
  Calls = {c1, c2}
  Ops = {"send", "accept"}
  SeedBlocks = {}
  PoolSize = 2
  Faults = FALSE
CHECK_DEADLOCK FALSE
SPECIFICATION WatchedSpec
PROPERTY EveryCallAnswered
