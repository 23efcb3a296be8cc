\* Two calls at a time, every operation, statements that fail.
CONSTANTS
  u1 = u1
  u2 = u2
  u3 = u3
  c1 = c1
  c2 = c2
  NoUser = NoUser
  Users = {u1, u2}
  Calls = {c1, c2}
  Ops <- AllOps
  SeedBlocks <- OneBlock
  PoolSize = 2
  Faults = TRUE
SPECIFICATION WatchedSpec
INVARIANTS TypeOK AcceptsHoldPending FriendsHaveRoom
PROPERTIES FriendshipIsConsented ImplementsLooseRelation EveryCallAnswered StrictWhileAlone
