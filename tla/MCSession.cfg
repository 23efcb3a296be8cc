\* Two accounts, three tokens, a login that outlives its page beside another.
CONSTANTS
  a1 = a1
  a2 = a2
  l1 = l1
  l2 = l2
  None = None
  Accounts = {a1, a2}
  Logins = {l1, l2}
  MaxTokens = 3
SPECIFICATION FairSpec
INVARIANTS OneAccount
PROPERTIES FirstVisitSettles
