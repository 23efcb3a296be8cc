\* Two participants, three messages, two INSERTs and two read marks at a time, loads of two.
CONSTANTS
  me = me
  friend = friend
  None = None
  Users = {me, friend}
  Readers = {friend}
  Me = me
  FetchLimit = 2
  MaxMessages = 3
  MaxInserts = 2
  MaxMarks = 2
SPECIFICATION ScreenSpec
INVARIANTS ScreenTypeOK OthersShownOnce RefreshHeals
PROPERTIES RefreshKeeps ReadStaysRead
CHECK_DEADLOCK FALSE
