\* Three messages of one other user, two under way at a time, loads of one,
\* one failure, no read marks.
CONSTANTS
  friend = friend
  None = None
  Users = {friend}
  Readers = {}
  FetchLimit = 1
  MaxMessages = 3
  MaxInserts = 2
  MaxMarks = 0
  MaxFailures = 1
SPECIFICATION Spec
INVARIANTS TypeOK NothingSkipped
PROPERTIES PollsCatchUp
CHECK_DEADLOCK FALSE
