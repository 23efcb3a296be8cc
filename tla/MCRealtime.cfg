\* One device that posts and one that listens, three rooms, two messages, two sockets.
CONSTANTS
  phone = phone
  tablet = tablet
  None = None
  Devices = {phone, tablet}
  Posters = {phone}
  Listeners = {tablet}
  RoomIds = {1, 2, 3}
  MaxMessages = 2
  MaxSockets = 2
SPECIFICATION Spec
INVARIANTS TypeOK JoinThenFetch
PROPERTIES RoomsOnlyDescend
