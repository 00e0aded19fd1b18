SPECIFICATION FairSpec
CONSTANTS
  u1 = u1
  u2 = u2
  s1 = s1
  s2 = s2
  r1 = r1
  None = None
  Users <- TwoUsers
  Sockets <- TwoSockets
  Requests <- OneRequest
  Letters <- SomeLetters
  Take = 1
  MaxNotes = 2
  MaxConnects = 2
  MaxCrashes = 1
INVARIANTS SocketMapsAgree NothingMissed
PROPERTIES DeliveredInTheEnd
CHECK_DEADLOCK FALSE
