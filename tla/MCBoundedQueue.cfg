\* Two threads that post and the pull thread, on a ring of three slots.
SPECIFICATION FairQueueSpec
CONSTANTS
  p1 = p1
  p2 = p2
  g1 = g1
  m1 = m1
  m2 = m2
  Null = Null
  Putters <- MCPutters
  Getters <- MCGetters
  Messages <- MCMessages
  Capacity = 3
  EventKind = "auto"
INVARIANTS QueueTypeOK NoSleepThrough
PROPERTIES DequeSpec HandedOver PuttersMove
