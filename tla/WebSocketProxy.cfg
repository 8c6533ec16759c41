CONSTANTS
  c1 = c1
  c2 = c2
  Clients = {c1, c2}
  FDs = {3, 4, 5}
  Frames <- OneTalks
  InboxSize = 2
  OutboxSize = 1
  BackendSpeaksFirst = FALSE
  ClientsKeepReading = TRUE
SPECIFICATION FairSpec
INVARIANTS TypeOK DescriptorsAreOwn NothingOutlivesStop RelaysInOrder
PROPERTIES ImplementsRelay StopReturns FramesGoThrough
CHECK_DEADLOCK FALSE
