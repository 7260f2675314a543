CONSTANTS
  Message <- MCMessage
  Foreign <- MCForeign
  Me = 5
  Target = 9
  Chunk = {5, 64}
  MaxMessages = 2
SPECIFICATION Spec
CHECK_DEADLOCK FALSE
INVARIANTS LinkTypeOK PeersKept StaysInStep
PROPERTIES ChannelKept ServerHears
