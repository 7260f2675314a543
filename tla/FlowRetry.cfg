CONSTANTS
  Client = {1}
  RO = {}
  WO = {"KS"}
  KeySet = {"KS"}
  Bumping = {}
  Cell <- MCCell
  CellOf <- MCCellOf
  BoundKey <- MCBoundKey
  WordMod = 3
  KeyVal = {1, 2}
  ClaimToken = 1
  BootKeys <- MCPartKeys
  ClockMod = 1
  ChallengeTimeout = 0
  SessionTimeout = 0
  KeyUseLimit = 1
  WireKid <- MCKids
  ClientRandom = {1}
  MaxRandom = 3
  Party = {"A"}
  Peer = "A"
  Serial = {"s1"}
  mySerial = "s1"
  EpochMod = 3
  EpochStart = 1
  Options <- MCOptions
  KeyidMax = 4
  DemoKey = 1
  HkdfKey = 2
  Faults = {}
  MaxChoices <- MCChoices
SPECIFICATION FlowSpec
PROPERTY LadderFinishes
