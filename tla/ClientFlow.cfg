CONSTANTS
  Client = {1, 2}
  RO = {}
  WO = {"KS"}
  KeySet = {"KS"}
  Bumping = {}
  Cell <- MCCell
  CellOf <- MCCellOf
  BoundKey <- MCBoundKey
  WordMod = 3
  KeyVal = {1, 2}
  ClaimToken = 1
  BootKeys <- MCNoKeys
  ClockMod = 1
  ChallengeTimeout = 0
  SessionTimeout = 0
  KeyUseLimit = 1
  WireKid <- MCKids
  ClientRandom = {1}
  MaxRandom = 3
  Party = {"A"}
  Peer = "A"
  Serial = {"s1"}
  mySerial = "s1"
  EpochMod = 3
  EpochStart = 1
  Options <- MCOptions
  KeyidMax = 4
  DemoKey = 1
  HkdfKey = 2
  Faults = {"loss", "restart"}
  MaxChoices <- MCChoices
SPECIFICATION FlowSpec
INVARIANTS FlowTypeOK KeyChoiceKept KeyGiven GateHolds
PROPERTIES FlowTruthful SessionKeyKept
