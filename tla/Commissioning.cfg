CONSTANTS
  Client = {1, 2}
  RO = {}
  WO = {"KS"}
  KeySet = {"KS"}
  Bumping = {}
  Cell <- MCCell
  CellOf <- MCCellOf
  BoundKey <- MCBoundKey
  WordMod = 2
  KeyVal = {1}
  ClaimToken = 1
  BootKeys <- MCBoot
  ClockMod = 1
  ChallengeTimeout = 0
  SessionTimeout = 0
  KeyUseLimit = 1
  WireKid <- MCLadderKids
  ClientRandom = {1}
  MaxRandom = 2
  Party = {"A", "B"}
  Peer = "A"
  Serial = {"s1"}
  mySerial = "s1"
  EpochMod = 3
  EpochStart = 0
SPECIFICATION CommSpec
INVARIANTS CommTypeOK VoucherOnce OwnerProvisioned SignedBound LadderAuthorised StatusHonest
