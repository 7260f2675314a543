CONSTANTS
  Client = {1}
  RO = {}
  WO = {"WR"}
  KeySet = {}
  Bumping = {}
  Cell <- MCCell
  CellOf <- MCCellOf
  BoundKey <- MCBoundKey
  WordMod = 2
  KeyVal = {1}
  ClaimToken = 1
  BootKeys <- MCBoot
  ClockMod = 3
  ChallengeTimeout = 0
  SessionTimeout = 1
  KeyUseLimit = 2
  WireKid <- MCWireKid
  ClientRandom = {}
  MaxRandom = 2
  Holder <- MCHolder
  Works <- MCWorksAll
  RetryPolls = TRUE
  MaxClientRandom = 2
  MaxQueue = 2
SPECIFICATION TunnelSpec
INVARIANT TunnelNonceUnique
