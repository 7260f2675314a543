CONSTANTS
  Client = {1, 2}
  RO = {}
  WO = {"WR"}
  KeySet = {}
  Bumping = {}
  Cell <- MCCell
  CellOf <- MCCellOf
  BoundKey <- MCBoundKey
  WordMod = 2
  KeyVal = {1}
  ClaimToken = 1
  BootKeys <- MCBoot
  ClockMod = 2
  ChallengeTimeout = 0
  SessionTimeout = 0
  KeyUseLimit = 1
  WireKid <- MCWireKid
  ClientRandom = {}
  MaxRandom = 2
  Holder <- MCHolder
  Works <- MCWorksAll
  RetryPolls = FALSE
  MaxClientRandom = 2
  MaxQueue = 1
SPECIFICATION TunnelSpec
INVARIANTS AckTruthful SessionInStep TunnelNonceUnique
