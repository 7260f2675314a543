CONSTANTS
  Client = {1, 2}
  RO = {"RD"}
  WO = {}
  KeySet = {}
  Bumping = {"RD"}
  Cell <- MCCell
  CellOf <- MCCellOf
  BoundKey <- MCBoundKey
  WordMod = 4
  KeyVal = {1}
  ClaimToken = 1
  BootKeys <- MCBoot
  ClockMod = 4
  ChallengeTimeout = 1
  SessionTimeout = 2
  KeyUseLimit = 2
  WireKid <- MCWireKid
  ClientRandom = {}
  MaxRandom = 2
  Holder <- MCHolder
  Works <- MCWorksAll
  RetryPolls = FALSE
  MaxClientRandom = 2
  MaxQueue = 1
SPECIFICATION TunnelSpec
INVARIANTS ReadFresh SessionInStep
