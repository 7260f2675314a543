CONSTANTS
  Client = {1, 2}
  RO = {"RD"}
  WO = {"WR"}
  KeySet = {}
  Bumping = {"RD"}
  Cell <- MCCell
  CellOf <- MCCellOf
  BoundKey <- MCBoundKey
  WordMod = 2
  KeyVal = {1}
  ClaimToken = 1
  BootKeys <- MCBoot
  ClockMod = 4
  ChallengeTimeout = 1
  SessionTimeout = 2
  KeyUseLimit = 1
  WireKid <- MCReadCyclicKids
  ClientRandom = {1}
  MaxRandom = 2
  MaxIdle = 3
SPECIFICATION ExpirySpec
INVARIANTS TypeOK NoNonceReuse SealBudget ExpiryTruthful AppliedOnce
PROPERTY FreshSlotKept
