CONSTANTS
  Client = {1, 2}
  RO = {}
  WO = {"WR"}
  KeySet = {}
  Bumping = {}
  Cell <- MCCell
  CellOf <- MCCellOf
  BoundKey <- MCBoundKey
  WordMod = 2
  KeyVal = {1}
  ClaimToken = 1
  BootKeys <- MCBootProv
  ClockMod = 4
  ChallengeTimeout = 1
  SessionTimeout = 2
  KeyUseLimit = 1
  WireKid <- MCCyclicKids
  ClientRandom = {1}
  MaxRandom = 2
SPECIFICATION Spec
INVARIANTS AppliedOnce
