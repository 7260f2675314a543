CONSTANTS
  Client = {1}
  RO = {}
  WO = {"WR", "KS"}
  KeySet = {"KS"}
  Bumping = {}
  Cell <- MCCell
  CellOf <- MCCellOf
  BoundKey <- MCBoundKey
  WordMod = 2
  KeyVal = {1}
  ClaimToken = 1
  BootKeys <- MCBootProv
  ClockMod = 3
  ChallengeTimeout = 1
  SessionTimeout = 1
  KeyUseLimit = 1
  WireKid <- MCPollLadderKids
  ClientRandom = {1}
  MaxRandom = 2
SPECIFICATION Spec
INVARIANTS LadderAuthorised
