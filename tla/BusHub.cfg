CONSTANTS
  MaxPeers = 2
  Handle = {1, 2, 3}
  Node = {"n1"}
SPECIFICATION FairSpec
INVARIANTS StateOwned NoGhost HubStaysUp NoSocketLeft
PROPERTY StopsOnCtrl
