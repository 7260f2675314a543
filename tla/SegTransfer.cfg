CONSTANTS
  c1 = c1
  c2 = c2
  Client = {c1, c2}
  Content = {"s", "m"}
  Size <- MCSize
  Long <- MCLong
  BodyMax = 3
  SessionMax = 2
  MaxQueue = 1
SYMMETRY ClientSymmetry
SPECIFICATION Spec
INVARIANTS DispatchWhole WriteAcked ReadWhole NoSelfInflictedAbort
