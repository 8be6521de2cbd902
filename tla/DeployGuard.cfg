SPECIFICATION Spec
CONSTANTS
  p1 = p1 p2 = p2 p3 = p3 a = a b = b
  Pool = {p1, p2, p3}
  NoPool = NoPool
  Gone = Gone
  Token = {a, b}
  TokenOf <- MCTokenOf
  NoId = NoId
  Id = {i1, i2, i3}
  Session = {s1, s2}
  MaxCalls = 2
  MaxPositions = 2
  MaxUnderWay = 2
SYMMETRY MCSymmetry
INVARIANT CapHolds
INVARIANT OnePerToken
INVARIANT OpenIsNotWrittenOff
PROPERTY OneMessageOpens
