SPECIFICATION Spec
CONSTANTS
  a1 = a1  a2 = a2  a = a  alice = alice  bob = bob
  Conn = {a1, a2}
  Client = {a}
  Owner = {alice, bob}
  Handler = {h1, h2}
  NoConn = NoConn
  ClientOf <- MCTwice
  OwnerOf <- MCOwnerOf
  Unstable = {a1}
  OutCap = 1
  RingCap = 1
  ResumeFrom = "zero"
SYMMETRY Symmetry
INVARIANTS EveryRevisionOnItsWay OnlyOwnRevisions
CHECK_DEADLOCK FALSE
