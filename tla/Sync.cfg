SPECIFICATION SyncSpec
CONSTANTS
  a1 = a1  a2 = a2  a = a  alice = alice  bob = bob
  Conn = {a1}
  Client = {a}
  Owner = {alice}
  Handler = {h1, h2}
  NoConn = NoConn
  ClientOf <- MCOnce
  OwnerOf <- MCOwnerOf
  Unstable = {a1}
  OutCap = 1
  RingCap = 1
  ResumeFrom = "zero"
  Frames = 4
  HeaderLen = 3
  PayloadLen = 2
  MaxInterrupts = 2
INVARIANT IntactUnlessTorn
PROPERTIES  EveryRevisionArrives FramesArrive
CHECK_DEADLOCK FALSE
