SPECIFICATION RequestSpec
CONSTANTS
  c1 = c1  c2 = c2  r1 = r1  r2 = r2  r3 = r3  m = m  n = n
  Conn = {c1, c2}
  Req = {r1, r2, r3}
  ConnOf <- MCConnOf
  IdOf <- MCIdOf
  Workloads <- MCWorkloads
  ModelOf <- MCModelOf
  MaxDownloads = 1
INVARIANT DisconnectCancelsGenerations
CHECK_DEADLOCK FALSE
