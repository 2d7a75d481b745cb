\* The sweep and an administrator at work together: reconciles interleave.
SPECIFICATION Spec
CONSTANTS
  k1 = k1  u1 = u1  a1 = a1  a2 = a2  n1 = n1  n2 = n2  c1 = c1  c2 = c2
  TcpKeys = {k1}
  UdpKeys = {u1}
  Addrs = {a1, a2}
  Ports = {80}
  Networks = {n1}
  Containers = {c1, c2}
  Decl <- MCDecl
  Places <- MCPlaces
  Rows <- MCRows
  Handlers = {h1}
  Sweeper = sweep
  MaxChanges = 2
  MaxFaults = 1
INVARIANTS ClosedForGood Honoured
PROPERTIES CalmKeeps OutageKeepsContainers Converges
