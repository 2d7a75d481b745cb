\* A user's requests while an administrator shares, deletes and restricts; grant lookups and listings fail.
SPECIFICATION Spec
CONSTANTS
  root = root
  u1 = u1
  g1 = g1
  g2 = g2
  lan = lan
  d = d
  c1 = c1
  c2 = c2
  Users = {root, u1}
  Admins = {root}
  Groups = {g1, g2}
  Bridge = bridge
  Host = host
  HostNets = {lan}
  Displays = {d}
  Containers = {c1}
  Owner <- MCOwner
  Asked <- MCAsked
  Lists <- MCLists
  Pools <- MCPools
  Requests = {r1, r2}
  Fallible = {"list", "preset", "restricted"}
  Overlap = FALSE
  MaxCalls = 2
  MaxEdits = 2
SYMMETRY Symmetry
 
PROPERTIES JoinedEntitled 
CHECK_DEADLOCK FALSE
