\* Two accounts and one block of ports, which changes hands; requests, copies and a stack.
SPECIFICATION Spec
CONSTANTS
  None = None  u1 = u1  u2 = u2
  Users = {u1, u2}
  Ids = {c1, c2}
  Reqs = {r1, r2}
  Stacks = {s1}
  Owner <- OwnerMC
  Services <- OneService
  StackPorts <- StackPortsMC
  Roles <- RolesMC
  Caps = {1}
  DefaultCap = 1
  Prefixes = {0, 101}
  LastPrefix = 101
  UserCapacity = 2
  PortCounts = {1}
  HostBusy <- BusyMC
  Overlap = FALSE
  MaxEdits = 2
  MaxFaults = 1
SYMMETRY Symmetry
INVARIANTS ForwardClaimsDistinct NothingHalfCreated
PROPERTY CapRespected
CHECK_DEADLOCK FALSE
