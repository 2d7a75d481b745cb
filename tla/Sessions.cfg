\* An administrator and a user, two requests in flight, three logins.
SPECIFICATION Spec
CONSTANTS
  Nobody = Nobody
  u1 = u1  u2 = u2  b1 = b1  b2 = b2  l1 = l1  l2 = l2  l3 = l3  r1 = r1  r2 = r2
  Users = {u1, u2}
  Admins = {u1}
  Newcomers = {u2}
  Browsers = {b1, b2}
  Person <- TwoPeople
  Reqs = {r1, r2}
  Logins = {l1, l2}
  TTL = 1
  MaxAge = 1
  Horizon = 2
  MaxEdits = 2
  AdminsOverlap = FALSE
SYMMETRY Symmetry
INVARIANT SomebodyAdministers
PROPERTIES HonoursRevocation SessionEnds
CHECK_DEADLOCK FALSE
