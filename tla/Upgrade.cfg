\* Under a service manager and without one: every way a release can fail, failing file operations, a power loss.
SPECIFICATION Spec
CONSTANTS
  Versions = {v1, v2, v3}
  Installed = v1
  Slots = {p1, p2, p3, p4}
  Patient = TRUE
  Fates = {"good", "exec", "open", "migrate", "assemble", "stuck", "sick"}
  MaxUpgrades = 2
  MaxFaults = 1
  MaxCrashes = 1
INVARIANTS ExecutableInPlace GoodVersionKept
PROPERTY Recovers
CHECK_DEADLOCK FALSE
