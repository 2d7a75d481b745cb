\* New databases and those of eleven earlier releases, with two crashes and a failing transaction.
SPECIFICATION Spec
CONSTANTS
  Releases = {0, 1, 5, 9, 10, 15, 18, 24, 32, 41, 45, 48}
  MaxCrashes = 2
  MaxFaults = 1
INVARIANT ServesAlike
PROPERTY Migrated
CHECK_DEADLOCK FALSE
