\* Two requests at once against one quota, a share of a second user, scans and the list of tasks.
SPECIFICATION Spec
CONSTANTS
  ann = ann
  bob = bob
  a = a
  b = b
  Users = {ann, bob}
  Askers = {ann}
  Names = {a, b}
  MaxSize = 2
  Quota <- MCQuota
  Stored <- MCStored
  Wants <- MCWants
  Tokens = {t}
  Mounted <- MCMounted
  Requests = {r1, r2}
  Overlap = FALSE
  MaxOps = 2
  MaxOutside = 1
PROPERTIES QuotaKept SessionsCleared FigureConverges
CHECK_DEADLOCK FALSE
