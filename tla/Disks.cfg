\* A file and a folder, one request and one job at a time next to writes and deletions.
SPECIFICATION Spec
CONSTANTS
  p1 = p1  p2 = p2  home = home  sub = sub  bk = bk
  Netdisk = {home}
  Backup = {bk}
  Names = {"doc", "note"}
  Folders = {"doc"}
  Parts = {p1, p2}
  PartsOf <- TwoFiles
  MaxSuffix = 2
  Start <- Both
  Reqs = {r1}
  Jobs = {j1, j2}
  MaxKept = 1
  Overlap = FALSE
  MaxOps = 2
  MaxWrites = 3
  MaxFaults = 1
PROPERTIES MoveKeeps OnlyOverwriteReplaces BackupWhole JobsEnd
CHECK_DEADLOCK FALSE
