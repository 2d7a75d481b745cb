\* One user, two page loads one after the other: lost answers, a crash, an abort, a reload.
SPECIFICATION Spec
CONSTANTS
  None = None
  f1 = f1
  f2 = f2
  Files = {f1, f2}
  Size <- TwoSizes
  ChunkSize = 2
  Sessions <- TwoPages
  Reqs = {r1, r2}
  Concurrency = 2
  MaxRetries = 2
  Overlap = "nothing"
  WholeFileCRC = TRUE
  CrashPoints <- BeforeCleanup
  MaxFaults = 1
  MaxCrashes = 1
  MaxAborts = 1
  MaxTrouble = 2
  MaxCloses = 1
INVARIANTS ReceivedIsStored AcknowledgedIsRecorded DestinationStays
PROPERTY UploadEnds
