\* An agent with its stream, one administrator, a port that another program has.
SPECIFICATION Spec
CONSTANTS
  s1 = s1  q1 = q1
  Ports = {1, 2}
  Taken = {2}
  Savers = {"save"}
  Streams = {s1}
  Reqs = {q1}
  Cap = 1
  MaxSaves = 1
  MaxEdits = 1
  MaxCalls = 3
  MaxRestarts = 1
INVARIANT InLine
PROPERTIES OnlyIfAllowed ExternalStreamsEnd AnsweredOrEnded
CHECK_DEADLOCK FALSE
