\* A low level that rises and falls; and two commands on the same lists, one of which is
\* answered.
SPECIFICATION OperationsSpec
CONSTANTS
  Flusher = flusher
  Requests = {request}
  AlarmType = "low_level"
  Values = {0, 1, 2, 3}
  Threshold = 1
  Hysteresis = 1
  BatchSize = 2
  MaxFrames = 4
  MaxMishaps = 1
  NoCommand = NoCommand
  Ackers = {a1}
  Commands = {c1, c2}
  Executing = {c1}
  MaxAttempts = 1
  MaxFaults = 1
CHECK_DEADLOCK FALSE
INVARIANT TypeOK
INVARIANT KeyMatchesRows
INVARIANT OneAlarmPerCondition
INVARIANT CommandTypeOK
INVARIANT FrameKept
