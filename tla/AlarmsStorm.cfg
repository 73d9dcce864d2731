SPECIFICATION Spec
CONSTANTS
  Flusher = flusher
  Requests = {}
  AlarmType = "high_level"
  Values = {0, 1, 2, 3}
  Threshold = 1
  Hysteresis = 2
  BatchSize = 2
  MaxFrames = 4
  MaxMishaps = 0
CHECK_DEADLOCK FALSE
INVARIANT OneAlarmPerCondition
