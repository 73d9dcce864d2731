\* Three frames, queue and file of two or three, two mishaps, three faults.
SPECIFICATION IntakeSpec
CONSTANTS
  Frames = {1, 2, 3}
  Posted = {1}
  QueueMax = 3
  BatchSize = 2
  Milestones = {1, 3}
  MaxMishaps = 2
  MaxFrames = 4
  BufferMax = 2
  LineSize = 4
  ChunkSize = 9
  MaxFaults = 3
CHECK_DEADLOCK FALSE
INVARIANT IntakeTypeOK
INVARIANT CountersAreHonest
INVARIANT LossShows
INVARIANT LiveIsStored
INVARIANT LossHasCause
PROPERTY QueueDrains
PROPERTY BufferedIsDelivered
