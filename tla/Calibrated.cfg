\* A tank with a usable calibration table.
SPECIFICATION LevelFilterSpec
CONSTANTS
  Pressures = {1, 8}
  Atmospheric = 2
  Height = 20
  Area = 3
  Capacity = 50
  Window = 2
  Tables <- MCTables
PROPERTY CalibratedIsConverted
CHECK_DEADLOCK FALSE
