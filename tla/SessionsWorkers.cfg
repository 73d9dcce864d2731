\* Two workers, and Redis failing once.
SPECIFICATION SessionsSpec
CONSTANTS
  ApiWorkers = {w1, w2}
  AuthRequests = {r1}
  MaxPairs = 1
  MaxAuthUpsets = 1
PROPERTY RevokedStaysRefused
CHECK_DEADLOCK FALSE
