SPECIFICATION CSpec
CONSTANTS
  Values <- MCValues
  MAX_PERMITS = 5000
  MAX_DURATION = 50
INVARIANTS
  ListensInRange
CHECK_DEADLOCK FALSE
