SPECIFICATION RadioFairSpec
CONSTANTS
  Capacity = 20
  StallLevel = 4
  FirstMark = 7
  TunedMark = 16
  LastMark = 18
PROPERTY
  StallIsNoticed
CHECK_DEADLOCK FALSE
