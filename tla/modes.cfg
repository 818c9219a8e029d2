SPECIFICATION ModesSpec
CONSTANTS
  Capacity = 20
  StallLevel = 4
  FirstMark = 7
  TunedMark = 16
  LastMark = 18
INVARIANTS
  OneBusDriver
  RouteInEffect
  SourceHasBus
  WakesUp
PROPERTIES
  UpdateKeepsScreen
  BusSpec
  UpdateIsShown
  NobodyEndedMidway
  StopEnds
  PlaysWhenFed
  DrainedIsNoticed
