SPECIFICATION SingleLiveSpec
CONSTANTS
  SlotCount = 1
  Discs <- MCSingles
  NoDisc = NoDisc
  NoMediaCodes = FALSE
  MustSoftscan = FALSE
  MaxQueue = 2
PROPERTIES
  NoTaskKilledMidway
  QueueNotSharedDuringFetch
  TeardownEnds
  PlayingIsNoticed
