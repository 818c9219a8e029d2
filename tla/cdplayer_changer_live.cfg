SPECIFICATION ChangerLiveSpec
CONSTANTS
  SlotCount = 2
  Discs <- MCSingles
  NoDisc = NoDisc
  NoMediaCodes = FALSE
  MustSoftscan = FALSE
  MaxQueue = 1
PROPERTIES
  LoadingEnds
