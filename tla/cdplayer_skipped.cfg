SPECIFICATION PlayOnSpec
CONSTANTS
  SlotCount = 2
  NoDisc = NoDisc
  NoMediaCodes = FALSE
  MustSoftscan = FALSE
  MaxQueue = 1
VIEW MCView
CONSTANT Discs <- MCSingles
PROPERTY NoDiscSkipped
