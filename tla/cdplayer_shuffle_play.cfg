SPECIFICATION Spec
CONSTANTS
  SlotCount = 1
  NoDisc = NoDisc
  NoMediaCodes = FALSE
  MustSoftscan = FALSE
  MaxQueue = 1
VIEW MCView
CONSTANT Discs <- MCSingles
PROPERTY PlayStarts
