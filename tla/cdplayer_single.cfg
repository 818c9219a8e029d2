SPECIFICATION SingleSpec
CONSTANTS
  SlotCount = 1
  Discs <- MCDiscs
  NoDisc = NoDisc
  NoMediaCodes = FALSE
  MustSoftscan = TRUE
  MaxQueue = 1
VIEW MCView
INVARIANTS
  AutoPlayPending
