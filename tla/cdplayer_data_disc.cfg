SPECIFICATION Spec
CONSTANTS
  SlotCount = 1
  NoDisc = NoDisc
  NoMediaCodes = TRUE
  MustSoftscan = FALSE
  MaxQueue = 1
VIEW MCView
CONSTANT Discs <- MCDiscs
INVARIANT ReadyIsPlayable
