SPECIFICATION ChangerSpec
CONSTANTS
  SlotCount = 2
  Discs <- MCAll
  NoDisc = NoDisc
  NoMediaCodes = FALSE
  MustSoftscan = FALSE
  MaxQueue = 1
VIEW MCHistoryView
INVARIANTS
  AlbumOfItsDisc
  StoppedTrackSelectable
  ChangeIsHeadedThere
