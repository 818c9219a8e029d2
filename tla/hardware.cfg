SPECIFICATION HardwareSpec
CONSTANTS
  cdp = cdp
  ui = ui
  Tasks = {cdp, ui}
  Main = cdp
  NoTask = none
  Ops <- MCOps
  Drives <- MCDrives
  Disc <- MCDisc
  Slots = 1
  Registers = {"DriveSelect", "Data"}
  Bytes = {"00"}
  KeysInUse = {"forward", "prevTrackDisc"}
  MaxNews = 3
  Digits = {0, 1, 9}
  Sizes = {0, 9, 15, 90, 99}
  MaxTyped = 999
INVARIANTS TocRightOrEmpty LeftoverOnlyOfNonsense OneFaultNoFight KeysFromKeyPort OnePressOneCommand
           EachKeyOnce NumberAsTyped
PROPERTIES SemaphoreComesFree
CHECK_DEADLOCK FALSE
