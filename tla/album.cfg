SPECIFICATION AlbumSpec
CONSTANTS
  album3 = album3
  album2 = album2
  mixed = mixed
  Discs = {album3, album2, mixed}
  Toc <- MCToc
  Settings <- MCSettings
  SongDiscs = {album2, mixed}
  Songs = 2
  Ends = 3
  Lyrics <- MCLyrics
  TrackNos = {1, 2}
  FullTime <- MCFullTime
  FourMinutes = 2
  ThirtySeconds = 1
  MaxTokens = 2
  MaxWaiting = 3
  WheelLength = 6
  Letters <- MCLetters
  FirstSymbol = 5
  MaxText = 2
  LastRelease = 3
  Stamps <- MCStamps
  MoreStamps <- MCMoreStamps
  MaxLines = 2
  Devices = {phone, tablet}
  NoDevice = none
INVARIANTS TitlesOfOwnTrack OneCutAtMost ServedWhole LineIsSung CursorInText RepairIsOffered SungInOrder ScreenOfPeer
PROPERTIES FetchEnds AnnouncedThenScrobbled StrandedOnlyWhenFull TextIsKept
CHECK_DEADLOCK FALSE
