SPECIFICATION PageSpec
CONSTANTS
  a = a
  b = b
  c = c
  F = F
  G = G
  None = None
  Asked = Asked
  Down = Down
  Ids = {a, b, c}
  UserFolders = {F, G}
  Uploads = {}
  SourceOf <- MCSourceOf
  Scenes <- AllScenes
INVARIANT LibraryIsWellFormed
PROPERTIES TracksKeepAPlace TombstonesHold ServerAgrees RowsSettle
CHECK_DEADLOCK FALSE
