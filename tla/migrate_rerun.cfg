SPECIFICATION Spec
CONSTANTS
  Null = Null
  a1 = a1
  a2 = a2
  ann = ann
  ig = ig
  img = img
  Ids = {a1}
  People = {ann}
  Links = {ig, img}
  Instagram = {ig}
  Titles <- MCTitles
  Covers <- MCCovers
  TagLists <- MCTagLists
  OldArticles <- MCOldArticles
  OldUsers <- MCOldUsers
  MaxPasses = 3
  MaxCrashes = 2
INVARIANTS TypeOK TagsKept
PROPERTIES RerunIsHarmless EveryRunEnds
CHECK_DEADLOCK FALSE
