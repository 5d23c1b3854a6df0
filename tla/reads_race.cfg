SPECIFICATION Spec
CONSTANTS
  Null = Null
  Ids = {1, 2, 3, 4}
  Dates = {1, 2}
  PageSizes = {1, 2}
  MAX_LIST_PAGE = 4
  SITEMAP_MAX_ROWS = 2
  MaxWrites = 2
INVARIANTS NothingSkipped NothingRepeated MorePromisesMore TruncatedTellsIt
