SPECIFICATION Spec
CONSTANTS
  w1 = w1
  w2 = w2
  s1 = s1
  ann = ann
  Null = Null
  Unset = Unset
  Workers = {w1, w2}
  Slugs = {s1}
  Authors = {ann}
  Contents <- MCContents
  Clean <- MCClean
  CreateBodies <- MCCreate
  PublishBodies = {}
  UpdateBodies <- MCUpdate
  MaxId = 2
  MaxTime = 1
  Readers = {1, 2}
  MaxBookmarkId = 2
INVARIANTS TypeOK
PROPERTIES DeletedStaysNull AnswerHolds
SYMMETRY Symmetric
