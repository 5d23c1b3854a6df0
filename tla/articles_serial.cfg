SPECIFICATION Spec
CONSTANTS
  w1 = w1
  w2 = w2
  s1 = s1
  s2 = s2
  ann = ann
  bob = bob
  Null = Null
  Unset = Unset
  Workers = {w1}
  Slugs = {s1, s2}
  Authors = {ann, bob}
  Contents <- MCContents
  Clean <- MCClean
  CreateBodies <- MCCreate
  PublishBodies <- MCPublish
  UpdateBodies <- MCUpdateUndated
  MaxId = 2
  MaxTime = 2
 
PROPERTIES FirstStampSticks LastmodOnlyWithAnEdit ChangeMovesLastmod SentIsApplied
SYMMETRY Symmetric
