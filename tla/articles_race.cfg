SPECIFICATION Spec
CONSTANTS
  w1 = w1
  w2 = w2
  s1 = s1
  s2 = s2
  ann = ann
  bob = bob
  Null = Null
  Unset = Unset
  Workers = {w1, w2}
  Slugs = {s1, s2}
  Authors = {ann}
  Contents <- MCContents
  Clean <- MCClean
  CreateBodies <- MCCreateDraft
  PublishBodies <- MCPublish
  UpdateBodies <- MCUpdateFew
  MaxId = 2
  MaxTime = 0
INVARIANTS TypeOK
PROPERTIES ImplementsCatalogue PartialUpdate UndatedOnlyByClearing
SYMMETRY Symmetric
