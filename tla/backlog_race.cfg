SPECIFICATION Spec
CONSTANTS
  w1 = w1
  w2 = w2
  site = site
  endless = endless
  Null = Null
  Workers = {w1, w2}
  Hosts = {site, endless}
  TooLong = {endless}
  Inputs <- MCInputs
  MaxId = 2
  MaxTime = 2
INVARIANTS UrlUnique
PROPERTIES AllViewed NothingReturns NothingSitsUnseen
