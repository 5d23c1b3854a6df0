SPECIFICATION PayloadSpec
CONSTANTS
  None = None
  Limits <- MCLimits
  Inputs <- MCInputs
  Markdowns <- MCMarkdowns
  View <- MCView
INVARIANTS WithinLimits KeywordsFirst
PROPERTIES StoredIsAccepted UntouchedSaveIsQuiet
