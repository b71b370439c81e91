SPECIFICATION Spec
CONSTANTS
  Values <- MCValues
  Overrides <- MCOverrides
  MaxEdits = 2
  None = None
INVARIANTS LineRules ReloadIsRestart RefusalIsContradiction TransportVlan
PROPERTIES LinkFitsLine
