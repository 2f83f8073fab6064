CONSTANTS
  Bases <- NoPanelBases
  Settings <- MCSettings
  MaxLines = 2
  MaxRestarts = 0
  K = 15
SPECIFICATION Spec
PROPERTY EncodeOnFirstQueryOnly
