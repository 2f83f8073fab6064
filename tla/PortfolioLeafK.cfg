CONSTANTS
  Bases <- MCBases
  Settings <- MCSettings
  MaxLines = 1
  MaxRestarts = 0
  K = 15
SPECIFICATION Spec
INVARIANT NoResultOutsideRange
