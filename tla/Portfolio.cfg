CONSTANTS
  Bases <- MCBases
  Settings <- MCSettings
  MaxLines = 3
  MaxRestarts = 1
  K = 15
SPECIFICATION Spec
INVARIANTS ResultsMatchTheirLine BuildtimeIsTheEncoding DoneMeansAllThere
