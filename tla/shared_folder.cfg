SPECIFICATION FairSpec
CONSTANTS
  Latest = 3
  Files <- MCFiles
  Exe = "exe"
  Content <- MCContent
  Listed <- MCListed
  Suits <- MCSuits
  MaxReverts = 1
INVARIANT
  ReadyMeansArrived
PROPERTIES
  RestartsAdvance
  Converges
