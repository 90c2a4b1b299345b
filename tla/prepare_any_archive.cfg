SPECIFICATION FairSpec
CONSTANTS
  exe = exe  lib = lib  sub = sub  other = other
  Paths <- FourPaths
  Inside <- BelowSub
  Packages <- SomePackages
  Archives <- SomeArchives
  MaxDownload = 3
  MaxUnpacked = 3
  MaxChunk = 2
  MaxStray = 1
  Faults = {"io"}
INVARIANTS
  PrepInv
  ReadyIsExact
  StageIsBounded
PROPERTIES
  NoWorkAfterCancel
  UnpackingEnds
CHECK_DEADLOCK FALSE
