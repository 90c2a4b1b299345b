SPECIFICATION Spec
CONSTANTS
  exe = exe  lib = lib  ini = ini  app = app
  r1 = r1  r2 = r2
  t1 = t1  t2 = t2  t3 = t3
  old = old  user = user
  Absent = Absent  Damaged = Damaged  NoToken = NoToken  NoRelease = NoRelease
  Releases <- TwoReleases
  Contents <- AllContents
  Items <- BundleItems
  Inventory <- BundleInventory
  Installed <- BundleInstalled
  Bundle = TRUE
  Tokens <- ThreeTokens
  ReleaseOf <- ReleaseOfThree
  Faults = {"io", "crash", "tamper"}
INVARIANTS
  OnlyVouchedBytes
  Restorable
PROPERTIES
  WorkAdvances
CHECK_DEADLOCK FALSE
