SPECIFICATION FairHandoffSpec
CONSTANTS
  exe = exe  r1 = r1  t1 = t1  t2 = t2  old = old
  Absent = Absent  Damaged = Damaged  NoToken = NoToken  NoRelease = NoRelease
  Items <- OneItem
  Releases <- OneRelease
  Inventory <- OneInventory
  Contents <- AllContents
  Installed <- OldInstalled
  Tokens <- TwoTokens
  ReleaseOf <- ReleaseOfAll
  Executable = exe
  HoldsProgram <- OneProgram
  Bundle = FALSE
  Faults = {"crash"}
INVARIANTS
  ArmedIsLocked
PROPERTIES
  InstallsOffline
  CancelIsFinal
  CommitIsConfirmed
  RunningChildIsLeftAlone
  ImplementsInstallTransaction
  HelpersEnd
  LaunchCallsEnd
  CancelEnds
  ConfirmsWholeRelease
CHECK_DEADLOCK FALSE
