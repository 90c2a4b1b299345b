SPECIFICATION Spec
CONSTANTS
  l1 = l1  l2 = l2  l3 = l3  a = a  b = b
  Bad = Bad  NotRead = NotRead  Nothing = Nothing
  Locations <- ThreeLocations
  Lists <- ShortLists
  Manifests <- SomeManifests
  ListLimit = 4
  Notes <- TwoNotes
  PreReleases <- Four
  Current = 1
  Stable = TRUE
INVARIANTS
  BestIsNewest
  HistoryIsExact
  TiesGoToTheFirst
  ErrorsAreJustified
CHECK_DEADLOCK FALSE
