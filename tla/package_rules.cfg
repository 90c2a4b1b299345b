SPECIFICATION Spec
CONSTANTS
  Names <- FewNames
  Fold <- LowerCase
  Unsafe <- SomeUnsafe
  StateDir = ".freshen"
  Apps <- SomeApps
  Begins <- SomeBegin
  Manifests <- SomeManifests
  Policies <- SomePolicies
  Target = "t"
  OnMac = TRUE
INVARIANTS
  VerdictIsRight
  ItemsAreSeparate
CHECK_DEADLOCK FALSE
