SPECIFICATION Spec
CONSTANTS
  Threads = {t1, t2}
  Handles = {h1, h2, h3}
  Flags = {f1}
  Faults = {"panic", "nostate"}
  MaxStrings = 2
SYMMETRY Interchangeable
INVARIANTS
  HandlesAreKnown
  FailureIsExplained
PROPERTIES
  UsesEachOnce
