SPECIFICATION Spec
CONSTANTS
  t1 = t1  t2 = t2  p1 = p1  p2 = p2  p3 = p3
  Targets = {t1, t2}
  Packs = {p1, p2, p3}
  TargetOf <- OneTwice
  Files = {"f", "g"}
  Bytes = {"old", "long"}
  Size <- Lengths
  Notes = {"n"}
  Absent = Absent
  MaxEdits = 1
  Faults = {"crash"}
SYMMETRY SameOutputs
INVARIANTS
  SignedDescribesPackages
  OnlyTouchedFilesDiffer
CHECK_DEADLOCK FALSE
