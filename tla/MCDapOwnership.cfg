SPECIFICATION Spec
CONSTANTS
  t1 = t1
  t2 = t2
  Tasks = {t1, t2}
  MaxGeneration = 2
SYMMETRY TaskSymmetry
INVARIANTS
  IInv
PROPERTIES
  RevokesOnlyWhatItSaw
  ImplementsPinArbiter
