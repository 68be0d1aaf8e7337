SPECIFICATION Spec
CONSTANTS
  Container  = {c1, c2}
  Prerun     = {c1}
  LastSecond = 1
  LastSpaced = 4
  MaxFaults  = 1
INVARIANTS TypeOK SuccessHasRun NumbersAreUnshared SpacedIsOwn
PROPERTY SubmitsAsContracted
