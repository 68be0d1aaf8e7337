SPECIFICATION Spec
CONSTANTS
  Image       = {i1, i2, i3}
  Name        = {hub, pub, loc, bad}
  Local       = {loc}
  Unsupported = {bad}
  Caller      = {t1, t2}
  Nobody      = nobody
  Persistence = TRUE
  Overlap     = {pub}
  MayCrash    = TRUE
SYMMETRY Interchangeable
INVARIANTS TypeOK FileFollowsPool PulledStays NoHalfImage RemovedStaysOut PullInv
