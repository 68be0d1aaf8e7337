SPECIFICATION Spec
CONSTANTS
  Image       = {i1}
  Name        = {loc}
  Local       = {loc}
  Unsupported = {}
  Caller      = {t1}
  Nobody      = nobody
  Persistence = TRUE
  Overlap     = {}
  MayCrash    = FALSE
INVARIANT PulledIsListed
