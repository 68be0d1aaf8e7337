SPECIFICATION Spec
CONSTANTS
  Pod         = {p1}
  Record      = {r1}
  Container   = {c1}
  Caller      = {t1}
  Nobody      = nobody
  HostNetwork = {}
  PodNetwork  = TRUE
  Persistence = FALSE
  Overlap     = {}
  NetMayFail  = FALSE
  MayCrash    = TRUE
INVARIANT StoppedIsTornDown
