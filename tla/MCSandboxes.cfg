SPECIFICATION Spec
CONSTANTS
  Pod         = {p1, p2, p3}
  Record      = {r1, r2}
  Container   = {c1}
  Caller      = {t1, t2}
  Nobody      = nobody
  HostNetwork = {p3}
  PodNetwork  = TRUE
  Persistence = TRUE
  Overlap     = {p1}
  NetMayFail  = TRUE
  MayCrash    = TRUE
SYMMETRY Interchangeable
INVARIANTS TypeOK FileFollowsPool FailedRunCleansUp PoolHoldsAccepted ReadyIsAttached
PROPERTIES StoppedStaysDown KeepsSandboxContract
