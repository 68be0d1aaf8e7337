SPECIFICATION Spec
CONSTANTS
  Container   = {c1}
  Caller      = {t1}
  JobId       = {j1}
  NoContainer = nobody
  NoCreds     = {}
  Persistence = FALSE
  Overlap     = {}
  SshMayFail  = FALSE
  StartOnce   = TRUE
  MayCrash    = FALSE
  MayPurge    = FALSE
INVARIANT StoppedIsCancelled
