SPECIFICATION SettledSpec
CONSTANTS
  Container   = {c1}
  Caller      = {t1, t2}
  JobId       = {j1}
  NoContainer = nobody
  NoCreds     = {}
  Persistence = TRUE
  Overlap     = {c1}
  SshMayFail  = FALSE
  StartOnce   = TRUE
  MayCrash    = TRUE
  MayPurge    = TRUE
PROPERTIES JobIsEventuallyReported
