SPECIFICATION Spec
CONSTANTS
  Container   = {c1}
  Caller      = {t1, t2}
  JobId       = {j1, j2}
  NoContainer = nobody
  NoCreds     = {}
  Persistence = FALSE
  Overlap     = {c1}
  SshMayFail  = TRUE
  StartOnce   = FALSE
  MayCrash    = TRUE
  MayPurge    = TRUE
SYMMETRY SlotsAndJobs
INVARIANT TypeOK
PROPERTY ExitStandsAgainstLaterCalls
