SPECIFICATION Spec
CONSTANTS
  Container   = {c1, c2}
  Caller      = {t1, t2}
  JobId       = {j1, j2}
  NoContainer = nobody
  NoCreds     = {}
  Persistence = TRUE
  Overlap     = {c2}
  SshMayFail  = FALSE
  StartOnce   = TRUE
  MayCrash    = TRUE
  MayPurge    = TRUE
SYMMETRY SlotsAndJobs
PROPERTIES KeepsBatchContract SubmitsAsContracted DurableExit FailureIsRealOrForgotten
