SPECIFICATION Spec
CONSTANTS
  Pod        = {p1}
  Class      = {"default", "other"}
  Caller     = {t1}
  PodNetwork = TRUE
  MaxErrors  = 0
INVARIANTS TypeOK NoJobForRemote RequestsGoHome ListedOnce ListedHaveImage ToldStopped RulesInOrder
PROPERTIES EitherEndsBoth
