SPECIFICATION Spec
CONSTANT Words <- SomeWords
CONSTANT Apps <- Recovering
INVARIANTS
  PTypeOK SeqNeverPassesFailure FailedPhaseIsMarked CurrentFollowsPath HealthyMeansExecuting
  NoAssertionFails
PROPERTY OrderlyRecovery
CHECK_DEADLOCK FALSE
