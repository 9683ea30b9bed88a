SPECIFICATION Spec
CONSTANTS
  Apps <- Replayed
  TypeSize = 2
  HandleSize = 2
  TableUnit = 2
INVARIANTS TypeOK ReplayFaithful PerformedOnce NoForgottenRequest NoStop
CHECK_DEADLOCK FALSE
