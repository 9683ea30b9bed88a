SPECIFICATION Spec
CONSTANTS
  Apps <- WaitallStrict
  TypeSize = 2
  HandleSize = 2
  TableUnit = 2
INVARIANT NoForgottenRequest
CHECK_DEADLOCK FALSE
