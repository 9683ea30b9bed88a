SPECIFICATION Spec
CONSTANT Words <- SomeWords
CONSTANT Apps <- LoopsBelow
PROPERTY RecoveryEndsAtFailurePoint
CHECK_DEADLOCK FALSE
