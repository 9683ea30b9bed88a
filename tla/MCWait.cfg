SPECIFICATION WFairSpec
CONSTANTS
  MaxLevel = 2
  Task <- MCTask
  Cd <- MCCd
  Level <- MCLevel
  Member <- MCMember
  HeadOf <- MCHead
  MaxErrors = 1
  MaxMoves <- MCMoves
  ForceAfter = 1
INVARIANTS WTypeOK EscalatesWithReason
PROPERTY WaitEnds
CHECK_DEADLOCK FALSE
