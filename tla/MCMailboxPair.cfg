SPECIFICATION MFairSpec
CONSTANTS
  MaxLevel = 1
  Task <- MCTask
  Cd <- MCCd
  Level <- MCLevel
  Member <- MCMember
  HeadOf <- MCHead
  MaxErrors = 2
  MaxMoves <- MCMoves
INVARIANTS MTypeOK EventsAreCounted HandledTakenOff DuplicateHasBroadcast HandlersAreOnPath
PROPERTIES ErrorReachesAll NoticesAreKept
CHECK_DEADLOCK FALSE
