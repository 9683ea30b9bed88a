SPECIFICATION HSpec
CONSTANTS
  MaxLevel = 1
  Task <- MCTask
  Cd <- MCCd
  Level <- MCLevel
  Member <- MCMember
  HeadOf <- MCHead
  Programs <- ReusedAfterError
PROPERTY ErrorsAreRecovered
