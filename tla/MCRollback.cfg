SPECIFICATION HSpec
CONSTANTS
  MaxLevel = 1
  Task <- MCTask
  Cd <- MCCd
  Level <- MCLevel
  Member <- MCMember
  HeadOf <- MCHead
  Programs <- Recovered
INVARIANTS TypeOK NoCollectiveMismatch InStep NoInvalidEscalation
PROPERTIES ErrorsAreRecovered CDsAreAtomic Termination
