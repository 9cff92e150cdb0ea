SPECIFICATION RecoverySpec
CONSTANTS
  ta = ta
  tb = tb
  tc = tc
  Tasks = {ta, tb, tc}
  Deps <- ForkDeps
  MaxAttempts <- RetryFirst
  AttemptLimit = 2
  Sessions = {s1}
  NoSession = NoSession
  Handlers = {h1}
  BatchSize = 3
  MaxPasses = 2
  MaxCrashes = 2
INVARIANTS RecoveryTypeOK OrphansAreSettled InterruptedWorkIsFinished
PROPERTY NothingIsUndone
CHECK_DEADLOCK FALSE
SYMMETRY Symmetry
