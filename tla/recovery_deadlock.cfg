SPECIFICATION PromptRecovery
CONSTANTS
  ta = ta
  tb = tb
  tc = tc
  Tasks = {ta, tb, tc}
  Deps <- ForkDeps
  MaxAttempts <- OneAttempt
  AttemptLimit = 1
  Sessions = {s1}
  NoSession = NoSession
  Handlers = {h1}
  BatchSize = 3
  MaxPasses = 4
  MaxCrashes = 1
PROPERTY RecoveryCompletes
CHECK_DEADLOCK FALSE
