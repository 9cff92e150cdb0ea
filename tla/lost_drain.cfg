SPECIFICATION DeployedSpec
CONSTANTS
  ta = ta
  tb = tb
  tc = tc
  Tasks = {ta, tb}
  Deps <- ChainDeps
  MaxAttempts <- OneAttempt
  AttemptLimit = 1
  Sessions = {s1}
  NoSession = NoSession
  Handlers = {h1, h2}
PROPERTY UnstartedAreCancelled
