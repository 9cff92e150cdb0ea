SPECIFICATION Spec
CONSTANTS
  ta = ta
  tb = tb
  tc = tc
  Tasks = {ta, tb}
  Deps <- ChainDeps
  MaxAttempts <- RetryFirst
  AttemptLimit = 2
  Sessions = {s1}
  NoSession = NoSession
  Handlers = {h1, h2}
INVARIANTS TypeOK DependenciesFirst VerdictMatchesTasks ExclusiveOwnership OutcomesAgree RetryBudget
PROPERTIES ImplementsLifecycle TerminalIsFinal
SYMMETRY Symmetry
