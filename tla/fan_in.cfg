SPECIFICATION PromptSpec
CONSTANTS
  ta = ta
  tb = tb
  tc = tc
  Tasks = {ta, tb, tc}
  Deps <- JoinDeps
  MaxAttempts <- OneAttempt
  AttemptLimit = 1
  Sessions = {s1}
  NoSession = NoSession
  Handlers = {h1, h2}
PROPERTIES ReadyTasksAreReleased SuccessIsSettled DrainedIsClosed
CHECK_DEADLOCK FALSE
