SPECIFICATION FairProtocol
CONSTANTS
  a1 = a1
  a2 = a2
  charge = charge
  ship = ship
  step_one = step_one
  Attempts = {a1, a2}
  Drained = {}
  Sessions = {s1}
  NoSession = NoSession
  Activities = {charge, ship}
  activity_type <- ActivityTypes
  task_definition_id <- TaskNames
  Outcomes = {"SUCCESS", "TYPE_ERROR", "NOT_JSON"}
  LossyCalls = {"poll", "start", "callback"}
  MaxDrains = 0
  MaxLosses = 2
  MaxCrashes = 0
  MaxRestarts = 0
PROPERTY ClaimsAreStarted
CHECK_DEADLOCK FALSE
