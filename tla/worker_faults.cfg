SPECIFICATION ProtocolSpec
CONSTANTS
  a1 = a1
  a2 = a2
  charge = charge
  ship = ship
  step_one = step_one
  Attempts = {a1, a2}
  Drained = {a1}
  Sessions = {s1, s2}
  NoSession = NoSession
  Activities = {charge, ship}
  activity_type <- ActivityTypes
  task_definition_id <- TaskNames
  Outcomes = {"SUCCESS", "FAILURE"}
  LossyCalls = {"poll", "start"}
  MaxDrains = 1
  MaxLosses = 1
  MaxCrashes = 1
  MaxRestarts = 1
INVARIANTS WorkerTypeOK RunsOnce 
PROPERTY AckedMeansStopped
SYMMETRY SessionSymmetry
CHECK_DEADLOCK FALSE
