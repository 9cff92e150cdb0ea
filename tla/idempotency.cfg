SPECIFICATION FairIdem
CONSTANTS
  Calls = {1, 2, 3, 4, 5, 6}
  Request <- Repeated
  NoKey = "none"
  MalformedKeys = {""}
  KnownDefinitions = {"d1"}
  Faults = {"rollback", "advance", "crash"}
  MaxFaults = 2
INVARIANTS OneResourcePerKey AnswersAgree
PROPERTIES CallsEnd StartedIsScheduled
CHECK_DEADLOCK FALSE
