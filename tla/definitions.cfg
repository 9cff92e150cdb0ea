SPECIFICATION PipelineSpec
CONSTANTS
  Documents <- AllDocuments
  Invalid = {0}
  AttemptLimit = 1
  MaxErrors = 2
INVARIANTS VerdictIsRight RejectionIsExplained ReductionIsTopological LoadsBack
CHECK_DEADLOCK FALSE
