SPECIFICATION GraphSpec
CONSTANTS
  Documents <- CrossedDocument
  MaxImportFaults = 0
CHECK_DEADLOCK FALSE
INVARIANTS
  ImportedPlansRun
