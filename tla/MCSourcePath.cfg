SPECIFICATION StepSpec
CONSTANTS
  Workspace <- MCWorkspace
  MaxAttempts = 1
  None = None
INVARIANTS
  SourcePathIsRoot
CHECK_DEADLOCK FALSE
