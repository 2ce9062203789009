SPECIFICATION StatusSpec
CONSTANTS
  Applier = {"static"}
  MaxAttempts = 4
  Budgets <- ConflictBudgets
CHECK_DEADLOCK FALSE
INVARIANTS
  WritesAssumeVersion
