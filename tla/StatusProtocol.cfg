SPECIFICATION FairStatusSpec
CONSTANTS
  Applier = {"static"}
  MaxAttempts = 3
  Budgets <- StatusBudgets
CHECK_DEADLOCK FALSE
INVARIANT
  LossesAreNoticed
PROPERTIES
  OwnersDecide
  StatusSettles
