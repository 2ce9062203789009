SPECIFICATION InstalledSpec
CONSTANTS
  LogLevel = {"Normal", "Debug"}
  ManagementState = {"Managed", "Removed"}
  Replicas = 1
  Budgets <- SafetyBudgets
INVARIANTS
  TypeOK
  QuiescentReconciled
  QuiescentStatusHonest
  OperandNeedsCertificates
  WorksOnlyWhenManaged
PROPERTY
  Idempotent
