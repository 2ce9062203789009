SPECIFICATION InstalledSpec
CONSTANTS
  LogLevel = {"Normal", "Debug"}
  ManagementState = {"Managed"}
  Replicas = 1
  Budgets <- DriftBudgets
INVARIANTS
  DeploymentDriftCorrected
