SPECIFICATION InstalledFairSpec
CONSTANTS
  LogLevel = {"Normal"}
  ManagementState = {"Managed"}
  Replicas = 1
  Budgets <- ConversionBudgets
PROPERTIES
  ConversionDriftCorrected
