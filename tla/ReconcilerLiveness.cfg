SPECIFICATION LivenessSpec
CONSTANTS
  LogLevel = {"Normal", "Debug"}
  ManagementState = {"Managed", "Removed"}
  Replicas = 1
  Budgets <- LivenessBudgets
PROPERTIES
  Converges
  StopsWhenUnmanaged
  MissingDependencyReported
  Settles
