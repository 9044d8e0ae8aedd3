SPECIFICATION Spec
CONSTANTS
  Window <- MCWindow
  Fallback <- MCFallback
  MaxAttempts <- MCMaxAttempts
  MaxRuns <- MCMaxRuns
  Deployments <- MCDeployments
INVARIANT
  AsyncFailuresAreReal
CHECK_DEADLOCK FALSE
