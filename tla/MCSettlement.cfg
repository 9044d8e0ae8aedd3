SPECIFICATION Spec
CONSTANTS
  Window <- MCWindow
  Fallback <- MCFallback
  MaxAttempts <- MCMaxAttempts
  MaxRuns <- MCMaxRuns
  Deployments <- MCDeployments
INVARIANTS
  TypeOK
  OneObject
  CommittedHappened
  CommittedHasEvidence
  FailuresAreReal
  GateAgrees
  AuditPredictsRuntime
  DenialStands
  AnsweredForOwnCall
PROPERTIES
  LostEffectsResolve
CHECK_DEADLOCK FALSE
