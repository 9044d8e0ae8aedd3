\* Nothing is assumed of the timing.
SPECIFICATION Spec
CONSTANTS
  t1 = t1
  t2 = t2
  t3 = t3
  f1 = f1
  f2 = f2
  None = None
  Threads = {t1, t2}
  Workers = {t1, t2}
  WorkerOf <- MCWorkerOf
  ArgsOf <- SameArgs
  Fingerprints = {f1}
  Reconcilers = {r1}
  People = {p1}
  Handled = {"requires_approval", "human_review", "unknown", "receipt_recorded"}
  ReviewApprovable = TRUE
  MaxApprovals = 2
  MaxAttempts = 2
  LeaseSeconds = 1
  Grace = 0
  Timely = FALSE
  MaxDeaths = 0
  MaxLandings = 1
  MaxRuns = 1
INVARIANTS
  TypeOK
  SingleAdmitter
  ResultMatchesState
  NothingBeforeApproval
  IndInv
PROPERTIES
  KeepsPromise
SYMMETRY MCSymmetry
