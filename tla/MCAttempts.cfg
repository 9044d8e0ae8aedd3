\* On time, one reconciler, nobody intervenes.
SPECIFICATION Spec
CONSTANTS
  t1 = t1
  t2 = t2
  t3 = t3
  f1 = f1
  f2 = f2
  None = None
  Threads = {t1, t2}
  Workers = {t1, t2}
  WorkerOf <- MCWorkerOf
  ArgsOf <- SameArgs
  Fingerprints = {f1}
  Reconcilers = {r1}
  People = {}
  Handled = {"requires_approval", "human_review"}
  ReviewApprovable = FALSE
  MaxApprovals = 2
  MaxAttempts = 2
  LeaseSeconds = 2
  Grace = 1
  Timely = TRUE
  MaxDeaths = 0
  MaxLandings = 2
  MaxRuns = 3
INVARIANT RunsWithinAttempts
