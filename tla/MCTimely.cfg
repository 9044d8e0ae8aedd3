\* A deployment that keeps its times: one reconciler, one person who handles
\* approvals and reviews.
SPECIFICATION Spec
CONSTANTS
  t1 = t1
  t2 = t2
  t3 = t3
  f1 = f1
  f2 = f2
  None = None
  Threads <- MCThreads
  Workers <- MCThreads
  WorkerOf <- MCWorkerOf
  ArgsOf <- OtherArgs
  Fingerprints = {f1, f2}
  Reconcilers = {r1}
  People = {p1}
  Handled = {"requires_approval", "human_review"}
  ReviewApprovable = FALSE
  MaxApprovals = 2
  MaxAttempts = 3
  LeaseSeconds = 3
  Grace = 2
  Timely = TRUE
  MaxDeaths = 2
  MaxLandings = 2
  MaxRuns = 4
INVARIANTS
  AtMostOnce
  FailedDidNotHappen
  OneHandler
  FirstCallerAgrees
  TimelyInv
  ServedOwnArguments
PROPERTIES
  NeverBlindlyRearmed
  RetryArmsOwnAttempt
  LiveLeaseKept
  KeepsOnce
