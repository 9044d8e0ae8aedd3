CONSTANTS
  c1 = c1
  c2 = c2
  Conns = {c1, c2}
  NoConn = NoConn
  Engines = {"sqlite", "postgres"}
  Requests <- MCRequests
  LeaseSeconds = 1
  BusyTimeout = 1
  MaxClock = 2
  MaxCalls = 3
SPECIFICATION Spec
SYMMETRY MCSymmetry
CHECK_DEADLOCK FALSE
INVARIANTS
  TypeOK
  JournalTellsHistory
  AnswersMatchLedger
  OneEffectPerKey
  ScansOverlookNothing
PROPERTIES
  ImplementsLedger
  LiveLeaseHolds
