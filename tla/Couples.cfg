\* One sheet, two business transactions, the reconciliation and the delivery over
\* the projection; one couple and two workers that deliver it; one customer with
\* two sheets and an order two runners pull.
\* Every office may run out of work.
SPECIFICATION CouplesSpec
CONSTANTS
  Cards = {1}
  Writers = {t1, t2}
  Reconciler = reconciler
  Deliverer = deliverer
  Undoable = {"contract"}
  MaxChanges = 4
  MaxFailures = 1
  NoTx = NoTx
  Captures = {c1}
  Workers = {w1, w2}
  MaxSeq = 2
  MaxAttempts = 2
  MaxFaults = 2
  Nobody = Nobody
  Nothing = Nothing
  Owners = {p1}
  Sheets = {s1, s2}
  Orders = {o1}
  Runners = {r1, r2}
  Clerks = {k1}
  NoOne = NoOne
  MaxMishaps = 1
CHECK_DEADLOCK FALSE
INVARIANTS
  CouplesTypeOK
  EventsTellTheProjection
  RevokedAfterEligible
  ErasureHolds
PROPERTIES
  OptOutIsSeen
  ProjectionConverges
  RevocationArrives
  FeedIsAnswered
