\* As Couples.cfg: a formalization that read its customer before the erasure.
SPECIFICATION CouplesSpec
CONSTANTS
  Cards = {1}
  Writers = {t1, t2}
  Reconciler = reconciler
  Deliverer = deliverer
  Undoable = {"contract"}
  MaxChanges = 4
  MaxFailures = 1
  NoTx = NoTx
  Captures = {c1}
  Workers = {w1, w2}
  MaxSeq = 2
  MaxAttempts = 2
  MaxFaults = 2
  Nobody = Nobody
  Nothing = Nothing
  Owners = {p1}
  Sheets = {s1, s2}
  Orders = {o1}
  Runners = {r1, r2}
  Clerks = {k1}
  NoOne = NoOne
  MaxMishaps = 1
CHECK_DEADLOCK FALSE
INVARIANT
  NothingComesBack
