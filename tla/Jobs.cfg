\* Batches of one event and no exclusion: every batch is full, rereads are paged;
\* the consumer may refuse one of the two contracts for ever.
\* One contract with two installments, four days: a case is due two days after the
\* first lapses; a dismissal keeps it from another for two days, or until the second
\* lapses.
SPECIFICATION JobsSpec
CONSTANTS
  MaxEvent = 2
  OrderKey <- TwoOrder
  Targets <- Paging
  MaxContentRejections = 1
  Poison = {1}
  Debtors = {c1}
  Dues = {1, 3}
  LastDay = 4
  WindowDays = 2
  LeadDays = 1
  ReopenDays = 2
  PromiseDays = 1
  MaxCases = 3
  MaxMoves = 1
  MaxHalts = 1
  Nobodys = Nobodys
INVARIANTS
  JobsTypeOK
PROPERTIES
  EventuallyHandled
  CaseIsDecidedOnce
  QueueFollowsTheDebt
