\* One installment and the one an agreement may replace it with; an adjustment, a
\* registration by hand, charges of the gateway announced twice, a cancellation.
\* A contract whose debts are all closed has nothing left to do.
SPECIFICATION FocusSpec
CONSTANTS
  Installments = {i1, i2}
  Original = {i1}
  Types = {boleto}
  FirstAmount = 1
  FirstStatus = {"active", "forming"}
  Announced = {"confirmed", "received"}
  MaxRaised = 1
  MaxAttempts = 2
  MaxIssues = 2
  MaxRegistering = 1
  MaxInFlight = 1
  MaxRestarts = 1
  Nothing = Nothing
CHECK_DEADLOCK FALSE
INVARIANTS
  TypeOK
  DebtIsConserved
  ClosedIsNotCollected
  ReceiptsAreBookedOnce
  CommissionsFollowTheSale
PROPERTIES
  IntentsAreResolved
