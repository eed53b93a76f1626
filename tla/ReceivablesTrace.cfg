\* The bounds of the gateway in Receivables.cfg, against what the webhook promises
\* about received money.
\* A contract whose debts are all closed has nothing left to do.
SPECIFICATION Spec
CONSTANTS
  Installments = {i1}
  Original = {i1}
  Types = {boleto}
  FirstAmount = 1
  FirstStatus = {"forming"}
  Announced = {"confirmed", "received"}
  MaxRaised = 1
  MaxAttempts = 2
  MaxIssues = 2
  MaxRegistering = 0
  MaxInFlight = 1
  MaxRestarts = 0
  Nothing = Nothing
CHECK_DEADLOCK FALSE
INVARIANTS
  MoneyLeavesTrace
