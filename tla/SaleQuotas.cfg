\* One sale of up to two quotas, every value of both flags, two administrators
\* under segregation of duties, and the fairness of the hold expiry job.
SPECIFICATION FairSpec
CONSTANTS
  Contracts = {c1}
  Fractions = {f1, f2}
  Administrators = {a1, a2}
  Segregation = TRUE
  HoldFlags = {TRUE, FALSE}
  OrderGates = {TRUE, FALSE}
  NegotiationHolds = TRUE
  Exempt = {}
  MaxQuotas = 2
  NoContract = NoContract
  Nobody = Nobody
INVARIANTS
  ReservedSoldAfterConferences
PROPERTIES
  ImplementsStock
  LapsedHoldsAreReleased
