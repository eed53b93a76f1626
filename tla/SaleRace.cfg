\* One sale, one fraction, reservations on and the order gate off.
SPECIFICATION Spec
CONSTANTS
  Contracts = {c1}
  Fractions = {f1}
  Administrators = {a1}
  Segregation = FALSE
  HoldFlags = {TRUE}
  OrderGates = {FALSE}
  NegotiationHolds = FALSE
  Exempt = {}
  MaxQuotas = 1
  NoContract = NoContract
  Nobody = Nobody
INVARIANTS
  ValidatedOwnsItsQuotas
