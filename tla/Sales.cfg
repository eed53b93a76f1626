\* Two contracts compete for one fraction while the process restarts with its
\* flags; two sales of a couple come at two entrances beside the reception; two
\* visits of a couple, each corrected once, come in any order to two receivers.
SPECIFICATION SalesSpec
SYMMETRY Symmetry
CONSTANTS
  Contracts = {c1, c2}
  Fractions = {f1}
  Administrators = {a1}
  Segregation = FALSE
  HoldFlags = {TRUE, FALSE}
  OrderGates = {TRUE}
  NegotiationHolds = TRUE
  Exempt = {}
  MaxQuotas = 1
  NoContract = NoContract
  Nobody = Nobody
  Sales = {1, 2}
  Sayings <- Carried
  Entrances = {k1, k2}
  MaxRows = 3
  MaxActs = 1
  Quotas = 2
  NoDeal = NoDeal
  NoFolder = NoFolder
  NoSale = NoSale
  NoEntry = NoEntry
  Parties = {"couple"}
  Encounters = {1, 2}
  Revisions = {0, 1}
  PartyOf <- OneCouple
  ClosingTimes <- Corrected
  Projects = {p1, p2}
  Receivers = {r1, r2}
  NoCouple = NoCouple
  NoProject = NoProject
INVARIANTS
  SalesTypeOK
  StockIsBacked
  ActiveIsValidated
  QuotasFollowTheSale
  LastIsNewest
PROPERTIES
  SoldReturnsOnlyByCancellation
  EachSaleClosesItsDeal
