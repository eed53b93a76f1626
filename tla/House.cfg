\* Two couples, two hosts and a submission in the room; one unit, one night, two
\* reservations; one entitlement over three years; one document and one envelope;
\* three installments, of which two are the entry, one agreement.
\* Every office may run out of work.
SPECIFICATION HouseSpec
CONSTANTS
  Couples = {p1, p2}
  Hosts = {h1, h2}
  Submissions = {q1}
  NoSheet = NoSheet
  Units = {u1}
  Nights = {1}
  Bookings = {b1, b2}
  Items = {i1}
  Capacities = {1, 2}
  Desks = {k1}
  NoRow = NoRow
  Callers = {k1}
  Job = job
  Requests = {q1}
  ResStays = {b1}
  Amounts = {1}
  AnnualPoints = 2
  LastYear = 3
  MaxEntries = 5
  MaxStops = 1
  None = None
  Envelopes = {e1}
  Reconcilers = {r1}
  NoEnvelope = NoEnvelope
  Schedule = 3
  EntryTotal = 2
  Dates = {3, 9}
  V1Roles = {la}
  V2Roles = {la}
  V1Total = 5
  V2Total = 3
  Payouts = {"per_installment", "full_upfront", "entry_total"}
  Ineligible = {2}
  Clerks = {k1}
  MaxAgreements = 1
  MaxTurns = 2
  Nothing = Nothing
CHECK_DEADLOCK FALSE
INVARIANTS
  HouseTypeOK
  BalanceIsCovered
  SignatureIsReal
  CommissionsAreDue
PROPERTIES
  VisitEndsOnce
  StaysFindTheUnitFree
  SettlementTakesWhatLapsed
  LapsesAreSettled
  PaymentsEarnTheirCommission
