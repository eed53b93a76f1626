---------------------------- MODULE PointsLedger ----------------------------
(***************************************************************************)
(* The statement of points of one entitlement: annual credits, usage,      *)
(* adjustments, reversals and expirations.  Rows are only added; the       *)
(* balance is their sum.  A credit is worth the year it is of and the      *)
(* next one; what is left of it then lapses, oldest first.                 *)
(*                                                                         *)
(* Every entry is several transactions: the settlement of what lapsed, the *)
(* audit of every expiration, the entry under the lock of the entitlement, *)
(* and its audit.  The process may stop between them, and the year may     *)
(* turn.  The job of the expirations does the first two.                   *)
(***************************************************************************)
EXTENDS Integers, SequencesExt

CONSTANTS
  Callers,     \* calls of users in flight
  Job,         \* the expiry job
  Requests,    \* requestId of the screen
  ResStays,    \* reservations of the contract
  Amounts,     \* points of a usage or an adjustment
  AnnualPoints,
  LastYear,    \* bound: years of the project are 1..LastYear
  MaxEntries,  \* bound: rows of the statement
  MaxStops,    \* bound: stops of the process
  None

ASSUME PointsAssumption ==
  /\ Amounts \subseteq Nat \ {0}
  /\ AnnualPoints \in Nat \ {0}
  /\ LastYear \in Nat \ {0}
  /\ {MaxEntries, MaxStops} \subseteq Nat
  /\ None \notin ResStays

VARIABLES
  ledger,   \* points_ledger
  year,     \* projectYear
  stayGone, \* reservations that were cancelled
  audited,  \* rows with their audit
  call,     \* where each caller is (memory)
  stops

pointsVars == <<ledger, year, stayGone, audited, call, stops>>

Years == 1 .. LastYear
ValidityYears == 2
LastValidYear(creditYear) == creditYear + ValidityYears - 1

Asks ==
  [op : {"credit"}, year : Years]
  \cup [op : {"usage"}, points : Amounts, stay : ResStays \cup {None}, req : Requests]
  \cup [op : {"adjust"}, points : Amounts \cup {-n : n \in Amounts}, req : Requests]
  \cup [op : {"reverse"}, entry : 1 .. MaxEntries]

Types == {"annual_credit", "usage", "adjustment", "reversal", "expiration"}

Resting == [at |-> "idle"]

Calls == {Resting}
         \cup [at : {"settled", "lapses_audited"}]
         \cup [at : {"entered"}, row : 1 .. MaxEntries]

PointsTypeOK ==
  /\ Len(ledger) <= MaxEntries
  /\ \A i \in DOMAIN ledger :
       /\ ledger[i].type \in Types
       /\ ledger[i].points \in Int
       /\ ledger[i].year \in 0 .. LastYear
       /\ ledger[i].stay \in ResStays \cup {None}
       /\ ledger[i].reverses \in 0 .. i - 1
  /\ \A i, j \in DOMAIN ledger : i # j => ledger[i].key # ledger[j].key
  /\ year \in Years
  /\ stayGone \subseteq ResStays
  /\ audited \subseteq DOMAIN ledger
  /\ call \in [Callers \cup {Job} -> Calls]
  /\ stops \in 0 .. MaxStops

PointsInit ==
  /\ ledger = <<>>
  /\ year = 1
  /\ stayGone = {}
  /\ audited = {}
  /\ call = [k \in Callers \cup {Job} |-> Resting]
  /\ stops = 0

-----------------------------------------------------------------------------
(* What is computed from the rows.                                         *)


Ids == DOMAIN ledger
Points(ids) ==
  LET sum[n \in 0 .. Len(ledger)] ==
        IF n = 0 THEN 0 ELSE sum[n - 1] + IF n \in ids THEN ledger[n].points ELSE 0
  IN  sum[Len(ledger)]
Balance == Points(Ids)

Reversed(i) == \E j \in Ids : ledger[j].reverses = i
OfType(type) == {i \in Ids : ledger[i].type = type}

SettledYears == {ledger[i].year : i \in OfType("expiration")}

\* Credits that stand, of the years given.
Credited(ys) == Points({i \in OfType("annual_credit") : ledger[i].year \in ys /\ ~Reversed(i)})

\* What came in otherwise and stands: it counts as the newest, and never lapses.
NewestNonCredit ==
  Points({i \in Ids \ OfType("annual_credit") : ledger[i].points > 0 /\ ~Reversed(i)})

\* unsettledExpiredYears.
UnsettledExpiredYears ==
  {ledger[i].year : i \in {j \in OfType("annual_credit") : LastValidYear(ledger[j].year) < year}} \ SettledYears

\* Mutant: the later credits are not set aside.
LeftOfAll(y, balance) == Max({0, Min({Credited({y}), balance - NewestNonCredit})})

\* What is left of a year once everything newer than it is set aside.
LeftOver(y, balance) ==
  LET newer == NewestNonCredit + Credited({z \in Years : z > y})
  IN  Max({0, Min({Credited({y}), balance - newer})})

\* pendingExpirations: what lapses up to a year, each year out of the balance the
\* older ones leave.
LapsedUpTo ==
  LET upTo[y \in 0 .. LastYear] ==
        IF y = 0 THEN 0
        ELSE upTo[y - 1] + IF y \in UnsettledExpiredYears THEN LeftOver(y, Balance - upTo[y - 1]) ELSE 0
  IN  upTo

Entry(type, points, y, stay, reverses, key) ==
  [type |-> type, points |-> points, year |-> y, stay |-> stay, reverses |-> reverses, key |-> key]

ExpirationRow(y) ==
  Entry("expiration", LapsedUpTo[y - 1] - LapsedUpTo[y], y, None, 0, <<"expiry", y>>)

\* Rows of usage of a reservation that were not reversed.
UsageOf(s) == {i \in OfType("usage") : ledger[i].stay = s /\ ~Reversed(i)}

\* The bound leaves room for the expiration of every credit.
Room(more) ==
  Len(ledger) + more + Cardinality({ledger[i].year : i \in OfType("annual_credit")} \ SettledYears) <= MaxEntries

-----------------------------------------------------------------------------
(* The transactions of a call.                                             *)

\* settleExpirations, under the lock of the entitlement: a row for each year, the
\* oldest first.
Settled ==
  LET upTo[y \in 0 .. LastYear] ==
        IF y = 0 THEN ledger
        ELSE IF y \in UnsettledExpiredYears THEN Append(upTo[y - 1], ExpirationRow(y))
        ELSE upTo[y - 1]
  IN  upTo[LastYear]

\* A user asks for an entry: first what lapsed is settled, whatever the entry.
Ask(k) ==
  /\ call[k] = Resting
  /\ ledger' = Settled
  /\ call' = [call EXCEPT ![k].at = "settled"]
  /\ UNCHANGED <<year, stayGone, audited, stops>>

\* Mutant: the job looks for years to settle, and not for audits that lack.
SweepUnsettled ==
  /\ call[Job] = Resting
  /\ UnsettledExpiredYears # {}
  /\ ledger' = Settled
  /\ call' = [call EXCEPT ![Job].at = "settled"]
  /\ UNCHANGED <<year, stayGone, audited, stops>>

\* settleAllExpirations: a year to settle, or an expiration without its audit.
Sweep ==
  /\ call[Job] = Resting
  /\ UnsettledExpiredYears # {} \/ ~(OfType("expiration") \subseteq audited)
  /\ ledger' = Settled
  /\ call' = [call EXCEPT ![Job].at = "settled"]
  /\ UNCHANGED <<year, stayGone, audited, stops>>

\* Every expiration on record is audited, this one's or not.
AuditLapses(k) ==
  /\ call[k].at = "settled"
  /\ audited' = audited \cup OfType("expiration")
  /\ call' = [call EXCEPT ![k].at = IF k = Job THEN "idle" ELSE "lapses_audited"]
  /\ UNCHANGED <<ledger, year, stayGone, stops>>

\* The row an ask is for, and its idempotency key.
KeyOf(ask) ==
  CASE ask.op = "credit"  -> <<"annual", ask.year>>
    [] ask.op = "usage"   -> <<"usage", ask.req>>
    [] ask.op = "adjust"  -> <<"adjustment", ask.req>>
    [] ask.op = "reverse" -> <<"reversal", ask.entry>>

EntryOf(ask) ==
  CASE ask.op = "credit"  -> Entry("annual_credit", AnnualPoints, ask.year, None, 0, KeyOf(ask))
    [] ask.op = "usage"   -> Entry("usage", 0 - ask.points, 0, ask.stay, 0, KeyOf(ask))
    [] ask.op = "adjust"  -> Entry("adjustment", ask.points, 0, None, 0, KeyOf(ask))
    [] ask.op = "reverse" -> LET of == ledger[ask.entry]
                             IN  Entry("reversal", 0 - of.points, of.year, of.stay, ask.entry, KeyOf(ask))

\* Mutant: the reservation is looked at when it has no usage, and not locked
\* against its cancellation.
AllowedCancelled(ask) ==
  /\ Balance + EntryOf(ask).points >= 0
  /\ ask.op = "credit" => ask.year <= year /\ LastValidYear(ask.year) >= year
  /\ ask.op = "usage" => ask.stay = None \/ UsageOf(ask.stay) = {}
  /\ ask.op = "reverse" =>
       /\ ledger[ask.entry].type # "reversal"
       /\ ledger[ask.entry].type = "annual_credit" => LastValidYear(ledger[ask.entry].year) >= year

\* Mutant: only usage and adjustment look at the balance.
AllowedReversal(ask) ==
  /\ ask.op # "reverse" => Balance + EntryOf(ask).points >= 0
  /\ ask.op = "credit" => ask.year <= year /\ LastValidYear(ask.year) >= year
  /\ ask.op = "usage" => ask.stay = None \/ (ask.stay \notin stayGone /\ UsageOf(ask.stay) = {})
  /\ ask.op = "reverse" => ledger[ask.entry].type # "reversal"

\* The guards of each entry, all under the lock.
AllowedEntry(ask) ==
  /\ Balance + EntryOf(ask).points >= 0
  /\ ask.op = "credit" => ask.year <= year /\ LastValidYear(ask.year) >= year
  /\ ask.op = "usage" => ask.stay = None \/ (ask.stay \notin stayGone /\ UsageOf(ask.stay) = {})
  /\ ask.op = "reverse" =>
       /\ ledger[ask.entry].type # "reversal"
       /\ ledger[ask.entry].type = "annual_credit" => LastValidYear(ledger[ask.entry].year) >= year

\* Mutant: the row of an earlier try is not looked for.
RecordedNever(ask) == {}

Recorded(ask) == {i \in Ids : ledger[i].key = KeyOf(ask)}

\* creditAnnual, recordUsage, adjust, reverse: the row of an earlier try, or a
\* new one.
Enter(k, ask) ==
  /\ call[k].at = "lapses_audited"
  /\ \/ /\ Recorded(ask) # {}
        /\ call' = [call EXCEPT ![k] = [at |-> "entered", row |-> CHOOSE i \in Recorded(ask) : TRUE]]
        /\ UNCHANGED ledger
     \/ /\ Recorded(ask) = {}
        /\ ask.op = "reverse" => ask.entry \in Ids
        /\ AllowedEntry(ask)
        /\ Room(IF ask.op = "credit" THEN 2 ELSE 1)
        /\ ledger' = Append(ledger, EntryOf(ask))
        /\ call' = [call EXCEPT ![k] = [at |-> "entered", row |-> Len(ledger) + 1]]
  /\ UNCHANGED <<year, stayGone, audited, stops>>

\* The audit of the row; a repeated one is not written.
AuditEntry(k) ==
  /\ call[k].at = "entered"
  /\ audited' = audited \cup {call[k].row}
  /\ call' = [call EXCEPT ![k] = Resting]
  /\ UNCHANGED <<ledger, year, stayGone, stops>>

\* A refusal: of a guard, or of an entitlement that is not active or not in force
\* (requireActive, requireInValidity).
Refuse(k) ==
  /\ call[k].at = "lapses_audited"
  /\ call' = [call EXCEPT ![k] = Resting]
  /\ UNCHANGED <<ledger, year, stayGone, audited, stops>>

-----------------------------------------------------------------------------
(* What happens around them.                                               *)

\* updateReservationStatus to cancelled: locks the reservation and reads the
\* rows of usage under it.
CancelStay(s) ==
  /\ s \notin stayGone
  /\ UsageOf(s) = {}
  /\ stayGone' = stayGone \cup {s}
  /\ UNCHANGED <<ledger, year, audited, call, stops>>

YearTurns ==
  /\ year < LastYear
  /\ year' = year + 1
  /\ UNCHANGED <<ledger, stayGone, audited, call, stops>>

\* The process stops: every call in flight is lost, wherever it was.
Stop ==
  /\ stops < MaxStops
  /\ \E k \in Callers \cup {Job} : call[k] # Resting
  /\ call' = [k \in Callers \cup {Job} |-> Resting]
  /\ stops' = stops + 1
  /\ UNCHANGED <<ledger, year, stayGone, audited>>

PointsNext ==
  \/ \E k \in Callers : Ask(k) \/ \E ask \in Asks : Enter(k, ask)
  \/ Sweep
  \/ \E k \in Callers \cup {Job} : AuditLapses(k) \/ AuditEntry(k) \/ Refuse(k)
  \/ \E s \in ResStays : CancelStay(s)
  \/ YearTurns
  \/ Stop

PointsSpec == PointsInit /\ [][PointsNext]_pointsVars

\* The job runs at the start and every six hours.
PointsFairness == WF_pointsVars(Sweep) /\ WF_pointsVars(AuditLapses(Job))

FairPointsSpec == PointsSpec /\ PointsFairness

-----------------------------------------------------------------------------
(* What is checked.                                                        *)

\* The balance is never negative, and never holds a point of a year that was
\* settled: it is covered by the credits not settled yet and by what came in
\* otherwise, whatever was used, adjusted and reversed in between, and whether
\* or not the year turned between a settlement and its entry.  A cancelled
\* reservation holds no points, and no reservation holds them twice.
BalanceIsCovered ==
  /\ Balance >= 0
  /\ Balance <= Credited(Years \ SettledYears) + NewestNonCredit
  /\ \A s \in ResStays : Cardinality(UsageOf(s)) <= IF s \in stayGone THEN 0 ELSE 1

\* A settlement, of however many years, leaves the credits that did not expire
\* and what came in otherwise, or the balance there was if it is less.
SettlementTakesWhatLapsed ==
  [][SettledYears' # SettledYears =>
       Balance' = Min({Balance, Credited(Years \ (SettledYears \cup UnsettledExpiredYears)) + NewestNonCredit})]_pointsVars

\* Again and again every credit that expired is settled and every expiration has
\* its audit, even when the process stops in between and no one makes another
\* entry.
LapsesAreSettled ==
  []<>(UnsettledExpiredYears = {} /\ OfType("expiration") \subseteq audited)
=============================================================================
