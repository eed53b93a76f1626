------------------------------ MODULE Commissions ------------------------------
(***************************************************************************)
(* The commissions of one contract: what a paid installment earns the      *)
(* people of its sale, by the rates of the first rules or by the second    *)
(* ones once they are released, what is held or skipped and evaluated      *)
(* again, and the life of a commission up to its payment, under the        *)
(* cancellation of the contract.                                           *)
(*                                                                         *)
(* An installment is worth one unit; EntryTotal of them are the entry.     *)
(* Whoever pays, validates, reevaluates or cancels holds the lock of the   *)
(* contract: each is one action.  setStatus reads first and writes later.  *)
(***************************************************************************)
EXTENDS Integers, SequencesExt

CONSTANTS
  Schedule,      \* installments of the contract, in their order
  EntryTotal,    \* downPaymentAmount of the proposal
  Dates,         \* dates an agreement may propose
  V1Roles,       \* roles the sheet of the sale gives by the first rules
  V2Roles,       \* and by the second
  V1Total,       \* what a role earns when it has a rate
  V2Total,       \* and by the second rules
  Ineligible,    \* installments paid by a method out of eligiblePaymentMethods
  Payouts,       \* how the second rules pay: see payout
  Clerks,         \* callers of setStatus
  MaxAgreements, \* bound on agreements
  MaxTurns,      \* bound on what is neither payment, validation nor cancellation, together
  Nothing        \* no row

Slots == 1 .. Schedule + MaxAgreements
ByHand == 0
Roles == V1Roles \cup V2Roles

ASSUME EntryOfSchedule == Schedule \in Nat /\ EntryTotal \in 1 .. Schedule
ASSUME RolesAreFinite == IsFiniteSet(Roles)
ASSUME BoundsOfCommissions == {MaxAgreements, MaxTurns} \subseteq Nat
ASSUME TotalsAreNat == V1Total \in Nat /\ V2Total \in Nat
ASSUME PayoutsKnown == Payouts \subseteq {"per_installment", "full_upfront", "entry_total"}

VARIABLES
  cstatus,    \* contracts.status; "forming" is draft or pending_signature
  validated,  \* sale_validations.validatedAt is set
  inst,       \* installments: [status, due, paidAt (their order)]
  agreed,     \* agreements applied: [original, due, by (the installment it created)]
  line,       \* rows of sales_commissions, by id
  trace,      \* what audit and events say of an installment without commission
  rated,      \* the policy has a rate above zero for the roles of V1Roles
  released,   \* COMMISSION_V2_RELEASED
  payout,     \* payoutSchedule of the policy
  deciding,   \* calls of setStatus past their reads (memory)
  turns       \* agreements, edits, commissions by hand, calls of setStatus... so far

saleVars == <<cstatus, validated, inst, agreed>>
ruleVars == <<rated, released, payout>>
feeVars == <<saleVars, line, trace, ruleVars, deciding, turns>>

NoInst == [status |-> "none", due |-> 0, paidAt |-> 0]
OpenInst(due) == [status |-> "open", due |-> due, paidAt |-> 0]
NoDecision == [row |-> Nothing, seen |-> "pending", to |-> "pending"]

FeesInit ==
  /\ cstatus = "forming" /\ validated = FALSE
  /\ inst = [i \in Slots |-> IF i <= Schedule THEN OpenInst(i) ELSE NoInst]
  /\ agreed = <<>> /\ line = <<>>
  /\ trace = [i \in Slots |-> {}]
  /\ rated \in BOOLEAN /\ released \in BOOLEAN /\ payout \in Payouts
  /\ deciding = [k \in Clerks |-> NoDecision]
  /\ turns = 0

-----------------------------------------------------------------------------
(* The entry *)

(* resolveEntry looks for the installment an agreement created by date (and  *)
(* amount, here always one) among the later ones nobody claimed; 0 is none.  *)
Successors(s) ==
  LET upTo[n \in 0 .. Len(agreed)] ==
        IF n = 0 THEN [o \in Slots |-> 0]
        ELSE LET succ == upTo[n - 1]
                 g == agreed[n]
                 fits == {j \in Slots : /\ j > g.original /\ s[j].due = g.due
                                        /\ s[j].status \notin {"none", "cancelled"}
                                        /\ \A o \in Slots : succ[o] # j}
             IN  IF succ[g.original] # 0 \/ fits = {} THEN succ
                 ELSE [succ EXCEPT ![g.original] = Min(fits)]
  IN  upTo[Len(agreed)]

(* The installment each agreement did create, for the properties.            *)
Created == [o \in {agreed[n].original : n \in DOMAIN agreed} |->
              (CHOOSE g \in ToSet(agreed) : g.original = o).by]

(* entryInstallmentIds: the installments up to the entry's value, each taken *)
(* to the end of its agreements.                                            *)
EntryInstallments(s, succ) ==
  LET claimed == {succ[o] : o \in Slots}
      counted == {i \in Slots : /\ s[i].status \notin {"none", "cancelled"}
                                /\ i \notin claimed
                                /\ s[i].status = "renegotiated" => succ[i] # 0}
      last[i \in Slots] == IF s[i].status = "renegotiated" /\ succ[i] # 0
                           THEN last[succ[i]] ELSE i
      within == {i \in counted : Cardinality({j \in counted : j <= i}) <= EntryTotal}
  IN  {last[i] : i \in within} \ {i \in Slots : s[i].status \in {"renegotiated", "cancelled"}}

(* isEntryFullyPaid *)
FullyPaid(s, succ) ==
  Cardinality({i \in EntryInstallments(s, succ) : s[i].status = "paid"}) >= EntryTotal

(* The schedule as it was when i was paid: later payments had not come.      *)
AsOf(i) == [j \in Slots |-> IF inst[j].paidAt > inst[i].paidAt
                            THEN [inst[j] EXCEPT !.status = "open"] ELSE inst[j]]

-----------------------------------------------------------------------------
(* What a paid installment earns *)

IsLive(l) == l.status # "cancelled"
Automatic(l) == l.inst # ByHand
Live(ls) == {n \in DOMAIN ls : Automatic(ls[n]) /\ IsLive(ls[n])}

Already(ls, r) ==
  LET upTo[n \in 0 .. Len(ls)] ==
        IF n = 0 THEN 0
        ELSE upTo[n - 1] + IF n \in Live(ls) /\ ls[n].role = r THEN ls[n].amount ELSE 0
  IN  upTo[Len(ls)]

\* The rule of the first automatic line still in force, or the one of now.
SecondRules(ls) ==
  IF Live(ls) # {} THEN ls[Min(Live(ls))].rule = "v2" ELSE released

Missing(total, already) == IF total > already THEN total - already ELSE 0

\* releasedCommission: the part of one installment, half up, never above what is missing.
Share(total, already) ==
  LET part == (2 * total + EntryTotal) \div (2 * EntryTotal)
  IN  IF part < Missing(total, already) THEN part ELSE Missing(total, already)

\* Roles without a line on i, and not owed zero after having been owed.
Payable(ls, i, roles, amount) ==
  {r \in roles : /\ \A n \in DOMAIN ls : ~(ls[n].inst = i /\ ls[n].role = r)
                 /\ ~(amount[r] <= 0 /\ Already(ls, r) > 0)}

NewLines(ls, i, rule, roles, amount) ==
  SetToSeq({[inst |-> i, role |-> r, rule |-> rule, amount |-> amount[r],
             status |-> "pending", review |-> "none"] : r \in Payable(ls, i, roles, amount)})

FirstRules(ls, i) ==
  LET amount == [r \in V1Roles |-> Share(V1Total, Already(ls, r))]
  IN  NewLines(ls, i, "v1", IF rated THEN V1Roles ELSE {}, amount)

Held(s, i) ==
  LET succ == Successors(s)
  IN  \/ payout # "entry_total" /\ i \in Ineligible
      \/ i \notin EntryInstallments(s, succ)
      \/ payout = "entry_total" /\ ~FullyPaid(s, succ)

SecondRulesLines(ls, i) ==
  LET amount == [r \in V2Roles |-> IF payout = "per_installment"
                                   THEN Share(V2Total, Already(ls, r))
                                   ELSE Missing(V2Total, Already(ls, r))]
  IN  NewLines(ls, i, "v2", V2Roles, amount)

\* Mutant: the second rules, locked again, leave no trace.
EarnedUntold(ls, s, i) ==
  LET none(told) == [lines |-> <<>>, told |-> told]
  IN  IF ~rated /\ ~released THEN none({"skipped"})
      ELSE IF ~SecondRules(ls) THEN [lines |-> FirstRules(ls, i), told |-> {}]
      ELSE IF ~released THEN none({})
      ELSE IF Held(s, i) THEN none({"held"})
      ELSE [lines |-> SecondRulesLines(ls, i), told |-> {}]

\* zeroRateSkippedRoles, then insertInstallmentCommissions: the lines i gets
\* beside ls, and what is told of it, seen on the schedule s.
Earned(ls, s, i) ==
  LET none(told) == [lines |-> <<>>, told |-> told]
  IN  IF ~rated /\ ~released THEN none({"skipped"})
      ELSE IF ~SecondRules(ls) THEN [lines |-> FirstRules(ls, i), told |-> {}]
      ELSE IF ~released THEN none({"skipped"})
      ELSE IF Held(s, i) THEN none({"held"})
      ELSE [lines |-> SecondRulesLines(ls, i), told |-> {}]

-----------------------------------------------------------------------------
(* Installments *)

Turn == turns < MaxTurns /\ turns' = turns + 1

GateOpen == cstatus = "active" /\ validated

\* commissionBlockReason
Blocked == IF validated THEN "contract_not_active" ELSE "sale_not_validated"

\* markInstallmentPaid, or the webhook of the gateway: under the lock of the contract.
Pay(i) ==
  /\ inst[i].status = "open"
  /\ LET s == [inst EXCEPT ![i].status = "paid",
                           ![i].paidAt = 1 + Cardinality({j \in Slots : inst[j].paidAt > 0})]
         e == Earned(line, s, i)
     IN  /\ inst' = s
         /\ line' = IF GateOpen THEN line \o e.lines ELSE line
         /\ trace' = [trace EXCEPT ![i] = @ \cup IF GateOpen THEN e.told ELSE {Blocked}]
  /\ UNCHANGED <<cstatus, validated, agreed, ruleVars, deciding, turns>>

\* applyRenegotiation: the new installment comes after every other.
Renegotiate(i) ==
  /\ inst[i].status = "open" /\ cstatus # "cancelled"
  /\ Len(agreed) < MaxAgreements /\ Turn
  /\ \E due \in Dates :
       LET by == CHOOSE j \in Slots : inst[j].status = "none" /\ \A h \in 1 .. j - 1 : inst[h].status # "none"
       IN  /\ inst' = [inst EXCEPT ![i].status = "renegotiated", ![by] = OpenInst(due)]
           /\ agreed' = Append(agreed, [original |-> i, due |-> due, by |-> by])
  /\ UNCHANGED <<cstatus, validated, line, trace, ruleVars, deciding>>

-----------------------------------------------------------------------------
(* The contract *)

PaidInstallments == {i \in Slots : inst[i].status = "paid"}

\* Each of the given installments in its order, on the schedule of its payment;
\* every one sees the lines of those before it.
Reevaluated(S) ==
  LET upTo[i \in 0 .. Schedule + MaxAgreements] ==
        IF i = 0 THEN [lines |-> line, told |-> trace]
        ELSE IF i \notin S THEN upTo[i - 1]
        ELSE LET e == Earned(upTo[i - 1].lines, AsOf(i), i)
             IN  [lines |-> upTo[i - 1].lines \o e.lines,
                  told |-> [upTo[i - 1].told EXCEPT ![i] = @ \cup e.told]]
  IN  upTo[Schedule + MaxAgreements]

\* finalizeSaleValidation with releaseCommissionsForValidatedContract, one transaction.
ValidateSale ==
  /\ cstatus = "forming"
  /\ cstatus' = "active" /\ validated' = TRUE
  /\ line' = Reevaluated(PaidInstallments).lines
  /\ trace' = Reevaluated(PaidInstallments).told
  /\ UNCHANGED <<inst, agreed, ruleVars, deciding, turns>>

\* reprocessSkippedCommissions, the transaction of this contract.
Reprocess ==
  /\ GateOpen
  /\ LET due == {i \in PaidInstallments : /\ "skipped" \in trace[i]
                                          /\ \A n \in DOMAIN line : line[n].inst # i}
     IN  /\ due # {} /\ (rated \/ released)
         /\ line' = Reevaluated(due).lines
         /\ trace' = Reevaluated(due).told
  /\ UNCHANGED <<saleVars, ruleVars, deciding, turns>>

\* A contract in force may fall overdue and come back.
ChangeContract ==
  /\ validated /\ cstatus \in {"active", "overdue"} /\ Turn
  /\ cstatus' = IF cstatus = "active" THEN "overdue" ELSE "active"
  /\ UNCHANGED <<validated, inst, agreed, line, trace, ruleVars, deciding>>

\* executeCancellation with planCancellationExecution; the policy says whether a
\* paid commission goes to the queue of reviews or is only noted.
CancelContract ==
  /\ cstatus # "cancelled"
  /\ cstatus' = "cancelled"
  /\ inst' = [i \in Slots |-> IF inst[i].status \in {"open", "renegotiated"}
                                 THEN [inst[i] EXCEPT !.status = "cancelled"]
                                 ELSE inst[i]]
  /\ \E asked \in {"pending", "noted"} :
       line' = [n \in DOMAIN line |->
                  IF line[n].status = "paid" THEN [line[n] EXCEPT !.review = asked]
                  ELSE [line[n] EXCEPT !.status = "cancelled"]]
  /\ UNCHANGED <<validated, agreed, trace, ruleVars, deciding, turns>>

-----------------------------------------------------------------------------
(* A commission *)

\* commissions.record: the contract is looked at again under its lock.
RecordByHand ==
  /\ validated /\ cstatus # "cancelled"
  /\ Turn
  /\ \E r \in Roles :
       line' = Append(line, [inst |-> ByHand, role |-> r, rule |-> "hand", amount |-> 1,
                             status |-> "pending", review |-> "none"])
  /\ UNCHANGED <<saleVars, trace, ruleVars, deciding>>

\* setStatus, its reads: nothing is locked yet.
CheckStatus(k, n, to) ==
  /\ deciding[k] = NoDecision /\ Turn
  /\ line[n].status \notin {to, "paid", "cancelled"}
  /\ to \in {"approved", "paid"} => validated /\ cstatus # "cancelled"
  /\ deciding' = [deciding EXCEPT ![k] = [row |-> n, seen |-> line[n].status, to |-> to]]
  /\ UNCHANGED <<saleVars, line, trace, ruleVars>>

\* Mutant: the write does not look at the status it read.
WriteAnyStatus(k) ==
  LET d == deciding[k] IN
  /\ d # NoDecision
  /\ line' = [line EXCEPT ![d.row].status = d.to]
  /\ deciding' = [deciding EXCEPT ![k] = NoDecision]
  /\ UNCHANGED <<saleVars, trace, ruleVars, turns>>

\* setStatus, its write: only over the status it read.
WriteStatus(k) ==
  LET d == deciding[k] IN
  /\ d # NoDecision
  /\ line' = IF line[d.row].status = d.seen THEN [line EXCEPT ![d.row].status = d.to] ELSE line
  /\ deciding' = [deciding EXCEPT ![k] = NoDecision]
  /\ UNCHANGED <<saleVars, trace, ruleVars, turns>>

\* resolveReversalReview
ResolveReview(n) ==
  /\ line[n].review = "pending"
  /\ line' = [line EXCEPT ![n].review = "resolved"]
  /\ UNCHANGED <<saleVars, trace, ruleVars, deciding, turns>>

\* Rates are edited in the policy; the second rules are released or locked again.
EditPolicy ==
  /\ Turn
  /\ \/ rated' = ~rated /\ UNCHANGED released
     \/ released' = ~released /\ UNCHANGED rated
  /\ UNCHANGED <<saleVars, line, trace, payout, deciding>>

FeesNext ==
  \/ \E i \in Slots : Pay(i) \/ Renegotiate(i)
  \/ ValidateSale \/ Reprocess \/ ChangeContract \/ CancelContract
  \/ RecordByHand
  \/ \E k \in Clerks : \/ \E n \in DOMAIN line, to \in {"approved", "paid", "cancelled"} : CheckStatus(k, n, to)
                      \/ WriteStatus(k)
  \/ \E n \in DOMAIN line : ResolveReview(n)
  \/ EditPolicy

FeesSpec == FeesInit /\ [][FeesNext]_feeVars

-----------------------------------------------------------------------------
(* Properties *)

Reasons == {"sale_not_validated", "contract_not_active", "skipped", "held"}

\* Every variable keeps to its values.
FeesTypeOK ==
  /\ cstatus \in {"forming", "active", "overdue", "cancelled"} /\ validated \in BOOLEAN
  /\ inst \in [Slots -> [status : {"none", "open", "paid", "renegotiated", "cancelled"},
                         due : {0} \cup 1 .. Schedule \cup Dates, paidAt : 0 .. Schedule + MaxAgreements]]
  /\ trace \in [Slots -> SUBSET Reasons]
  /\ \A n \in DOMAIN line :
       line[n] \in [inst : Slots \cup {ByHand}, role : Roles, rule : {"v1", "v2", "hand"},
                    amount : Nat, status : {"pending", "approved", "paid", "cancelled"},
                    review : {"none", "pending", "resolved", "noted"}]
  /\ rated \in BOOLEAN /\ released \in BOOLEAN /\ payout \in Payouts
  /\ \A k \in Clerks : deciding[k] = NoDecision \/ deciding[k].row \in DOMAIN line

\* The lines in force of a role never sum above what their rule owes it, all of
\* them are of one rule, and an installment has one line for a role.
WithinDue ==
  /\ \A r \in Roles, n \in Live(line) :
       Already(line, r) <= IF line[n].rule = "v1" THEN V1Total ELSE V2Total
  /\ \A n, m \in Live(line) : line[n].rule = line[m].rule
  /\ \A n, m \in DOMAIN line :
       n # m /\ Automatic(line[n]) => <<line[n].inst, line[n].role>> # <<line[m].inst, line[m].role>>

\* A commission of a cancelled contract is cancelled too, or it had been paid and is
\* in the queue of reviews, resolved or noted.
CancelledOwesNothing ==
  cstatus = "cancelled" =>
    \A n \in DOMAIN line :
      line[n].status = "cancelled" \/ (line[n].status = "paid" /\ line[n].review # "none")

\* No agreement is due on a date of the schedule.  One that is may be taken for the
\* installment of that date, of the same amount, by resolveEntry.
AgreementsApart == \A k \in DOMAIN agreed : agreed[k].due \notin 1 .. Schedule

\* The second rules owe a commission on the payment of i: i is of the entry (one of
\* its installments, or the last of the agreements that replaced one) and, when the
\* whole entry is what pays, each of the others was paid no later.
EntryOwes(i) ==
  LET end[j \in Slots] == IF j \in DOMAIN Created THEN end[Created[j]] ELSE j
      entry == {end[h] : h \in 1 .. EntryTotal}
  IN  /\ i \in entry /\ inst[i].status = "paid"
      /\ IF payout = "entry_total"
         THEN \A j \in entry : inst[j].status = "paid" /\ inst[j].paidAt <= inst[i].paidAt
         ELSE i \notin Ineligible

\* Each line of the second rules is on a payment they owe for, also when it is made
\* by the validation or the reprocess (releaseOn = entry_total, paidAsOf).
WholeEntryEarns ==
  \A n \in DOMAIN line : line[n].rule = "v2" => EntryOwes(line[n].inst)

\* The same, where agreements are told apart from the schedule.
EntryEarnsTheCommission == AgreementsApart => WholeEntryEarns

\* However the rates and the release of the second rules change, installments are
\* paid early, evaluated again or replaced by agreements, commissions are decided
\* and the contract is cancelled between the reads and the write of a decision:
\* nobody is owed more than the due by the rule of the contract, nor anything by a
\* cancelled one (insertInstallmentCommissions, buildInstallmentCommissionsV2,
\* setStatus, record, executeCancellation).
CommissionsAreDue == WithinDue /\ CancelledOwesNothing

\* What the reads of a paid installment end in: a line, the trace by which the
\* reprocess finds it again (commission.automatic.skipped, the only one it selects),
\* or nothing to pay by the rule of the contract: all is earned, or the second rules
\* owe nothing for this payment.
Noticed(i) ==
  \/ \E n \in DOMAIN line : line[n].inst = i
  \/ "skipped" \in trace[i]
  \/ IF SecondRules(line) THEN \/ \A r \in V2Roles : Already(line, r) >= V2Total
                               \/ AgreementsApart => ~EntryOwes(i)
     ELSE \A r \in V1Roles : Already(line, r) >= V1Total

\* The contract is of the first rules, which have no rate any more, and the second
\* ones are released: zeroRateSkippedRoles leaves it to them.
LeftBetweenRules == ~rated /\ released /\ ~SecondRules(line)

\* Of a valid sale in force no payment goes by without its commission or the trace
\* that makes the reprocess find it: neither when the installment is paid nor when
\* those paid before are evaluated at the validation.  Two cases do go by:
\* LeftBetweenRules, and a payment made while the contract is not active, which
\* nothing evaluates when it is active again.
NoPaymentGoesBy ==
  [][\A i \in Slots :
       /\ inst'[i].status = "paid" /\ GateOpen'
       /\ inst[i].status # "paid" \/ ~validated
       => Noticed(i)' \/ LeftBetweenRules']_feeVars

\* A payment earns its commission or is found again, and none earns the commission of
\* an entry it is not of, or that is not whole (insertInstallmentCommissions,
\* entryInstallmentIds, isEntryFullyPaid, releaseCommissionsForValidatedContract).
PaymentsEarnTheirCommission == NoPaymentGoesBy /\ []EntryEarnsTheCommission
=============================================================================
