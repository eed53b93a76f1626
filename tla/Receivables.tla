---------------------------- MODULE Receivables ----------------------------
(***************************************************************************)
(* The receivables of one contract: its installments, the charges issued   *)
(* for them at the payment gateway (Asaas) or by hand, the gateway's       *)
(* webhook, the job that recovers charges the server created remotely and  *)
(* failed to record, renegotiation, monetary adjustment, the commission    *)
(* each payment releases, and the cancellation of the contract.            *)
(*                                                                         *)
(* A transaction is one action unless it spans remote calls or reads from  *)
(* a snapshot older than its locks; then each part is an action, what it   *)
(* keeps in memory is a variable, and the rows it has locked hold back the *)
(* actions that lock them too.                                             *)
(*                                                                         *)
(* Money is counted in units.  An adjustment raises an installment by one. *)
(***************************************************************************)
EXTENDS Integers, FiniteSetsExt, Functions

CONSTANTS
  Installments,   \* ids of installments that may come to exist
  Original,       \* those of the contract's first schedule
  Types,          \* the kinds of charge of the gateway: boleto, pix
  FirstAmount,    \* amount of an installment of the first schedule
  FirstStatus,    \* statuses of the contract at the start: "forming", "active"
  Announced,      \* events of a payment the gateway sends: "confirmed", "received"
  MaxRaised,      \* bound on what adjustments add to the debt
  MaxAttempts,    \* GATEWAY_INTENT_MAX_ATTEMPTS
  MaxIssues,      \* bound on calls of issueGatewayBilling
  MaxRegistering, \* bound on registrations by hand that overlap
  MaxInFlight,    \* bound on webhook deliveries that overlap
  MaxRestarts,    \* bound on crashes of the process
  Nothing         \* no payment, no installment

Payments == Installments \X Types

ASSUME OriginalExist == Original \subseteq Installments
ASSUME InstallmentsAreFinite == IsFiniteSet(Installments)
ASSUME StartIsLive == FirstStatus \subseteq {"forming", "active"}
ASSUME EventsAnnounced == Announced \subseteq {"confirmed", "received"}
ASSUME AmountsAreNat == FirstAmount \in Nat \ {0} /\ MaxRaised \in Nat
ASSUME BoundsAreNat ==
  /\ {MaxIssues, MaxRegistering, MaxInFlight, MaxRestarts} \subseteq Nat
  /\ MaxAttempts \in Nat \ {0}
ASSUME NothingIsNoRow == Nothing \notin Payments

VARIABLES
  cstatus,     \* contracts.status; "forming" is draft or pending_signature
  validated,   \* sale_validations.validatedAt is set
  inst,        \* the rows of installments
  commission,  \* what the payment of an installment did about commissions
  income,      \* income booked in financial_transactions per installment
  billing,     \* the installment's Asaas row in billing_records
  manual,      \* its rows in billing_records registered by hand and not closed
  reneg,       \* its agreement in installment_renegotiations
  intent,      \* payment_gateway_issue_intents
  event,       \* payment_gateway_webhook_events
  remote,      \* the charge at Asaas
  booked,      \* payments whose money the CRM has booked
  reviewed,    \* payments audited as needing a manual review
  issuing,     \* the running issueGatewayBilling (memory, row locks)
  handling,    \* webhook deliveries past their first read (memory)
  recovering,  \* the intent the recovery job works on (memory)
  registering, \* registrations by hand past their first read (memory)
  adjusting,   \* the running applyAdjustment (memory, contract lock)
  raised,      \* what the adjustments added to the debt so far
  issues,      \* calls of issueGatewayBilling so far
  restarts     \* crashes so far

contractVars == <<cstatus, validated>>
debtVars == <<inst, commission, income>>
billVars == <<billing, manual>>
traceVars == <<booked, reviewed>>
memoryVars == <<issuing, handling, recovering, registering, adjusting>>
countVars == <<raised, issues, restarts>>
vars == <<contractVars, debtVars, billVars, reneg, intent, event, remote, traceVars,
          memoryVars, countVars>>

ContractStatus == {"forming", "active", "overdue", "cancelled", "closed"}
InstallmentStatus == {"none", "open", "paid", "cancelled", "renegotiated"}
BillingStatus == {"none", "generated", "paid", "expired", "cancelled"}
IntentStatus == {"none", "pending", "recorded", "recovered", "abandoned", "manual_review"}
CommissionStatus == {"none", "sale_not_validated", "contract_not_active", "due", "cancelled"}
AgreementStatus == {"none", "draft", "approved", "applied"}

(* Events that tell of money: those of the gateway and the synthetic one the *)
(* recovery job feeds to the same handler.                                  *)
Confirming == {"confirmed", "received", "recovery"}
Kinds == Confirming \cup {"overdue"}

NoInstallment == [status |-> "none", amount |-> 0, paid |-> 0]
Open(amount) == [status |-> "open", amount |-> amount, paid |-> 0]
NoBilling == [status |-> "none", type |-> Nothing, amount |-> 0]
NoAgreement == [status |-> "none", outstanding |-> 0, proposed |-> 0]
NoIntent == [status |-> "none", attempts |-> 0]
NoRemote == [status |-> "none", value |-> 0]
NoIssue == [payment |-> Nothing, step |-> "none"]
NoRecovery == [payment |-> Nothing, step |-> "none", attempts |-> 0]
NoAdjustment == [running |-> FALSE, billed |-> {}]

IsOpen(i) == inst[i].status = "open"
Outstanding(i) == inst[i].amount - inst[i].paid
Charged(i) == billing[i].status = "generated" \/ manual[i] > 0

(* Who may lock what: an issuance holds its installment and the contract,   *)
(* an adjustment the contract.                                              *)
ContractFree == issuing = NoIssue /\ ~adjusting.running
InstallmentFree(i) == \A t \in Types : issuing.payment # <<i, t>>

Init ==
  /\ cstatus \in FirstStatus
  /\ validated = FALSE
  /\ inst = [i \in Installments |-> IF i \in Original THEN Open(FirstAmount)
                                                      ELSE NoInstallment]
  /\ commission = [i \in Installments |-> "none"]
  /\ income = [i \in Installments |-> 0]
  /\ billing = [i \in Installments |-> NoBilling]
  /\ manual = [i \in Installments |-> 0]
  /\ reneg = [i \in Installments |-> NoAgreement]
  /\ intent = [p \in Payments |-> NoIntent]
  /\ event = [e \in Payments \X Kinds |-> "no"]
  /\ remote = [p \in Payments |-> NoRemote]
  /\ booked = {} /\ reviewed = {}
  /\ issuing = NoIssue /\ handling = {} /\ recovering = NoRecovery
  /\ registering = [i \in Installments |-> 0] /\ adjusting = NoAdjustment
  /\ raised = 0 /\ issues = 0 /\ restarts = 0

-----------------------------------------------------------------------------
(* The contract *)

(* commissionBlockReason: due only for the paid installment of an active    *)
(* contract whose sale is validated.                                        *)
CommissionOnPayment ==
  CASE ~validated -> "sale_not_validated"
    [] validated /\ cstatus # "active" -> "contract_not_active"
    [] validated /\ cstatus = "active" -> "due"

NothingReleased(i) == commission[i]  \* mutant: validation forgets the past
(* releaseCommissionsForValidatedContract: what was paid before.            *)
Released(i) == IF inst[i].status = "paid" THEN "due" ELSE commission[i]

ValidateSale ==
  /\ ContractFree
  /\ cstatus = "forming"
  /\ cstatus' = "active"
  /\ validated' = TRUE
  /\ commission' = [i \in Installments |-> Released(i)]
  /\ UNCHANGED <<inst, income, billVars, reneg, intent, event, remote, traceVars,
                 memoryVars, countVars>>

(* contracts.updateStatus *)
UpdateStatus(s) ==
  /\ ContractFree
  /\ \/ cstatus = "active" /\ s \in {"overdue", "closed"}
     \/ cstatus = "overdue" /\ s = "closed"
     \/ cstatus = "overdue" /\ s = "active" /\ validated
  /\ cstatus' = s
  /\ UNCHANGED <<validated, debtVars, billVars, reneg, intent, event, remote, traceVars,
                 memoryVars, countVars>>

(* planCancellationExecution: paid installments are preserved.              *)
CancelledWithContract(i) == inst[i].status \in {"open", "renegotiated"}

(* contracts.executeCancellation of a request approved for what is paid now: *)
(* installments, their charges and the commissions not yet paid out.         *)
(* Agreements stay.                                                          *)
ExecuteCancellation ==
  /\ ContractFree
  /\ cstatus # "cancelled"
  /\ cstatus' = "cancelled"
  /\ inst' = [i \in Installments |->
       IF CancelledWithContract(i) THEN [inst[i] EXCEPT !.status = "cancelled"] ELSE inst[i]]
  /\ commission' = [i \in Installments |->
       IF commission[i] = "due" THEN "cancelled" ELSE commission[i]]
  /\ billing' = [i \in Installments |->
       IF CancelledWithContract(i) /\ billing[i].status \in {"generated", "expired"}
       THEN [billing[i] EXCEPT !.status = "cancelled"] ELSE billing[i]]
  /\ manual' = [i \in Installments |-> IF CancelledWithContract(i) THEN 0 ELSE manual[i]]
  /\ UNCHANGED <<validated, income, reneg, intent, event, remote, traceVars, memoryVars,
                 countVars>>

-----------------------------------------------------------------------------
(* Payment and charges by hand *)

(* finance.markInstallmentPaid: the rest of the installment, and every      *)
(* charge still open becomes paid.                                          *)
MarkInstallmentPaid(i) ==
  /\ ContractFree
  /\ IsOpen(i)
  /\ Outstanding(i) > 0
  /\ inst' = [inst EXCEPT ![i].status = "paid", ![i].paid = inst[i].amount]
  /\ income' = [income EXCEPT ![i] = @ + Outstanding(i)]
  /\ commission' = [commission EXCEPT ![i] = CommissionOnPayment]
  /\ billing' = [billing EXCEPT ![i].status = IF @ = "generated" THEN "paid" ELSE @]
  /\ manual' = [manual EXCEPT ![i] = 0]
  /\ UNCHANGED <<contractVars, reneg, intent, event, remote, traceVars, memoryVars,
                 countVars>>

(* finance.registerBilling with a key: the read of the key opens the        *)
(* snapshot, in which the installment has no charge by hand.                *)
RegisterBegin(i) ==
  /\ registering[i] < MaxRegistering
  /\ manual[i] = 0
  /\ registering' = [registering EXCEPT ![i] = @ + 1]
  /\ UNCHANGED <<contractVars, debtVars, billVars, reneg, intent, event, remote, traceVars,
                 issuing, handling, recovering, adjusting, countVars>>

(* The installment is locked and read as it is; duplicates are looked for   *)
(* in the snapshot.                                                         *)
RegisterEnd(i) ==
  /\ registering[i] > 0
  /\ InstallmentFree(i)
  /\ registering' = [registering EXCEPT ![i] = @ - 1]
  /\ manual' = [manual EXCEPT ![i] = IF IsOpen(i) THEN @ + 1 ELSE @]
  /\ UNCHANGED <<contractVars, debtVars, billing, reneg, intent, event, remote, traceVars,
                 issuing, handling, recovering, adjusting, countVars>>

-----------------------------------------------------------------------------
(* Renegotiation and monetary adjustment *)

(* finance.createRenegotiation: one agreement at a time, for no more than   *)
(* the open balance.  Bound: an id is left for the new installment.         *)
CreateRenegotiation(i, proposed) ==
  /\ InstallmentFree(i)
  /\ IsOpen(i)
  /\ reneg[i].status = "none"
  /\ proposed \in 1..Outstanding(i)
  /\ \E n \in Installments : inst[n] = NoInstallment
  /\ reneg' = [reneg EXCEPT ![i] =
       [status |-> "draft", outstanding |-> Outstanding(i), proposed |-> proposed]]
  /\ UNCHANGED <<contractVars, debtVars, billVars, intent, event, remote, traceVars,
                 memoryVars, countVars>>

(* finance.approveRenegotiation *)
ApproveRenegotiation(i) ==
  /\ reneg[i].status = "draft"
  /\ reneg' = [reneg EXCEPT ![i].status = "approved"]
  /\ UNCHANGED <<contractVars, debtVars, billVars, intent, event, remote, traceVars,
                 memoryVars, countVars>>

(* finance.cancelRenegotiation: cancelled or rejected.                      *)
CancelRenegotiation(i) ==
  /\ reneg[i].status \in {"draft", "approved"}
  /\ reneg' = [reneg EXCEPT ![i] = NoAgreement]
  /\ UNCHANGED <<contractVars, debtVars, billVars, intent, event, remote, traceVars,
                 memoryVars, countVars>>

AnyBalance(i) == TRUE  \* mutant: the balance may have changed since
SameBalance(i) == Outstanding(i) = reneg[i].outstanding

(* finance.applyRenegotiation: installment n replaces i, whose open charges *)
(* are cancelled here and stay payable at the gateway.                      *)
ApplyRenegotiation(i, n) ==
  /\ ContractFree
  /\ reneg[i].status = "approved"
  /\ IsOpen(i)
  /\ SameBalance(i)
  /\ cstatus \notin {"cancelled", "closed"}
  /\ inst[n] = NoInstallment
  /\ inst' = [inst EXCEPT ![i].status = "renegotiated", ![n] = Open(reneg[i].proposed)]
  /\ billing' = [billing EXCEPT ![i].status = IF @ = "generated" THEN "cancelled" ELSE @]
  /\ manual' = [manual EXCEPT ![i] = 0]
  /\ reneg' = [reneg EXCEPT ![i].status = "applied"]
  /\ UNCHANGED <<contractVars, commission, income, intent, event, remote, traceVars,
                 memoryVars, countVars>>

Adjustable == {i \in Installments : IsOpen(i)}

(* applyAdjustment locks the contract; its next plain read opens the        *)
(* snapshot the open charges are looked up in.                              *)
AdjustBegin ==
  /\ ContractFree
  /\ raised + Cardinality(Adjustable) <= MaxRaised
  /\ adjusting' = [running |-> TRUE, billed |-> {i \in Installments : Charged(i)}]
  /\ UNCHANGED <<contractVars, debtVars, billVars, reneg, intent, event, remote, traceVars,
                 issuing, handling, recovering, registering, countVars>>

(* It refuses if an open installment is charged in that snapshot, and       *)
(* raises every open installment otherwise.                                 *)
AdjustEnd ==
  /\ adjusting.running
  /\ LET adjusted == IF Adjustable \cap adjusting.billed = {} THEN Adjustable ELSE {} IN
       /\ inst' = [i \in Installments |->
            IF i \in adjusted THEN [inst[i] EXCEPT !.amount = @ + 1] ELSE inst[i]]
       /\ raised' = raised + Cardinality(adjusted)
  /\ adjusting' = NoAdjustment
  /\ UNCHANGED <<contractVars, commission, income, billVars, reneg, intent, event, remote,
                 traceVars, issuing, handling, recovering, registering, issues, restarts>>

-----------------------------------------------------------------------------
(* finance.issueGatewayBilling: one transaction around the remote calls *)

Step(s) == issuing' = [issuing EXCEPT !.step = s]
IssueKeeps == UNCHANGED <<contractVars, debtVars, manual, reneg, event, traceVars, handling,
                          recovering, registering, adjusting, raised, restarts>>

(* Locks, guards, and the search for a charge with the reference and type.  *)
IssueBegin(i, t) ==
  /\ ContractFree
  /\ issues < MaxIssues
  /\ IsOpen(i)
  /\ billing[i].status \notin {"generated", "paid"}
  /\ Outstanding(i) > 0
  /\ issues' = issues + 1
  /\ issuing' = [payment |-> <<i, t>>,
                 step |-> IF remote[<<i, t>>] = NoRemote THEN "absent" ELSE "found"]
  /\ UNCHANGED <<billing, intent, remote>> /\ IssueKeeps

(* registerIssueIntent, committed on its own.                               *)
RegisterIntent ==
  /\ issuing.step = "absent"
  /\ Step("intended")
  /\ intent' = [intent EXCEPT ![issuing.payment] = [status |-> "pending", attempts |-> 0]]
  /\ UNCHANGED <<billing, remote, issues>> /\ IssueKeeps

(* createAsaasPayment took effect at the gateway.                           *)
CreatePayment ==
  /\ issuing.step = "intended"
  /\ Step("created")
  /\ remote' = [remote EXCEPT ![issuing.payment] =
       [status |-> "pending", value |-> Outstanding(issuing.payment[1])]]
  /\ UNCHANGED <<billing, intent, issues>> /\ IssueKeeps

(* markIssueIntentRecorded updates the row if there is one.                 *)
Marked(p, s) == [intent EXCEPT ![p].status = IF @ = "none" THEN @ ELSE s]

(* The row is inserted, for the open balance, and the transaction commits.  *)
IssueCommit ==
  LET p == issuing.payment IN
  /\ issuing.step \in {"created", "found"}
  /\ billing[p[1]] = NoBilling
  /\ billing' = [billing EXCEPT ![p[1]] =
       [status |-> "generated", type |-> p[2], amount |-> Outstanding(p[1])]]
  /\ intent' = Marked(p, "recorded")
  /\ issuing' = NoIssue
  /\ UNCHANGED <<remote, issues>> /\ IssueKeeps

(* A remote error, a lost answer, or the unique key on the reference when   *)
(* an expired row exists: the transaction is rolled back.                   *)
IssueAbort ==
  /\ issuing # NoIssue
  /\ issuing' = NoIssue
  /\ UNCHANGED <<billing, intent, remote, issues>> /\ IssueKeeps

(* The customer pays at the gateway.                                        *)
CustomerPays(p) ==
  /\ remote[p].status = "pending"
  /\ remote' = [remote EXCEPT ![p].status = "paid"]
  /\ UNCHANGED <<contractVars, debtVars, billVars, reneg, intent, event, traceVars,
                 memoryVars, countVars>>

-----------------------------------------------------------------------------
(* paymentGatewayWebhook.processAsaasWebhook *)

(* The row of billing_records with this gateway payment exists.             *)
Recorded(p) == billing[p[1]].type = p[2]

PaidAlready(p, k) == billing[p[1]].status = "paid"  \* mutant: paid by whomever
(* The gateway itself settled this charge before: it tells of the same      *)
(* money again.                                                             *)
Repeated(p, k) ==
  /\ billing[p[1]].status = "paid"
  /\ \E other \in Confirming \ {k} : event[<<p, other>>] = "linked"

OnlyDeadCharge(p) ==  \* mutant: a charge paid by hand is booked again
  billing[p[1]].status \in {"cancelled", "expired"}
(* Money the CRM must not book by itself: the charge was paid by hand,      *)
(* cancelled or expired, or the installment is no longer open.              *)
NeedsReview(p) == billing[p[1]].status # "generated" \/ ~IsOpen(p[1])

Refuse(p) ==
  /\ reviewed' = reviewed \cup {p}
  /\ intent' = Marked(p, "manual_review")
  /\ billing' = [billing EXCEPT ![p[1]].status =
       IF @ = "generated" /\ inst[p[1]].status = "paid" THEN "paid" ELSE @]
  /\ UNCHANGED <<debtVars, booked>>

LastPaid(i, received) == inst[i].paid + received >= inst[i].amount

(* The amount of the charge is booked and credited up to the installment's. *)
Book(p) ==
  LET i == p[1]
      received == billing[i].amount IN
  /\ inst' = [inst EXCEPT
       ![i].paid = IF LastPaid(i, received) THEN inst[i].amount ELSE @ + received,
       ![i].status = IF LastPaid(i, received) THEN "paid" ELSE @]
  /\ income' = [income EXCEPT ![i] = @ + received]
  /\ commission' = [commission EXCEPT ![i] =
       IF LastPaid(i, received) THEN CommissionOnPayment ELSE @]
  /\ billing' = [billing EXCEPT ![i].status = "paid"]
  /\ booked' = booked \cup {p}
  /\ UNCHANGED <<reviewed, intent>>

Receive(p, k) ==
  \/ Repeated(p, k) /\ UNCHANGED <<debtVars, billing, traceVars, intent>>
  \/ ~Repeated(p, k) /\ NeedsReview(p) /\ Refuse(p)
  \/ ~Repeated(p, k) /\ ~NeedsReview(p) /\ Book(p)

Expire(p) ==
  /\ billing' = [billing EXCEPT ![p[1]].status = IF @ = "generated" THEN "expired" ELSE @]
  /\ UNCHANGED <<debtVars, traceVars, intent>>

WebhookKeeps == UNCHANGED <<contractVars, manual, reneg, remote, issuing, recovering,
                            registering, adjusting, countVars>>

(* An event arrives, not recorded yet; its charge is looked up outside the  *)
(* transaction.                                                             *)
WebhookRead(p, k) ==
  /\ remote[p].status = IF k = "overdue" THEN "pending" ELSE "paid"
  /\ event[<<p, k>>] = "no"
  /\ Cardinality(handling) < MaxInFlight
  /\ handling' = handling \cup {[payment |-> p, kind |-> k, linked |-> Recorded(p)]}
  /\ UNCHANGED <<debtVars, billing, traceVars, intent, event>> /\ WebhookKeeps

(* The unique key of the event: it was delivered twice.                     *)
WebhookDuplicate(h) ==
  /\ event[<<h.payment, h.kind>>] # "no"
  /\ handling' = handling \ {h}
  /\ UNCHANGED <<debtVars, billing, traceVars, intent, event>> /\ WebhookKeeps

(* No charge was found: the event is recorded and nothing else happens.     *)
WebhookUnlinked(h) ==
  /\ event[<<h.payment, h.kind>>] = "no"
  /\ ~h.linked
  /\ event' = [event EXCEPT ![<<h.payment, h.kind>>] = "unlinked"]
  /\ handling' = handling \ {h}
  /\ UNCHANGED <<debtVars, billing, traceVars, intent>> /\ WebhookKeeps

WebhookLinked(h) ==
  /\ event[<<h.payment, h.kind>>] = "no"
  /\ h.linked
  /\ ContractFree
  /\ event' = [event EXCEPT ![<<h.payment, h.kind>>] = "linked"]
  /\ handling' = handling \ {h}
  /\ \/ h.kind \in Confirming /\ Receive(h.payment, h.kind)
     \/ h.kind = "overdue" /\ Expire(h.payment)
  /\ WebhookKeeps

-----------------------------------------------------------------------------
(* gatewayIssueRecovery.recoverOrphanGatewayBillings *)

RecoveryStep(s) == recovering' = [recovering EXCEPT !.step = s]
RecoveryKeeps == UNCHANGED <<contractVars, manual, reneg, remote, issuing, handling,
                             registering, adjusting, countVars>>

(* A pending intent older than GATEWAY_INTENT_MIN_AGE_MS, hence not one     *)
(* that the running issuance has just registered.                           *)
RecoveryPick(p) ==
  /\ recovering = NoRecovery
  /\ intent[p].status = "pending"
  /\ ~(issuing.payment = p /\ issuing.step \in {"intended", "created"})
  /\ recovering' = [payment |-> p, step |-> "picked", attempts |-> intent[p].attempts]
  /\ UNCHANGED <<debtVars, billing, traceVars, intent, event>> /\ RecoveryKeeps

(* The gateway is asked for the charge; its status is remembered.           *)
RecoveryLook ==
  /\ recovering.step = "picked"
  /\ RecoveryStep(CASE remote[recovering.payment].status = "none" -> "missing"
                    [] remote[recovering.payment].status = "pending" -> "unpaid"
                    [] remote[recovering.payment].status = "paid" -> "paid")
  /\ UNCHANGED <<debtVars, billing, traceVars, intent, event>> /\ RecoveryKeeps

(* The gateway has no such charge.                                          *)
RecoveryAbandon ==
  LET p == recovering.payment IN
  /\ recovering.step = "missing"
  /\ intent' = [intent EXCEPT ![p].status = IF @ = "pending" THEN "abandoned" ELSE @]
  /\ recovering' = NoRecovery
  /\ UNCHANGED <<debtVars, billing, traceVars, event>> /\ RecoveryKeeps

AnyInstallment(i) == TRUE  \* mutant: CLOSED_INSTALLMENT is not looked at
AcceptsCharge(i) == IsOpen(i)

(* The transaction of the job, under the lock of the installment.           *)
RecoverySkip ==
  /\ recovering.step \in {"unpaid", "paid"}
  /\ InstallmentFree(recovering.payment[1])
  /\ intent[recovering.payment].status # "pending"
  /\ recovering' = NoRecovery
  /\ UNCHANGED <<debtVars, billing, traceVars, intent, event>> /\ RecoveryKeeps

RecoveryRecorded ==
  LET p == recovering.payment IN
  /\ recovering.step \in {"unpaid", "paid"}
  /\ InstallmentFree(p[1])
  /\ intent[p].status = "pending"
  /\ Recorded(p)
  /\ \/ recovering.step = "paid" /\ RecoveryStep("settle") /\ UNCHANGED intent
     \/ recovering.step = "unpaid" /\ recovering' = NoRecovery
        /\ intent' = Marked(p, "recorded")
  /\ UNCHANGED <<debtVars, billing, traceVars, event>> /\ RecoveryKeeps

RecoveryReview ==
  LET p == recovering.payment IN
  /\ recovering.step \in {"unpaid", "paid"}
  /\ InstallmentFree(p[1])
  /\ intent[p].status = "pending"
  /\ ~Recorded(p) /\ ~AcceptsCharge(p[1])
  /\ intent' = Marked(p, "manual_review")
  /\ reviewed' = reviewed \cup {p}
  /\ recovering' = NoRecovery
  /\ UNCHANGED <<debtVars, billing, booked, event>> /\ RecoveryKeeps

(* The charge is recorded with the amount the gateway holds.                *)
RecoveryInsert ==
  LET p == recovering.payment IN
  /\ recovering.step \in {"unpaid", "paid"}
  /\ InstallmentFree(p[1])
  /\ intent[p].status = "pending"
  /\ AcceptsCharge(p[1])
  /\ billing[p[1]] = NoBilling
  /\ billing' = [billing EXCEPT ![p[1]] =
       [status |-> "generated", type |-> p[2], amount |-> remote[p].value]]
  /\ \/ recovering.step = "paid" /\ RecoveryStep("settle") /\ UNCHANGED intent
     \/ recovering.step = "unpaid" /\ recovering' = NoRecovery
        /\ intent' = Marked(p, "recovered")
  /\ UNCHANGED <<debtVars, traceVars, event>> /\ RecoveryKeeps

(* The synthetic event goes through the handler of the webhook; what that   *)
(* refuses is not marked.                                                   *)
RecoverySettle ==
  LET p == recovering.payment IN
  /\ recovering.step = "settle"
  /\ ContractFree
  /\ event[<<p, "recovery">>] = "no"
  /\ event' = [event EXCEPT ![<<p, "recovery">>] = "linked"]
  /\ Receive(p, "recovery")
  /\ IF ~Repeated(p, "recovery") /\ NeedsReview(p) THEN recovering' = NoRecovery
                                                   ELSE RecoveryStep("mark")
  /\ RecoveryKeeps

(* The synthetic event was recorded by an earlier run.                      *)
RecoverySettled ==
  /\ recovering.step = "settle"
  /\ event[<<recovering.payment, "recovery">>] # "no"
  /\ RecoveryStep("mark")
  /\ UNCHANGED <<debtVars, billing, traceVars, intent, event>> /\ RecoveryKeeps

RecoveryForgetsToMark ==  \* mutant: the intent stays pending
  /\ recovering.step = "mark"
  /\ recovering' = NoRecovery
  /\ UNCHANGED <<debtVars, billing, traceVars, intent, event>> /\ RecoveryKeeps

(* The intent is closed, recorded or recovered, which only reports tell      *)
(* apart.                                                                   *)
RecoveryMark ==
  /\ recovering.step = "mark"
  /\ intent' = Marked(recovering.payment, "recovered")
  /\ recovering' = NoRecovery
  /\ UNCHANGED <<debtVars, billing, traceVars, event>> /\ RecoveryKeeps

NeverGivesUp(a, s) == s  \* mutant: an intent is retried for ever
AfterFailures(a, s) == IF a >= MaxAttempts THEN "manual_review" ELSE s

(* A remote or local error, or the unique key on the reference when another *)
(* charge of the installment has it.  Attempts are those read at the start. *)
RecoveryFails ==
  LET p == recovering.payment
      a == recovering.attempts + 1 IN
  /\ recovering # NoRecovery
  /\ intent' = [intent EXCEPT ![p].attempts = a,
       ![p].status = AfterFailures(a, @)]
  /\ recovering' = NoRecovery
  /\ UNCHANGED <<debtVars, billing, traceVars, event>> /\ RecoveryKeeps

(* The process stops: transactions roll back, memory is lost.               *)
Restart ==
  /\ restarts < MaxRestarts
  /\ restarts' = restarts + 1
  /\ issuing' = NoIssue /\ handling' = {} /\ recovering' = NoRecovery
  /\ registering' = [i \in Installments |-> 0] /\ adjusting' = NoAdjustment
  /\ UNCHANGED <<contractVars, debtVars, billVars, reneg, intent, event, remote, traceVars,
                 raised, issues>>

-----------------------------------------------------------------------------
Issue ==
  \/ \E p \in Payments : IssueBegin(p[1], p[2])
  \/ RegisterIntent \/ CreatePayment \/ IssueCommit \/ IssueAbort

Webhook ==
  \/ \E p \in Payments, k \in Announced \cup {"overdue"} : WebhookRead(p, k)
  \/ \E h \in handling : WebhookDuplicate(h) \/ WebhookUnlinked(h) \/ WebhookLinked(h)

RecoveryTransaction ==
  RecoverySkip \/ RecoveryRecorded \/ RecoveryReview \/ RecoveryInsert

Recovery ==
  \/ \E p \in Payments : RecoveryPick(p)
  \/ RecoveryLook \/ RecoveryAbandon \/ RecoveryTransaction
  \/ RecoverySettle \/ RecoverySettled \/ RecoveryMark \/ RecoveryFails

Agreement ==
  \E i \in Installments :
    \/ \E proposed \in 1..(FirstAmount + MaxRaised) : CreateRenegotiation(i, proposed)
    \/ ApproveRenegotiation(i) \/ CancelRenegotiation(i)
    \/ \E n \in Installments : ApplyRenegotiation(i, n)

ByHand ==
  \E i \in Installments : MarkInstallmentPaid(i) \/ RegisterBegin(i) \/ RegisterEnd(i)

Contract ==
  \/ ValidateSale \/ ExecuteCancellation \/ AdjustBegin \/ AdjustEnd
  \/ \E s \in ContractStatus : UpdateStatus(s)

Next ==
  \/ Contract \/ ByHand \/ Agreement \/ Issue \/ Webhook \/ Recovery \/ Restart
  \/ \E p \in Payments : CustomerPays(p)

Spec == Init /\ [][Next]_vars

(* The recovery job runs on a timer and its calls time out; so do those of   *)
(* an issuance; an adjustment has no remote call.  The transaction that      *)
(* settles waits in the queue of the contract's lock.                        *)
Fairness ==
  /\ WF_vars(Recovery)
  /\ WF_vars(IssueCommit \/ IssueAbort)
  /\ WF_vars(AdjustEnd)
  /\ SF_vars(RecoverySettle)

FairSpec == Spec /\ Fairness

-----------------------------------------------------------------------------
(* Properties *)

Closed(i) == inst[i].status \in {"cancelled", "renegotiated"}

TypeOK ==
  /\ cstatus \in ContractStatus /\ validated \in BOOLEAN
  /\ inst \in [Installments -> [status : InstallmentStatus, amount : Nat, paid : Nat]]
  /\ commission \in [Installments -> CommissionStatus]
  /\ income \in [Installments -> Nat]
  /\ billing \in [Installments ->
       [status : BillingStatus, type : Types \cup {Nothing}, amount : Nat]]
  /\ manual \in [Installments -> Nat]
  /\ reneg \in [Installments ->
       [status : AgreementStatus, outstanding : Int, proposed : Nat]]
  /\ intent \in [Payments -> [status : IntentStatus, attempts : 0..MaxAttempts]]
  /\ event \in [Payments \X Kinds -> {"no", "unlinked", "linked"}]
  /\ remote \in [Payments -> [status : {"none", "pending", "paid"}, value : Int]]
  /\ booked \subseteq Payments /\ reviewed \subseteq Payments
  /\ issuing \in [payment : Payments \cup {Nothing},
                   step : {"none", "absent", "intended", "created", "found"}]
  /\ handling \subseteq [payment : Payments, kind : Kinds, linked : BOOLEAN]
  /\ recovering \in [payment : Payments \cup {Nothing}, attempts : 0..(MaxAttempts - 1),
       step : {"none", "picked", "missing", "unpaid", "paid", "settle", "mark"}]
  /\ registering \in [Installments -> 0..MaxRegistering]
  /\ adjusting \in [running : BOOLEAN, billed : SUBSET Installments]
  /\ raised \in Nat /\ issues \in 0..MaxIssues /\ restarts \in 0..MaxRestarts

TotalOf(amounts) == FoldFunction(+, 0, amounts)

(* What the customer owes for an installment and has paid of it.            *)
Owed == [i \in Installments |->
           IF inst[i].status \in {"open", "paid"} THEN inst[i].amount ELSE inst[i].paid]

(* Partial payments, agreements and adjustments never make the customer owe  *)
(* and pay together more than the adjusted debt (finance.ts:301-308).        *)
DebtIsConserved ==
  TotalOf(Owed) <= FirstAmount * Cardinality(Original) + raised

(* An installment that was cancelled or renegotiated has no charge the CRM   *)
(* still presents, whoever was issuing, registering or recovering one then;  *)
(* a cancelled contract has no debt left to collect                          *)
(* (contracts.ts:307-332, finance.ts:313, gatewayIssueRecovery.ts:74).       *)
ClosedIsNotCollected ==
  /\ \A i \in Installments : Closed(i) => ~Charged(i)
  /\ cstatus = "cancelled" => \A i \in Installments :
       inst[i].status \in {"none", "paid", "cancelled"}

(* However many times the gateway, the recovery job and a clerk report the   *)
(* payment of an installment, the income booked for it is what it is         *)
(* credited with, never more; and a payment event that found its charge is   *)
(* never swallowed: it was booked, sent to review, or told of money already  *)
(* booked (finance.ts:453, paymentGatewayWebhook.ts:74-114).                 *)
ReceiptsAreBookedOnce ==
  /\ \A i \in Installments : income[i] = inst[i].paid
  /\ \A p \in Payments, k \in Confirming :
       event[<<p, k>>] = "linked" => p \in booked \cup reviewed

(* The validation of the sale, its cancellation and a payment never pass     *)
(* each other: no paid installment of a validated sale is left waiting for   *)
(* the validation, and none of a cancelled contract has a commission to pay  *)
(* (saleValidationService.ts:179, paymentGatewayWebhook.ts:68,               *)
(* contracts.ts:308).                                                        *)
CommissionsFollowTheSale ==
  \A i \in Installments :
    /\ validated => commission[i] # "sale_not_validated"
    /\ cstatus = "cancelled" => commission[i] # "due"

(* Every intent the job finds pending is settled, abandoned or handed to a   *)
(* person in the end (gatewayIssueRecovery.ts:109).                          *)
IntentsAreResolved ==
  \A p \in Payments : intent[p].status = "pending" ~> intent[p].status # "pending"

Announcements(p) == {<<p, k>> : k \in Announced}

(* Money the gateway received never disappears in silence: once its events   *)
(* are consumed and nothing is running or pending for it, it was booked or   *)
(* sent to review (paymentGatewayWebhook.ts:86).                             *)
MoneyLeavesTrace ==
  \A p \in Payments :
    (/\ remote[p].status = "paid"
     /\ \A e \in Announcements(p) : event[e] # "no"
     /\ intent[p].status \notin {"pending", "manual_review"}
     /\ issuing = NoIssue /\ handling = {} /\ recovering = NoRecovery)
    => p \in booked \cup reviewed
=============================================================================
