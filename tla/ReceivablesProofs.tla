------------------------- MODULE ReceivablesProofs -------------------------
(***************************************************************************)
(* The money of a contract, for any installments, charges, bounds on calls *)
(* that overlap and crashes: what is booked is what is credited, nothing   *)
(* closed is collected, commissions follow the sale, and what is owed does *)
(* not grow but by adjustments.                                            *)
(***************************************************************************)
EXTENDS Receivables, Recursion, FiniteSetTheorems, TLAPS

(* What the calls under way hold: an issuance an open installment and the   *)
(* lock an adjustment would need.                                           *)
MemoryInv ==
  /\ issuing # NoIssue =>
       /\ issuing.payment \in Payments
       /\ IsOpen(issuing.payment[1])
       /\ ~adjusting.running
  /\ recovering # NoRecovery => recovering.payment \in Payments
  /\ \A p \in Payments : intent[p].status = "pending" => intent[p].attempts < MaxAttempts

(* An installment that does not exist has nothing.                          *)
UnusedIsEmpty ==
  \A i \in Installments : inst[i].status = "none" =>
    /\ inst[i] = NoInstallment
    /\ billing[i] = NoBilling
    /\ \A t \in Types : remote[<<i, t>>] = NoRemote

(* Nothing is credited before the one charge of an installment is recorded, *)
(* and what a charge may bring never exceeds what is owed: debts only grow  *)
(* while they are open.                                                     *)
ChargesFit ==
  /\ \A i \in Installments : IsOpen(i) =>
       /\ inst[i].paid <= inst[i].amount
       /\ billing[i] = NoBilling => inst[i].paid = 0
       /\ billing[i].status = "generated" => billing[i].amount <= Outstanding(i)
       /\ \A t \in Types : remote[<<i, t>>].value <= inst[i].amount
  /\ \A p \in Payments : remote[p].value \in Nat

(* What waits for the validation has been paid.                             *)
WaitingIsPaid ==
  \A i \in Installments : commission[i] = "sale_not_validated" => inst[i].status = "paid"

MoneyInv ==
  /\ UnusedIsEmpty
  /\ ChargesFit
  /\ WaitingIsPaid
  /\ ReceiptsAreBookedOnce
  /\ ClosedIsNotCollected
  /\ CommissionsFollowTheSale

ReceivablesInv == TypeOK /\ MemoryInv /\ MoneyInv

-----------------------------------------------------------------------------
LEMMA InvAtStart == Init => ReceivablesInv
<1> SUFFICES ASSUME Init PROVE ReceivablesInv
  OBVIOUS
<1> USE OriginalExist, StartIsLive, AmountsAreNat, BoundsAreNat, NothingIsNoRow
<1>0. \A i \in Installments :
        /\ inst[i] = Open(FirstAmount) \/ inst[i] = NoInstallment
        /\ billing[i] = NoBilling /\ manual[i] = 0 /\ commission[i] = "none" /\ income[i] = 0
  BY DEF Init
<1>1. TypeOK
  <2>1. /\ cstatus \in ContractStatus /\ validated \in BOOLEAN
        /\ inst \in [Installments -> [status : InstallmentStatus, amount : Nat, paid : Nat]]
        /\ commission \in [Installments -> CommissionStatus] /\ income \in [Installments -> Nat]
    BY DEF Init, ContractStatus, InstallmentStatus, CommissionStatus, NoInstallment, Open
  <2>2. /\ billing \in [Installments ->
             [status : BillingStatus, type : Types \cup {Nothing}, amount : Nat]]
        /\ manual \in [Installments -> Nat]
        /\ reneg \in [Installments ->
             [status : AgreementStatus, outstanding : Int, proposed : Nat]]
    BY DEF Init, BillingStatus, AgreementStatus, NoBilling, NoAgreement
  <2>3. /\ intent \in [Payments -> [status : IntentStatus, attempts : 0..MaxAttempts]]
        /\ event \in [Payments \X Kinds -> {"no", "unlinked", "linked"}]
        /\ remote \in [Payments -> [status : {"none", "pending", "paid"}, value : Int]]
    BY DEF Init, IntentStatus, NoIntent, NoRemote
  <2>4. /\ issuing \in [payment : Payments \cup {Nothing},
                        step : {"none", "absent", "intended", "created", "found"}]
        /\ handling \subseteq [payment : Payments, kind : Kinds, linked : BOOLEAN]
        /\ recovering \in [payment : Payments \cup {Nothing}, attempts : 0..(MaxAttempts - 1),
             step : {"none", "picked", "missing", "unpaid", "paid", "settle", "mark"}]
    BY DEF Init, NoIssue, NoRecovery
  <2>5. /\ registering \in [Installments -> 0..MaxRegistering]
        /\ adjusting \in [running : BOOLEAN, billed : SUBSET Installments]
        /\ booked \subseteq Payments /\ reviewed \subseteq Payments
        /\ raised \in Nat /\ issues \in 0..MaxIssues /\ restarts \in 0..MaxRestarts
    BY DEF Init, NoAdjustment
  <2> QED
    BY <2>1, <2>2, <2>3, <2>4, <2>5 DEF TypeOK
<1>2. MemoryInv
  BY DEF Init, MemoryInv, NoIntent
<1>3. UnusedIsEmpty /\ ChargesFit /\ WaitingIsPaid
  BY <1>0 DEF Init, UnusedIsEmpty, ChargesFit, WaitingIsPaid, IsOpen, Outstanding,
     NoInstallment, Open, NoBilling, NoRemote, Payments
<1>4. ReceiptsAreBookedOnce
  BY <1>0 DEF Init, ReceiptsAreBookedOnce, NoInstallment, Open, Confirming, Kinds
<1>5. ClosedIsNotCollected /\ CommissionsFollowTheSale
  BY <1>0 DEF Init, ClosedIsNotCollected, CommissionsFollowTheSale, Closed, Charged,
     NoInstallment, Open, NoBilling
<1> QED
  BY <1>1, <1>2, <1>3, <1>4, <1>5 DEF ReceivablesInv, MoneyInv

-----------------------------------------------------------------------------
(* Steps that touch no money.                                               *)

moneyVars == <<contractVars, debtVars, billVars, event, remote, booked>>

(* Nothing of the contract, its debts, its charges and its receipts         *)
(* changes; reviews are only added.                                         *)
LEMMA MoneyRests ==
  ASSUME MoneyInv, UNCHANGED moneyVars, reviewed \subseteq reviewed'
  PROVE  MoneyInv'
<1>1. UNCHANGED <<cstatus, validated, inst, commission, income, billing, manual, event, remote, booked>>
  BY DEF moneyVars, contractVars, debtVars, billVars
<1>2. (UnusedIsEmpty /\ ChargesFit /\ WaitingIsPaid)'
  BY <1>1 DEF MoneyInv, UnusedIsEmpty, ChargesFit, WaitingIsPaid, IsOpen, Outstanding
<1>3. ReceiptsAreBookedOnce'
  BY <1>1 DEF MoneyInv, ReceiptsAreBookedOnce
<1>4. (ClosedIsNotCollected /\ CommissionsFollowTheSale)'
  BY <1>1 DEF MoneyInv, ClosedIsNotCollected, CommissionsFollowTheSale, Closed, Charged
<1> QED
  BY <1>2, <1>3, <1>4 DEF MoneyInv

-----------------------------------------------------------------------------
(* Types and memory, in the groups that steps change together.              *)

ContractTypes == cstatus \in ContractStatus /\ validated \in BOOLEAN

DebtTypes ==
  /\ inst \in [Installments -> [status : InstallmentStatus, amount : Nat, paid : Nat]]
  /\ commission \in [Installments -> CommissionStatus]
  /\ income \in [Installments -> Nat]

ChargeTypes ==
  /\ billing \in [Installments ->
       [status : BillingStatus, type : Types \cup {Nothing}, amount : Nat]]
  /\ manual \in [Installments -> Nat]

AgreementTypes ==
  reneg \in [Installments -> [status : AgreementStatus, outstanding : Int, proposed : Nat]]

GatewayTypes ==
  /\ event \in [Payments \X Kinds -> {"no", "unlinked", "linked"}]
  /\ remote \in [Payments -> [status : {"none", "pending", "paid"}, value : Int]]
  /\ booked \subseteq Payments /\ reviewed \subseteq Payments

IntentTypes ==
  /\ intent \in [Payments -> [status : IntentStatus, attempts : 0..MaxAttempts]]
  /\ \A p \in Payments : intent[p].status = "pending" => intent[p].attempts < MaxAttempts

IssueTypes ==
  /\ issuing \in [payment : Payments \cup {Nothing},
                  step : {"none", "absent", "intended", "created", "found"}]
  /\ issuing # NoIssue => issuing.payment \in Payments

RecoveryTypes ==
  /\ recovering \in [payment : Payments \cup {Nothing}, attempts : 0..(MaxAttempts - 1),
       step : {"none", "picked", "missing", "unpaid", "paid", "settle", "mark"}]
  /\ recovering # NoRecovery => recovering.payment \in Payments

CallTypes ==
  /\ handling \subseteq [payment : Payments, kind : Kinds, linked : BOOLEAN]
  /\ registering \in [Installments -> 0..MaxRegistering]
  /\ adjusting \in [running : BOOLEAN, billed : SUBSET Installments]

CountTypes == raised \in Nat /\ issues \in 0..MaxIssues /\ restarts \in 0..MaxRestarts

(* An issuance holds an open installment and the lock of an adjustment.     *)
IssueLocks ==
  issuing # NoIssue => IsOpen(issuing.payment[1]) /\ ~adjusting.running

Groups ==
  /\ ContractTypes /\ DebtTypes /\ ChargeTypes /\ AgreementTypes /\ GatewayTypes
  /\ IntentTypes /\ IssueTypes /\ RecoveryTypes /\ CallTypes /\ CountTypes /\ IssueLocks

LEMMA GroupsAreTypes ==
  /\ TypeOK /\ MemoryInv <=> Groups
  /\ TypeOK' /\ MemoryInv' <=> Groups'
BY DEF TypeOK, MemoryInv, Groups, ContractTypes, DebtTypes, ChargeTypes, AgreementTypes,
   GatewayTypes, IntentTypes, IssueTypes, RecoveryTypes, CallTypes, CountTypes, IssueLocks

(* A group whose variables stay keeps its types.                            *)
LEMMA GroupsStay ==
  ASSUME Groups
  PROVE  /\ UNCHANGED contractVars => ContractTypes'
         /\ UNCHANGED debtVars => DebtTypes'
         /\ UNCHANGED <<billing, manual>> => ChargeTypes'
         /\ UNCHANGED reneg => AgreementTypes'
         /\ UNCHANGED <<event, remote, booked, reviewed>> => GatewayTypes'
         /\ UNCHANGED intent => IntentTypes'
         /\ UNCHANGED issuing => IssueTypes'
         /\ UNCHANGED recovering => RecoveryTypes'
         /\ UNCHANGED <<handling, registering, adjusting>> => CallTypes'
         /\ UNCHANGED countVars => CountTypes'
         /\ UNCHANGED issuing /\ (adjusting'.running => adjusting.running)
              /\ (\A i \in Installments : IsOpen(i) => IsOpen(i)')
              => IssueLocks'
<1>1. \A p \in Payments : p[1] \in Installments
  BY DEF Payments
<1>2. ASSUME UNCHANGED issuing, adjusting'.running => adjusting.running,
             \A i \in Installments : IsOpen(i) => IsOpen(i)'
      PROVE  IssueLocks'
  BY <1>1, <1>2 DEF Groups, IssueTypes, IssueLocks
<1> QED
  BY <1>2 DEF Groups, ContractTypes, DebtTypes, ChargeTypes, AgreementTypes, GatewayTypes,
     IntentTypes, IssueTypes, RecoveryTypes, CallTypes, CountTypes, contractVars, debtVars,
     countVars

-----------------------------------------------------------------------------
(* The contract, payments and charges by hand, agreements.                  *)

LEMMA TypesByHand ==
  ASSUME Groups, Contract \/ ByHand \/ Agreement
  PROVE  Groups'
<1> USE BoundsAreNat, AmountsAreNat
<1> USE DEF contractVars, debtVars, billVars, traceVars, memoryVars, countVars
<1>0. ContractTypes /\ DebtTypes /\ ChargeTypes /\ AgreementTypes /\ CallTypes /\ CountTypes
  BY DEF Groups
<1>1. CASE ValidateSale
  <2>1. ContractTypes' /\ DebtTypes'
    BY <1>0, <1>1 DEF ValidateSale, Released, ContractTypes, DebtTypes, ContractStatus, CommissionStatus
  <2> QED
    BY <1>1, <2>1, GroupsStay DEF ValidateSale, Groups, IsOpen
<1>2. CASE \E s \in ContractStatus : UpdateStatus(s)
  <2>1. ContractTypes'
    BY <1>0, <1>2 DEF UpdateStatus, ContractTypes
  <2> QED
    BY <1>2, <2>1, GroupsStay DEF UpdateStatus, Groups, IsOpen
<1>3. CASE ExecuteCancellation
  <2>1. ContractTypes' /\ DebtTypes'
    BY <1>0, <1>3 DEF ExecuteCancellation, ContractTypes, DebtTypes, ContractStatus, CommissionStatus,
       InstallmentStatus
  <2>2. ChargeTypes'
    BY <1>0, <1>3 DEF ExecuteCancellation, ChargeTypes, BillingStatus
  <2>3. IssueLocks'
    BY <1>3 DEF ExecuteCancellation, ContractFree, IssueLocks
  <2> QED
    BY <1>3, <2>1, <2>2, <2>3, GroupsStay DEF ExecuteCancellation, Groups
<1>4. ASSUME NEW i \in Installments, MarkInstallmentPaid(i)
      PROVE  Groups'
  <2>1. DebtTypes'
    BY <1>0, <1>4 DEF MarkInstallmentPaid, DebtTypes, InstallmentStatus, CommissionStatus,
       CommissionOnPayment, Outstanding, ContractTypes
  <2>2. ChargeTypes'
    BY <1>0, <1>4 DEF MarkInstallmentPaid, ChargeTypes, BillingStatus
  <2>3. IssueLocks'
    BY <1>4 DEF MarkInstallmentPaid, ContractFree, IssueLocks
  <2> QED
    BY <1>4, <2>1, <2>2, <2>3, GroupsStay DEF MarkInstallmentPaid, Groups
<1>5. ASSUME NEW i \in Installments, RegisterBegin(i)
      PROVE  Groups'
  <2>1. CallTypes'
    BY <1>0, <1>5 DEF RegisterBegin, CallTypes
  <2> QED
    BY <1>5, <2>1, GroupsStay DEF RegisterBegin, Groups, IsOpen
<1>6. ASSUME NEW i \in Installments, RegisterEnd(i)
      PROVE  Groups'
  <2>1. CallTypes' /\ ChargeTypes'
    BY <1>0, <1>6 DEF RegisterEnd, CallTypes, ChargeTypes
  <2> QED
    BY <1>6, <2>1, GroupsStay DEF RegisterEnd, Groups, IsOpen
<1>7. ASSUME NEW i \in Installments,
             \/ \E proposed \in 1..(FirstAmount + MaxRaised) : CreateRenegotiation(i, proposed)
             \/ ApproveRenegotiation(i)
             \/ CancelRenegotiation(i)
      PROVE  Groups'
  <2>1. ASSUME NEW proposed \in 1..(FirstAmount + MaxRaised), CreateRenegotiation(i, proposed)
        PROVE  AgreementTypes'
    <3>1. Outstanding(i) \in Int /\ proposed \in Nat
      BY <1>0 DEF Outstanding, DebtTypes
    <3> QED
      BY <1>0, <2>1, <3>1 DEF CreateRenegotiation, AgreementTypes, AgreementStatus
  <2>2. ASSUME ApproveRenegotiation(i)
        PROVE  AgreementTypes'
    <3>1. reneg' = [reneg EXCEPT ![i].status = "approved"]
      BY <2>2 DEF ApproveRenegotiation
    <3> QED
      BY <1>0, <3>1 DEF AgreementTypes, AgreementStatus
  <2>3. ASSUME CancelRenegotiation(i)
        PROVE  AgreementTypes'
    <3>1. reneg' = [reneg EXCEPT ![i] = NoAgreement]
      BY <2>3 DEF CancelRenegotiation
    <3>2. NoAgreement \in [status : AgreementStatus, outstanding : Int, proposed : Nat]
      BY DEF NoAgreement, AgreementStatus
    <3> QED
      BY <1>0, <3>1, <3>2 DEF AgreementTypes
  <2> QED
    BY <1>7, <2>1, <2>2, <2>3, GroupsStay DEF CreateRenegotiation, ApproveRenegotiation, CancelRenegotiation,
       AgreementTypes, Groups, IsOpen
<1>8. ASSUME NEW i \in Installments, NEW n \in Installments, ApplyRenegotiation(i, n)
      PROVE  Groups'
  <2>1. DebtTypes'
    BY <1>0, <1>8 DEF ApplyRenegotiation, DebtTypes, InstallmentStatus, Open, AgreementTypes
  <2>2. ChargeTypes' /\ AgreementTypes'
    BY <1>0, <1>8 DEF ApplyRenegotiation, ChargeTypes, BillingStatus, AgreementTypes, AgreementStatus
  <2>3. IssueLocks'
    BY <1>8 DEF ApplyRenegotiation, ContractFree, IssueLocks
  <2> QED
    BY <1>8, <2>1, <2>2, <2>3, GroupsStay DEF ApplyRenegotiation, Groups
<1>9. CASE AdjustBegin
  <2>1. CallTypes'
    BY <1>0, <1>9 DEF AdjustBegin, CallTypes
  <2>2. IssueLocks'
    BY <1>9 DEF AdjustBegin, ContractFree, IssueLocks
  <2> QED
    BY <1>9, <2>1, <2>2, GroupsStay DEF AdjustBegin, Groups
<1>10. CASE AdjustEnd
  <2>1. PICK F \in SUBSET Installments :
          /\ inst' = [i \in Installments |->
                IF i \in F THEN [inst[i] EXCEPT !.amount = @ + 1] ELSE inst[i]]
          /\ raised' = raised + Cardinality(F)
    BY <1>10 DEF AdjustEnd, Adjustable
  <2>2. Cardinality(F) \in Nat
    BY <2>1, InstallmentsAreFinite, FS_Subset, FS_CardinalityType
  <2>3. CountTypes'
    BY <1>0, <1>10, <2>1, <2>2 DEF AdjustEnd, CountTypes
  <2>4. DebtTypes'
    BY <1>0, <1>10, <2>1 DEF AdjustEnd, DebtTypes
  <2>5. CallTypes' /\ ~adjusting'.running
    BY <1>0, <1>10 DEF AdjustEnd, CallTypes, NoAdjustment
  <2>6. \A i \in Installments : IsOpen(i) => IsOpen(i)'
    BY <1>0, <2>1 DEF IsOpen, DebtTypes
  <2> QED
    BY <1>10, <2>3, <2>4, <2>5, <2>6, GroupsStay DEF AdjustEnd, Groups
<1> QED
  BY <1>1, <1>2, <1>3, <1>4, <1>5, <1>6, <1>7, <1>8, <1>9, <1>10 DEF Contract, ByHand, Agreement

-----------------------------------------------------------------------------
(* Charges at the gateway.                                                  *)

LEMMA Parts == \A p \in Payments : /\ p[1] \in Installments /\ p[2] \in Types
                                   /\ p = <<p[1], p[2]>> /\ p # Nothing
  BY NothingIsNoRow DEF Payments

(* A charge recorded on an open installment is worth what it asks for.      *)
LEMMA TypesIssuing ==
  ASSUME Groups, MoneyInv, Issue
  PROVE  Groups'
<1> USE BoundsAreNat
<1> USE DEF contractVars, debtVars, traceVars, countVars, IssueKeeps
<1>0. /\ GatewayTypes /\ IntentTypes /\ IssueTypes /\ ChargeTypes /\ CountTypes
      /\ DebtTypes /\ CallTypes /\ IssueLocks
  BY DEF Groups
<1>1. ASSUME NEW p \in Payments, IssueBegin(p[1], p[2])
      PROVE  Groups'
  <2>1. /\ issuing'.payment = p /\ issuing'.step \in {"absent", "found"}
        /\ issuing' = [payment |-> p, step |-> issuing'.step]
    BY <1>1, Parts DEF IssueBegin
  <2>2. IssueTypes' /\ CountTypes'
    BY <1>0, <1>1, <2>1 DEF IssueBegin, IssueTypes, CountTypes
  <2>3. IssueLocks'
    BY <1>1, <2>1 DEF IssueBegin, ContractFree, IssueLocks, IsOpen
  <2> QED
    BY <1>1, <2>2, <2>3, GroupsStay DEF IssueBegin, Groups
<1>2. CASE RegisterIntent
  <2>0. issuing # NoIssue /\ issuing.payment \in Payments
    BY <1>0, <1>2 DEF RegisterIntent, NoIssue, IssueTypes
  <2>1. IssueTypes' /\ issuing'.payment = issuing.payment
    BY <1>0, <1>2, <2>0 DEF RegisterIntent, Step, IssueTypes
  <2>2. IntentTypes'
    BY <1>0, <1>2, <2>0 DEF RegisterIntent, IntentTypes, IntentStatus
  <2>3. IssueLocks'
    BY <1>0, <1>2, <2>0, <2>1 DEF RegisterIntent, IssueLocks, IsOpen
  <2> QED
    BY <1>2, <2>1, <2>2, <2>3, GroupsStay DEF RegisterIntent, Groups
<1>3. CASE CreatePayment
  <2>0. issuing # NoIssue /\ issuing.payment \in Payments
    BY <1>0, <1>3 DEF CreatePayment, NoIssue, IssueTypes
  <2>1. IssueTypes' /\ issuing'.payment = issuing.payment
    BY <1>0, <1>3, <2>0 DEF CreatePayment, Step, IssueTypes
  <2>2. GatewayTypes'
    <3>1. Outstanding(issuing.payment[1]) \in Int
      BY <1>0, <2>0, Parts DEF Outstanding, DebtTypes
    <3> QED
      BY <1>0, <1>3, <3>1 DEF CreatePayment, GatewayTypes
  <2>3. IssueLocks'
    BY <1>0, <1>3, <2>0, <2>1 DEF CreatePayment, IssueLocks, IsOpen
  <2> QED
    BY <1>3, <2>1, <2>2, <2>3, GroupsStay DEF CreatePayment, Groups
<1>4. CASE IssueCommit
  <2>0. /\ issuing # NoIssue /\ issuing.payment \in Payments
        /\ Outstanding(issuing.payment[1]) \in Nat
    <3>1. issuing # NoIssue /\ issuing.payment \in Payments
      BY <1>0, <1>4 DEF IssueCommit, NoIssue, IssueTypes
    <3> QED
      BY <1>0, <3>1, Parts DEF IssueLocks, MoneyInv, ChargesFit, Outstanding, DebtTypes
  <2>1. ChargeTypes'
    BY <1>0, <1>4, <2>0, Parts DEF IssueCommit, ChargeTypes, BillingStatus
  <2>2. IntentTypes'
    BY <1>0, <1>4 DEF IssueCommit, IntentTypes, IntentStatus, Marked
  <2>3. IssueTypes' /\ IssueLocks'
    BY <1>4 DEF IssueCommit, IssueTypes, IssueLocks, NoIssue
  <2> QED
    BY <1>4, <2>1, <2>2, <2>3, GroupsStay DEF IssueCommit, Groups
<1>5. CASE IssueAbort
  <2>1. IssueTypes' /\ IssueLocks'
    BY <1>5 DEF IssueAbort, IssueTypes, IssueLocks, NoIssue
  <2> QED
    BY <1>5, <2>1, GroupsStay DEF IssueAbort, Groups
<1> QED
  BY <1>1, <1>2, <1>3, <1>4, <1>5 DEF Issue

(* What the handler of the webhook and the job writes about a payment.      *)
LEMMA TypesReceiving ==
  ASSUME Groups, NEW p \in Payments, NEW k \in Confirming, Receive(p, k), ContractFree,
         UNCHANGED <<cstatus, validated, manual, issuing>>
  PROVE  /\ DebtTypes' /\ ChargeTypes' /\ IntentTypes' /\ IssueLocks'
         /\ booked' \subseteq Payments /\ reviewed' \subseteq Payments
<1>0. /\ ContractTypes /\ DebtTypes /\ ChargeTypes /\ IntentTypes
      /\ booked \subseteq Payments /\ reviewed \subseteq Payments
  BY DEF Groups, GatewayTypes
<1>1. IssueLocks'
  BY DEF ContractFree, IssueLocks
<1>2. CASE UNCHANGED <<debtVars, billing, traceVars, intent>>
  BY <1>0, <1>1, <1>2 DEF debtVars, traceVars, DebtTypes, ChargeTypes, IntentTypes
<1>3. CASE Refuse(p)
  <2>1. IntentTypes'
    BY <1>0, <1>3 DEF Refuse, Marked, IntentTypes, IntentStatus
  <2>2. ChargeTypes'
    BY <1>0, <1>3, Parts DEF Refuse, ChargeTypes, BillingStatus
  <2> QED
    BY <1>0, <1>1, <1>3, <2>1, <2>2 DEF Refuse, debtVars, DebtTypes
<1>4. CASE Book(p)
  <2>0. p[1] \in Installments /\ billing[p[1]].amount \in Nat
    BY <1>0, Parts DEF ChargeTypes
  <2>1. inst' \in [Installments -> [status : InstallmentStatus, amount : Nat, paid : Nat]]
    BY <1>0, <1>4, <2>0 DEF Book, DebtTypes, InstallmentStatus
  <2>2. commission' \in [Installments -> CommissionStatus] /\ income' \in [Installments -> Nat]
    BY <1>0, <1>4, <2>0 DEF Book, DebtTypes, CommissionStatus, CommissionOnPayment, ContractTypes
  <2>3. ChargeTypes'
    BY <1>0, <1>4 DEF Book, ChargeTypes, BillingStatus
  <2> QED
    BY <1>0, <1>1, <1>4, <2>1, <2>2, <2>3 DEF Book, DebtTypes, IntentTypes
<1> QED
  BY <1>2, <1>3, <1>4 DEF Receive

LEMMA TypesWebhook ==
  ASSUME Groups, Webhook
  PROVE  Groups'
<1> USE DEF contractVars, debtVars, traceVars, countVars, WebhookKeeps
<1>0. /\ GatewayTypes /\ CallTypes /\ ChargeTypes
  BY DEF Groups
<1>1. ASSUME NEW p \in Payments, NEW k \in Announced \cup {"overdue"}, WebhookRead(p, k)
      PROVE  Groups'
  <2>0. [payment |-> p, kind |-> k, linked |-> Recorded(p)]
          \in [payment : Payments, kind : Kinds, linked : BOOLEAN]
    BY EventsAnnounced DEF Kinds, Confirming, Recorded
  <2>1. CallTypes'
    BY <1>0, <1>1, <2>0 DEF WebhookRead, CallTypes
  <2> QED
    BY <1>1, <2>1, GroupsStay DEF WebhookRead, Groups, IsOpen
<1>2. ASSUME NEW h \in handling, WebhookDuplicate(h)
      PROVE  Groups'
  <2>1. CallTypes'
    BY <1>0, <1>2 DEF WebhookDuplicate, CallTypes
  <2> QED
    BY <1>2, <2>1, GroupsStay DEF WebhookDuplicate, Groups, IsOpen
<1>3. ASSUME NEW h \in handling, WebhookUnlinked(h)
      PROVE  Groups'
  <2>1. CallTypes' /\ GatewayTypes'
    BY <1>0, <1>3 DEF WebhookUnlinked, CallTypes, GatewayTypes
  <2> QED
    BY <1>3, <2>1, GroupsStay DEF WebhookUnlinked, Groups, IsOpen
<1>4. ASSUME NEW h \in handling, WebhookLinked(h)
      PROVE  Groups'
  <2>0. h.payment \in Payments /\ h.kind \in Kinds
    BY <1>0 DEF CallTypes
  <2>1. CallTypes'
    BY <1>0, <1>4 DEF WebhookLinked, CallTypes
  <2>2. /\ DebtTypes' /\ ChargeTypes' /\ IntentTypes' /\ IssueLocks'
        /\ booked' \subseteq Payments /\ reviewed' \subseteq Payments
    <3>1. CASE h.kind \in Confirming /\ Receive(h.payment, h.kind)
      BY <1>4, <2>0, <3>1, TypesReceiving DEF WebhookLinked
    <3>2. CASE Expire(h.payment)
      <4> DEFINE i == h.payment[1]
                 paper == [billing[i] EXCEPT !.status = IF @ = "generated" THEN "expired" ELSE @]
      <4>0. i \in Installments
        BY <2>0 DEF Payments
      <4>1. ChargeTypes'
        <5>1. billing' = [billing EXCEPT ![i] = paper] /\ UNCHANGED manual
          BY <1>4, <3>2 DEF Expire, WebhookLinked, WebhookKeeps
        <5>2. paper \in [status : BillingStatus, type : Types \cup {Nothing}, amount : Nat]
          BY <1>0, <4>0 DEF ChargeTypes, BillingStatus
        <5> HIDE DEF i, paper
        <5> QED
          BY <1>0, <4>0, <5>1, <5>2 DEF ChargeTypes
      <4>2. UNCHANGED <<debtVars, intent, issuing, adjusting, booked, reviewed>>
        BY <1>4, <3>2 DEF Expire, WebhookLinked, WebhookKeeps
      <4>3. DebtTypes' /\ IntentTypes' /\ IssueLocks'
        BY <4>2, GroupsStay DEF IsOpen
      <4>4. booked' \subseteq Payments /\ reviewed' \subseteq Payments
        BY <1>0, <4>2 DEF GatewayTypes
      <4> QED
        BY <4>1, <4>3, <4>4
    <3> QED
      BY <1>4, <3>1, <3>2 DEF WebhookLinked
  <2>3. GatewayTypes'
    BY <1>0, <1>4, <2>2 DEF WebhookLinked, GatewayTypes
  <2> QED
    BY <1>4, <2>1, <2>2, <2>3, GroupsStay DEF WebhookLinked, Groups
<1> QED
  BY <1>1, <1>2, <1>3, <1>4 DEF Webhook

(* The job closes an intent once and for all, or keeps it for another try.  *)
LEMMA TypesRecovery ==
  ASSUME Groups, MoneyInv, Recovery
  PROVE  Groups'
<1> USE BoundsAreNat
<1> USE DEF contractVars, debtVars, traceVars, countVars, RecoveryKeeps
<1>0. GatewayTypes /\ IntentTypes /\ RecoveryTypes /\ ChargeTypes /\ DebtTypes
  BY DEF Groups
<1>1. ASSUME NEW p \in Payments, RecoveryPick(p)
      PROVE  Groups'
  <2>1. intent[p].attempts \in 0..(MaxAttempts - 1)
    BY <1>0, <1>1 DEF RecoveryPick, IntentTypes
  <2>2. RecoveryTypes'
    BY <1>0, <1>1, <2>1 DEF RecoveryPick, RecoveryTypes
  <2> QED
    BY <1>1, <2>2, GroupsStay DEF RecoveryPick, Groups, IsOpen
<1>2. ASSUME recovering.step # "none"
      PROVE  recovering.payment \in Payments
  BY <1>0, <1>2 DEF RecoveryTypes, NoRecovery
<1>3. ASSUME \/ recovering' = NoRecovery
             \/ /\ recovering # NoRecovery
                /\ \E s \in {"missing", "unpaid", "paid", "settle", "mark"} : RecoveryStep(s)
      PROVE  RecoveryTypes'
  <2>1. CASE recovering' = NoRecovery
    BY <2>1 DEF RecoveryTypes, NoRecovery
  <2>2. ASSUME NEW s \in {"missing", "unpaid", "paid", "settle", "mark"},
               recovering # NoRecovery, RecoveryStep(s)
        PROVE  RecoveryTypes'
    BY <1>0, <2>2 DEF RecoveryStep, RecoveryTypes
  <2> QED
    BY <1>3, <2>1, <2>2
<1>4. CASE RecoveryLook
  <2>1. remote[recovering.payment].status \in {"none", "pending", "paid"}
    BY <1>0, <1>2, <1>4 DEF RecoveryLook, GatewayTypes
  <2>2. RecoveryTypes'
    BY <1>3, <1>4, <2>1 DEF RecoveryLook, NoRecovery
  <2> QED
    BY <1>4, <2>2, GroupsStay DEF RecoveryLook, Groups, IsOpen
<1>5. ASSUME \/ UNCHANGED intent
             \/ intent' = Marked(recovering.payment, "recorded")
             \/ intent' = Marked(recovering.payment, "recovered")
             \/ intent' = Marked(recovering.payment, "manual_review")
             \/ intent' = [intent EXCEPT ![recovering.payment].status =
                             IF @ = "pending" THEN "abandoned" ELSE @]
      PROVE  IntentTypes'
  BY <1>0, <1>5 DEF Marked, IntentTypes, IntentStatus
<1>6. CASE RecoveryAbandon
  <2>1. IntentTypes'
    BY <1>5, <1>6 DEF RecoveryAbandon
  <2>2. RecoveryTypes'
    BY <1>3, <1>6 DEF RecoveryAbandon
  <2> QED
    BY <1>6, <2>1, <2>2, GroupsStay DEF RecoveryAbandon, Groups, IsOpen
<1>7. CASE RecoverySkip
  <2>1. RecoveryTypes'
    BY <1>3, <1>7 DEF RecoverySkip
  <2> QED
    BY <1>7, <2>1, GroupsStay DEF RecoverySkip, Groups, IsOpen
<1>8. CASE RecoveryRecorded
  <2>1. IntentTypes'
    BY <1>5, <1>8 DEF RecoveryRecorded
  <2>2. RecoveryTypes'
    BY <1>3, <1>8 DEF RecoveryRecorded, NoRecovery
  <2> QED
    BY <1>8, <2>1, <2>2, GroupsStay DEF RecoveryRecorded, Groups, IsOpen
<1>9. CASE RecoveryReview
  <2>1. IntentTypes'
    BY <1>5, <1>9 DEF RecoveryReview
  <2>2. RecoveryTypes'
    BY <1>3, <1>9 DEF RecoveryReview
  <2>3. GatewayTypes'
    BY <1>0, <1>2, <1>9 DEF RecoveryReview, GatewayTypes
  <2> QED
    BY <1>9, <2>1, <2>2, <2>3, GroupsStay DEF RecoveryReview, Groups, IsOpen
<1>10. CASE RecoveryInsert
  <2>0. recovering.payment \in Payments /\ remote[recovering.payment].value \in Nat
    BY <1>2, <1>10 DEF RecoveryInsert, MoneyInv, ChargesFit
  <2>1. IntentTypes'
    BY <1>5, <1>10 DEF RecoveryInsert
  <2>2. RecoveryTypes'
    BY <1>3, <1>10 DEF RecoveryInsert, NoRecovery
  <2>3. ChargeTypes'
    BY <1>0, <1>10, <2>0, Parts DEF RecoveryInsert, ChargeTypes, BillingStatus
  <2> QED
    BY <1>10, <2>1, <2>2, <2>3, GroupsStay DEF RecoveryInsert, Groups, IsOpen
<1>11. CASE RecoverySettle
  <2>0. recovering.payment \in Payments /\ "recovery" \in Confirming
    BY <1>2, <1>11 DEF RecoverySettle, Confirming
  <2>1. /\ DebtTypes' /\ ChargeTypes' /\ IntentTypes' /\ IssueLocks'
        /\ booked' \subseteq Payments /\ reviewed' \subseteq Payments
    BY <1>11, <2>0, TypesReceiving DEF RecoverySettle
  <2>2. GatewayTypes'
    BY <1>0, <1>11, <2>1 DEF RecoverySettle, GatewayTypes
  <2>3. RecoveryTypes'
    BY <1>3, <1>11 DEF RecoverySettle, NoRecovery
  <2> QED
    BY <1>11, <2>1, <2>2, <2>3, GroupsStay DEF RecoverySettle, Groups
<1>12. CASE RecoverySettled
  <2>1. RecoveryTypes'
    BY <1>3, <1>12 DEF RecoverySettled, NoRecovery
  <2> QED
    BY <1>12, <2>1, GroupsStay DEF RecoverySettled, Groups, IsOpen
<1>13. CASE RecoveryMark
  <2>1. IntentTypes'
    BY <1>5, <1>13 DEF RecoveryMark
  <2>2. RecoveryTypes'
    BY <1>3, <1>13 DEF RecoveryMark
  <2> QED
    BY <1>13, <2>1, <2>2, GroupsStay DEF RecoveryMark, Groups, IsOpen
<1>14. CASE RecoveryFails
  <2>1. recovering.payment \in Payments /\ recovering.attempts \in 0..(MaxAttempts - 1)
    BY <1>0, <1>14 DEF RecoveryFails, RecoveryTypes
  <2>2. IntentTypes'
    <3> DEFINE p == recovering.payment
               a == recovering.attempts + 1
               s == IF a >= MaxAttempts THEN "manual_review" ELSE intent[p].status
    <3>1. /\ a \in 0..MaxAttempts /\ s \in IntentStatus
          /\ s = "pending" => a < MaxAttempts
      BY <1>0, <2>1 DEF IntentTypes, IntentStatus
    <3>2. intent' = [intent EXCEPT ![p].attempts = a, ![p].status = s]
      BY <1>0, <1>14, <2>1 DEF RecoveryFails, AfterFailures, IntentTypes
    <3>3. \A q \in Payments : intent'[q] = IF q = p THEN [status |-> s, attempts |-> a] ELSE intent[q]
      BY <1>0, <2>1, <3>2 DEF IntentTypes
    <3>4. intent' \in [Payments -> [status : IntentStatus, attempts : 0..MaxAttempts]]
      BY <1>0, <2>1, <3>1, <3>2 DEF IntentTypes
    <3> QED
      BY <1>0, <3>1, <3>3, <3>4 DEF IntentTypes
  <2>3. RecoveryTypes'
    BY <1>3, <1>14 DEF RecoveryFails
  <2> QED
    BY <1>14, <2>2, <2>3, GroupsStay DEF RecoveryFails, Groups, IsOpen
<1> QED
  BY <1>1, <1>4, <1>6, <1>7, <1>8, <1>9, <1>10, <1>11, <1>12, <1>13, <1>14
     DEF Recovery, RecoveryTransaction

LEMMA TypesKept ==
  ASSUME Groups, MoneyInv, [Next]_vars
  PROVE  Groups'
<1> USE DEF contractVars, debtVars, billVars, traceVars, memoryVars, countVars
<1>1. ASSUME NEW p \in Payments, CustomerPays(p)
      PROVE  Groups'
  <2>1. GatewayTypes'
    BY <1>1 DEF CustomerPays, Groups, GatewayTypes
  <2> QED
    BY <1>1, <2>1, GroupsStay DEF CustomerPays, Groups, IsOpen
<1>2. CASE Restart
  <2>1. IssueTypes' /\ RecoveryTypes' /\ CallTypes' /\ IssueLocks'
    BY <1>2, BoundsAreNat DEF Restart, IssueTypes, RecoveryTypes, CallTypes, IssueLocks, NoIssue, NoRecovery,
       NoAdjustment
  <2>2. CountTypes'
    BY <1>2, BoundsAreNat DEF Restart, Groups, CountTypes
  <2> QED
    BY <1>2, <2>1, <2>2, GroupsStay DEF Restart, Groups
<1>3. CASE UNCHANGED vars
  BY <1>3, GroupsStay DEF vars, Groups, IsOpen
<1> QED
  BY <1>1, <1>2, <1>3, TypesByHand, TypesIssuing, TypesWebhook, TypesRecovery DEF Next

-----------------------------------------------------------------------------
(* The money, one installment at a time.                                    *)

Sound(i) ==
  /\ inst[i].status = "none" =>
       inst[i] = NoInstallment /\ billing[i] = NoBilling /\ \A t \in Types : remote[<<i, t>>] = NoRemote
  /\ IsOpen(i) =>
       /\ inst[i].paid <= inst[i].amount
       /\ billing[i] = NoBilling => inst[i].paid = 0
       /\ billing[i].status = "generated" => billing[i].amount <= Outstanding(i)
       /\ \A t \in Types : remote[<<i, t>>].value <= inst[i].amount
  /\ income[i] = inst[i].paid
  /\ Closed(i) => ~Charged(i)
  /\ commission[i] = "sale_not_validated" => inst[i].status = "paid" /\ ~validated
  /\ cstatus = "cancelled" => inst[i].status \in {"none", "paid", "cancelled"} /\ commission[i] # "due"

LinkedIsBooked ==
  \A p \in Payments, k \in Confirming : event[<<p, k>>] = "linked" => p \in booked \cup reviewed

ChargesAreNat == \A p \in Payments : remote[p].value \in Nat

LEMMA MoneyIsSound ==
  /\ MoneyInv <=> (\A i \in Installments : Sound(i)) /\ LinkedIsBooked /\ ChargesAreNat
  /\ MoneyInv' <=> (\A i \in Installments : Sound(i)') /\ LinkedIsBooked' /\ ChargesAreNat'
BY DEF MoneyInv, UnusedIsEmpty, ChargesFit, WaitingIsPaid, ReceiptsAreBookedOnce,
   ClosedIsNotCollected, CommissionsFollowTheSale, Sound, LinkedIsBooked, ChargesAreNat

LEMMA SoundStays ==
  ASSUME NEW i \in Installments, Sound(i),
         UNCHANGED <<inst[i], billing[i], manual[i], income[i], commission[i], cstatus, validated>>,
         \A t \in Types : remote'[<<i, t>>].value = remote[<<i, t>>].value
                          /\ (remote[<<i, t>>] = NoRemote => remote'[<<i, t>>] = NoRemote)
  PROVE  Sound(i)'
BY DEF Sound, IsOpen, Outstanding, Closed, Charged

LEMMA MoneyByHand ==
  ASSUME Groups, MoneyInv, Contract \/ ByHand \/ Agreement
  PROVE  MoneyInv'
<1> USE DEF contractVars, debtVars, billVars, traceVars, memoryVars, countVars
<1>0. /\ ContractTypes /\ DebtTypes /\ ChargeTypes /\ AgreementTypes
      /\ \A i \in Installments : Sound(i)
      /\ LinkedIsBooked /\ ChargesAreNat
  BY MoneyIsSound DEF Groups
<1>1. ASSUME UNCHANGED <<event, booked, reviewed, remote>>, \A i \in Installments : Sound(i)'
      PROVE  MoneyInv'
  BY <1>0, <1>1, MoneyIsSound DEF LinkedIsBooked, ChargesAreNat
<1>2. CASE ValidateSale
  <2>1. ASSUME NEW i \in Installments PROVE Sound(i)'
    BY <1>0, <1>2 DEF ValidateSale, Released, Sound, IsOpen, Outstanding, Closed, Charged, DebtTypes
  <2> QED
    BY <1>1, <1>2, <2>1 DEF ValidateSale
<1>3. ASSUME NEW s \in ContractStatus, UpdateStatus(s)
      PROVE  MoneyInv'
  <2>1. ASSUME NEW i \in Installments PROVE Sound(i)'
    BY <1>0, <1>3 DEF UpdateStatus, Sound, IsOpen, Outstanding, Closed, Charged
  <2> QED
    BY <1>1, <1>3, <2>1 DEF UpdateStatus
<1>4. CASE ExecuteCancellation
  <2>1. ASSUME NEW i \in Installments PROVE Sound(i)'
    <3>1. /\ inst'[i].status = IF CancelledWithContract(i) THEN "cancelled" ELSE inst[i].status
          /\ inst'[i].amount = inst[i].amount /\ inst'[i].paid = inst[i].paid
          /\ ~CancelledWithContract(i) => inst'[i] = inst[i] /\ billing'[i] = billing[i] /\ manual'[i] = manual[i]
          /\ CancelledWithContract(i) => billing'[i].status # "generated" /\ manual'[i] = 0
          /\ commission'[i] = IF commission[i] = "due" THEN "cancelled" ELSE commission[i]
          /\ UNCHANGED <<validated, income, remote>>
      BY <1>0, <1>4 DEF ExecuteCancellation, DebtTypes, ChargeTypes
    <3> QED
      BY <1>0, <3>1 DEF Sound, CancelledWithContract, IsOpen, Outstanding, Closed, Charged, DebtTypes,
         InstallmentStatus
  <2> QED
    BY <1>1, <1>4, <2>1 DEF ExecuteCancellation
<1>5. ASSUME NEW i \in Installments, MarkInstallmentPaid(i)
      PROVE  MoneyInv'
  <2>1. Sound(i)'
    <3>1. /\ inst'[i].status = "paid" /\ inst'[i].paid = inst[i].amount
          /\ income'[i] = income[i] + Outstanding(i)
          /\ commission'[i] = CommissionOnPayment
          /\ cstatus' = cstatus /\ validated' = validated
      BY <1>0, <1>5 DEF MarkInstallmentPaid, DebtTypes
    <3>2. inst[i].paid \in Nat /\ inst[i].amount \in Nat /\ income[i] = inst[i].paid /\ IsOpen(i)
      BY <1>0, <1>5 DEF MarkInstallmentPaid, Sound, DebtTypes
    <3> QED
      BY <1>0, <3>1, <3>2 DEF Sound, IsOpen, Outstanding, Closed, CommissionOnPayment, ContractTypes
  <2>2. ASSUME NEW j \in Installments \ {i} PROVE Sound(j)'
    BY <1>0, <1>5, SoundStays DEF MarkInstallmentPaid, DebtTypes, ChargeTypes
  <2> QED
    BY <1>1, <1>5, <2>1, <2>2 DEF MarkInstallmentPaid
<1>6. ASSUME NEW i \in Installments, RegisterEnd(i)
      PROVE  MoneyInv'
  <2>1. Sound(i)'
    BY <1>0, <1>6 DEF RegisterEnd, Sound, IsOpen, Outstanding, Closed, Charged, ChargeTypes
  <2>2. ASSUME NEW j \in Installments \ {i} PROVE Sound(j)'
    BY <1>0, <1>6, SoundStays DEF RegisterEnd, ChargeTypes
  <2> QED
    BY <1>1, <1>6, <2>1, <2>2 DEF RegisterEnd
<1>7. ASSUME NEW i \in Installments, NEW n \in Installments, ApplyRenegotiation(i, n)
      PROVE  MoneyInv'
  <2>0. i # n /\ reneg[i].proposed \in Nat
    BY <1>0, <1>7 DEF ApplyRenegotiation, IsOpen, NoInstallment, AgreementTypes
  <2>1. Sound(i)'
    <3>1. /\ inst'[i].status = "renegotiated" /\ inst'[i].paid = inst[i].paid
          /\ ~Charged(i)'
          /\ cstatus # "cancelled" /\ inst[i].status = "open"
          /\ UNCHANGED <<cstatus, validated, income, commission>>
      BY <1>0, <1>7, <2>0 DEF ApplyRenegotiation, Charged, IsOpen, DebtTypes, ChargeTypes
    <3> QED
      BY <1>0, <3>1 DEF Sound, IsOpen
  <2>2. Sound(n)'
    <3>1. /\ inst'[n] = Open(reneg[i].proposed) /\ billing'[n] = NoBilling
          /\ \A t \in Types : remote'[<<n, t>>] = NoRemote
          /\ cstatus # "cancelled" /\ inst[n] = NoInstallment
          /\ UNCHANGED <<cstatus, validated, income, commission>>
      BY <1>0, <1>7, <2>0 DEF ApplyRenegotiation, Sound, NoInstallment, DebtTypes, ChargeTypes
    <3> QED
      BY <1>0, <2>0, <3>1 DEF Sound, IsOpen, Outstanding, Closed, Open, NoBilling, NoRemote, NoInstallment
  <2>3. ASSUME NEW j \in Installments \ {i, n} PROVE Sound(j)'
    BY <1>0, <1>7, SoundStays DEF ApplyRenegotiation, DebtTypes, ChargeTypes
  <2> QED
    BY <1>1, <1>7, <2>1, <2>2, <2>3 DEF ApplyRenegotiation
<1>8. CASE AdjustEnd
  <2>1. ASSUME NEW i \in Installments PROVE Sound(i)'
    <3>1. /\ inst'[i].status = inst[i].status /\ inst'[i].paid = inst[i].paid
          /\ inst'[i].amount \in {inst[i].amount, inst[i].amount + 1}
          /\ ~IsOpen(i) => inst'[i] = inst[i]
          /\ UNCHANGED <<cstatus, validated, income, commission, billing, manual, remote>>
      BY <1>0, <1>8 DEF AdjustEnd, Adjustable, DebtTypes, IsOpen
    <3>2. ASSUME NEW t \in Types PROVE <<i, t>> \in Payments
      BY DEF Payments
    <3> QED
      BY <1>0, <3>1, <3>2 DEF Sound, IsOpen, Outstanding, Closed, Charged, DebtTypes, ChargeTypes, ChargesAreNat
  <2> QED
    BY <1>1, <1>8, <2>1 DEF AdjustEnd
<1>9. CASE AdjustBegin \/ \E i \in Installments :
             \/ RegisterBegin(i) \/ ApproveRenegotiation(i) \/ CancelRenegotiation(i)
             \/ \E proposed \in 1..(FirstAmount + MaxRaised) : CreateRenegotiation(i, proposed)
  BY <1>9, MoneyRests DEF AdjustBegin, RegisterBegin, ApproveRenegotiation, CancelRenegotiation,
     CreateRenegotiation, moneyVars
<1> QED
  BY <1>2, <1>3, <1>4, <1>5, <1>6, <1>7, <1>8, <1>9 DEF Contract, ByHand, Agreement

(* A charge that was recorded open is worth no more than what is owed, so   *)
(* what it brings is credited in full; a payment is refused, booked, or was *)
(* before.                                                                  *)
LEMMA MoneyReceived ==
  ASSUME Groups, MoneyInv, NEW p \in Payments, NEW k \in Confirming, Receive(p, k),
         event' = [event EXCEPT ![<<p, k>>] = "linked"],
         UNCHANGED <<cstatus, validated, manual, remote>>
  PROVE  MoneyInv'
<1>0. /\ ContractTypes /\ DebtTypes /\ ChargeTypes /\ GatewayTypes
      /\ \A i \in Installments : Sound(i)
      /\ LinkedIsBooked /\ ChargesAreNat
      /\ p[1] \in Installments
  BY MoneyIsSound, Parts DEF Groups
<1>1. ASSUME p \in booked' \cup reviewed', booked \subseteq booked', reviewed \subseteq reviewed',
             \A i \in Installments : Sound(i)'
      PROVE  MoneyInv'
  <2>1. ASSUME NEW q \in Payments, NEW m \in Confirming, event'[<<q, m>>] = "linked"
        PROVE  q \in booked' \cup reviewed'
    <3>1. <<q, m>> \in Payments \X Kinds /\ <<p, k>> \in Payments \X Kinds
      BY DEF Kinds
    <3>2. CASE q = p
      BY <1>1, <3>2
    <3>3. CASE q # p
      BY <1>0, <1>1, <2>1, <3>1, <3>3 DEF GatewayTypes, LinkedIsBooked
    <3> QED
      BY <3>2, <3>3
  <2> QED
    BY <1>0, <1>1, <2>1, MoneyIsSound DEF LinkedIsBooked, ChargesAreNat
<1>2. CASE Repeated(p, k) /\ UNCHANGED <<debtVars, billing, traceVars, intent>>
  <2>1. p \in booked \cup reviewed
    BY <1>0, <1>2 DEF Repeated, LinkedIsBooked
  <2>2. ASSUME NEW i \in Installments PROVE Sound(i)'
    BY <1>0, <1>2, SoundStays DEF debtVars
  <2> QED
    BY <1>1, <1>2, <2>1, <2>2 DEF traceVars
<1>3. CASE Refuse(p)
  <2>1. ASSUME NEW i \in Installments PROVE Sound(i)'
    <3>1. /\ billing'[i].status \in {billing[i].status, "paid"}
          /\ billing'[i].status # billing[i].status => ~IsOpen(i) /\ billing[i].status = "generated"
                                                       /\ inst[i].status = "paid"
          /\ billing'[i].amount = billing[i].amount /\ billing'[i].type = billing[i].type
          /\ billing'[i].status = billing[i].status => billing'[i] = billing[i]
          /\ UNCHANGED <<inst, income, commission>>
      BY <1>0, <1>3 DEF Refuse, debtVars, ChargeTypes, IsOpen
    <3> QED
      BY <1>0, <3>1 DEF Sound, IsOpen, Outstanding, Closed, Charged
  <2> QED
    BY <1>1, <1>3, <2>1 DEF Refuse
<1>4. CASE ~NeedsReview(p) /\ Book(p)
  <2> DEFINE i == p[1]
             received == billing[i].amount
  <2>1. /\ IsOpen(i) /\ received \in Nat /\ received <= inst[i].amount - inst[i].paid
        /\ inst[i].amount \in Nat /\ inst[i].paid \in Nat /\ income[i] = inst[i].paid
        /\ cstatus # "cancelled" /\ commission[i] # "sale_not_validated"
    BY <1>0, <1>4 DEF NeedsReview, Sound, ChargeTypes, DebtTypes, IsOpen, Outstanding
  <2>2. /\ inst'[i].amount = inst[i].amount /\ inst'[i].paid = inst[i].paid + received
        /\ inst'[i].status = IF LastPaid(i, received) THEN "paid" ELSE "open"
        /\ income'[i] = income[i] + received
        /\ commission'[i] = IF LastPaid(i, received) THEN CommissionOnPayment ELSE commission[i]
        /\ billing'[i].status = "paid"
    BY <1>0, <1>4, <2>1 DEF Book, LastPaid, DebtTypes, ChargeTypes, IsOpen
  <2>3. Sound(i)'
    BY <1>0, <2>1, <2>2 DEF Sound, IsOpen, Outstanding, Closed, CommissionOnPayment, ContractTypes,
       NoBilling, LastPaid
  <2>4. ASSUME NEW j \in Installments \ {i} PROVE Sound(j)'
    BY <1>0, <1>4, SoundStays DEF Book, DebtTypes, ChargeTypes
  <2> QED
    BY <1>1, <1>4, <2>3, <2>4 DEF Book
<1> QED
  BY <1>2, <1>3, <1>4 DEF Receive

LEMMA MoneyIssuing ==
  ASSUME Groups, MoneyInv, Issue
  PROVE  MoneyInv'
<1> USE DEF contractVars, debtVars, billVars, traceVars, countVars, IssueKeeps
<1>0. /\ DebtTypes /\ ChargeTypes /\ GatewayTypes /\ IssueTypes /\ IssueLocks
      /\ \A i \in Installments : Sound(i)
      /\ LinkedIsBooked /\ ChargesAreNat
  BY MoneyIsSound DEF Groups
<1>1. CASE CreatePayment
  <2>0. PICK p \in Payments : p = issuing.payment /\ p[1] \in Installments /\ IsOpen(p[1])
    BY <1>0, <1>1, Parts DEF CreatePayment, IssueTypes, IssueLocks, NoIssue
  <2>1. Outstanding(p[1]) \in Nat /\ Outstanding(p[1]) <= inst[p[1]].amount
    BY <1>0, <2>0 DEF Outstanding, DebtTypes, Sound
  <2>2. \A q \in Payments : remote'[q] = IF q = p THEN [status |-> "pending", value |-> Outstanding(p[1])]
                                                 ELSE remote[q]
    BY <1>0, <1>1, <2>0 DEF CreatePayment, GatewayTypes
  <2>3. \A i \in Installments, t \in Types : <<i, t>> \in Payments /\ (i # p[1] => <<i, t>> # p)
    BY <2>0, Parts DEF Payments
  <2>4. Sound(p[1])'
    <3>1. \A t \in Types : remote'[<<p[1], t>>].value <= inst[p[1]].amount
      BY <1>0, <2>0, <2>1, <2>2, <2>3 DEF Sound
    <3> QED
      BY <1>0, <1>1, <2>0, <3>1 DEF CreatePayment, Sound, IsOpen, Outstanding, Closed, Charged
  <2>5. ASSUME NEW j \in Installments \ {p[1]} PROVE Sound(j)'
    BY <1>0, <1>1, <2>0, <2>2, <2>3, SoundStays DEF CreatePayment
  <2> QED
    BY <1>0, <1>1, <2>0, <2>1, <2>2, <2>4, <2>5, MoneyIsSound DEF CreatePayment, LinkedIsBooked, ChargesAreNat
<1>2. CASE IssueCommit
  <2>0. PICK p \in Payments : p = issuing.payment /\ p[1] \in Installments /\ IsOpen(p[1])
    BY <1>0, <1>2, Parts DEF IssueCommit, IssueTypes, IssueLocks, NoIssue
  <2>1. Sound(p[1])'
    <3>1. /\ billing'[p[1]].status = "generated" /\ billing'[p[1]].amount = Outstanding(p[1])
          /\ billing'[p[1]] # NoBilling /\ Outstanding(p[1])' = Outstanding(p[1])
          /\ Outstanding(p[1]) \in Nat
      BY <1>0, <1>2, <2>0 DEF IssueCommit, ChargeTypes, NoBilling, Outstanding, DebtTypes, Sound
    <3> QED
      BY <1>0, <1>2, <2>0, <3>1 DEF IssueCommit, Sound, IsOpen, Closed
  <2>2. ASSUME NEW j \in Installments \ {p[1]} PROVE Sound(j)'
    BY <1>0, <1>2, <2>0, SoundStays DEF IssueCommit, ChargeTypes
  <2> QED
    BY <1>0, <1>2, <2>0, <2>1, <2>2, MoneyIsSound DEF IssueCommit, LinkedIsBooked, ChargesAreNat
<1>3. CASE RegisterIntent \/ IssueAbort \/ \E p \in Payments : IssueBegin(p[1], p[2])
  BY <1>3, MoneyRests DEF RegisterIntent, IssueAbort, IssueBegin, moneyVars
<1> QED
  BY <1>1, <1>2, <1>3 DEF Issue

LEMMA MoneyWebhook ==
  ASSUME Groups, MoneyInv, Webhook
  PROVE  MoneyInv'
<1> USE DEF contractVars, debtVars, billVars, traceVars, countVars, WebhookKeeps
<1>0. /\ ChargeTypes /\ GatewayTypes /\ CallTypes
      /\ \A i \in Installments : Sound(i)
      /\ LinkedIsBooked /\ ChargesAreNat
  BY MoneyIsSound DEF Groups
<1>1. ASSUME NEW h \in handling, WebhookUnlinked(h)
      PROVE  MoneyInv'
  <2>1. ASSUME NEW i \in Installments PROVE Sound(i)'
    BY <1>0, <1>1, SoundStays DEF WebhookUnlinked
  <2>2. LinkedIsBooked'
    BY <1>0, <1>1 DEF WebhookUnlinked, LinkedIsBooked, GatewayTypes, Kinds
  <2> QED
    BY <1>0, <1>1, <2>1, <2>2, MoneyIsSound DEF WebhookUnlinked, ChargesAreNat
<1>2. ASSUME NEW h \in handling, WebhookLinked(h)
      PROVE  MoneyInv'
  <2>0. h.payment \in Payments /\ h.payment[1] \in Installments
    BY <1>0, Parts DEF CallTypes
  <2>1. CASE h.kind \in Confirming /\ Receive(h.payment, h.kind)
    BY <1>2, <2>0, <2>1, MoneyReceived DEF WebhookLinked
  <2>2. CASE h.kind = "overdue" /\ Expire(h.payment)
    <3>1. ASSUME NEW i \in Installments PROVE Sound(i)'
      <4>1. /\ billing'[i] = billing[i] \/ billing'[i].status = "expired"
            /\ billing'[i] = NoBilling => billing[i] = NoBilling
            /\ billing[i] = NoBilling => billing'[i] = NoBilling
        BY <1>0, <2>0, <2>2 DEF Expire, ChargeTypes, NoBilling
      <4> QED
        BY <1>0, <1>2, <2>2, <4>1 DEF WebhookLinked, Expire, Sound, IsOpen, Outstanding, Closed, Charged
    <3>2. LinkedIsBooked'
      BY <1>0, <1>2, <2>2 DEF WebhookLinked, Expire, LinkedIsBooked, GatewayTypes, Kinds, Confirming
    <3> QED
      BY <1>0, <1>2, <3>1, <3>2, MoneyIsSound DEF WebhookLinked, ChargesAreNat
  <2> QED
    BY <1>2, <2>1, <2>2 DEF WebhookLinked
<1>3. CASE \/ \E p \in Payments, k \in Announced \cup {"overdue"} : WebhookRead(p, k)
           \/ \E h \in handling : WebhookDuplicate(h)
  BY <1>3, MoneyRests DEF WebhookRead, WebhookDuplicate, moneyVars
<1> QED
  BY <1>1, <1>2, <1>3 DEF Webhook

LEMMA MoneyRecovery ==
  ASSUME Groups, MoneyInv, Recovery
  PROVE  MoneyInv'
<1> USE DEF contractVars, debtVars, billVars, traceVars, countVars, RecoveryKeeps
<1>0. /\ ChargeTypes /\ GatewayTypes /\ RecoveryTypes /\ DebtTypes
      /\ \A i \in Installments : Sound(i)
      /\ LinkedIsBooked /\ ChargesAreNat
  BY MoneyIsSound DEF Groups
<1>1. ASSUME recovering.step # "none"
      PROVE  recovering.payment \in Payments /\ recovering.payment[1] \in Installments
  BY <1>0, <1>1, Parts DEF RecoveryTypes, NoRecovery
<1>2. CASE RecoveryInsert
  <2>0. PICK p \in Payments : /\ p = recovering.payment /\ p[1] \in Installments /\ IsOpen(p[1])
                              /\ p = <<p[1], p[2]>> /\ p[2] \in Types
    BY <1>1, <1>2, Parts DEF RecoveryInsert, AcceptsCharge
  <2>1. Sound(p[1])'
    <3>1. /\ billing'[p[1]].status = "generated" /\ billing'[p[1]].amount = remote[p].value
          /\ billing'[p[1]] # NoBilling /\ Outstanding(p[1])' = Outstanding(p[1])
          /\ remote[p].value <= Outstanding(p[1])
      <4>1. remote[<<p[1], p[2]>>].value <= inst[p[1]].amount /\ inst[p[1]].paid = 0
        BY <1>0, <1>2, <2>0 DEF RecoveryInsert, Sound
      <4>2. remote[p].value <= Outstanding(p[1])
        BY <1>0, <2>0, <4>1 DEF Outstanding, DebtTypes
      <4> QED
        BY <1>0, <1>2, <2>0, <4>2 DEF RecoveryInsert, ChargeTypes, NoBilling, Outstanding
    <3> QED
      BY <1>0, <1>2, <2>0, <3>1 DEF RecoveryInsert, Sound, IsOpen, Closed
  <2>2. ASSUME NEW j \in Installments \ {p[1]} PROVE Sound(j)'
    BY <1>0, <1>2, <2>0, SoundStays DEF RecoveryInsert, ChargeTypes
  <2> QED
    BY <1>0, <1>2, <2>0, <2>1, <2>2, MoneyIsSound DEF RecoveryInsert, LinkedIsBooked, ChargesAreNat
<1>3. CASE RecoverySettle
  <2>1. recovering.payment \in Payments /\ "recovery" \in Confirming
    BY <1>1, <1>3 DEF RecoverySettle, Confirming
  <2> QED
    BY <1>3, <2>1, MoneyReceived DEF RecoverySettle
<1>4. CASE \/ \E p \in Payments : RecoveryPick(p)
           \/ RecoveryLook \/ RecoveryAbandon \/ RecoverySkip \/ RecoveryRecorded \/ RecoveryReview
           \/ RecoverySettled \/ RecoveryMark \/ RecoveryFails
  BY <1>4, MoneyRests DEF RecoveryPick, RecoveryLook, RecoveryAbandon, RecoverySkip, RecoveryRecorded,
     RecoveryReview, RecoverySettled, RecoveryMark, RecoveryFails, moneyVars
<1> QED
  BY <1>2, <1>3, <1>4 DEF Recovery, RecoveryTransaction

LEMMA MoneyKept ==
  ASSUME Groups, MoneyInv, [Next]_vars
  PROVE  MoneyInv'
<1> USE DEF contractVars, debtVars, billVars, traceVars, memoryVars, countVars
<1>1. ASSUME NEW p \in Payments, CustomerPays(p)
      PROVE  MoneyInv'
  <2>0. GatewayTypes /\ LinkedIsBooked /\ ChargesAreNat /\ \A i \in Installments : Sound(i)
    BY MoneyIsSound DEF Groups
  <2>1. \A q \in Payments : /\ remote'[q].value = remote[q].value
                            /\ remote[q] = NoRemote => remote'[q] = NoRemote
    BY <1>1, <2>0 DEF CustomerPays, GatewayTypes, NoRemote
  <2>2. \A i \in Installments, t \in Types : <<i, t>> \in Payments
    BY DEF Payments
  <2>3. ASSUME NEW i \in Installments PROVE Sound(i)'
    BY <1>1, <2>0, <2>1, <2>2, SoundStays DEF CustomerPays
  <2> QED
    BY <1>1, <2>0, <2>1, <2>3, MoneyIsSound DEF CustomerPays, LinkedIsBooked, ChargesAreNat
<1>2. CASE Restart \/ UNCHANGED vars
  BY <1>2, MoneyRests DEF Restart, vars, moneyVars
<1> QED
  BY <1>1, <1>2, MoneyByHand, MoneyIssuing, MoneyWebhook, MoneyRecovery DEF Next

-----------------------------------------------------------------------------
LEMMA ReceivablesInvariant == Spec => []ReceivablesInv
<1>1. ReceivablesInv /\ [Next]_vars => ReceivablesInv'
  BY GroupsAreTypes, TypesKept, MoneyKept DEF ReceivablesInv
<1> QED
  BY InvAtStart, <1>1, PTL DEF Spec

-----------------------------------------------------------------------------
(* The debt.                                                                *)

(* An agreement is for no more than the balance it was made for.            *)
AgreementsFit ==
  \A i \in Installments :
    reneg[i].status \in {"draft", "approved"} => reneg[i].proposed <= reneg[i].outstanding

(* What the row r of an installment tells.                                  *)
Owes(r) == IF r.status \in {"open", "paid"} THEN r.amount ELSE r.paid

LEMMA OwedIs ==
  /\ Owed = [i \in Installments |-> Owes(inst[i])]
  /\ Owed' = [i \in Installments |-> Owes(inst'[i])]
  /\ DebtIsConserved <=> Sum(Owed) <= FirstAmount * Cardinality(Original) + raised
  /\ DebtIsConserved' <=> Sum(Owed') <= FirstAmount * Cardinality(Original) + raised'
<1>1. Owed = [i \in Installments |-> Owes(inst[i])] /\ Owed' = [i \in Installments |-> Owes(inst'[i])]
  BY DEF Owed, Owes
<1>2. \A f : TotalOf(f) = Sum(f)
  BY DEF TotalOf, Sum
<1> QED
  BY <1>1, <1>2 DEF DebtIsConserved

LEMMA DebtAtStart == Init => AgreementsFit /\ DebtIsConserved
<1> SUFFICES ASSUME Init PROVE AgreementsFit /\ DebtIsConserved
  OBVIOUS
<1> USE OriginalExist, InstallmentsAreFinite, AmountsAreNat
<1>1. AgreementsFit
  BY DEF Init, AgreementsFit, NoAgreement
<1>2. Owed = [i \in Installments |-> IF i \in Original THEN FirstAmount ELSE 0]
  BY OwedIs DEF Init, Owes, Open, NoInstallment
<1>3. Sum(Owed) = FirstAmount * Cardinality(Original)
  BY <1>2, SumOfSame
<1>4. raised = 0 /\ Cardinality(Original) \in Nat
  BY FS_Subset, FS_CardinalityType DEF Init
<1> DEFINE first == FirstAmount * Cardinality(Original)
<1>5. first \in Int
  BY <1>4
<1>6. Sum(Owed) <= first + raised
  <2> HIDE DEF first
  <2>1. first + 0 = first
    BY <1>5
  <2>2. Sum(Owed) = first
    BY <1>3 DEF first
  <2> QED
    BY <1>4, <1>5, <2>1, <2>2
<1> QED
  BY <1>1, <1>6, OwedIs

LEMMA AgreementsKept ==
  ASSUME ReceivablesInv, AgreementsFit, [Next]_vars
  PROVE  AgreementsFit'
<1>0. reneg \in [Installments -> [status : AgreementStatus, outstanding : Int, proposed : Nat]]
  BY DEF ReceivablesInv, TypeOK
<1>1. ASSUME NEW i \in Installments, NEW proposed \in 1..(FirstAmount + MaxRaised),
             CreateRenegotiation(i, proposed)
      PROVE  AgreementsFit'
  <2>1. proposed <= Outstanding(i)
    <3>1. Outstanding(i) \in Int
      BY DEF ReceivablesInv, TypeOK, Outstanding
    <3> QED
      BY <1>1, <3>1 DEF CreateRenegotiation
  <2> QED
    BY <1>0, <1>1, <2>1 DEF CreateRenegotiation, AgreementsFit
<1>2. ASSUME NEW i \in Installments,
             ApproveRenegotiation(i) \/ CancelRenegotiation(i)
      PROVE  AgreementsFit'
  BY <1>0, <1>2 DEF ApproveRenegotiation, CancelRenegotiation, AgreementsFit, NoAgreement
<1>3. ASSUME NEW i \in Installments, NEW n \in Installments, ApplyRenegotiation(i, n)
      PROVE  AgreementsFit'
  BY <1>0, <1>3 DEF ApplyRenegotiation, AgreementsFit
<1>4. ASSUME UNCHANGED reneg
      PROVE  AgreementsFit'
  BY <1>4 DEF AgreementsFit
<1>5. Contract \/ ByHand => UNCHANGED reneg
  BY DEF Contract, ValidateSale, ExecuteCancellation, AdjustBegin, AdjustEnd, UpdateStatus, ByHand,
     MarkInstallmentPaid, RegisterBegin, RegisterEnd
<1>6. Issue => UNCHANGED reneg
  BY DEF Issue, IssueBegin, RegisterIntent, CreatePayment, IssueCommit, IssueAbort, IssueKeeps
<1>7. Webhook => UNCHANGED reneg
  BY DEF Webhook, WebhookRead, WebhookDuplicate, WebhookUnlinked, WebhookLinked, WebhookKeeps
<1>8. Recovery => UNCHANGED reneg
  BY DEF Recovery, RecoveryTransaction, RecoveryPick, RecoveryLook, RecoveryAbandon, RecoverySkip,
     RecoveryRecorded, RecoveryReview, RecoveryInsert, RecoverySettle, RecoverySettled, RecoveryMark,
     RecoveryFails, RecoveryKeeps
<1>9. Restart \/ (\E p \in Payments : CustomerPays(p)) \/ UNCHANGED vars => UNCHANGED reneg
  BY DEF Restart, CustomerPays, vars
<1> QED
  BY <1>1, <1>2, <1>3, <1>4, <1>5, <1>6, <1>7, <1>8, <1>9 DEF Next, Agreement

(* Most steps let no installment tell of more.                              *)
DebtRests == UNCHANGED raised /\ \A i \in Installments : Owes(inst'[i]) <= Owes(inst[i])

LEMMA DebtReceived ==
  ASSUME Groups, NEW p \in Payments, NEW k \in Confirming, Receive(p, k), UNCHANGED raised
  PROVE  DebtRests
<1>0. /\ inst \in [Installments -> [status : InstallmentStatus, amount : Nat, paid : Nat]]
      /\ p[1] \in Installments
  BY Parts DEF Groups, DebtTypes
<1>1. CASE UNCHANGED inst
  BY <1>0, <1>1 DEF DebtRests, Owes
<1>2. CASE ~NeedsReview(p) /\ Book(p)
  <2>1. inst[p[1]].status = "open"
    BY <1>2 DEF NeedsReview, IsOpen
  <2>2. ASSUME NEW i \in Installments PROVE Owes(inst'[i]) <= Owes(inst[i])
    <3>1. CASE i # p[1]
      <4>1. inst'[i] = inst[i]
        BY <1>0, <1>2, <3>1 DEF Book
      <4> QED
        BY <1>0, <4>1 DEF Owes
    <3>2. CASE i = p[1]
      <4>1. inst'[i].amount = inst[i].amount /\ inst'[i].status \in {"open", "paid"}
        BY <1>0, <1>2, <2>1, <3>2 DEF Book
      <4> QED
        BY <1>0, <2>1, <3>2, <4>1 DEF Owes
    <3> QED
      BY <3>1, <3>2
  <2> QED
    BY <2>2 DEF DebtRests
<1> QED
  BY <1>1, <1>2 DEF Receive, Refuse, debtVars

LEMMA DebtMoves ==
  ASSUME ReceivablesInv, [Next]_vars
  PROVE  \/ DebtRests
         \/ \E i, n \in Installments : ApplyRenegotiation(i, n)
         \/ AdjustEnd
<1> USE DEF contractVars, debtVars, billVars, traceVars, memoryVars, countVars
<1>0. inst \in [Installments -> [status : InstallmentStatus, amount : Nat, paid : Nat]]
  BY DEF ReceivablesInv, TypeOK
<1>1. ASSUME UNCHANGED <<inst, raised>> PROVE DebtRests
  BY <1>0, <1>1 DEF DebtRests, Owes
<1>2. ASSUME ExecuteCancellation PROVE DebtRests
  <2>1. \A i \in Installments : inst[i].status = "open" => inst[i].paid <= inst[i].amount
    BY DEF ReceivablesInv, MoneyInv, ChargesFit, IsOpen
  <2>2. ASSUME NEW i \in Installments PROVE Owes(inst'[i]) <= Owes(inst[i])
    <3>1. /\ inst'[i].amount = inst[i].amount /\ inst'[i].paid = inst[i].paid
          /\ inst'[i].status = IF inst[i].status \in {"open", "renegotiated"} THEN "cancelled" ELSE inst[i].status
      BY <1>0, <1>2 DEF ExecuteCancellation, CancelledWithContract
    <3> QED
      BY <1>0, <2>1, <3>1 DEF Owes
  <2> QED
    BY <1>2, <2>2 DEF ExecuteCancellation, DebtRests
<1>3. ASSUME NEW i \in Installments, MarkInstallmentPaid(i) PROVE DebtRests
  <2>1. ASSUME NEW j \in Installments PROVE Owes(inst'[j]) <= Owes(inst[j])
    <3>1. inst'[j].amount = inst[j].amount /\ (j # i => inst'[j] = inst[j])
      BY <1>0, <1>3 DEF MarkInstallmentPaid
    <3>2. j = i => inst[j].status = "open" /\ inst'[j].status = "paid"
      BY <1>0, <1>3 DEF MarkInstallmentPaid, IsOpen
    <3> QED
      BY <1>0, <3>1, <3>2 DEF Owes
  <2> QED
    BY <1>3, <2>1 DEF MarkInstallmentPaid, DebtRests
<1>4. Contract \/ ByHand => DebtRests \/ AdjustEnd
  <2>1. ASSUME \/ ValidateSale \/ AdjustBegin \/ \E s \in ContractStatus : UpdateStatus(s)
               \/ \E i \in Installments : RegisterBegin(i) \/ RegisterEnd(i)
        PROVE  DebtRests
    BY <1>1, <2>1 DEF ValidateSale, AdjustBegin, UpdateStatus, RegisterBegin, RegisterEnd
  <2> QED
    BY <1>2, <1>3, <2>1 DEF Contract, ByHand
<1>5. Agreement => DebtRests \/ \E i, n \in Installments : ApplyRenegotiation(i, n)
  BY <1>1 DEF Agreement, CreateRenegotiation, ApproveRenegotiation, CancelRenegotiation
<1>6. Issue => DebtRests
  BY <1>1 DEF Issue, IssueBegin, RegisterIntent, CreatePayment, IssueCommit, IssueAbort, IssueKeeps
<1>7. Groups
  BY GroupsAreTypes DEF ReceivablesInv
<1>8. Webhook => DebtRests
  <2>1. ASSUME NEW h \in handling, WebhookLinked(h) PROVE DebtRests
    <3>1. h.payment \in Payments
      BY DEF ReceivablesInv, TypeOK
    <3>2. UNCHANGED raised
      BY <2>1 DEF WebhookLinked, WebhookKeeps
    <3> QED
      BY <1>1, <1>7, <2>1, <3>1, <3>2, DebtReceived DEF WebhookLinked, Expire
  <2> QED
    BY <1>1, <2>1 DEF Webhook, WebhookRead, WebhookDuplicate, WebhookUnlinked, WebhookKeeps
<1>9. Recovery => DebtRests
  <2>1. ASSUME RecoverySettle PROVE DebtRests
    <3>1. recovering.payment \in Payments /\ "recovery" \in Confirming
      BY <2>1 DEF ReceivablesInv, MemoryInv, RecoverySettle, NoRecovery, Confirming
    <3>2. UNCHANGED raised /\ Receive(recovering.payment, "recovery")
      BY <2>1 DEF RecoverySettle, RecoveryKeeps
    <3> QED
      BY <1>7, <3>1, <3>2, DebtReceived
  <2> QED
    BY <1>1, <2>1 DEF Recovery, RecoveryTransaction, RecoveryPick, RecoveryLook, RecoveryAbandon,
       RecoverySkip, RecoveryRecorded, RecoveryReview, RecoveryInsert, RecoverySettled, RecoveryMark,
       RecoveryFails, RecoveryKeeps
<1>10. Restart \/ (\E p \in Payments : CustomerPays(p)) \/ UNCHANGED vars => DebtRests
  BY <1>1 DEF Restart, CustomerPays, vars
<1> QED
  BY <1>4, <1>5, <1>6, <1>8, <1>9, <1>10 DEF Next

(* A step adds to the debt what an adjustment raises it by, and no more.    *)
LEMMA DebtKept ==
  ASSUME ReceivablesInv, AgreementsFit, DebtIsConserved, [Next]_vars
  PROVE  DebtIsConserved'
<1> USE InstallmentsAreFinite
<1>0. /\ inst \in [Installments -> [status : InstallmentStatus, amount : Nat, paid : Nat]]
      /\ reneg \in [Installments -> [status : AgreementStatus, outstanding : Int, proposed : Nat]]
      /\ raised \in Nat
  BY DEF ReceivablesInv, TypeOK
<1>01. inst' \in [Installments -> [status : InstallmentStatus, amount : Nat, paid : Nat]]
  BY GroupsAreTypes, TypesKept DEF ReceivablesInv, Groups, DebtTypes
<1> DEFINE g == [i \in Installments |-> Owes(inst'[i])]
           bound == FirstAmount * Cardinality(Original)
<1>1. Owed \in [Installments -> Int] /\ Sum(Owed) \in Int /\ \A i \in Installments : Owed[i] = Owes(inst[i])
  <2>1. Owed \in [Installments -> Int] /\ \A i \in Installments : Owed[i] = Owes(inst[i])
    BY <1>0, OwedIs DEF Owes
  <2> QED
    BY <2>1, SumIs
<1>2. bound \in Int /\ Sum(Owed) <= bound + raised
  <2>1. Cardinality(Original) \in Nat
    BY OriginalExist, FS_Subset, FS_CardinalityType
  <2>2. bound \in Int
    BY <2>1, AmountsAreNat
  <2> QED
    BY <2>2, OwedIs
<1>3. Sum(g) <= bound + raised' => DebtIsConserved'
  BY OwedIs
<1>02. g \in [Installments -> Int] /\ Sum(g) \in Int
  <2>1. g \in [Installments -> Int]
    BY <1>01 DEF Owes
  <2> HIDE DEF g
  <2> QED
    BY <2>1, SumIs
<1>4. CASE DebtRests
  <2>2. Sum(g) <= Sum(Owed)
    <3>1. \A i \in Installments : g[i] <= Owed[i]
      BY <1>1, <1>4 DEF DebtRests
    <3> HIDE DEF g
    <3> QED
      BY <1>02, <1>1, <3>1, SumGrows
  <2>3. raised' = raised
    BY <1>4 DEF DebtRests
  <2> HIDE DEF g, bound
  <2> QED
    BY <1>0, <1>02, <1>1, <1>2, <1>3, <2>2, <2>3
<1>5. ASSUME NEW i \in Installments, NEW n \in Installments, ApplyRenegotiation(i, n)
      PROVE  DebtIsConserved'
  <2> DEFINE p == reneg[i].proposed
             less == [j \in Installments |-> IF j \in {i} THEN 0 - p ELSE 0]
             more == [j \in Installments |-> IF j \in {n} THEN p ELSE 0]
             change == [j \in Installments |-> less[j] + more[j]]
             top == [j \in Installments |-> Owed[j] + change[j]]
  <2>1. /\ p \in Nat /\ p <= inst[i].amount - inst[i].paid
        /\ inst[i].status = "open" /\ inst[n] = NoInstallment /\ i # n
    BY <1>0, <1>5 DEF ApplyRenegotiation, SameBalance, Outstanding, IsOpen, AgreementsFit, NoInstallment
  <2>2. /\ inst'[i].status = "renegotiated" /\ inst'[i].paid = inst[i].paid
        /\ inst'[n] = Open(p)
        /\ \A j \in Installments \ {i, n} : inst'[j] = inst[j]
    BY <1>0, <1>5, <2>1 DEF ApplyRenegotiation
  <2>3. less \in [Installments -> Int] /\ more \in [Installments -> Int] /\ change \in [Installments -> Int]
        /\ top \in [Installments -> Int]
    BY <1>1, <2>1
  <2>4. ASSUME NEW j \in Installments PROVE g[j] <= top[j]
    <3>1. CASE j = i
      <4>1. g[j] = inst[i].paid /\ Owed[j] = inst[i].amount
        BY <1>1, <2>1, <2>2, <3>1 DEF Owes
      <4>2. less[j] = 0 - p /\ more[j] = 0
        BY <2>1, <3>1
      <4>3. top[j] = inst[i].amount + ((0 - p) + 0)
        BY <4>1, <4>2
      <4> QED
        BY <1>0, <2>1, <4>1, <4>3
    <3>2. CASE j = n
      <4>1. g[j] = p /\ Owed[j] = 0
        BY <1>1, <2>1, <2>2, <3>2 DEF Owes, Open, NoInstallment
      <4>2. less[j] = 0 /\ more[j] = p
        BY <2>1, <3>2
      <4>3. top[j] = 0 + (0 + p)
        BY <4>1, <4>2
      <4> QED
        BY <2>1, <4>1, <4>3
    <3>3. CASE j \notin {i, n}
      <4>1. g[j] = Owed[j] /\ Owed[j] \in Int
        BY <1>1, <2>2, <3>3
      <4>2. less[j] = 0 /\ more[j] = 0
        BY <3>3
      <4>3. top[j] = Owed[j] + (0 + 0)
        BY <4>2
      <4> QED
        BY <4>1, <4>3
    <3> QED
      BY <3>1, <3>2, <3>3
  <2>5. Sum(g) <= Sum(top)
    <3> HIDE DEF g, top
    <3> QED
      BY <1>02, <2>3, <2>4, SumGrows
  <2>6. Sum(less) = 0 - p /\ Sum(more) = p
    <3>1. Cardinality({i}) = 1 /\ Cardinality({n}) = 1
      BY FS_Singleton
    <3>2. 0 - p \in Int /\ p \in Int
      BY <2>1
    <3>3. Sum(less) = (0 - p) * Cardinality({i})
      <4> DEFINE c == 0 - p
      <4>1. c \in Int
        BY <3>2
      <4>2. less = [j \in Installments |-> IF j \in {i} THEN c ELSE 0]
        OBVIOUS
      <4> HIDE DEF less, c
      <4>3. Sum(less) = c * Cardinality({i})
        BY <4>1, <4>2, SumOfSame
      <4> QED
        BY <4>3 DEF c
    <3>4. Sum(more) = p * Cardinality({n})
      <4> DEFINE c == p
      <4>1. c \in Int
        BY <3>2
      <4>2. more = [j \in Installments |-> IF j \in {n} THEN c ELSE 0]
        OBVIOUS
      <4> HIDE DEF more, c
      <4>3. Sum(more) = c * Cardinality({n})
        BY <4>1, <4>2, SumOfSame
      <4> QED
        BY <4>3 DEF c
    <3> HIDE DEF p, less, more
    <3> QED
      BY <3>1, <3>2, <3>3, <3>4
  <2>7. Sum(change) = Sum(less) + Sum(more)
    <3>1. \A j \in Installments : change[j] = less[j] + more[j]
      OBVIOUS
    <3> HIDE DEF change, less, more
    <3> QED
      BY <2>3, <3>1, SumOfBoth
  <2>8. Sum(top) = Sum(Owed) + Sum(change)
    <3>1. \A j \in Installments : top[j] = Owed[j] + change[j]
      OBVIOUS
    <3> HIDE DEF top, change
    <3> QED
      BY <1>1, <2>3, <3>1, SumOfBoth
  <2>9. raised' = raised
    BY <1>5 DEF ApplyRenegotiation, countVars
  <2>10. Sum(g) <= bound + raised'
    <3> HIDE DEF g, top, change, less, more, p, bound
    <3>1. Sum(change) = 0
      BY <2>1, <2>6, <2>7
    <3> QED
      BY <1>0, <1>02, <1>1, <1>2, <2>5, <2>8, <2>9, <3>1
  <2> QED
    BY <1>3, <2>10
<1>6. CASE AdjustEnd
  <2>1. PICK F \in SUBSET Installments :
          /\ inst' = [i \in Installments |->
                IF i \in F THEN [inst[i] EXCEPT !.amount = @ + 1] ELSE inst[i]]
          /\ raised' = raised + Cardinality(F)
          /\ \A i \in F : inst[i].status = "open"
    BY <1>6 DEF AdjustEnd, Adjustable, IsOpen
  <2> DEFINE more == [j \in Installments |-> IF j \in F THEN 1 ELSE 0]
  <2>2. more \in [Installments -> Int]
    OBVIOUS
  <2>3. ASSUME NEW j \in Installments PROVE g[j] = Owed[j] + more[j]
    <3>1. CASE j \in F
      <4>1. inst'[j].status = "open" /\ inst'[j].amount = inst[j].amount + 1
        BY <1>0, <2>1, <3>1
      <4> QED
        BY <1>1, <2>1, <3>1, <4>1 DEF Owes
    <3>2. CASE j \notin F
      <4>1. inst'[j] = inst[j]
        BY <2>1, <3>2
      <4>2. g[j] = Owed[j] /\ Owed[j] \in Int /\ more[j] = 0
        BY <1>1, <3>2, <4>1
      <4> QED
        BY <4>2
    <3> QED
      BY <3>1, <3>2
  <2>4. Sum(g) = Sum(Owed) + Sum(more)
    <3> HIDE DEF g, more
    <3> QED
      BY <1>02, <1>1, <2>2, <2>3, SumOfBoth
  <2>5. Sum(more) = Cardinality(F) /\ Cardinality(F) \in Nat
    <3>1. Cardinality(F) \in Nat
      BY FS_Subset, FS_CardinalityType
    <3>2. Sum(more) = 1 * Cardinality(F)
      BY SumOfSame
    <3> QED
      BY <3>1, <3>2
  <2>6. Sum(g) <= bound + raised'
    <3> DEFINE k == Cardinality(F)
    <3>1. Sum(more) = k /\ k \in Nat /\ raised' = raised + k
      BY <2>1, <2>5
    <3> HIDE DEF g, more, bound, k
    <3> QED
      BY <1>0, <1>02, <1>1, <1>2, <2>4, <3>1
  <2> QED
    BY <1>3, <2>6
<1> QED
  BY <1>4, <1>5, <1>6, DebtMoves

-----------------------------------------------------------------------------
(* Every reachable state of the receivables is well typed: whatever calls   *)
(* overlap, fail or are cut, amounts and counters stay what they are.       *)
THEOREM ReceivablesTypeCorrect == Spec => []TypeOK
  BY ReceivablesInvariant, PTL DEF ReceivablesInv

(* However often and by whomever a payment is told (paymentGatewayWebhook,  *)
(* the recovery job, a clerk), what is booked is what is credited, and an   *)
(* event that found its charge is booked or reviewed.                       *)
THEOREM ReceiptsBookedOnce == Spec => []ReceiptsAreBookedOnce
  BY ReceivablesInvariant, PTL DEF ReceivablesInv, MoneyInv

(* A cancelled or renegotiated installment has no charge left to collect,   *)
(* whoever was issuing, registering or recovering one.                      *)
THEOREM ClosedNotCollected == Spec => []ClosedIsNotCollected
  BY ReceivablesInvariant, PTL DEF ReceivablesInv, MoneyInv

(* No paid installment of a validated sale waits for the validation, and    *)
(* none of a cancelled contract has a commission to pay.                    *)
THEOREM CommissionsFollow == Spec => []CommissionsFollowTheSale
  BY ReceivablesInvariant, PTL DEF ReceivablesInv, MoneyInv

(* What the customer owes and has paid together never exceeds the first     *)
(* schedule and what adjustments added to it, whatever agreements replace   *)
(* installments, however payments, charges and adjustments cross            *)
(* (applyRenegotiation, markInstallmentPaid, finance.ts; applyAdjustment,   *)
(* monetaryAdjustments.ts; processAsaasWebhook, paymentGatewayWebhook.ts).  *)
THEOREM DebtConserved == Spec => []DebtIsConserved
<1>1. ReceivablesInv /\ AgreementsFit /\ DebtIsConserved /\ [Next]_vars
        => (AgreementsFit /\ DebtIsConserved)'
  BY AgreementsKept, DebtKept
<1>2. Init => AgreementsFit /\ DebtIsConserved
  BY DebtAtStart
<1> QED
  BY <1>1, <1>2, ReceivablesInvariant, PTL DEF Spec
=============================================================================
