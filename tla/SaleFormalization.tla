-------------------------- MODULE SaleFormalization --------------------------
(***************************************************************************)
(* The formalization of a timeshare sale: a contract and the commercial    *)
(* fractions (quotas) it takes from the stock, from creation to the final  *)
(* validation by the administration, and back to the stock when the        *)
(* reservation lapses or the contract is cancelled.                        *)
(*                                                                         *)
(* One action is one database transaction of the server.  Transactions     *)
(* lock the rows they decide on (SELECT ... FOR UPDATE on the contract,    *)
(* then sale_validations, then the fractions, then the holds), so each is  *)
(* atomic here; a handler that uses several transactions is several        *)
(* actions, with what it keeps in memory between them as a variable        *)
(* (`lostQueue').                                                          *)
(*                                                                         *)
(* The clock is abstracted to what the code compares: a hold is alive or   *)
(* lapsed (expiresAt <= now), and the first contract paper is early or     *)
(* late with respect to the two conferences of the administration.         *)
(***************************************************************************)
EXTENDS Integers, FiniteSets

CONSTANTS
  Contracts,        \* ids of contract rows that may come to exist
  Fractions,        \* rows of commercial_fractions
  Administrators,   \* users who hold the sale.validate capability
  Segregation,      \* policy: who confirmed the payment may not validate
  HoldFlags,        \* values INVENTORY_HOLD_AT_FORMALIZATION takes over restarts
  OrderGates,       \* values SALE_ORDER_GATE_ENABLED takes over restarts
  NegotiationHolds, \* INVENTORY_NEGOTIATION_HOLDS
  Exempt,           \* contracts older than SALE_ORDER_GATE_SINCE
  MaxQuotas,        \* most fractions one sale of the Sales Command takes
  NoContract,       \* a null contract id
  Nobody            \* a null user id

ASSUME FlagsAreBoolean ==
  /\ Segregation \in BOOLEAN
  /\ NegotiationHolds \in BOOLEAN
  /\ HoldFlags \subseteq BOOLEAN
  /\ OrderGates \subseteq BOOLEAN
ASSUME NullsAreNotRows ==
  /\ NoContract \notin Contracts
  /\ Nobody \notin Administrators
ASSUME ExemptAreContracts == Exempt \subseteq Contracts
ASSUME MaxQuotasIsNat == MaxQuotas \in Nat

VARIABLES
  status,       \* contracts.status, "none" while the row does not exist
  lost,         \* contracts.inventoryLostAt is set
  payment,      \* sale_validations.paymentConfirmedByUserId
  conferred,    \* sale_validations.documentsConferredAt is set
  validated,    \* sale_validations.validatedAt is set
  paper,        \* first contract document or envelope: "none", "early", "late"
  stored,       \* a signed artifact of the contract is in the storage
  envelopeOpen, \* a signature envelope in draft or running exists
  request,      \* the open cancellation request: "none", "requested", "approved"
  fstatus,      \* commercial_fractions.status
  owner,        \* commercial_fractions.currentContractId
  hold,         \* the active row of commercial_fraction_holds, or NoHold
  expired,      \* contracts with a formalization hold in status expired
  quotas,       \* fractions linked to the contract by commercial_fraction_history
  viaHold,      \* contracts whose fractions were reserved, not sold, at creation
  lostQueue,    \* contracts a running sweep has yet to mark as lost (memory)
  holdFlag,     \* this process's INVENTORY_HOLD_AT_FORMALIZATION
  orderGate     \* this process's SALE_ORDER_GATE_ENABLED

contractVars == <<status, lost, payment, conferred, validated>>
paperVars == <<paper, stored, envelopeOpen>>
stockVars == <<fstatus, owner, hold, expired>>
linkVars == <<quotas, viaHold>>
processVars == <<lostQueue, holdFlag, orderGate>>
vars == <<contractVars, paperVars, request, stockVars, linkVars, processVars>>

ContractStatus ==
  {"none", "draft", "pending_signature", "active", "overdue", "cancelled", "closed"}
FractionStatus == {"available", "held", "sold", "blocked"}

(* PRE_VALIDATION_STATUSES: the contract is still being formalized. *)
PreValidation == {"draft", "pending_signature"}

NoHold == [purpose |-> "none", contract |-> NoContract, lapsed |-> FALSE]
FormalizationHold(c) == [purpose |-> "formalization", contract |-> c, lapsed |-> FALSE]
NegotiationHold == [purpose |-> "negotiation", contract |-> NoContract, lapsed |-> FALSE]
Hold == [purpose : {"none", "negotiation"}, contract : {NoContract}, lapsed : BOOLEAN]
          \cup [purpose : {"formalization"}, contract : Contracts, lapsed : BOOLEAN]

Exists(c) == status[c] # "none"
OwnedBy(c, statuses) == {f \in Fractions : owner[f] = c /\ fstatus[f] \in statuses}

(* Fractions the stock still keeps reserved for the contract. *)
HeldBy(c) == OwnedBy(c, {"held"})

(* saleOrderGateState: paper only after both conferences, unless exempt. *)
GateApplies(c) == orderGate /\ c \notin Exempt
BothConferences(c) == payment[c] # Nobody /\ conferred[c]
GenerationAllowed(c) == GateApplies(c) => BothConferences(c)

(***************************************************************************)
(* Initially there is stock and no contract.                               *)
(***************************************************************************)
Init ==
  /\ status = [c \in Contracts |-> "none"]
  /\ lost = [c \in Contracts |-> FALSE]
  /\ payment = [c \in Contracts |-> Nobody]
  /\ conferred = [c \in Contracts |-> FALSE]
  /\ validated = [c \in Contracts |-> FALSE]
  /\ paper = [c \in Contracts |-> "none"]
  /\ stored = [c \in Contracts |-> FALSE]
  /\ envelopeOpen = [c \in Contracts |-> FALSE]
  /\ request = [c \in Contracts |-> "none"]
  /\ fstatus = [f \in Fractions |-> "available"]
  /\ owner = [f \in Fractions |-> NoContract]
  /\ hold = [f \in Fractions |-> NoHold]
  /\ expired = {}
  /\ quotas = [c \in Contracts |-> {}]
  /\ viaHold = {}
  /\ lostQueue = {}
  /\ holdFlag \in HoldFlags
  /\ orderGate \in OrderGates

-----------------------------------------------------------------------------
(* Creation of contracts *)

(* The fractions of a new contract: held for the formalization (a           *)
(* negotiation hold is converted) when the flag is on, sold at once when it *)
(* is off (a negotiation hold is consumed).                                 *)
LinkFractions(c, F) ==
  /\ fstatus' = [f \in Fractions |->
       IF f \in F THEN IF holdFlag THEN "held" ELSE "sold" ELSE fstatus[f]]
  /\ owner' = [f \in Fractions |-> IF f \in F THEN c ELSE owner[f]]
  /\ hold' = [f \in Fractions |->
       IF f \in F THEN IF holdFlag THEN FormalizationHold(c) ELSE NoHold ELSE hold[f]]
  /\ quotas' = [quotas EXCEPT ![c] = F]
  /\ viaHold' = IF holdFlag THEN viaHold \cup {c} ELSE viaHold
  /\ UNCHANGED expired

SellableUnlessBlocked(f) == fstatus[f] # "blocked"  \* mutant: sold ones pass

(* A fraction contracts.create accepts: free, or under the live negotiation *)
(* hold of the same proposal.                                               *)
Sellable(f) ==
  \/ fstatus[f] = "available"
  \/ /\ fstatus[f] = "held"
     /\ hold[f].purpose = "negotiation"
     /\ ~hold[f].lapsed

NewContract(c, s) ==
  /\ status[c] = "none"
  /\ status' = [status EXCEPT ![c] = s]
  /\ UNCHANGED <<lost, payment, conferred, validated, paperVars, request, processVars>>

(* contracts.create: one fraction, in draft or waiting for signature. *)
CreateContract(c, f, s) ==
  /\ s \in PreValidation
  /\ Sellable(f)
  /\ NewContract(c, s)
  /\ LinkFractions(c, {f})

(* materializeSalesCommandSale: all the quotas of the sale or nothing. *)
IngestSale(c, F) ==
  /\ F # {}
  /\ Cardinality(F) <= MaxQuotas
  /\ \A f \in F : fstatus[f] = "available"
  /\ NewContract(c, "pending_signature")
  /\ LinkFractions(c, F)

(* The CSV import: a contract with no fraction. *)
ImportContract(c, s) ==
  /\ s \in PreValidation \cup {"cancelled"}
  /\ NewContract(c, s)
  /\ UNCHANGED <<stockVars, linkVars>>

-----------------------------------------------------------------------------
(* Conferences and the settlement of the reservation *)

(* markContractInventoryLost: only while the contract is being formalized. *)
MarkedLost(c) ==
  IF status[c] \in PreValidation THEN [lost EXCEPT ![c] = TRUE] ELSE lost

(* settleFormalizationInventory, inside the transaction of a conference     *)
(* that leaves the two facts `paid' and `docs'.                             *)
EitherConference(paid, docs) == paid \/ docs  \* mutant
ConferencesDone(paid, docs) == paid /\ docs

SettlePending(paid, docs) ==
  /\ ~ConferencesDone(paid, docs)
  /\ UNCHANGED <<stockVars, lost>>

SettleNothing(c) ==
  /\ HeldBy(c) = {}
  /\ c \notin expired
  /\ UNCHANGED <<stockVars, lost>>

(* mutant: the reservation was swept and nobody is told *)
SettleSweptSilently(c) ==
  /\ HeldBy(c) = {} /\ c \in expired
  /\ UNCHANGED <<stockVars, lost>>

SettleAlreadySwept(c) ==
  /\ HeldBy(c) = {}
  /\ c \in expired
  /\ lost' = MarkedLost(c)
  /\ UNCHANGED stockVars

(* The active hold of a fraction still protects the contract. *)
Alive(f, c) ==
  /\ hold[f].purpose = "formalization"
  /\ hold[f].contract = c
  /\ ~hold[f].lapsed

(* mutant: the holds expire but the fractions stay with the contract *)
SettleLapsedKeepingStock(c) ==
  /\ \E f \in HeldBy(c) : ~Alive(f, c)
  /\ hold' = [f \in Fractions |-> IF f \in HeldBy(c) THEN NoHold ELSE hold[f]]
  /\ expired' = expired \cup {c}
  /\ lost' = MarkedLost(c)
  /\ UNCHANGED <<fstatus, owner>>

SettleLapsed(c) ==
  /\ \E f \in HeldBy(c) : ~Alive(f, c)
  /\ fstatus' = [f \in Fractions |-> IF f \in HeldBy(c) THEN "available" ELSE fstatus[f]]
  /\ owner' = [f \in Fractions |-> IF f \in HeldBy(c) THEN NoContract ELSE owner[f]]
  /\ hold' = [f \in Fractions |->
       IF f \in HeldBy(c) /\ hold[f].contract = c THEN NoHold ELSE hold[f]]
  /\ expired' = IF \E f \in HeldBy(c) : hold[f].contract = c THEN expired \cup {c} ELSE expired
  /\ lost' = MarkedLost(c)

SettleSold(c) ==
  /\ HeldBy(c) # {}
  /\ \A f \in HeldBy(c) : Alive(f, c)
  /\ fstatus' = [f \in Fractions |-> IF f \in HeldBy(c) THEN "sold" ELSE fstatus[f]]
  /\ hold' = [f \in Fractions |-> IF f \in HeldBy(c) THEN NoHold ELSE hold[f]]
  /\ UNCHANGED <<owner, expired, lost>>

Settle(c, paid, docs) ==
  \/ SettlePending(paid, docs)
  \/ /\ ConferencesDone(paid, docs)
     /\ \/ SettleNothing(c)
        \/ SettleAlreadySwept(c)
        \/ SettleLapsed(c)
        \/ SettleSold(c)

(* confirmPayment by administrator a. *)
ConfirmPayment(c, a) ==
  /\ status[c] \in PreValidation
  /\ ~lost[c]
  /\ payment[c] = Nobody
  /\ payment' = [payment EXCEPT ![c] = a]
  /\ Settle(c, TRUE, conferred[c])
  /\ UNCHANGED <<status, conferred, validated, paperVars, request, linkVars, processVars>>

ConfirmDocuments(c) ==
  /\ status[c] \in PreValidation
  /\ ~lost[c]
  /\ ~conferred[c]
  /\ conferred' = [conferred EXCEPT ![c] = TRUE]
  /\ Settle(c, payment[c] # Nobody, TRUE)
  /\ UNCHANGED <<status, payment, validated, paperVars, request, linkVars, processVars>>

-----------------------------------------------------------------------------
(* Contract papers and signature envelopes *)

(* What the first paper of the contract is, if this one is the first. *)
PaperOf(c) ==
  IF paper[c] # "none" THEN paper[c]
  ELSE IF BothConferences(c) THEN "late" ELSE "early"

(* uploadDocument of a contract document; `signed' by who has document.sign. *)
UploadDocument(c, signed) ==
  /\ Exists(c)
  /\ GenerationAllowed(c)
  /\ paper' = [paper EXCEPT ![c] = PaperOf(c)]
  /\ stored' = [stored EXCEPT ![c] = @ \/ signed]
  /\ UNCHANGED <<contractVars, envelopeOpen, request, stockVars, linkVars, processVars>>

(* startContractElectronicSignature up to the insert of the local row. *)
OpenEnvelope(c) ==
  /\ status[c] \notin {"none", "cancelled", "closed"}
  /\ GenerationAllowed(c)
  /\ ~envelopeOpen[c]
  /\ envelopeOpen' = [envelopeOpen EXCEPT ![c] = TRUE]
  /\ paper' = [paper EXCEPT ![c] = PaperOf(c)]
  /\ UNCHANGED <<contractVars, stored, request, stockVars, linkVars, processVars>>

(* Its last transaction, when the provider accepted the envelope. *)
ActivateEnvelope(c) ==
  /\ envelopeOpen[c]
  /\ status[c] = "draft"
  /\ status' = [status EXCEPT ![c] = "pending_signature"]
  /\ UNCHANGED <<lost, payment, conferred, validated, paperVars, request, stockVars,
                 linkVars, processVars>>

(* The envelope is closed, cancelled or failed to be set up. *)
FinishEnvelope(c) ==
  /\ envelopeOpen[c]
  /\ envelopeOpen' = [envelopeOpen EXCEPT ![c] = FALSE]
  /\ UNCHANGED <<contractVars, paper, stored, request, stockVars, linkVars, processVars>>

-----------------------------------------------------------------------------
(* Final validation and later life of the contract *)

(* evaluateSaleValidationGates and the order gate. *)
GatesReady(c) ==
  /\ payment[c] # Nobody
  /\ stored[c]
  /\ request[c] = "none"
  /\ ~envelopeOpen[c]
  /\ GateApplies(c) => conferred[c] /\ paper[c] = "late"

(* validateSale by administrator a: the only way to become active. *)
ValidateSale(c, a) ==
  /\ status[c] \in PreValidation
  /\ ~lost[c]
  /\ HeldBy(c) = {}
  /\ GatesReady(c)
  /\ Segregation => payment[c] # a
  /\ validated' = [validated EXCEPT ![c] = TRUE]
  /\ status' = [status EXCEPT ![c] = "active"]
  /\ UNCHANGED <<lost, payment, conferred, paperVars, request, stockVars, linkVars,
                 processVars>>

(* allowedTransitions of shared/contractLifecycle.ts. *)
AllowedTransitions ==
  [none              |-> {"draft", "pending_signature", "cancelled"},
   draft             |-> {"pending_signature", "active", "cancelled"},
   pending_signature |-> {"active", "cancelled"},
   active            |-> {"overdue", "cancelled", "closed"},
   overdue           |-> {"active", "cancelled", "closed"},
   cancelled         |-> {},
   closed            |-> {}]

AnyActivation(c) == Exists(c)  \* mutant: the transition table alone decides
ActivationAllowed(c) == status[c] = "overdue" /\ validated[c]

(* contracts.updateStatus: never to cancelled, to active only from overdue  *)
(* and only for a validated sale.                                           *)
UpdateStatus(c, s) ==
  /\ Exists(c)
  /\ s \in AllowedTransitions[status[c]] \ {"cancelled"}
  /\ s = "active" => ActivationAllowed(c)
  /\ status' = [status EXCEPT ![c] = s]
  /\ UNCHANGED <<lost, payment, conferred, validated, paperVars, request, stockVars,
                 linkVars, processVars>>

(* createCancellationRequestTx: one open request, any status but cancelled. *)
RequestCancellation(c) ==
  /\ status[c] \notin {"none", "cancelled"}
  /\ request[c] = "none"
  /\ request' = [request EXCEPT ![c] = "requested"]
  /\ UNCHANGED <<contractVars, paperVars, stockVars, linkVars, processVars>>

(* decideCancellation; a rejected request is no longer open. *)
DecideCancellation(c, decision) ==
  /\ request[c] = "requested"
  /\ request' = [request EXCEPT ![c] = decision]
  /\ UNCHANGED <<contractVars, paperVars, stockVars, linkVars, processVars>>

ReturnedSold(c) == OwnedBy(c, {"sold"})  \* mutant: reservations are forgotten
ReturnedHeld(c) == OwnedBy(c, {"held"})  \* mutant: sales are forgotten
Returned(c) == OwnedBy(c, {"sold", "held"})

(* executeCancellation: the contract ends, its fractions return to stock and *)
(* the holds that still reserve them are released.                          *)
ExecuteCancellation(c) ==
  /\ request[c] = "approved"
  /\ status[c] # "cancelled"
  /\ status' = [status EXCEPT ![c] = "cancelled"]
  /\ request' = [request EXCEPT ![c] = "none"]
  /\ fstatus' = [f \in Fractions |-> IF f \in Returned(c) THEN "available" ELSE fstatus[f]]
  /\ owner' = [f \in Fractions |-> IF f \in Returned(c) THEN NoContract ELSE owner[f]]
  /\ hold' = [f \in Fractions |-> IF f \in HeldBy(c) THEN NoHold ELSE hold[f]]
  /\ UNCHANGED <<lost, payment, conferred, validated, paperVars, expired, linkVars,
                 processVars>>

-----------------------------------------------------------------------------
(* The stock and its holds *)

(* mutant: any lapsed hold gives its fraction away *)
HoldableWhenLapsed(f) ==
  \/ fstatus[f] = "available"
  \/ fstatus[f] = "held" /\ hold[f].lapsed

(* inventory.createHold: a formalization hold is never reused; a lapsed     *)
(* negotiation hold is expired on the spot.                                 *)
Holdable(f) ==
  \/ fstatus[f] = "available"
  \/ /\ fstatus[f] = "held"
     /\ hold[f].purpose # "formalization"
     /\ hold[f].purpose = "negotiation" => hold[f].lapsed

CreateHold(f) ==
  /\ NegotiationHolds
  /\ Holdable(f)
  /\ fstatus' = [fstatus EXCEPT ![f] = "held"]
  /\ hold' = [hold EXCEPT ![f] = NegotiationHold]
  /\ UNCHANGED <<contractVars, paperVars, request, owner, expired, linkVars, processVars>>

(* inventory.releaseHold: only a negotiation hold is released by hand. *)
ReleaseHold(f) ==
  /\ hold[f].purpose = "negotiation"
  /\ hold' = [hold EXCEPT ![f] = NoHold]
  /\ fstatus' = [fstatus EXCEPT ![f] = IF @ = "held" THEN "available" ELSE @]
  /\ UNCHANGED <<contractVars, paperVars, request, owner, expired, linkVars, processVars>>

Block(f) ==
  /\ fstatus[f] = "available"
  /\ fstatus' = [fstatus EXCEPT ![f] = "blocked"]
  /\ UNCHANGED <<contractVars, paperVars, request, owner, hold, expired, linkVars,
                 processVars>>

Unblock(f) ==
  /\ fstatus[f] = "blocked"
  /\ fstatus' = [fstatus EXCEPT ![f] = "available"]
  /\ UNCHANGED <<contractVars, paperVars, request, owner, hold, expired, linkVars,
                 processVars>>

(* The clock passes expiresAt of the active hold of f. *)
HoldLapses(f) ==
  /\ hold[f] # NoHold
  /\ ~hold[f].lapsed
  /\ hold' = [hold EXCEPT ![f].lapsed = TRUE]
  /\ UNCHANGED <<contractVars, paperVars, request, fstatus, owner, expired, linkVars,
                 processVars>>

(* mutant: the sweep looks only at negotiation holds *)
LapsedNegotiations == {f \in Fractions : hold[f].lapsed /\ hold[f].purpose = "negotiation"}
Lapsed == {f \in Fractions : hold[f].lapsed}

ReservedUnfiltered(F) == F  \* mutant: negotiation holds count too
ReservedAmong(F) == {f \in F : hold[f].purpose = "formalization"}

(* First transaction of sweepExpiredHolds, over the holds F that had lapsed *)
(* when it read the clock: holds expire and fractions still held return to  *)
(* the stock.  The contracts to mark stay in memory.                        *)
SweepRelease(F) ==
  LET released == {f \in F : fstatus[f] = "held"} IN
  /\ F # {}
  /\ hold' = [f \in Fractions |-> IF f \in F THEN NoHold ELSE hold[f]]
  /\ fstatus' = [f \in Fractions |-> IF f \in released THEN "available" ELSE fstatus[f]]
  /\ owner' = [f \in Fractions |-> IF f \in released THEN NoContract ELSE owner[f]]
  /\ expired' = expired \cup {hold[f].contract : f \in ReservedAmong(F)}
  /\ lostQueue' = lostQueue \cup {hold[f].contract : f \in ReservedAmong(F) \cap released}
  /\ UNCHANGED <<contractVars, paperVars, request, linkVars, holdFlag, orderGate>>

(* One of the transactions that follow it, one per contract. *)
MarkContractInventoryLost(c) ==
  /\ c \in lostQueue
  /\ lostQueue' = lostQueue \ {c}
  /\ lost' = MarkedLost(c)
  /\ UNCHANGED <<status, payment, conferred, validated, paperVars, request, stockVars,
                 linkVars, holdFlag, orderGate>>

(* The process stops at any point and starts again, perhaps with other flags. *)
Restart ==
  /\ lostQueue' = {}
  /\ holdFlag' \in HoldFlags
  /\ orderGate' \in OrderGates
  /\ UNCHANGED <<contractVars, paperVars, request, stockVars, linkVars>>

-----------------------------------------------------------------------------
Next ==
  \/ \E c \in Contracts, f \in Fractions, s \in PreValidation : CreateContract(c, f, s)
  \/ \E c \in Contracts, F \in SUBSET Fractions : IngestSale(c, F)
  \/ \E c \in Contracts, s \in PreValidation \cup {"cancelled"} : ImportContract(c, s)
  \/ \E c \in Contracts, a \in Administrators : ConfirmPayment(c, a)
  \/ \E c \in Contracts : ConfirmDocuments(c)
  \/ \E c \in Contracts, signed \in BOOLEAN : UploadDocument(c, signed)
  \/ \E c \in Contracts : OpenEnvelope(c)
  \/ \E c \in Contracts : ActivateEnvelope(c)
  \/ \E c \in Contracts : FinishEnvelope(c)
  \/ \E c \in Contracts, a \in Administrators : ValidateSale(c, a)
  \/ \E c \in Contracts, s \in ContractStatus : UpdateStatus(c, s)
  \/ \E c \in Contracts : RequestCancellation(c)
  \/ \E c \in Contracts, decision \in {"approved", "none"} : DecideCancellation(c, decision)
  \/ \E c \in Contracts : ExecuteCancellation(c)
  \/ \E f \in Fractions : CreateHold(f)
  \/ \E f \in Fractions : ReleaseHold(f)
  \/ \E f \in Fractions : Block(f)
  \/ \E f \in Fractions : Unblock(f)
  \/ \E f \in Fractions : HoldLapses(f)
  \/ \E F \in SUBSET Lapsed : SweepRelease(F)
  \/ \E c \in Contracts : MarkContractInventoryLost(c)
  \/ Restart

Spec == Init /\ [][Next]_vars

(* The hold expiry job runs at startup and every five minutes, and its      *)
(* loop goes through the contracts of the sweep without waiting for anyone. *)
Fairness ==
  /\ \A f \in Fractions : WF_vars(\E F \in SUBSET Lapsed : f \in F /\ SweepRelease(F))
  /\ \A c \in Contracts : WF_vars(MarkContractInventoryLost(c))

FairSpec == Spec /\ Fairness

-----------------------------------------------------------------------------
(* Properties *)

TypeOK ==
  /\ status \in [Contracts -> ContractStatus]
  /\ lost \in [Contracts -> BOOLEAN]
  /\ payment \in [Contracts -> Administrators \cup {Nobody}]
  /\ conferred \in [Contracts -> BOOLEAN]
  /\ validated \in [Contracts -> BOOLEAN]
  /\ paper \in [Contracts -> {"none", "early", "late"}]
  /\ stored \in [Contracts -> BOOLEAN]
  /\ envelopeOpen \in [Contracts -> BOOLEAN]
  /\ request \in [Contracts -> {"none", "requested", "approved"}]
  /\ fstatus \in [Fractions -> FractionStatus]
  /\ owner \in [Fractions -> Contracts \cup {NoContract}]
  /\ hold \in [Fractions -> Hold]
  /\ expired \subseteq Contracts
  /\ quotas \in [Contracts -> SUBSET Fractions]
  /\ viaHold \subseteq Contracts
  /\ lostQueue \subseteq Contracts
  /\ holdFlag \in HoldFlags
  /\ orderGate \in OrderGates

(* A reservation is always backed: a fraction is held exactly while it has  *)
(* an active hold, a formalization hold belongs to the contract the         *)
(* fraction points to, and that contract is still being formalized; so no   *)
(* cancelled, lost-and-forgotten or validated contract keeps stock away     *)
(* from sale.  Five handlers and the sweep each maintain one side of it.    *)
ReservationIsBacked ==
  \A f \in Fractions :
    /\ fstatus[f] = "held" <=> hold[f] # NoHold
    /\ hold[f].purpose = "formalization" =>
         /\ owner[f] = hold[f].contract
         /\ status[owner[f]] \in PreValidation

(* Only a live contract owns a sold fraction: whatever the order of         *)
(* conferences, cancellations and sweeps, a fraction marked sold belongs to *)
(* an existing contract that was not cancelled, and stock for sale belongs  *)
(* to nobody.                                                               *)
SoldHasLiveOwner ==
  \A f \in Fractions :
    /\ fstatus[f] = "sold" =>
         owner[f] \in Contracts /\ status[owner[f]] \notin {"none", "cancelled"}
    /\ fstatus[f] \in {"available", "blocked"} => owner[f] = NoContract

(* Every fraction that is not free has the hold or the owner its status      *)
(* tells of, through every order of the transactions that move it.           *)
StockIsBacked == ReservationIsBacked /\ SoldHasLiveOwner

(* CRM-E1: a fraction reserved at the formalization is sold only after the  *)
(* administration confirmed the payment and conferred the documents, also   *)
(* across restarts that turn the flag off.                                  *)
ReservedSoldAfterConferences ==
  \A f \in Fractions :
    fstatus[f] = "sold" /\ owner[f] \in viaHold => BothConferences(owner[f])

(* ADR-007: active, overdue and closed exist only behind a validated sale,  *)
(* with its payment confirmed and its signed contract stored; a contract    *)
(* whose reservation was lost never gets there.                             *)
ActiveIsValidated ==
  \A c \in Contracts :
    /\ status[c] \in {"active", "overdue", "closed"} => validated[c]
    /\ validated[c] => payment[c] # Nobody /\ stored[c] /\ ~lost[c]

(* A validated sale that was not cancelled owns every fraction it took at   *)
(* its creation: the customer never pays for a quota the stock offers to    *)
(* somebody else.                                                           *)
ValidatedOwnsItsQuotas ==
  \A c \in Contracts :
    validated[c] /\ status[c] # "cancelled" =>
      \A f \in quotas[c] : fstatus[f] = "sold" /\ owner[f] = c

(* A contract whose reservation was lost keeps no stock: nothing reserved    *)
(* for it and nothing sold to it, so that the fraction can be sold again and *)
(* the sale redone (single-quota sales: the holds of a larger sale may lapse *)
(* one at a time).                                                          *)
LostOwnsNothing ==
  \A c \in Contracts : lost[c] => OwnedBy(c, {"held", "sold"}) = {}

(* Under the order gate both hold in every interleaving of conferences,      *)
(* validations, sweeps, cancellations and stops.                             *)
QuotasFollowTheSale == ValidatedOwnsItsQuotas /\ LostOwnsNothing

ReturnsByCancellation(f) ==
  fstatus[f] = "sold" /\ (fstatus'[f] # "sold" \/ owner'[f] # owner[f]) =>
    /\ status[owner[f]] # "cancelled" /\ status'[owner[f]] = "cancelled"
    /\ fstatus'[f] = "available" /\ owner'[f] = NoContract

(* A sold fraction comes back to the stock only in the step that cancels    *)
(* the contract that owned it, and passes to no other contract on the way.  *)
SoldReturnsOnlyByCancellation == [][\A f \in Fractions : ReturnsByCancellation(f)]_vars

(* Stock never stays reserved for ever: a hold whose deadline passed is     *)
(* eventually gone (sweep, conference, cancellation or a new hold).         *)
LapsedHoldsAreReleased ==
  \A f \in Fractions : hold[f].lapsed ~> ~hold[f].lapsed

-----------------------------------------------------------------------------
(* The formalization implements the stock that FractionStock promises. *)

PlaceOf(f) ==
  CASE fstatus[f] = "available" -> <<"free">>
    [] fstatus[f] = "blocked" -> <<"blocked">>
    [] fstatus[f] = "sold" -> <<"sold", owner[f]>>
    [] fstatus[f] = "held" ->
         IF hold[f].purpose = "formalization" THEN <<"reserved", hold[f].contract>>
         ELSE <<"negotiated">>

Stock == INSTANCE FractionStock WITH
  stock <- [f \in Fractions |-> PlaceOf(f)],
  born <- {c \in Contracts : Exists(c)},
  ended <- {c \in Contracts : status[c] = "cancelled"}

(* Every behaviour of holds, conferences, sweeps, cancellations and crashes *)
(* looks to the sellers like the simple stock: a sale takes all its quotas   *)
(* or none, what is reserved for it at the conferences is sold together,    *)
(* and a sold quota returns only with the end of its contract.              *)
ImplementsStock == Stock!Spec

=============================================================================
