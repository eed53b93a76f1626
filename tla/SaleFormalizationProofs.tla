---------------------- MODULE SaleFormalizationProofs -----------------------
(***************************************************************************)
(* Theorems about SaleFormalization, for any number of contracts,          *)
(* fractions and administrators and every value of the policies.           *)
(*                                                                         *)
(* The safety invariants are not inductive one by one: that a validation   *)
(* leaves no reservation behind needs that a held fraction has a hold and  *)
(* that its hold names its owner; that a conference cannot mark a          *)
(* validated sale as lost needs that a validated contract is past its      *)
(* formalization. SaleInv puts together what they need of each other.      *)
(*                                                                         *)
(* The stock: the formalization implements FractionStock, as what a sale   *)
(* takes, keeps, sells and gives back through holds, conferences, sweeps,  *)
(* cancellations and restarts is one step of that stock, or none.          *)
(*                                                                         *)
(* The quotas: a sale of the Sales Command keeps its quota, or is lost and *)
(* owns nothing: with the order gate on, no exempt contract, and one quota *)
(* to a sale.  Without the gate, or with two quotas whose holds lapse one  *)
(* at a time, it does not hold.                                            *)
(***************************************************************************)
EXTENDS SaleFormalization, FiniteSetTheorems, TLAPS

(* The contract rows, as the stock sees them. *)
ContractShape ==
  \A c \in Contracts :
    /\ status[c] \in {"active", "overdue", "closed"} => validated[c]
    /\ validated[c] => status[c] \notin PreValidation \cup {"none"}
    /\ validated[c] => payment[c] # Nobody /\ stored[c] /\ ~lost[c]

(* A fraction and its active hold. *)
HoldShape ==
  \A f \in Fractions :
    /\ fstatus[f] = "held" <=> hold[f] # NoHold
    /\ hold[f].purpose = "none" => hold[f] = NoHold
    /\ hold[f].purpose = "negotiation" => owner[f] = NoContract
    /\ hold[f].purpose = "formalization" =>
         /\ hold[f].contract \in Contracts
         /\ owner[f] = hold[f].contract
         /\ status[owner[f]] \in PreValidation

SaleInv == TypeOK /\ ContractShape /\ HoldShape /\ SoldHasLiveOwner

-----------------------------------------------------------------------------
LEMMA SaleTypesKept ==
  /\ Init => TypeOK
  /\ TypeOK /\ [Next]_vars => TypeOK'
<1> USE FlagsAreBoolean, NullsAreNotRows
<1>1. Init => TypeOK
  BY DEF Init, TypeOK, ContractStatus, FractionStatus, Hold, NoHold
<1>2. TypeOK /\ [Next]_vars => TypeOK'
  <2> SUFFICES ASSUME TypeOK, [Next]_vars
               PROVE  TypeOK'
    OBVIOUS
  <2> USE DEF TypeOK, contractVars, paperVars, stockVars, linkVars, processVars
  <2>1. ASSUME NEW c \in Contracts, NEW F \in SUBSET Fractions, LinkFractions(c, F)
        PROVE  /\ fstatus' \in [Fractions -> FractionStatus]
               /\ owner' \in [Fractions -> Contracts \cup {NoContract}]
               /\ hold' \in [Fractions -> Hold]
               /\ expired' \subseteq Contracts
               /\ quotas' \in [Contracts -> SUBSET Fractions]
               /\ viaHold' \subseteq Contracts
    BY <2>1 DEF LinkFractions, FractionStatus, Hold, NoHold, FormalizationHold
  <2>2. ASSUME NEW c \in Contracts, NEW f \in Fractions, NEW s \in PreValidation,
               CreateContract(c, f, s)
        PROVE  TypeOK'
    BY <2>1, <2>2 DEF CreateContract, NewContract, PreValidation, ContractStatus
  <2>3. ASSUME NEW c \in Contracts, NEW F \in SUBSET Fractions, IngestSale(c, F)
        PROVE  TypeOK'
    BY <2>1, <2>3 DEF IngestSale, NewContract, ContractStatus
  <2>4. ASSUME NEW c \in Contracts, NEW s \in PreValidation \cup {"cancelled"},
               ImportContract(c, s)
        PROVE  TypeOK'
    BY <2>4 DEF ImportContract, NewContract, PreValidation, ContractStatus
  <2>5. ASSUME NEW c \in Contracts, NEW paid, NEW docs, Settle(c, paid, docs)
        PROVE  /\ fstatus' \in [Fractions -> FractionStatus]
               /\ owner' \in [Fractions -> Contracts \cup {NoContract}]
               /\ hold' \in [Fractions -> Hold]
               /\ expired' \subseteq Contracts
               /\ lost' \in [Contracts -> BOOLEAN]
    <3>1. MarkedLost(c) \in [Contracts -> BOOLEAN]
      BY DEF MarkedLost
    <3>2. CASE SettlePending(paid, docs)
      BY <3>2 DEF SettlePending
    <3>3. CASE SettleNothing(c)
      BY <3>3 DEF SettleNothing
    <3>4. CASE SettleAlreadySwept(c)
      BY <3>1, <3>4 DEF SettleAlreadySwept
    <3>5. CASE SettleLapsed(c)
      BY <3>1, <3>5 DEF SettleLapsed, FractionStatus, Hold, NoHold
    <3>6. CASE SettleSold(c)
      BY <3>6 DEF SettleSold, FractionStatus, Hold, NoHold
    <3> QED
      BY <2>5, <3>2, <3>3, <3>4, <3>5, <3>6 DEF Settle
  <2>6. ASSUME NEW c \in Contracts, NEW a \in Administrators, ConfirmPayment(c, a)
        PROVE  TypeOK'
    BY <2>5, <2>6 DEF ConfirmPayment
  <2>7. ASSUME NEW c \in Contracts, ConfirmDocuments(c)
        PROVE  TypeOK'
    BY <2>5, <2>7 DEF ConfirmDocuments
  <2>8. ASSUME NEW c \in Contracts
        PROVE  /\ (\E signed \in BOOLEAN : UploadDocument(c, signed)) => TypeOK'
               /\ OpenEnvelope(c) => TypeOK'
    BY DEF UploadDocument, OpenEnvelope, PaperOf
  <2>9. ASSUME NEW c \in Contracts, ActivateEnvelope(c) \/ FinishEnvelope(c)
        PROVE  TypeOK'
    BY <2>9 DEF ActivateEnvelope, FinishEnvelope, ContractStatus
  <2>10. ASSUME NEW c \in Contracts, NEW a \in Administrators, ValidateSale(c, a)
         PROVE  TypeOK'
    BY <2>10 DEF ValidateSale, ContractStatus
  <2>11. ASSUME NEW c \in Contracts, NEW s \in ContractStatus, UpdateStatus(c, s)
         PROVE  TypeOK'
    BY <2>11 DEF UpdateStatus
  <2>12. ASSUME NEW c \in Contracts
         PROVE  /\ RequestCancellation(c) => TypeOK'
                /\ \A decision \in {"approved", "none"} :
                     DecideCancellation(c, decision) => TypeOK'
    BY DEF RequestCancellation, DecideCancellation
  <2>13. ASSUME NEW c \in Contracts, ExecuteCancellation(c)
         PROVE  TypeOK'
    BY <2>13 DEF ExecuteCancellation, ContractStatus, FractionStatus, Hold, NoHold
  <2>14. ASSUME NEW f \in Fractions, CreateHold(f)
         PROVE  TypeOK'
    BY <2>14 DEF CreateHold, FractionStatus, Hold, NegotiationHold
  <2>15. ASSUME NEW f \in Fractions, ReleaseHold(f)
         PROVE  TypeOK'
    BY <2>15 DEF ReleaseHold, FractionStatus, Hold, NoHold
  <2>16. ASSUME NEW f \in Fractions, Block(f) \/ Unblock(f)
         PROVE  TypeOK'
    BY <2>16 DEF Block, Unblock, FractionStatus
  <2>17. ASSUME NEW f \in Fractions, HoldLapses(f)
         PROVE  TypeOK'
    <3>1. [hold[f] EXCEPT !.lapsed = TRUE] \in Hold
      <4>1. hold[f] \in Hold
        OBVIOUS
      <4>2. CASE hold[f] \in [purpose : {"none", "negotiation"}, contract : {NoContract},
                              lapsed : BOOLEAN]
        BY <4>2 DEF Hold
      <4>3. CASE hold[f] \in [purpose : {"formalization"}, contract : Contracts,
                              lapsed : BOOLEAN]
        BY <4>3 DEF Hold
      <4> QED
        BY <4>1, <4>2, <4>3 DEF Hold
    <3>2. hold' = [hold EXCEPT ![f] = [hold[f] EXCEPT !.lapsed = TRUE]]
      BY <2>17 DEF HoldLapses
    <3> QED
      BY <2>17, <3>1, <3>2 DEF HoldLapses
  <2>18. ASSUME NEW F \in SUBSET Lapsed, SweepRelease(F)
         PROVE  TypeOK'
    BY <2>18 DEF SweepRelease, Lapsed, ReservedAmong, FractionStatus, Hold, NoHold
  <2>19. ASSUME NEW c \in Contracts, MarkContractInventoryLost(c)
         PROVE  TypeOK'
    BY <2>19 DEF MarkContractInventoryLost, MarkedLost
  <2>20. CASE Restart
    BY <2>20 DEF Restart
  <2>21. CASE UNCHANGED vars
    BY <2>21 DEF vars
  <2> QED
    BY <2>2, <2>3, <2>4, <2>6, <2>7, <2>8, <2>9, <2>10, <2>11, <2>12, <2>13, <2>14,
       <2>15, <2>16, <2>17, <2>18, <2>19, <2>20, <2>21 DEF Next
<1> QED
  BY <1>1, <1>2

(* The variables keep their types: the two flags of the process, the rows   *)
(* of the database and the queue of the sweep.                              *)
THEOREM TypeCorrect == Spec => []TypeOK
  BY SaleTypesKept, PTL DEF Spec

-----------------------------------------------------------------------------
(* SaleInv is inductive.  The lemmas below treat one group of actions each; *)
(* TypeOK' comes from TypeCorrect.                                          *)

(* Steps that touch neither the stock nor the facts of the contract row.    *)
LEMMA PaperStep ==
  ASSUME SaleInv, TypeOK',
         UNCHANGED <<status, lost, payment, validated, fstatus, owner, hold>>,
         \A c \in Contracts : stored[c] => stored'[c]
  PROVE  SaleInv'
  BY DEF SaleInv, ContractShape, HoldShape, SoldHasLiveOwner, PreValidation

(* The birth of a contract takes only fractions that belong to nobody.      *)
LEMMA BirthStep ==
  ASSUME SaleInv, TypeOK',
         NEW c \in Contracts, NEW F \in SUBSET Fractions, NEW s \in PreValidation,
         \A f \in F : fstatus[f] = "available" \/ hold[f].purpose = "negotiation",
         NewContract(c, s), LinkFractions(c, F)
  PROVE  SaleInv'
<1> USE DEF SaleInv, TypeOK
<1>1. ContractShape'
  BY DEF ContractShape, NewContract, PreValidation, ContractStatus, paperVars
<1>2. HoldShape'
  <2> SUFFICES ASSUME NEW f \in Fractions
               PROVE  /\ fstatus'[f] = "held" <=> hold'[f] # NoHold
                      /\ hold'[f].purpose = "none" => hold'[f] = NoHold
                      /\ hold'[f].purpose = "negotiation" => owner'[f] = NoContract
                      /\ hold'[f].purpose = "formalization" =>
                           /\ hold'[f].contract \in Contracts
                           /\ owner'[f] = hold'[f].contract
                           /\ status'[owner'[f]] \in PreValidation
    BY DEF HoldShape
  <2>1. CASE f \in F
    BY <2>1 DEF LinkFractions, NewContract, FormalizationHold, NoHold
  <2>2. CASE f \notin F
    BY <2>2 DEF HoldShape, LinkFractions, NewContract, PreValidation
  <2> QED
    BY <2>1, <2>2
<1>3. SoldHasLiveOwner'
  BY NullsAreNotRows DEF SoldHasLiveOwner, LinkFractions, NewContract, PreValidation
<1> QED
  BY <1>1, <1>2, <1>3

(* A conference, whatever it finds of the reservation: nothing, a swept     *)
(* reservation, a lapsed one or one that becomes a sale.                    *)
LEMMA SettleStep ==
  ASSUME SaleInv, TypeOK',
         NEW c \in Contracts, NEW paid, NEW docs,
         status[c] \in PreValidation, Settle(c, paid, docs),
         UNCHANGED <<status, validated, stored>>,
         \A d \in Contracts \ {c} : payment'[d] = payment[d]
  PROVE  SaleInv'
<1> USE DEF SaleInv, TypeOK
<1>1. ~validated[c]
  BY DEF ContractShape
<1>2. \A d \in Contracts \ {c} : lost'[d] = lost[d]
  BY DEF Settle, SettlePending, SettleNothing, SettleAlreadySwept, SettleLapsed, SettleSold,
         MarkedLost, stockVars
<1>3. ContractShape'
  BY <1>1, <1>2 DEF ContractShape
<1>4. \A f \in HeldBy(c) : /\ f \in Fractions
                           /\ fstatus[f] = "held"
                           /\ owner[f] = c
                           /\ hold[f].contract = c
  <2> SUFFICES ASSUME NEW f \in HeldBy(c)
               PROVE  f \in Fractions /\ fstatus[f] = "held" /\ owner[f] = c
                        /\ hold[f].contract = c
    OBVIOUS
  <2>1. f \in Fractions /\ fstatus[f] = "held" /\ owner[f] = c
    BY DEF HeldBy, OwnedBy
  <2>2. hold[f].purpose \in {"none", "negotiation", "formalization"}
    BY <2>1 DEF Hold
  <2> QED
    BY <2>1, <2>2, NullsAreNotRows DEF HoldShape
<1>5. CASE UNCHANGED <<fstatus, owner, hold>>
  BY <1>3, <1>5 DEF HoldShape, SoldHasLiveOwner
<1>6. CASE SettleLapsed(c)
  <2>1. HoldShape'
    BY <1>4, <1>6 DEF SettleLapsed, HoldShape, NoHold
  <2>2. SoldHasLiveOwner'
    BY <1>4, <1>6 DEF SettleLapsed, SoldHasLiveOwner
  <2> QED
    BY <1>3, <2>1, <2>2
<1>7. CASE SettleSold(c)
  <2>1. HoldShape'
    BY <1>4, <1>7 DEF SettleSold, HoldShape, NoHold
  <2>2. SoldHasLiveOwner'
    BY <1>4, <1>7 DEF SettleSold, SoldHasLiveOwner, PreValidation
  <2> QED
    BY <1>3, <2>1, <2>2
<1> QED
  BY <1>5, <1>6, <1>7 DEF Settle, SettlePending, SettleNothing, SettleAlreadySwept, stockVars

(* The final validation: no held fraction means no formalization hold.      *)
LEMMA ValidationStep ==
  ASSUME SaleInv, TypeOK', NEW c \in Contracts, NEW a \in Administrators, ValidateSale(c, a)
  PROVE  SaleInv'
<1> USE DEF SaleInv, TypeOK
<1>1. /\ status[c] \in PreValidation
      /\ status' = [status EXCEPT ![c] = "active"]
      /\ validated' = [validated EXCEPT ![c] = TRUE]
      /\ payment[c] # Nobody /\ stored[c] /\ ~lost[c]
      /\ UNCHANGED <<lost, payment, stored, fstatus, owner, hold>>
  BY DEF ValidateSale, GatesReady, paperVars, stockVars
<1>2. ContractShape'
  BY <1>1 DEF ContractShape, PreValidation
<1>3. \A f \in Fractions : hold[f].purpose = "formalization" => owner[f] # c
  <2> SUFFICES ASSUME NEW f \in Fractions, hold[f].purpose = "formalization", owner[f] = c
               PROVE  FALSE
    OBVIOUS
  <2>1. fstatus[f] = "held"
    BY DEF HoldShape, NoHold
  <2> QED
    BY <2>1 DEF ValidateSale, HeldBy, OwnedBy
<1>4. HoldShape'
  BY <1>1, <1>3 DEF HoldShape
<1>5. SoldHasLiveOwner'
  BY <1>1 DEF SoldHasLiveOwner
<1> QED
  BY <1>2, <1>4, <1>5

(* A later step of the status by hand.                                      *)
LEMMA StatusStep ==
  ASSUME SaleInv, TypeOK', NEW c \in Contracts, NEW s \in ContractStatus, UpdateStatus(c, s)
  PROVE  SaleInv'
<1> USE DEF SaleInv, TypeOK
<1>1. /\ status' = [status EXCEPT ![c] = s]
      /\ UNCHANGED <<lost, payment, validated, stored, fstatus, owner, hold>>
  BY DEF UpdateStatus, paperVars, stockVars
<1>2. \/ status[c] \in PreValidation /\ s \in PreValidation
      \/ status[c] \in {"active", "overdue"} /\ s \in {"active", "overdue", "closed"}
  BY DEF UpdateStatus, Exists, ActivationAllowed, AllowedTransitions, ContractStatus,
         PreValidation
<1>3. ContractShape'
  BY <1>1, <1>2 DEF ContractShape, PreValidation
<1>4. HoldShape'
  BY <1>1, <1>2 DEF HoldShape, PreValidation
<1>5. SoldHasLiveOwner'
  BY <1>1, <1>2 DEF SoldHasLiveOwner, PreValidation
<1> QED
  BY <1>3, <1>4, <1>5

(* A cancellation takes every fraction and every reservation with it.       *)
LEMMA CancellationStep ==
  ASSUME SaleInv, TypeOK', NEW c \in Contracts, ExecuteCancellation(c)
  PROVE  SaleInv'
<1> USE DEF SaleInv, TypeOK
<1>1. /\ status' = [status EXCEPT ![c] = "cancelled"]
      /\ fstatus' = [f \in Fractions |->
                       IF f \in Returned(c) THEN "available" ELSE fstatus[f]]
      /\ owner' = [f \in Fractions |-> IF f \in Returned(c) THEN NoContract ELSE owner[f]]
      /\ hold' = [f \in Fractions |-> IF f \in HeldBy(c) THEN NoHold ELSE hold[f]]
      /\ UNCHANGED <<lost, payment, validated, stored>>
  BY DEF ExecuteCancellation, paperVars
<1>2. \A f \in Fractions :
        /\ f \in Returned(c) <=> owner[f] = c /\ fstatus[f] \in {"sold", "held"}
        /\ f \in HeldBy(c) <=> owner[f] = c /\ fstatus[f] = "held"
  BY DEF Returned, HeldBy, OwnedBy
<1>3. ContractShape'
  BY <1>1 DEF ContractShape, PreValidation
<1>4. \A f \in Fractions : hold[f].purpose = "formalization" /\ owner[f] = c =>
                            f \in HeldBy(c)
  BY <1>2 DEF HoldShape, NoHold
<1>5. HoldShape'
  <2> SUFFICES ASSUME NEW f \in Fractions
               PROVE  /\ fstatus'[f] = "held" <=> hold'[f] # NoHold
                      /\ hold'[f].purpose = "none" => hold'[f] = NoHold
                      /\ hold'[f].purpose = "negotiation" => owner'[f] = NoContract
                      /\ hold'[f].purpose = "formalization" =>
                           /\ hold'[f].contract \in Contracts
                           /\ owner'[f] = hold'[f].contract
                           /\ status'[owner'[f]] \in PreValidation
    BY DEF HoldShape
  <2>1. CASE f \in HeldBy(c)
    BY <1>1, <1>2, <2>1 DEF NoHold
  <2>2. CASE f \notin HeldBy(c)
    BY <1>1, <1>2, <1>4, <2>2 DEF HoldShape, NoHold
  <2> QED
    BY <2>1, <2>2
<1>6. SoldHasLiveOwner'
  BY <1>1, <1>2 DEF SoldHasLiveOwner
<1> QED
  BY <1>3, <1>5, <1>6

(* Holds made, released or lapsed by hand and by the clock, and stock taken *)
(* out of sale: none of them touches a reservation or a sale.               *)
LEMMA StockStep ==
  ASSUME SaleInv, TypeOK', NEW f \in Fractions,
         CreateHold(f) \/ ReleaseHold(f) \/ Block(f) \/ Unblock(f) \/ HoldLapses(f)
  PROVE  SaleInv'
<1> USE DEF SaleInv, TypeOK
<1>1. ContractShape'
  BY DEF CreateHold, ReleaseHold, Block, Unblock, HoldLapses, contractVars, paperVars,
         ContractShape
<1>2. UNCHANGED <<status, owner>>
  BY DEF CreateHold, ReleaseHold, Block, Unblock, HoldLapses, contractVars
<1>3. hold[f].purpose \in {"none", "negotiation", "formalization"}
  BY DEF Hold
<1>4. CASE CreateHold(f)
  <2>1. owner[f] = NoContract
    BY <1>3, <1>4 DEF CreateHold, Holdable, HoldShape, SoldHasLiveOwner
  <2>2. HoldShape'
    BY <1>2, <1>4, <2>1 DEF CreateHold, HoldShape, NegotiationHold, NoHold
  <2>3. SoldHasLiveOwner'
    BY <1>2, <1>4 DEF CreateHold, SoldHasLiveOwner
  <2> QED
    BY <1>1, <2>2, <2>3
<1>5. CASE ReleaseHold(f)
  <2>1. fstatus[f] = "held" /\ owner[f] = NoContract
    BY <1>5 DEF ReleaseHold, HoldShape, NoHold
  <2>2. HoldShape'
    BY <1>2, <1>5, <2>1 DEF ReleaseHold, HoldShape, NoHold
  <2>3. SoldHasLiveOwner'
    BY <1>2, <1>5, <2>1 DEF ReleaseHold, SoldHasLiveOwner
  <2> QED
    BY <1>1, <2>2, <2>3
<1>6. CASE Block(f) \/ Unblock(f)
  <2>1. HoldShape'
    BY <1>2, <1>6 DEF Block, Unblock, HoldShape
  <2>2. SoldHasLiveOwner'
    BY <1>2, <1>6 DEF Block, Unblock, SoldHasLiveOwner
  <2> QED
    BY <1>1, <2>1, <2>2
<1>7. CASE HoldLapses(f)
  <2>1. /\ hold' = [hold EXCEPT ![f] = [hold[f] EXCEPT !.lapsed = TRUE]]
        /\ hold[f] # NoHold
        /\ UNCHANGED fstatus
    BY <1>7 DEF HoldLapses
  <2>2. /\ hold'[f].purpose = hold[f].purpose
        /\ hold'[f].contract = hold[f].contract
        /\ hold'[f].purpose # "none"
    BY <2>1 DEF Hold, HoldShape
  <2>3. \A g \in Fractions \ {f} : hold'[g] = hold[g]
    BY <2>1
  <2>4. hold'[f] # NoHold
    BY <2>2 DEF NoHold
  <2>5. HoldShape'
    BY <1>2, <2>1, <2>2, <2>3, <2>4 DEF HoldShape
  <2>6. SoldHasLiveOwner'
    BY <1>2, <2>1 DEF SoldHasLiveOwner
  <2> QED
    BY <1>1, <2>5, <2>6
<1> QED
  BY <1>4, <1>5, <1>6, <1>7

(* The sweep: what lapsed and is still held goes back to the stock.         *)
LEMMA SweepStep ==
  ASSUME SaleInv, TypeOK', NEW F \in SUBSET Lapsed, SweepRelease(F)
  PROVE  SaleInv'
<1> USE DEF SaleInv, TypeOK
<1>1. ContractShape'
  BY DEF SweepRelease, contractVars, paperVars, ContractShape
<1>2. \A f \in F : f \in Fractions /\ hold[f] # NoHold /\ fstatus[f] = "held"
  BY DEF Lapsed, HoldShape, NoHold
<1>3. /\ hold' = [f \in Fractions |-> IF f \in F THEN NoHold ELSE hold[f]]
      /\ fstatus' = [f \in Fractions |-> IF f \in F THEN "available" ELSE fstatus[f]]
      /\ owner' = [f \in Fractions |-> IF f \in F THEN NoContract ELSE owner[f]]
      /\ UNCHANGED status
  BY <1>2 DEF SweepRelease, contractVars
<1>4. HoldShape'
  BY <1>2, <1>3 DEF HoldShape, NoHold
<1>5. SoldHasLiveOwner'
  BY <1>2, <1>3 DEF SoldHasLiveOwner
<1> QED
  BY <1>1, <1>4, <1>5

(* The transaction of the sweep that marks a contract: only one that is     *)
(* still being formalized, and so not validated, is marked.                 *)
LEMMA MarkStep ==
  ASSUME SaleInv, TypeOK', NEW c \in Contracts, MarkContractInventoryLost(c)
  PROVE  SaleInv'
<1> USE DEF SaleInv, TypeOK
<1>1. UNCHANGED <<status, payment, validated, stored, fstatus, owner, hold>>
  BY DEF MarkContractInventoryLost, paperVars, stockVars
<1>2. ContractShape'
  BY <1>1 DEF ContractShape, MarkContractInventoryLost, MarkedLost
<1> QED
  BY <1>1, <1>2 DEF HoldShape, SoldHasLiveOwner

-----------------------------------------------------------------------------
(* SaleInv holds in every reachable state.                                  *)
THEOREM SaleInvariant == Spec => []SaleInv
<1>1. Init => SaleInv
  <2> SUFFICES ASSUME Init
               PROVE  TypeOK /\ ContractShape /\ HoldShape /\ SoldHasLiveOwner
    BY DEF SaleInv
  <2>1. TypeOK
    BY FlagsAreBoolean, NullsAreNotRows DEF Init, TypeOK, ContractStatus, FractionStatus,
       Hold, NoHold
  <2>2. ContractShape /\ HoldShape /\ SoldHasLiveOwner
    BY DEF Init, ContractShape, HoldShape, SoldHasLiveOwner, NoHold
  <2> QED
    BY <2>1, <2>2
<1>2. SaleInv /\ TypeOK' /\ [Next]_vars => SaleInv'
  <2> SUFFICES ASSUME SaleInv, TypeOK', [Next]_vars
               PROVE  SaleInv'
    OBVIOUS
  <2> USE DEF contractVars, paperVars, stockVars
  <2>0. status \in [Contracts -> ContractStatus] /\ stored \in [Contracts -> BOOLEAN]
          /\ hold \in [Fractions -> Hold]
    BY DEF SaleInv, TypeOK
  <2>1. ASSUME NEW c \in Contracts, NEW f \in Fractions, NEW s \in PreValidation,
               CreateContract(c, f, s)
        PROVE  SaleInv'
    BY <2>1, BirthStep DEF CreateContract, Sellable
  <2>2. ASSUME NEW c \in Contracts, NEW F \in SUBSET Fractions, IngestSale(c, F)
        PROVE  SaleInv'
    BY <2>2, BirthStep DEF IngestSale, PreValidation
  <2>3. ASSUME NEW c \in Contracts, NEW s \in PreValidation \cup {"cancelled"},
               ImportContract(c, s)
        PROVE  SaleInv'
    <3>1. /\ status[c] = "none"
          /\ status' = [status EXCEPT ![c] = s]
          /\ UNCHANGED <<lost, payment, validated, stored, fstatus, owner, hold>>
      BY <2>3 DEF ImportContract, NewContract
    <3>2. ContractShape'
      BY <2>0, <3>1 DEF SaleInv, ContractShape, PreValidation
    <3>3. HoldShape' /\ SoldHasLiveOwner'
      BY <2>0, <3>1 DEF SaleInv, HoldShape, SoldHasLiveOwner, PreValidation
    <3> QED
      BY <3>2, <3>3 DEF SaleInv
  <2>4. ASSUME NEW c \in Contracts, NEW a \in Administrators, ConfirmPayment(c, a)
        PROVE  SaleInv'
    <3>1. \A d \in Contracts \ {c} : payment'[d] = payment[d]
      BY <2>4 DEF ConfirmPayment, SaleInv, TypeOK
    <3> QED
      BY <2>4, <3>1, SettleStep DEF ConfirmPayment
  <2>5. ASSUME NEW c \in Contracts, ConfirmDocuments(c)
        PROVE  SaleInv'
    BY <2>5, SettleStep DEF ConfirmDocuments
  <2>6. ASSUME NEW c \in Contracts, NEW signed \in BOOLEAN, UploadDocument(c, signed)
        PROVE  SaleInv'
    BY <2>0, <2>6, PaperStep DEF UploadDocument
  <2>7. ASSUME NEW c \in Contracts, OpenEnvelope(c) \/ FinishEnvelope(c)
        PROVE  SaleInv'
    BY <2>7, PaperStep DEF OpenEnvelope, FinishEnvelope
  <2>8. ASSUME NEW c \in Contracts, ActivateEnvelope(c)
        PROVE  SaleInv'
    <3>1. /\ status[c] = "draft"
          /\ status' = [status EXCEPT ![c] = "pending_signature"]
          /\ UNCHANGED <<lost, payment, validated, stored, fstatus, owner, hold>>
      BY <2>8 DEF ActivateEnvelope
    <3>2. ContractShape'
      BY <2>0, <3>1 DEF SaleInv, ContractShape, PreValidation
    <3>3. HoldShape' /\ SoldHasLiveOwner'
      BY <2>0, <3>1 DEF SaleInv, HoldShape, SoldHasLiveOwner, PreValidation
    <3> QED
      BY <3>2, <3>3 DEF SaleInv
  <2>9. ASSUME NEW c \in Contracts, NEW a \in Administrators, ValidateSale(c, a)
        PROVE  SaleInv'
    BY <2>9, ValidationStep
  <2>10. ASSUME NEW c \in Contracts, NEW s \in ContractStatus, UpdateStatus(c, s)
         PROVE  SaleInv'
    BY <2>10, StatusStep
  <2>11. ASSUME NEW c \in Contracts,
                RequestCancellation(c)
                  \/ \E decision \in {"approved", "none"} : DecideCancellation(c, decision)
         PROVE  SaleInv'
    BY <2>11, PaperStep DEF RequestCancellation, DecideCancellation
  <2>12. ASSUME NEW c \in Contracts, ExecuteCancellation(c)
         PROVE  SaleInv'
    BY <2>12, CancellationStep
  <2>13. ASSUME NEW f \in Fractions,
                CreateHold(f) \/ ReleaseHold(f) \/ Block(f) \/ Unblock(f) \/ HoldLapses(f)
         PROVE  SaleInv'
    BY <2>13, StockStep
  <2>14. ASSUME NEW F \in SUBSET Lapsed, SweepRelease(F)
         PROVE  SaleInv'
    BY <2>14, SweepStep
  <2>15. ASSUME NEW c \in Contracts, MarkContractInventoryLost(c)
         PROVE  SaleInv'
    BY <2>15, MarkStep
  <2>16. CASE Restart \/ UNCHANGED vars
    BY <2>16, PaperStep DEF Restart, vars
  <2> QED
    BY <2>1, <2>2, <2>3, <2>4, <2>5, <2>6, <2>7, <2>8, <2>9, <2>10, <2>11, <2>12, <2>13,
       <2>14, <2>15, <2>16 DEF Next
<1> QED
  BY <1>1, <1>2, TypeCorrect, PTL DEF Spec

(* A reservation always has a hold, the hold names the contract that owns   *)
(* the fraction, and that contract is still being formalized.               *)
THEOREM ReservationsBacked == Spec => []ReservationIsBacked
<1>1. SaleInv => ReservationIsBacked
  BY DEF SaleInv, HoldShape, ReservationIsBacked
<1> QED
  BY <1>1, SaleInvariant, PTL

(* Sold fractions belong to contracts that exist and were not cancelled.    *)
THEOREM SoldOwned == Spec => []SoldHasLiveOwner
<1>1. SaleInv => SoldHasLiveOwner
  BY DEF SaleInv
<1> QED
  BY <1>1, SaleInvariant, PTL

(* Both: what StockIsBacked asks of the stock.                              *)
THEOREM StockBacked == Spec => []StockIsBacked
<1>1. ReservationIsBacked /\ SoldHasLiveOwner => StockIsBacked
  BY DEF StockIsBacked
<1> QED
  BY <1>1, ReservationsBacked, SoldOwned, PTL

(* Active, overdue and closed contracts are validated sales, with payment   *)
(* and signed contract, and never one whose reservation was lost.           *)
THEOREM ActiveValidated == Spec => []ActiveIsValidated
<1>1. SaleInv => ActiveIsValidated
  BY DEF SaleInv, ContractShape, ActiveIsValidated
<1> QED
  BY <1>1, SaleInvariant, PTL

-----------------------------------------------------------------------------
(* Of all the steps, only the cancellation takes a sold fraction from its   *)
(* contract; it is not the contract's second cancellation, because a sold   *)
(* fraction has a live owner.                                               *)
THEOREM SoldReturns == Spec => SoldReturnsOnlyByCancellation
<1>1. SaleInv /\ [Next]_vars => [\A f \in Fractions : ReturnsByCancellation(f)]_vars
  <2> SUFFICES ASSUME SaleInv, [Next]_vars, NEW f \in Fractions,
                      fstatus[f] = "sold"
               PROVE  \/ fstatus'[f] = "sold" /\ owner'[f] = owner[f]
                      \/ /\ status[owner[f]] # "cancelled"
                         /\ status'[owner[f]] = "cancelled"
                         /\ fstatus'[f] = "available" /\ owner'[f] = NoContract
    BY DEF ReturnsByCancellation
  <2> USE DEF SaleInv, TypeOK, stockVars
  <2>1. /\ owner[f] \in Contracts
        /\ status[owner[f]] # "cancelled"
        /\ hold[f] = NoHold
        /\ ~hold[f].lapsed
    BY DEF SoldHasLiveOwner, HoldShape, NoHold
  <2>2. ASSUME NEW c \in Contracts, NEW F \in SUBSET Fractions, LinkFractions(c, F), f \notin F
        PROVE  fstatus'[f] = "sold" /\ owner'[f] = owner[f]
    BY <2>2 DEF LinkFractions
  <2>3. ASSUME NEW c \in Contracts, NEW g \in Fractions, NEW s \in PreValidation,
               CreateContract(c, g, s)
        PROVE  fstatus'[f] = "sold" /\ owner'[f] = owner[f]
    BY <2>2, <2>3 DEF CreateContract, Sellable
  <2>4. ASSUME NEW c \in Contracts, NEW F \in SUBSET Fractions, IngestSale(c, F)
        PROVE  fstatus'[f] = "sold" /\ owner'[f] = owner[f]
    BY <2>2, <2>4 DEF IngestSale
  <2>5. ASSUME NEW c \in Contracts, NEW paid, NEW docs, Settle(c, paid, docs)
        PROVE  fstatus'[f] = "sold" /\ owner'[f] = owner[f]
    <3>1. f \notin HeldBy(c)
      BY DEF HeldBy, OwnedBy
    <3> QED
      BY <2>5, <3>1 DEF Settle, SettlePending, SettleNothing, SettleAlreadySwept,
         SettleLapsed, SettleSold
  <2>6. ASSUME NEW c \in Contracts,
               \/ \E a \in Administrators : ConfirmPayment(c, a)
               \/ ConfirmDocuments(c)
        PROVE  fstatus'[f] = "sold" /\ owner'[f] = owner[f]
    BY <2>5, <2>6 DEF ConfirmPayment, ConfirmDocuments
  <2>7. ASSUME NEW c \in Contracts,
               \/ \E s \in PreValidation \cup {"cancelled"} : ImportContract(c, s)
               \/ \E signed \in BOOLEAN : UploadDocument(c, signed)
               \/ OpenEnvelope(c) \/ ActivateEnvelope(c) \/ FinishEnvelope(c)
               \/ \E a \in Administrators : ValidateSale(c, a)
               \/ \E s \in ContractStatus : UpdateStatus(c, s)
               \/ RequestCancellation(c)
               \/ \E decision \in {"approved", "none"} : DecideCancellation(c, decision)
               \/ MarkContractInventoryLost(c)
        PROVE  fstatus'[f] = "sold" /\ owner'[f] = owner[f]
    BY <2>7 DEF ImportContract, UploadDocument, OpenEnvelope, ActivateEnvelope,
       FinishEnvelope, ValidateSale, UpdateStatus, RequestCancellation, DecideCancellation,
       MarkContractInventoryLost
  <2>8. ASSUME NEW c \in Contracts, ExecuteCancellation(c), owner[f] = c
        PROVE  /\ status'[owner[f]] = "cancelled"
               /\ fstatus'[f] = "available" /\ owner'[f] = NoContract
    BY <2>8 DEF ExecuteCancellation, Returned, OwnedBy
  <2>9. ASSUME NEW c \in Contracts, ExecuteCancellation(c), owner[f] # c
        PROVE  fstatus'[f] = "sold" /\ owner'[f] = owner[f]
    BY <2>9 DEF ExecuteCancellation, Returned, OwnedBy
  <2>10. ASSUME NEW g \in Fractions,
                CreateHold(g) \/ ReleaseHold(g) \/ Block(g) \/ Unblock(g) \/ HoldLapses(g)
         PROVE  fstatus'[f] = "sold" /\ owner'[f] = owner[f]
    BY <2>10 DEF CreateHold, Holdable, ReleaseHold, Block, Unblock, HoldLapses
  <2>11. ASSUME NEW F \in SUBSET Lapsed, SweepRelease(F)
         PROVE  fstatus'[f] = "sold" /\ owner'[f] = owner[f]
    BY <2>11 DEF SweepRelease
  <2>12. CASE Restart \/ UNCHANGED vars
    BY <2>12 DEF Restart, vars
  <2> QED
    BY <2>1, <2>3, <2>4, <2>6, <2>7, <2>8, <2>9, <2>10, <2>11, <2>12 DEF Next
<1> QED
  BY <1>1, SaleInvariant, PTL DEF Spec, SoldReturnsOnlyByCancellation

-----------------------------------------------------------------------------
(* A contract enters viaHold at its birth and never leaves it, so that a    *)
(* restart with the flag off does not change what its fractions wait for.   *)
ConferenceInv ==
  /\ ReservedSoldAfterConferences
  /\ \A c \in Contracts : status[c] = "none" => c \notin viaHold

(* Steps that sell nothing and take no conference back.                     *)
LEMMA NothingSoldStep ==
  ASSUME TypeOK, ConferenceInv, viaHold' = viaHold,
         \A c \in Contracts : /\ status'[c] = "none" => status[c] = "none"
                              /\ BothConferences(c) => BothConferences(c)',
         \A f \in Fractions : fstatus'[f] = "sold" =>
                                 /\ fstatus[f] = "sold" /\ owner'[f] = owner[f]
                                 /\ owner[f] \in Contracts
  PROVE  ConferenceInv'
  BY DEF ConferenceInv, ReservedSoldAfterConferences

(* A birth sells only with the flag off, to a contract outside viaHold.     *)
LEMMA SaleAtBirthStep ==
  ASSUME SaleInv, ConferenceInv, NEW c \in Contracts, NEW F \in SUBSET Fractions,
         NEW s \in PreValidation, NewContract(c, s), LinkFractions(c, F)
  PROVE  ConferenceInv'
<1> USE DEF SaleInv, TypeOK
<1>1. /\ status[c] = "none" /\ c \notin viaHold
      /\ status' = [status EXCEPT ![c] = s] /\ s # "none"
      /\ UNCHANGED <<payment, conferred>>
  BY DEF NewContract, ConferenceInv, PreValidation
<1>2. \A d \in Contracts : status'[d] = "none" => d \notin viaHold'
  BY <1>1 DEF LinkFractions, ConferenceInv
<1>3. ASSUME NEW f \in Fractions, fstatus'[f] = "sold", owner'[f] \in viaHold'
      PROVE  payment'[owner'[f]] # Nobody /\ conferred'[owner'[f]]
  <2>1. CASE f \in F
    BY <1>1, <1>3, <2>1 DEF LinkFractions
  <2>2. CASE f \notin F
    <3>1. fstatus[f] = "sold" /\ owner'[f] = owner[f]
      BY <1>3, <2>2 DEF LinkFractions
    <3>2. owner[f] \in Contracts /\ status[owner[f]] # "none"
      BY <3>1 DEF SoldHasLiveOwner
    <3>3. owner[f] \in viaHold
      BY <1>1, <1>3, <3>1, <3>2 DEF LinkFractions
    <3> QED
      BY <1>1, <3>1, <3>3 DEF ConferenceInv, ReservedSoldAfterConferences, BothConferences
  <2> QED
    BY <2>1, <2>2
<1> QED
  BY <1>2, <1>3 DEF ConferenceInv, ReservedSoldAfterConferences, BothConferences

(* A conference sells only when it is the second of the two.                *)
LEMMA ConferenceStep ==
  ASSUME SaleInv, ConferenceInv, NEW c \in Contracts, NEW paid, NEW docs,
         Settle(c, paid, docs), UNCHANGED <<status, viaHold>>,
         \A d \in Contracts : BothConferences(d) => BothConferences(d)',
         ConferencesDone(paid, docs) => BothConferences(c)'
  PROVE  ConferenceInv'
<1> USE DEF SaleInv, TypeOK
<1>1. CASE SettleSold(c) /\ ConferencesDone(paid, docs)
  <2>1. \A f \in Fractions : fstatus'[f] = "sold" =>
          /\ owner'[f] = owner[f]
          /\ fstatus[f] = "sold" \/ owner[f] = c
    BY <1>1 DEF SettleSold, HeldBy, OwnedBy
  <2>2. \A f \in Fractions : fstatus[f] = "sold" => owner[f] \in Contracts
    BY DEF SoldHasLiveOwner
  <2> QED
    BY <1>1, <2>1, <2>2 DEF ConferenceInv, ReservedSoldAfterConferences
<1>2. CASE SettlePending(paid, docs) \/ SettleNothing(c) \/ SettleAlreadySwept(c)
             \/ SettleLapsed(c)
  <2>1. \A f \in Fractions : fstatus'[f] = "sold" =>
          fstatus[f] = "sold" /\ owner'[f] = owner[f]
    BY <1>2 DEF SettlePending, SettleNothing, SettleAlreadySwept, SettleLapsed, HeldBy,
       OwnedBy, stockVars
  <2> QED
    BY <2>1, NothingSoldStep DEF SoldHasLiveOwner
<1> QED
  BY <1>1, <1>2 DEF Settle

(* CRM-E1: what was reserved at the formalization is sold only after both   *)
(* conferences, whatever the flags of later processes.                      *)
THEOREM ReservedSoldLate == Spec => []ReservedSoldAfterConferences
<1>1. Init => ConferenceInv
  BY DEF Init, ConferenceInv, ReservedSoldAfterConferences
<1>2. SaleInv /\ ConferenceInv /\ [Next]_vars => ConferenceInv'
  <2> SUFFICES ASSUME SaleInv, ConferenceInv, [Next]_vars
               PROVE  ConferenceInv'
    OBVIOUS
  <2> USE DEF contractVars, stockVars, linkVars
  <2>0. /\ TypeOK
        /\ \A f \in Fractions : fstatus[f] = "sold" => owner[f] \in Contracts
    BY DEF SaleInv, SoldHasLiveOwner
  <2>1. ASSUME NEW c \in Contracts, NEW f \in Fractions, NEW s \in PreValidation,
               CreateContract(c, f, s)
        PROVE  ConferenceInv'
    BY <2>1, SaleAtBirthStep DEF CreateContract
  <2>2. ASSUME NEW c \in Contracts, NEW F \in SUBSET Fractions, IngestSale(c, F)
        PROVE  ConferenceInv'
    BY <2>2, SaleAtBirthStep DEF IngestSale, PreValidation
  <2>3. ASSUME NEW c \in Contracts, NEW a \in Administrators, ConfirmPayment(c, a)
        PROVE  ConferenceInv'
    <3>1. /\ payment' = [payment EXCEPT ![c] = a] /\ a # Nobody
          /\ UNCHANGED <<status, conferred, viaHold>>
          /\ Settle(c, TRUE, conferred[c])
      BY <2>3, NullsAreNotRows DEF ConfirmPayment
    <3>2. \A d \in Contracts : BothConferences(d) => BothConferences(d)'
      BY <2>0, <3>1 DEF BothConferences, TypeOK
    <3>3. ConferencesDone(TRUE, conferred[c]) => BothConferences(c)'
      BY <2>0, <3>1 DEF BothConferences, ConferencesDone, TypeOK
    <3> QED
      BY <3>1, <3>2, <3>3, ConferenceStep
  <2>4. ASSUME NEW c \in Contracts, ConfirmDocuments(c)
        PROVE  ConferenceInv'
    <3>1. /\ conferred' = [conferred EXCEPT ![c] = TRUE]
          /\ UNCHANGED <<status, payment, viaHold>>
          /\ Settle(c, payment[c] # Nobody, TRUE)
      BY <2>4 DEF ConfirmDocuments
    <3>2. \A d \in Contracts : BothConferences(d) => BothConferences(d)'
      BY <2>0, <3>1 DEF BothConferences, TypeOK
    <3>3. ConferencesDone(payment[c] # Nobody, TRUE) => BothConferences(c)'
      BY <2>0, <3>1 DEF BothConferences, ConferencesDone, TypeOK
    <3> QED
      BY <3>1, <3>2, <3>3, ConferenceStep
  <2>5. ASSUME NEW c \in Contracts,
               \/ \E s \in PreValidation \cup {"cancelled"} : ImportContract(c, s)
               \/ \E signed \in BOOLEAN : UploadDocument(c, signed)
               \/ OpenEnvelope(c) \/ ActivateEnvelope(c) \/ FinishEnvelope(c)
               \/ \E a \in Administrators : ValidateSale(c, a)
               \/ RequestCancellation(c)
               \/ \E decision \in {"approved", "none"} : DecideCancellation(c, decision)
               \/ MarkContractInventoryLost(c)
        PROVE  ConferenceInv'
    <3>1. /\ UNCHANGED <<payment, conferred, fstatus, owner, viaHold>>
          /\ \/ UNCHANGED status
             \/ \E s \in ContractStatus \ {"none"} : status' = [status EXCEPT ![c] = s]
      BY <2>5 DEF ImportContract, NewContract, UploadDocument, OpenEnvelope,
         ActivateEnvelope, FinishEnvelope, ValidateSale, RequestCancellation,
         DecideCancellation, MarkContractInventoryLost, ContractStatus, PreValidation
    <3>2. \A d \in Contracts : status'[d] = "none" => status[d] = "none"
      BY <2>0, <3>1 DEF TypeOK
    <3> QED
      BY <2>0, <3>1, <3>2, NothingSoldStep DEF BothConferences
  <2>6. ASSUME NEW c \in Contracts, ExecuteCancellation(c)
        PROVE  ConferenceInv'
    <3>1. /\ UNCHANGED <<payment, conferred, viaHold>>
          /\ status' = [status EXCEPT ![c] = "cancelled"]
      BY <2>6 DEF ExecuteCancellation
    <3>2. \A f \in Fractions : fstatus'[f] = "sold" =>
            fstatus[f] = "sold" /\ owner'[f] = owner[f]
      BY <2>6 DEF ExecuteCancellation
    <3>3. \A d \in Contracts : status'[d] = "none" => status[d] = "none"
      BY <2>0, <3>1 DEF TypeOK
    <3> QED
      BY <2>0, <3>1, <3>2, <3>3, NothingSoldStep DEF BothConferences
  <2>7. ASSUME NEW f \in Fractions,
               CreateHold(f) \/ ReleaseHold(f) \/ Block(f) \/ Unblock(f) \/ HoldLapses(f)
        PROVE  ConferenceInv'
    <3>1. /\ UNCHANGED <<status, payment, conferred, owner, viaHold>>
          /\ \A g \in Fractions : fstatus'[g] = "sold" => fstatus[g] = "sold"
      BY <2>0, <2>7 DEF CreateHold, ReleaseHold, Block, Unblock, HoldLapses, TypeOK
    <3> QED
      BY <2>0, <3>1, NothingSoldStep DEF BothConferences
  <2>8. ASSUME NEW F \in SUBSET Lapsed, SweepRelease(F)
        PROVE  ConferenceInv'
    <3>1. /\ UNCHANGED <<status, payment, conferred, viaHold>>
          /\ \A f \in Fractions : fstatus'[f] = "sold" =>
               fstatus[f] = "sold" /\ owner'[f] = owner[f]
      BY <2>8 DEF SweepRelease
    <3> QED
      BY <2>0, <3>1, NothingSoldStep DEF BothConferences
  <2>9. ASSUME NEW c \in Contracts, NEW s \in ContractStatus, UpdateStatus(c, s)
        PROVE  ConferenceInv'
    <3>1. /\ UNCHANGED <<payment, conferred, fstatus, owner, viaHold>>
          /\ status' = [status EXCEPT ![c] = s] /\ status[c] # "none"
      BY <2>9 DEF UpdateStatus, Exists
    <3>2. s # "none"
      BY <2>0, <2>9 DEF UpdateStatus, Exists, AllowedTransitions, TypeOK, ContractStatus
    <3>3. \A d \in Contracts : status'[d] = "none" => status[d] = "none"
      BY <2>0, <3>1, <3>2 DEF TypeOK
    <3> QED
      BY <2>0, <3>1, <3>3, NothingSoldStep DEF BothConferences
  <2>10. CASE Restart \/ UNCHANGED vars
    BY <2>0, <2>10, NothingSoldStep DEF Restart, vars, BothConferences
  <2> QED
    BY <2>1, <2>2, <2>3, <2>4, <2>5, <2>6, <2>7, <2>8, <2>9, <2>10 DEF Next
<1>3. ConferenceInv => ReservedSoldAfterConferences
  BY DEF ConferenceInv
<1> QED
  BY <1>1, <1>2, <1>3, SaleInvariant, PTL DEF Spec

-----------------------------------------------------------------------------
(* The stock.                                                               *)

(* Where a fraction is, now and after a step.                              *)

(* The places of FractionStock are told apart.                             *)
LEMMA PlacesDiffer ==
  ASSUME NEW c, NEW d
  PROVE  /\ Stock!Free # Stock!Blocked /\ Stock!Free # Stock!Negotiated
         /\ Stock!Blocked # Stock!Negotiated
         /\ Stock!Reserved(c) \notin {Stock!Free, Stock!Blocked, Stock!Negotiated, Stock!Sold(d)}
         /\ Stock!Sold(c) \notin {Stock!Free, Stock!Blocked, Stock!Negotiated}
         /\ Stock!Reserved(c) = Stock!Reserved(d) <=> c = d
         /\ Stock!Sold(c) = Stock!Sold(d) <=> c = d
  BY DEF Stock!Free, Stock!Blocked, Stock!Negotiated, Stock!Reserved, Stock!Sold

(* A held fraction is reserved for its owner or has none.                  *)
PlaceTold(f) ==
  /\ fstatus[f] \in FractionStatus
  /\ fstatus[f] = "available" => PlaceOf(f) = Stock!Free
  /\ fstatus[f] = "blocked" => PlaceOf(f) = Stock!Blocked
  /\ fstatus[f] = "sold" => PlaceOf(f) = Stock!Sold(owner[f])
  /\ fstatus[f] = "held" =>
       \/ /\ hold[f].purpose = "formalization" /\ hold[f].contract \in Contracts
          /\ owner[f] = hold[f].contract /\ PlaceOf(f) = Stock!Reserved(owner[f])
       \/ /\ hold[f].purpose = "negotiation" /\ owner[f] = NoContract
          /\ PlaceOf(f) = Stock!Negotiated

LEMMA PlaceNow ==
  ASSUME SaleInv, NEW f \in Fractions
  PROVE  PlaceTold(f)
  BY DEF SaleInv, TypeOK, HoldShape, PlaceTold, PlaceOf, FractionStatus, Hold, NoHold,
     Stock!Free, Stock!Blocked, Stock!Negotiated, Stock!Reserved, Stock!Sold

LEMMA PlaceNext ==
  ASSUME SaleInv', NEW f \in Fractions
  PROVE  PlaceTold(f)'
  BY DEF SaleInv, TypeOK, HoldShape, PlaceTold, PlaceOf, FractionStatus, Hold, NoHold,
     Stock!Free, Stock!Blocked, Stock!Negotiated, Stock!Reserved, Stock!Sold

(* A fraction whose row and hold stay is where it was.                     *)
LEMMA PlaceStays ==
  ASSUME NEW f \in Fractions, fstatus'[f] = fstatus[f], owner'[f] = owner[f],
         hold'[f].purpose = hold[f].purpose, hold'[f].contract = hold[f].contract
  PROVE  PlaceOf(f)' = PlaceOf(f)
  BY DEF PlaceOf

LEMMA Putting ==
  ASSUME NEW F \in SUBSET Fractions, NEW place,
         \A f \in F : PlaceOf(f)' = place,
         \A f \in Fractions \ F : PlaceOf(f)' = PlaceOf(f)
  PROVE  Stock!Put(F, place)
  BY DEF Stock!Put

Born == {c \in Contracts : Exists(c)}
Ended == {c \in Contracts : status[c] = "cancelled"}
Places == [f \in Fractions |-> PlaceOf(f)]

SeenStep == Stock!Next \/ UNCHANGED <<Places, Born, Ended>>

(* A step that moves no fraction and neither begins nor ends a contract.   *)
LEMMA Stutters ==
  ASSUME \A f \in Fractions : PlaceOf(f)' = PlaceOf(f),
         \A c \in Contracts : /\ status'[c] = "none" <=> status[c] = "none"
                              /\ status'[c] = "cancelled" <=> status[c] = "cancelled"
  PROVE  SeenStep
  BY DEF SeenStep, Places, Born, Ended, Exists

(* One fraction moves.                                                     *)
LEMMA Moving ==
  ASSUME NEW f \in Fractions, NEW from, NEW to,
         PlaceOf(f) = from, PlaceOf(f)' = to,
         \A g \in Fractions \ {f} : PlaceOf(g)' = PlaceOf(g),
         UNCHANGED status
  PROVE  Stock!Move(f, from, to)
  BY DEF Stock!Move, Exists

(* Reservations and negotiations come to nothing.                          *)
LEMMA GivingBack ==
  ASSUME SaleInv, SaleInv', NEW F \in SUBSET Fractions, UNCHANGED status,
         \A f \in F : fstatus[f] = "held" /\ fstatus'[f] = "available",
         \A f \in Fractions \ F : PlaceOf(f)' = PlaceOf(f)
  PROVE  SeenStep
<1>1. \A f \in F : PlaceOf(f)' = Stock!Free
  BY PlaceNext DEF PlaceTold
<1>2. \A f \in F : PlaceOf(f) = Stock!Negotiated \/ \E c \in Contracts : PlaceOf(f) = Stock!Reserved(c)
  BY PlaceNow DEF PlaceTold
<1>3. Stock!Put(F, Stock!Free)
  BY <1>1, Putting
<1>4. Stock!GiveBack(F)
  BY <1>2, <1>3 DEF Stock!GiveBack, Exists
<1> QED
  BY <1>4 DEF SeenStep, Stock!Next

-----------------------------------------------------------------------------
(* The steps of the formalization.                                         *)

(* What a contract may be born with.                                       *)
Takeable(F) ==
  \A f \in F :
    \/ fstatus[f] = "available"
    \/ /\ fstatus[f] = "held"
       /\ hold[f].purpose = "negotiation"

(* A birth takes its fractions, all reserved or all sold.                  *)
LEMMA BirthTakes ==
  ASSUME SaleInv, SaleInv', NEW c \in Contracts, NEW F \in SUBSET Fractions,
         NEW s \in PreValidation, Takeable(F), NewContract(c, s), LinkFractions(c, F)
  PROVE  SeenStep
<1> USE DEF SaleInv, TypeOK
<1>1. \A f \in F : PlaceOf(f) \in {Stock!Free, Stock!Negotiated}
  BY PlaceNow DEF PlaceTold, Takeable
<1>2. \A f \in Fractions \ F : PlaceOf(f)' = PlaceOf(f)
  BY PlaceStays DEF LinkFractions
<1>3. Stock!Put(F, Stock!Reserved(c)) \/ Stock!Put(F, Stock!Sold(c))
  <2>1. CASE holdFlag
    <3>1. \A f \in F : fstatus'[f] = "held" /\ owner'[f] = c /\ c # NoContract
      BY <2>1, NullsAreNotRows DEF LinkFractions
    <3>2. \A f \in F : PlaceOf(f)' = Stock!Reserved(c)
      BY <3>1, PlaceNext DEF PlaceTold
    <3> QED
      BY <1>2, <3>2, Putting
  <2>2. CASE ~holdFlag
    <3>1. \A f \in F : fstatus'[f] = "sold" /\ owner'[f] = c
      BY <2>2 DEF LinkFractions
    <3>2. \A f \in F : PlaceOf(f)' = Stock!Sold(c)
      BY <3>1, PlaceNext DEF PlaceTold
    <3> QED
      BY <1>2, <3>2, Putting
  <2> QED
    BY <2>1, <2>2
<1>4. /\ c \notin Born /\ Born' = Born \cup {c}
      /\ UNCHANGED Ended
  BY DEF NewContract, Born, Ended, Exists, PreValidation
<1>5. Stock!Take(c, F)
  BY <1>1, <1>3, <1>4 DEF Stock!Take, Born, Ended
<1> QED
  BY <1>5 DEF SeenStep, Stock!Next

(* A contract imported without fractions, alive or already ended.          *)
LEMMA ImportTakesNothing ==
  ASSUME SaleInv, SaleInv', NEW c \in Contracts, NEW s \in PreValidation \cup {"cancelled"},
         ImportContract(c, s)
  PROVE  SeenStep
<1> USE DEF SaleInv, TypeOK
<1>1. \A f \in Fractions : PlaceOf(f)' = PlaceOf(f)
  BY PlaceStays DEF ImportContract, stockVars
<1>2. c \notin Born /\ Born' = Born \cup {c}
  BY DEF ImportContract, NewContract, Born, Exists, PreValidation
<1>3. CASE s = "cancelled"
  <2>1. Ended' = Ended \cup {c}
    BY <1>3 DEF ImportContract, NewContract, Ended
  <2>2. Stock!BornEnded(c)
    BY <1>1, <1>2, <2>1 DEF Stock!BornEnded, Born, Ended
  <2> QED
    BY <2>2 DEF SeenStep, Stock!Next
<1>4. CASE s # "cancelled"
  <2>1. UNCHANGED Ended
    BY <1>4 DEF ImportContract, NewContract, Ended
  <2>2. Stock!Put({}, Stock!Reserved(c))
    BY <1>1, Putting
  <2>3. Stock!Take(c, {})
    BY <1>2, <2>1, <2>2 DEF Stock!Take, Born, Ended
  <2> QED
    BY <2>3 DEF SeenStep, Stock!Next
<1> QED
  BY <1>3, <1>4

(* A conference sells what is reserved, or gives it back, or moves nothing. *)
LEMMA SettleSells ==
  ASSUME SaleInv, SaleInv', NEW c \in Contracts, NEW paid, NEW docs, Settle(c, paid, docs),
         status[c] \in PreValidation, UNCHANGED status
  PROVE  SeenStep
<1> USE DEF SaleInv, TypeOK
<1>1. CASE UNCHANGED <<fstatus, owner, hold>>
  BY <1>1, PlaceStays, Stutters
<1>2. CASE SettleLapsed(c)
  <2>1. \A f \in HeldBy(c) : fstatus[f] = "held" /\ fstatus'[f] = "available"
    BY <1>2 DEF SettleLapsed, HeldBy, OwnedBy
  <2>2. \A f \in Fractions \ HeldBy(c) : PlaceOf(f)' = PlaceOf(f)
    BY <1>2, PlaceStays DEF SettleLapsed
  <2>3. HeldBy(c) \in SUBSET Fractions
    BY DEF HeldBy, OwnedBy
  <2> QED
    BY <2>1, <2>2, <2>3, GivingBack
<1>3. CASE SettleSold(c)
  <2>1. \A f \in HeldBy(c) : fstatus'[f] = "sold" /\ owner'[f] = c
    BY <1>3 DEF SettleSold, HeldBy, OwnedBy
  <2>2. \A f \in HeldBy(c) : PlaceOf(f)' = Stock!Sold(c)
    BY <2>1, PlaceNext DEF PlaceTold, HeldBy, OwnedBy
  <2>3. \A f \in Fractions \ HeldBy(c) : PlaceOf(f)' = PlaceOf(f)
    BY <1>3, PlaceStays DEF SettleSold
  <2>4. HeldBy(c) \in SUBSET Fractions
    BY DEF HeldBy, OwnedBy
  <2>5. ASSUME NEW f \in Fractions
        PROVE  f \in HeldBy(c) <=> PlaceOf(f) = Stock!Reserved(c)
    BY PlaceNow, PlacesDiffer, NullsAreNotRows DEF PlaceTold, HeldBy, OwnedBy, FractionStatus
  <2>6. Stock!ReservedFor(c) = HeldBy(c)
    BY <2>4, <2>5 DEF Stock!ReservedFor
  <2>7. Stock!Put(HeldBy(c), Stock!Sold(c))
    BY <2>2, <2>3, <2>4, Putting
  <2>8. Stock!Sell(c)
    BY <1>3, <2>6, <2>7 DEF Stock!Sell, SettleSold, PreValidation, Exists
  <2> QED
    BY <2>8 DEF SeenStep, Stock!Next
<1> QED
  BY <1>1, <1>2, <1>3 DEF Settle, SettlePending, SettleNothing, SettleAlreadySwept, stockVars

(* A cancellation is asked of a contract that exists.                      *)
RequestShape == \A c \in Contracts : request[c] # "none" => Exists(c)

(* A cancellation gives back all the contract has.                         *)
LEMMA CancellationEnds ==
  ASSUME SaleInv, SaleInv', RequestShape, NEW c \in Contracts, ExecuteCancellation(c)
  PROVE  SeenStep
<1> USE DEF SaleInv, TypeOK
<1>1. \A f \in Returned(c) : PlaceOf(f)' = Stock!Free
  BY PlaceNext DEF ExecuteCancellation, Returned, OwnedBy, PlaceTold
<1>2. \A f \in Fractions \ Returned(c) : PlaceOf(f)' = PlaceOf(f)
  BY PlaceStays DEF ExecuteCancellation, Returned, HeldBy, OwnedBy
<1>3. ASSUME NEW f \in Fractions
      PROVE  f \in Returned(c) <=> PlaceOf(f) \in {Stock!Reserved(c), Stock!Sold(c)}
  BY PlaceNow, PlacesDiffer, NullsAreNotRows DEF PlaceTold, Returned, OwnedBy, FractionStatus
<1>4. Stock!Of(c) = Returned(c)
  BY <1>3 DEF Stock!Of, Returned, OwnedBy
<1>5. Stock!Put(Returned(c), Stock!Free)
  BY <1>1, <1>2, Putting DEF Returned, OwnedBy
<1>6. /\ c \in Born \ Ended
      /\ Ended' = Ended \cup {c}
      /\ UNCHANGED Born
  BY DEF ExecuteCancellation, RequestShape, Born, Ended, Exists
<1>7. Stock!End(c)
  BY <1>4, <1>5, <1>6 DEF Stock!End, Born, Ended
<1> QED
  BY <1>7 DEF SeenStep, Stock!Next

(* What the inventory router does to a fraction.                           *)
LEMMA RouterMoves ==
  ASSUME SaleInv, SaleInv', NEW f \in Fractions,
         CreateHold(f) \/ ReleaseHold(f) \/ Block(f) \/ Unblock(f) \/ HoldLapses(f)
  PROVE  SeenStep
<1> USE DEF SaleInv, TypeOK
<1>0. UNCHANGED <<status, owner>>
  BY DEF CreateHold, ReleaseHold, Block, Unblock, HoldLapses, contractVars
<1>1. \A g \in Fractions \ {f} : PlaceOf(g)' = PlaceOf(g)
  <2>1. \A g \in Fractions \ {f} : fstatus'[g] = fstatus[g] /\ hold'[g] = hold[g]
    BY DEF CreateHold, ReleaseHold, Block, Unblock, HoldLapses
  <2> QED
    BY <1>0, <2>1, PlaceStays
<1>2. CASE HoldLapses(f)
  <2>1. PlaceOf(f)' = PlaceOf(f)
    BY <1>0, <1>2, PlaceStays DEF HoldLapses, Hold
  <2> QED
    BY <1>0, <1>1, <2>1, Stutters
<1>3. CASE ReleaseHold(f)
  <2>1. fstatus[f] = "held" /\ fstatus'[f] = "available"
    BY <1>3 DEF ReleaseHold, HoldShape, NoHold
  <2>2. \A g \in {f} : fstatus[g] = "held" /\ fstatus'[g] = "available"
    BY <2>1
  <2>3. {f} \in SUBSET Fractions /\ UNCHANGED status
    BY <1>0
  <2> QED
    BY <1>1, <2>2, <2>3, GivingBack
<1>4. CASE CreateHold(f)
  <2>1. fstatus'[f] = "held" /\ hold'[f].purpose = "negotiation"
    BY <1>4 DEF CreateHold, NegotiationHold
  <2>2. PlaceOf(f)' = Stock!Negotiated
    BY <2>1, PlaceNext DEF PlaceTold
  <2>3. CASE fstatus[f] = "available"
    <3>1. Stock!Move(f, Stock!Free, Stock!Negotiated)
      BY <1>0, <1>1, <2>2, <2>3, PlaceNow, Moving DEF PlaceTold
    <3> QED
      BY <3>1 DEF SeenStep, Stock!Next
  <2>4. CASE fstatus[f] # "available"
    <3>1. PlaceOf(f) = Stock!Negotiated
      BY <1>4, <2>4, PlaceNow DEF CreateHold, Holdable, PlaceTold
    <3> QED
      BY <1>0, <1>1, <2>2, <3>1, Stutters
  <2> QED
    BY <2>3, <2>4
<1>5. CASE Block(f)
  <2>1. Stock!Move(f, Stock!Free, Stock!Blocked)
    BY <1>0, <1>1, <1>5, PlaceNow, PlaceNext, Moving DEF Block, PlaceTold
  <2> QED
    BY <2>1 DEF SeenStep, Stock!Next
<1>6. CASE Unblock(f)
  <2>1. Stock!Move(f, Stock!Blocked, Stock!Free)
    BY <1>0, <1>1, <1>6, PlaceNow, PlaceNext, Moving DEF Unblock, PlaceTold
  <2> QED
    BY <2>1 DEF SeenStep, Stock!Next
<1> QED
  BY <1>2, <1>3, <1>4, <1>5, <1>6

(* The sweep gives back whatever had lapsed, of whichever contracts.       *)
LEMMA SweepGivesBack ==
  ASSUME SaleInv, SaleInv', NEW F \in SUBSET Lapsed, SweepRelease(F)
  PROVE  SeenStep
<1> USE DEF SaleInv, TypeOK
<1>1. F \in SUBSET Fractions /\ \A f \in F : hold[f] # NoHold
  BY DEF Lapsed, NoHold
<1>2. \A f \in F : fstatus[f] = "held" /\ fstatus'[f] = "available"
  BY <1>1 DEF HoldShape, SweepRelease
<1>3. \A f \in Fractions \ F : PlaceOf(f)' = PlaceOf(f)
  BY PlaceStays DEF SweepRelease
<1> QED
  BY <1>1, <1>2, <1>3, GivingBack DEF SweepRelease, contractVars

-----------------------------------------------------------------------------
(* A sale takes all its quotas or none, what is reserved for it is sold     *)
(* together, and what was sold returns with the end of its contract, for    *)
(* whatever flags, deadlines, sweeps and restarts                           *)
(* (formalizationInventory.ts, holdSweep.ts, cancellationExecution.ts).     *)
THEOREM StockImplemented == Spec => ImplementsStock
<1>1. Init => Stock!Init
  BY DEF Init, Stock!Init, PlaceOf, Stock!Free, Exists
<1>2. Init => RequestShape
  BY DEF Init, RequestShape
<1>3. SaleInv /\ RequestShape /\ [Next]_vars => RequestShape'
  <2> SUFFICES ASSUME SaleInv, RequestShape, [Next]_vars, NEW d \in Contracts,
                      request'[d] # "none"
               PROVE  status'[d] # "none"
    BY DEF RequestShape, Exists
  <2> USE DEF SaleInv, TypeOK, RequestShape, Exists, contractVars
  <2>1. ASSUME NEW c \in Contracts, RequestCancellation(c) \/ ExecuteCancellation(c)
                 \/ \E decision \in {"approved", "none"} : DecideCancellation(c, decision)
        PROVE  status'[d] # "none"
    BY <2>1 DEF RequestCancellation, ExecuteCancellation, DecideCancellation
  <2>2. ASSUME NEW c \in Contracts, NEW s \in ContractStatus, UpdateStatus(c, s)
        PROVE  status'[d] # "none"
    BY <2>2 DEF UpdateStatus, AllowedTransitions, ContractStatus
  <2>3. ASSUME UNCHANGED request,
               \/ UNCHANGED status
               \/ \E c \in Contracts, s \in ContractStatus \ {"none"} : status' = [status EXCEPT ![c] = s]
        PROVE  status'[d] # "none"
    BY <2>3
  <2> QED
    BY <2>1, <2>2, <2>3 DEF Next, vars, CreateContract, IngestSale, ImportContract, NewContract,
       ConfirmPayment, ConfirmDocuments, UploadDocument, OpenEnvelope, ActivateEnvelope,
       FinishEnvelope, ValidateSale, CreateHold, ReleaseHold, Block, Unblock, HoldLapses,
       SweepRelease, MarkContractInventoryLost, Restart, PreValidation, ContractStatus
<1>4. SaleInv /\ SaleInv' /\ RequestShape /\ [Next]_vars => [Stock!Next]_Stock!stockVars
  <2> SUFFICES ASSUME SaleInv, SaleInv', RequestShape, [Next]_vars
               PROVE  SeenStep
    BY DEF SeenStep, Stock!stockVars, Places, Born, Ended
  <2> USE DEF contractVars, stockVars
  <2>1. ASSUME NEW c \in Contracts, NEW f \in Fractions, NEW s \in PreValidation,
               CreateContract(c, f, s)
        PROVE  SeenStep
    <3>1. PICK F \in SUBSET Fractions : F = {f}
      OBVIOUS
    <3>2. NewContract(c, s) /\ LinkFractions(c, F) /\ Takeable(F)
      BY <2>1, <3>1 DEF CreateContract, Sellable, Takeable
    <3> QED
      BY <3>1, <3>2, BirthTakes
  <2>2. ASSUME NEW c \in Contracts, NEW F \in SUBSET Fractions, IngestSale(c, F)
        PROVE  SeenStep
    <3>1. PICK s \in PreValidation : s = "pending_signature"
      BY DEF PreValidation
    <3>2. NewContract(c, s) /\ LinkFractions(c, F) /\ Takeable(F)
      BY <2>2, <3>1 DEF IngestSale, Takeable
    <3> QED
      BY <3>1, <3>2, BirthTakes
  <2>3. ASSUME NEW c \in Contracts,
               \/ \E a \in Administrators : ConfirmPayment(c, a)
               \/ ConfirmDocuments(c)
        PROVE  SeenStep
    BY <2>3, SettleSells DEF ConfirmPayment, ConfirmDocuments
  <2>4. ASSUME NEW c \in Contracts, NEW s \in ContractStatus, UpdateStatus(c, s)
        PROVE  SeenStep
    <3>1. \A d \in Contracts : /\ status'[d] = "none" <=> status[d] = "none"
                               /\ status'[d] = "cancelled" <=> status[d] = "cancelled"
      BY <2>4 DEF SaleInv, TypeOK, UpdateStatus, AllowedTransitions, ContractStatus, Exists
    <3> QED
      BY <2>4, <3>1, PlaceStays, Stutters DEF UpdateStatus
  <2>5. ASSUME NEW c \in Contracts,
               ActivateEnvelope(c) \/ \E a \in Administrators : ValidateSale(c, a)
        PROVE  SeenStep
    <3>1. \A d \in Contracts : /\ status'[d] = "none" <=> status[d] = "none"
                               /\ status'[d] = "cancelled" <=> status[d] = "cancelled"
      BY <2>5 DEF SaleInv, TypeOK, ActivateEnvelope, ValidateSale, PreValidation
    <3> QED
      BY <2>5, <3>1, PlaceStays, Stutters DEF ActivateEnvelope, ValidateSale
  <2>6. ASSUME UNCHANGED <<status, fstatus, owner, hold>>
        PROVE  SeenStep
    BY <2>6, PlaceStays, Stutters
  <2> QED
    BY <2>1, <2>2, <2>3, <2>4, <2>5, <2>6, ImportTakesNothing, CancellationEnds, RouterMoves,
       SweepGivesBack DEF Next, vars, UploadDocument, OpenEnvelope, FinishEnvelope,
       RequestCancellation, DecideCancellation, MarkContractInventoryLost, Restart
<1> QED
  BY <1>1, <1>2, <1>3, <1>4, SaleInvariant, PTL DEF Spec, ImplementsStock, Stock!Spec

-----------------------------------------------------------------------------
(* The quotas.                                                              *)

(* What the code is run with. *)
GateIsOn ==
  /\ OrderGates = {TRUE}
  /\ Exempt = {}
  /\ MaxQuotas = 1
  /\ IsFiniteSet(Fractions)

(* A contract that has not expired has its quota, one that has owns         *)
(* nothing; only an expired one is, or waits to be, lost; and past both     *)
(* conferences nothing is left that could expire.                           *)
QuotaShape(c) ==
  /\ status[c] = "none" => quotas[c] = {} /\ c \notin expired /\ payment[c] = Nobody
  /\ \A f, g \in quotas[c] : f = g
  /\ c \in expired => \A f \in Fractions : owner[f] # c
  /\ c \notin expired /\ status[c] \notin {"none", "cancelled"} =>
       \A f \in quotas[c] : owner[f] = c
  /\ c \in lostQueue \/ lost[c] => c \in expired
  /\ validated[c] => c \notin expired
  /\ BothConferences(c) /\ status[c] \in PreValidation /\ ~lost[c] =>
       c \notin expired /\ HeldBy(c) = {}
  /\ \A f \in Fractions : owner[f] = c => f \in quotas[c]

QuotaInv == \A c \in Contracts : QuotaShape(c)

-----------------------------------------------------------------------------
(* Nothing a contract has, is or waits for changes but its status, which    *)
(* neither begins nor ends it.                                              *)
LEMMA QuotaStays ==
  ASSUME NEW c \in Contracts, QuotaShape(c),
         status'[c] = "none" <=> status[c] = "none",
         status[c] = "cancelled" => status'[c] = "cancelled",
         status'[c] \in PreValidation => status[c] \in PreValidation,
         UNCHANGED <<lost[c], payment[c], conferred[c], validated[c], quotas[c]>>,
         c \in expired' <=> c \in expired,
         c \in lostQueue' => c \in lostQueue,
         \A f \in Fractions : owner'[f] = c <=> owner[f] = c,
         \A f \in Fractions : owner[f] = c => fstatus'[f] = fstatus[f],
         quotas[c] \subseteq Fractions
  PROVE  QuotaShape(c)'
<1>1. HeldBy(c)' = HeldBy(c)
  BY DEF HeldBy, OwnedBy
<1> QED
  BY <1>1 DEF QuotaShape, BothConferences

(* A contract is born with a fraction nobody owned.                         *)
LEMMA QuotaBirth ==
  ASSUME SaleInv, QuotaInv, NEW c \in Contracts, NEW F \in SUBSET Fractions,
         NEW s \in PreValidation, NewContract(c, s), LinkFractions(c, F),
         \A f \in F : owner[f] = NoContract,
         \A f, g \in F : f = g
  PROVE  QuotaInv'
<1> USE DEF SaleInv, TypeOK
<1>1. /\ status[c] = "none" /\ status' = [status EXCEPT ![c] = s]
      /\ UNCHANGED <<lost, payment, conferred, validated, expired, lostQueue>>
      /\ quotas' = [quotas EXCEPT ![c] = F]
      /\ \A f \in Fractions : /\ owner'[f] = IF f \in F THEN c ELSE owner[f]
                              /\ f \notin F => fstatus'[f] = fstatus[f]
  BY DEF NewContract, LinkFractions, processVars
<1>2. QuotaShape(c)'
  <2>1. c \notin expired /\ payment[c] = Nobody /\ \A f \in Fractions : owner[f] # c
    BY <1>1 DEF QuotaInv, QuotaShape
  <2>2. ~validated[c] /\ s # "none"
    BY <1>1 DEF ContractShape, PreValidation
  <2> QED
    BY <1>1, <2>1, <2>2 DEF QuotaInv, QuotaShape, BothConferences
<1>3. ASSUME NEW d \in Contracts \ {c}
      PROVE  QuotaShape(d)'
  <2>1. \A f \in Fractions : owner[f] = d => f \notin F
    BY NullsAreNotRows
  <2> QED
    BY <1>1, <2>1, QuotaStays, NullsAreNotRows DEF QuotaInv
<1> QED
  BY <1>2, <1>3 DEF QuotaInv

(* The conference: what is held is sold, or expires together with its       *)
(* contract.                                                                *)
LEMMA QuotaSettles ==
  ASSUME SaleInv, QuotaInv, NEW c \in Contracts, NEW paid, NEW docs, Settle(c, paid, docs),
         status[c] \in PreValidation, ~lost[c],
         UNCHANGED <<status, validated, quotas, lostQueue>>,
         \A d \in Contracts \ {c} : payment'[d] = payment[d] /\ conferred'[d] = conferred[d],
         BothConferences(c)' => ConferencesDone(paid, docs)
  PROVE  QuotaInv'
<1> USE DEF SaleInv, TypeOK
<1>1. status[c] # "none" /\ ~validated[c]
  BY DEF ContractShape, PreValidation
<1>2. ASSUME NEW d \in Contracts \ {c}
      PROVE  QuotaShape(d)'
  <2>1. /\ lost'[d] = lost[d]
        /\ d \in expired' <=> d \in expired
        /\ \A f \in Fractions : owner'[f] = d <=> owner[f] = d
        /\ \A f \in Fractions : owner[f] = d => fstatus'[f] = fstatus[f]
    BY NullsAreNotRows DEF Settle, SettlePending, SettleNothing, SettleAlreadySwept, SettleLapsed,
       SettleSold, stockVars, MarkedLost, HeldBy, OwnedBy
  <2> QED
    BY <2>1, QuotaStays DEF QuotaInv
<1>3. QuotaShape(c)'
  <2>1. CASE SettlePending(paid, docs) /\ ~ConferencesDone(paid, docs)
    <3>1. HeldBy(c)' = HeldBy(c) /\ UNCHANGED <<fstatus, owner, expired, lost>>
      BY <2>1 DEF SettlePending, stockVars, HeldBy, OwnedBy
    <3> QED
      BY <1>1, <2>1, <3>1 DEF QuotaInv, QuotaShape
  <2>2. CASE SettleNothing(c)
    <3>1. HeldBy(c)' = HeldBy(c) /\ UNCHANGED <<fstatus, owner, expired, lost>>
      BY <2>2 DEF SettleNothing, stockVars, HeldBy, OwnedBy
    <3> QED
      BY <1>1, <2>2, <3>1 DEF QuotaInv, QuotaShape, SettleNothing
  <2>3. CASE SettleAlreadySwept(c)
    <3>1. lost'[c] /\ c \in expired /\ UNCHANGED <<fstatus, owner, expired>>
      BY <2>3 DEF SettleAlreadySwept, stockVars, MarkedLost
    <3> QED
      BY <1>1, <3>1 DEF QuotaInv, QuotaShape
  <2>4. CASE SettleLapsed(c)
    <3>1. \A f \in Fractions : owner[f] = c => f \in HeldBy(c)
      <4>1. PICK g \in HeldBy(c) : ~Alive(g, c)
        BY <2>4 DEF SettleLapsed
      <4>2. \A f \in Fractions : owner[f] = c => f = g
        BY <4>1 DEF QuotaInv, QuotaShape, HeldBy, OwnedBy
      <4> QED
        BY <4>1, <4>2
    <3>2. \A f \in Fractions : owner'[f] # c
      BY <2>4, <3>1, NullsAreNotRows DEF SettleLapsed
    <3>3. lost'[c] /\ c \in expired'
      <4>1. \E f \in HeldBy(c) : hold[f].contract = c
        BY <2>4, NullsAreNotRows DEF SettleLapsed, HeldBy, OwnedBy, HoldShape, Hold
      <4> QED
        BY <2>4, <4>1 DEF SettleLapsed, MarkedLost
    <3> QED
      BY <1>1, <3>2, <3>3 DEF QuotaInv, QuotaShape
  <2>5. CASE SettleSold(c)
    <3>1. c \notin expired /\ UNCHANGED <<owner, expired, lost>>
      BY <2>5 DEF SettleSold, QuotaInv, QuotaShape, HeldBy, OwnedBy
    <3>2. HeldBy(c)' = {}
      BY <2>5 DEF SettleSold, HeldBy, OwnedBy
    <3> QED
      BY <1>1, <3>1, <3>2 DEF QuotaInv, QuotaShape
  <2> QED
    BY <2>1, <2>2, <2>3, <2>4, <2>5 DEF Settle, SettlePending
<1> QED
  BY <1>2, <1>3 DEF QuotaInv

(* What was reserved and lapsed expires together with its contract.         *)
LEMMA QuotaSwept ==
  ASSUME SaleInv, QuotaInv, NEW F \in SUBSET Lapsed, SweepRelease(F)
  PROVE  QuotaInv'
<1> USE DEF SaleInv, TypeOK
<1>1. /\ UNCHANGED <<status, lost, payment, conferred, validated, quotas>>
      /\ \A f \in F : fstatus[f] = "held"
      /\ \A f \in Fractions : owner'[f] = (IF f \in F THEN NoContract ELSE owner[f])
      /\ \A f \in Fractions \ F : fstatus'[f] = fstatus[f]
      /\ lostQueue' = lostQueue \cup {hold[f].contract : f \in ReservedAmong(F)}
      /\ expired' = expired \cup {hold[f].contract : f \in ReservedAmong(F)}
  <2>1. \A f \in F : f \in Fractions /\ fstatus[f] = "held"
    BY DEF Lapsed, HoldShape, NoHold
  <2>2. ReservedAmong(F) \cap {f \in F : fstatus[f] = "held"} = ReservedAmong(F)
    BY <2>1 DEF ReservedAmong
  <2> QED
    BY <2>1, <2>2 DEF SweepRelease, contractVars, linkVars
<1>2. ASSUME NEW f \in ReservedAmong(F)
      PROVE  /\ hold[f].contract \in Contracts /\ owner[f] = hold[f].contract
             /\ status[hold[f].contract] \in PreValidation /\ f \in HeldBy(hold[f].contract)
  BY <1>1 DEF ReservedAmong, Lapsed, HoldShape, HeldBy, OwnedBy
<1>3. ASSUME NEW c \in Contracts, NEW f \in F, owner[f] = c
      PROVE  f \in ReservedAmong(F) /\ hold[f].contract = c
  BY <1>1, <1>3, NullsAreNotRows DEF ReservedAmong, Lapsed, HoldShape, Hold
<1>4. ASSUME NEW c \in Contracts
      PROVE  QuotaShape(c)'
  <2>1. CASE \E f \in ReservedAmong(F) : hold[f].contract = c
    <3>1. PICK f \in ReservedAmong(F) : hold[f].contract = c
      BY <2>1
    <3>2. f \in F /\ f \in Fractions /\ owner[f] = c /\ f \in HeldBy(c) /\ status[c] \in PreValidation
      BY <1>2, <3>1 DEF ReservedAmong, HeldBy, OwnedBy
    <3>3. \A g \in Fractions : owner[g] = c => g = f
      BY <3>2 DEF QuotaInv, QuotaShape
    <3>4. \A g \in Fractions : owner'[g] # c
      BY <1>1, <3>2, <3>3, NullsAreNotRows
    <3>5. status[c] # "none" /\ ~validated[c] /\ ~(BothConferences(c) /\ ~lost[c])
      BY <3>2 DEF ContractShape, PreValidation, QuotaInv, QuotaShape
    <3>6. c \in expired'
      BY <1>1, <3>1
    <3> QED
      BY <1>1, <3>4, <3>5, <3>6 DEF QuotaInv, QuotaShape, BothConferences
  <2>2. CASE \A f \in ReservedAmong(F) : hold[f].contract # c
    <3>1. \A f \in F : owner[f] # c
      BY <1>3, <2>2
    <3>2. \A f \in Fractions : /\ owner'[f] = c <=> owner[f] = c
                               /\ owner[f] = c => fstatus'[f] = fstatus[f]
      BY <1>1, <3>1, NullsAreNotRows
    <3> QED
      BY <1>1, <2>2, <3>2, QuotaStays DEF QuotaInv
  <2> QED
    BY <2>1, <2>2
<1> QED
  BY <1>4 DEF QuotaInv

(* The steps of the contract itself.                                        *)
LEMMA QuotaLife ==
  ASSUME SaleInv, QuotaInv, GateIsOn, NEW c \in Contracts,
         \/ \E s \in PreValidation \cup {"cancelled"} : ImportContract(c, s)
         \/ ActivateEnvelope(c)
         \/ \E a \in Administrators : ValidateSale(c, a)
         \/ \E s \in ContractStatus : UpdateStatus(c, s)
         \/ ExecuteCancellation(c)
         \/ MarkContractInventoryLost(c)
  PROVE  QuotaInv'
<1> USE DEF SaleInv, TypeOK
<1>1. ASSUME NEW d \in Contracts \ {c}
      PROVE  QuotaShape(d)'
  <2>1. /\ status'[d] = status[d]
        /\ UNCHANGED <<lost[d], payment, conferred, validated[d], quotas, expired>>
        /\ d \in lostQueue' => d \in lostQueue
    BY DEF ImportContract, NewContract, ActivateEnvelope, ValidateSale, UpdateStatus,
       ExecuteCancellation, MarkContractInventoryLost, MarkedLost, stockVars, linkVars, processVars
  <2>2. /\ \A f \in Fractions : owner'[f] = d <=> owner[f] = d
        /\ \A f \in Fractions : owner[f] = d => fstatus'[f] = fstatus[f]
    BY NullsAreNotRows DEF ImportContract, ActivateEnvelope, ValidateSale, UpdateStatus,
       ExecuteCancellation, MarkContractInventoryLost, stockVars, Returned, OwnedBy
  <2> QED
    BY <2>1, <2>2, QuotaStays DEF QuotaInv
<1>2. ASSUME NEW s \in PreValidation \cup {"cancelled"}, ImportContract(c, s)
      PROVE  QuotaShape(c)'
  <2>1. /\ status[c] = "none" /\ status'[c] = s /\ s # "none"
        /\ UNCHANGED <<lost, payment, conferred, validated, quotas, expired, lostQueue, owner>>
    BY <1>2 DEF ImportContract, NewContract, stockVars, linkVars, processVars, PreValidation
  <2> QED
    BY <2>1 DEF QuotaInv, QuotaShape, BothConferences
<1>3. ASSUME ActivateEnvelope(c) \/ \E s \in ContractStatus : UpdateStatus(c, s)
      PROVE  QuotaShape(c)'
  <2>1. /\ status'[c] = "none" <=> status[c] = "none"
        /\ status[c] = "cancelled" => status'[c] = "cancelled"
        /\ status'[c] \in PreValidation => status[c] \in PreValidation
    BY <1>3 DEF ActivateEnvelope, UpdateStatus, Exists, AllowedTransitions, ContractStatus, PreValidation
  <2>2. UNCHANGED <<lost, payment, conferred, validated, quotas, expired, lostQueue, owner, fstatus>>
    BY <1>3 DEF ActivateEnvelope, UpdateStatus, stockVars, linkVars, processVars
  <2> QED
    BY <2>1, <2>2, QuotaStays DEF QuotaInv
<1>4. ASSUME NEW a \in Administrators, ValidateSale(c, a)
      PROVE  QuotaShape(c)'
  <2>1. /\ status[c] \in PreValidation /\ ~lost[c] /\ status'[c] = "active"
        /\ UNCHANGED <<lost, payment, conferred, quotas, expired, lostQueue, owner>>
    BY <1>4 DEF ValidateSale, stockVars, linkVars, processVars
  <2>2. BothConferences(c)
    BY <1>4 DEF ValidateSale, GatesReady, GateApplies, GateIsOn, BothConferences
  <2>3. c \notin expired
    BY <2>1, <2>2 DEF QuotaInv, QuotaShape
  <2> QED
    BY <2>1, <2>3 DEF QuotaInv, QuotaShape, PreValidation
<1>5. ASSUME ExecuteCancellation(c)
      PROVE  QuotaShape(c)'
  <2>1. /\ status'[c] = "cancelled"
        /\ UNCHANGED <<lost, payment, conferred, validated, quotas, expired, lostQueue>>
        /\ \A f \in Fractions : owner'[f] \in {owner[f], NoContract}
    BY <1>5 DEF ExecuteCancellation, linkVars, processVars
  <2> QED
    BY <2>1, NullsAreNotRows DEF QuotaInv, QuotaShape, PreValidation
<1>6. ASSUME MarkContractInventoryLost(c)
      PROVE  QuotaShape(c)'
  <2>1. /\ c \in lostQueue /\ c \notin lostQueue'
        /\ UNCHANGED <<status, payment, conferred, validated, quotas, expired, owner>>
    BY <1>6 DEF MarkContractInventoryLost, stockVars, linkVars
  <2>2. status[c] \in PreValidation => lost'[c]
    BY <1>6 DEF MarkContractInventoryLost, MarkedLost
  <2> QED
    BY <2>1, <2>2 DEF QuotaInv, QuotaShape
<1> QED
  BY <1>1, <1>2, <1>3, <1>4, <1>5, <1>6 DEF QuotaInv

(* The steps of the inventory router touch fractions nobody owns.           *)
LEMMA QuotaRouted ==
  ASSUME SaleInv, QuotaInv, NEW f \in Fractions,
         CreateHold(f) \/ ReleaseHold(f) \/ Block(f) \/ Unblock(f) \/ HoldLapses(f)
  PROVE  QuotaInv'
<1> USE DEF SaleInv, TypeOK
<1>1. /\ UNCHANGED <<status, lost, payment, conferred, validated, quotas, expired, lostQueue, owner>>
      /\ \A g \in Fractions \ {f} : fstatus'[g] = fstatus[g]
  BY DEF CreateHold, ReleaseHold, Block, Unblock, HoldLapses, contractVars, linkVars, processVars
<1>2. owner[f] = NoContract \/ fstatus'[f] = fstatus[f]
  BY DEF CreateHold, Holdable, ReleaseHold, Block, Unblock, HoldLapses, HoldShape, SoldHasLiveOwner
<1>3. \A c \in Contracts : \A g \in Fractions : owner[g] = c => fstatus'[g] = fstatus[g]
  BY <1>1, <1>2, NullsAreNotRows
<1> QED
  BY <1>1, <1>3, QuotaStays DEF QuotaInv

-----------------------------------------------------------------------------
(* A validated sale owns its quota until it is cancelled, and a sale whose  *)
(* reservation was lost owns nothing, whatever the sweep, the conferences   *)
(* and the stops in between (holdSweep.ts:52, formalizationInventory.ts:85, *)
(* saleOrderGate.ts).                                                       *)
THEOREM QuotasKept == GateIsOn /\ Spec => []QuotasFollowTheSale
<1> SUFFICES ASSUME GateIsOn
             PROVE  Spec => []QuotasFollowTheSale
  OBVIOUS
<1>1. Init => QuotaInv
  BY NullsAreNotRows DEF Init, QuotaInv, QuotaShape, BothConferences, HeldBy, OwnedBy, PreValidation
<1>2. SaleInv /\ QuotaInv /\ [Next]_vars => QuotaInv'
  <2> SUFFICES ASSUME SaleInv, QuotaInv, [Next]_vars
               PROVE  QuotaInv'
    OBVIOUS
  <2> USE DEF contractVars, stockVars, linkVars, processVars
  <2>1. ASSUME NEW c \in Contracts, NEW f \in Fractions, NEW s \in PreValidation,
               CreateContract(c, f, s)
        PROVE  QuotaInv'
    <3>1. PICK F \in SUBSET Fractions : F = {f}
      OBVIOUS
    <3>2. NewContract(c, s) /\ LinkFractions(c, F)
      BY <2>1, <3>1 DEF CreateContract
    <3>3. \A g \in F : owner[g] = NoContract
      BY <2>1, <3>1 DEF CreateContract, Sellable, SaleInv, HoldShape, SoldHasLiveOwner
    <3>4. \A g, h \in F : g = h
      BY <3>1
    <3> QED
      BY <3>2, <3>3, <3>4, QuotaBirth
  <2>2. ASSUME NEW c \in Contracts, NEW F \in SUBSET Fractions, IngestSale(c, F)
        PROVE  QuotaInv'
    <3>1. PICK s \in PreValidation : s = "pending_signature"
      BY DEF PreValidation
    <3>2. NewContract(c, s) /\ LinkFractions(c, F)
      BY <2>2, <3>1 DEF IngestSale
    <3>3. \A f \in F : owner[f] = NoContract
      BY <2>2 DEF IngestSale, SaleInv, SoldHasLiveOwner
    <3>4. \A f, g \in F : f = g
      <4>1. IsFiniteSet(F)
        BY FS_Subset DEF GateIsOn
      <4>2. Cardinality(F) \in Nat /\ Cardinality(F) <= 1 /\ F # {}
        BY <2>2, <4>1, FS_CardinalityType DEF IngestSale, GateIsOn
      <4>3. Cardinality(F) = 1
        BY <4>1, <4>2, FS_EmptySet
      <4> QED
        BY <4>1, <4>3, FS_Singleton
    <3> QED
      BY <3>2, <3>3, <3>4, QuotaBirth
  <2>3. ASSUME NEW c \in Contracts, NEW a \in Administrators, ConfirmPayment(c, a)
        PROVE  QuotaInv'
    <3>1. /\ Settle(c, TRUE, conferred[c]) /\ status[c] \in PreValidation /\ ~lost[c]
          /\ UNCHANGED <<status, validated, quotas, lostQueue, conferred>>
          /\ payment' = [payment EXCEPT ![c] = a]
      BY <2>3 DEF ConfirmPayment
    <3>2. /\ \A d \in Contracts \ {c} : payment'[d] = payment[d] /\ conferred'[d] = conferred[d]
          /\ BothConferences(c)' => ConferencesDone(TRUE, conferred[c])
      BY <3>1 DEF BothConferences, ConferencesDone, SaleInv, TypeOK
    <3> QED
      BY <3>1, <3>2, QuotaSettles
  <2>4. ASSUME NEW c \in Contracts, ConfirmDocuments(c)
        PROVE  QuotaInv'
    <3>1. /\ Settle(c, payment[c] # Nobody, TRUE) /\ status[c] \in PreValidation /\ ~lost[c]
          /\ UNCHANGED <<status, validated, quotas, lostQueue, payment>>
          /\ conferred' = [conferred EXCEPT ![c] = TRUE]
      BY <2>4 DEF ConfirmDocuments
    <3>2. /\ \A d \in Contracts \ {c} : payment'[d] = payment[d] /\ conferred'[d] = conferred[d]
          /\ BothConferences(c)' => ConferencesDone(payment[c] # Nobody, TRUE)
      BY <3>1 DEF BothConferences, ConferencesDone, SaleInv, TypeOK
    <3> QED
      BY <3>1, <3>2, QuotaSettles
  <2>5. ASSUME UNCHANGED <<status, lost, payment, conferred, validated, quotas, expired, owner, fstatus>>,
               lostQueue' \subseteq lostQueue
        PROVE  QuotaInv'
    BY <2>5, QuotaStays DEF QuotaInv, SaleInv, TypeOK
  <2>6. CASE Restart
    BY <2>5, <2>6 DEF Restart
  <2> QED
    BY <2>1, <2>2, <2>3, <2>4, <2>5, <2>6, QuotaLife, QuotaRouted, QuotaSwept DEF Next, vars,
       UploadDocument, OpenEnvelope, FinishEnvelope, RequestCancellation, DecideCancellation
<1>3. SaleInv /\ QuotaInv => QuotasFollowTheSale
  <2> SUFFICES ASSUME SaleInv, QuotaInv, NEW c \in Contracts
               PROVE  /\ validated[c] /\ status[c] # "cancelled" =>
                           \A f \in quotas[c] : fstatus[f] = "sold" /\ owner[f] = c
                      /\ lost[c] => OwnedBy(c, {"held", "sold"}) = {}
    BY DEF QuotasFollowTheSale, ValidatedOwnsItsQuotas, LostOwnsNothing
  <2> USE DEF SaleInv, TypeOK
  <2>1. ASSUME validated[c], status[c] # "cancelled", NEW f \in quotas[c]
        PROVE  fstatus[f] = "sold" /\ owner[f] = c
    <3>1. f \in Fractions /\ owner[f] = c /\ status[c] \notin PreValidation
      BY <2>1 DEF QuotaInv, QuotaShape, ContractShape
    <3>2. fstatus[f] # "held"
      BY <3>1, NullsAreNotRows DEF HoldShape, Hold
    <3> QED
      BY <3>1, <3>2, NullsAreNotRows DEF SoldHasLiveOwner, FractionStatus
  <2>2. ASSUME lost[c]
        PROVE  OwnedBy(c, {"held", "sold"}) = {}
    BY <2>2 DEF QuotaInv, QuotaShape, OwnedBy
  <2> QED
    BY <2>1, <2>2
<1> QED
  BY <1>1, <1>2, <1>3, SaleInvariant, PTL DEF Spec
=============================================================================
