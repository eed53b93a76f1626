----------------------------- MODULE SaleIntake -----------------------------
(***************************************************************************)
(* How a sale the Sales Command confirmed becomes a contract of the CRM:   *)
(* customer, capture sheet, opportunity, proposal and contract, in one     *)
(* transaction, beside the reception, which opens sheets for the same      *)
(* couple, and the desk, which moves their opportunities.                  *)
(*                                                                         *)
(* The transaction looks for the sale with a plain read, which opens its   *)
(* snapshot, and then waits for the lock on the resort.  What it reads     *)
(* plainly after that (customers, stages of candidate sheets) is of the    *)
(* snapshot; sheets and the opportunity it reuses are read FOR UPDATE, as  *)
(* they are.  From the lock on it is one step.                             *)
(*                                                                         *)
(* All sales and sheets are of one couple (two sales of it may come at the *)
(* same time), known by one phone and at most one code.  Installments,     *)
(* events and audits are written with the contract and left out.           *)
(***************************************************************************)
EXTENDS Integers, FiniteSets

CONSTANTS
  Sales,        \* saleId
  Sayings,      \* what the sales may carry: the phone, the code of the couple
  Entrances,    \* calls of the route that run at the same time
  MaxRows,      \* bound: rows of customers, sheets and opportunities
  MaxActs,      \* bound: what else happens
  Quotas,       \* fractions available at the beginning
  NoDeal, NoFolder, NoSale, NoEntry

PeopleIds == 1..MaxRows  \* customers
Folders == 1..MaxRows    \* capture sheets
Deals == 1..MaxRows      \* opportunities

ASSUME IntakeAssumption ==
  /\ MaxRows \in Nat /\ MaxActs \in Nat /\ Quotas \in Nat
  /\ Sayings \subseteq [Sales -> [phone : BOOLEAN, code : BOOLEAN]]

VARIABLES
  reuse,    \* SALE_BRIDGE_REUSE_CAPTURE_ENABLED
  said,     \* what each sale carries: the phone, the code of the couple
  people,   \* customers: the rows that exist
  gone,     \* those of them that were anonymized
  folder,   \* capture_records
  deal,     \* opportunities
  contract, \* contracts, by externalSaleId
  stock,    \* fractions that are available
  entry,    \* what each call has read (memory)
  edit,     \* what the desk has read of an opportunity (memory)
  taken,    \* sales answered as formalized
  acts      \* what else happened

intakeVars == <<reuse, said, people, gone, folder, deal, contract, stock, entry, edit, taken, acts>>

\* new and qualified are one, proposal and negotiation are one.
Stages == {"new", "negotiation", "won", "lost"}
OpenStages == {"new", "negotiation"}
Moves == [new |-> {"new", "negotiation", "lost"}, negotiation |-> {"negotiation", "won", "lost"},
          won |-> {"won"}, lost |-> {"lost"}]

Files == [customer : PeopleIds, code : BOOLEAN, deal : Deals \cup {NoDeal}, erased : BOOLEAN,
          resort : {"ours", "none", "other"}, bridge : BOOLEAN]
DealRows == [customer : PeopleIds, stage : Stages]
SaleRows == [customer : PeopleIds, deal : Deals, lost : BOOLEAN]
Views == [rows : SUBSET PeopleIds, stages : [Deals -> Stages \cup {"none"}]]

ASSUME NoRowsOfIntake ==
  NoDeal \notin DealRows \cup Deals /\ NoFolder \notin Files /\ NoSale \notin SaleRows

IntakeTypeOK ==
  /\ reuse \in BOOLEAN
  /\ said \in Sayings
  /\ people \subseteq PeopleIds /\ gone \subseteq people
  /\ folder \in [Folders -> Files \cup {NoFolder}]
  /\ deal \in [Deals -> DealRows \cup {NoDeal}]
  /\ contract \in [Sales -> SaleRows \cup {NoSale}]
  /\ stock \in 0..Quotas
  /\ \A k \in Entrances :
       \/ entry[k] = NoEntry
       \/ entry[k].at = "begin" /\ entry[k].sale \in Sales
       \/ entry[k].at = "lock" /\ entry[k].sale \in Sales /\ entry[k].view \in Views
  /\ edit = NoEntry \/ edit \in [on : Deals, seen : DealRows, to : DealRows]
  /\ taken \subseteq Sales
  /\ acts \in 0..MaxActs

(* The couple may have been at the reception before.                        *)
IntakeInit ==
  /\ reuse \in BOOLEAN
  /\ said \in Sayings
  /\ gone = {}
  /\ \/ people = {} /\ folder = [f \in Folders |-> NoFolder] /\ deal = [d \in Deals |-> NoDeal]
     \/ \E file \in Files :
          /\ file.customer = 1 /\ ~file.erased /\ ~file.bridge /\ file.deal \in {1, NoDeal}
          /\ people = {1}
          /\ folder = [f \in Folders |-> IF f = 1 THEN file ELSE NoFolder]
          /\ deal = [d \in Deals |-> IF d = file.deal THEN [customer |-> 1, stage |-> "new"] ELSE NoDeal]
  /\ contract = [s \in Sales |-> NoSale]
  /\ stock = Quotas
  /\ entry = [k \in Entrances |-> NoEntry]
  /\ edit = NoEntry
  /\ taken = {}
  /\ acts = 0

-----------------------------------------------------------------------------
(* The route of the Sales Command. *)

Act == acts < MaxActs /\ acts' = acts + 1

Formalized(s) == contract[s] # NoSale
Filed == {f \in Folders : folder[f] # NoFolder}

(* Ids of rows that are inserted. *)
NextPerson == {Cardinality(people) + 1} \cap PeopleIds
NextFolder == {Cardinality(Filed) + 1} \cap Folders
NextDeal == {Cardinality({d \in Deals : deal[d] # NoDeal}) + 1} \cap Deals

(* 200 for a sale that is formalized, 422 when its reservation was lost. *)
AnswerReplay(s) == taken' = IF contract[s].lost THEN taken ELSE taken \cup {s}

(* The look before the transaction. *)
LookForSale(k, s) ==
  /\ entry[k] = NoEntry
  /\ IF Formalized(s) THEN AnswerReplay(s) /\ UNCHANGED entry
     ELSE entry' = [entry EXCEPT ![k] = [at |-> "begin", sale |-> s]] /\ UNCHANGED taken
  /\ UNCHANGED <<reuse, said, people, gone, folder, deal, contract, stock, edit, acts>>

(* The look in the transaction, which opens its snapshot.  A sale found     *)
(* here is a replay whatever became of its reservation.                     *)
OpenIntake(k) ==
  /\ entry[k] # NoEntry /\ entry[k].at = "begin"
  /\ LET s == entry[k].sale
         view == [rows |-> people \ gone,
                  stages |-> [d \in Deals |-> IF deal[d] = NoDeal THEN "none" ELSE deal[d].stage]]
     IN IF Formalized(s)
        THEN taken' = taken \cup {s} /\ entry' = [entry EXCEPT ![k] = NoEntry]
        ELSE entry' = [entry EXCEPT ![k] = [at |-> "lock", sale |-> s, view |-> view]] /\ UNCHANGED taken
  /\ UNCHANGED <<reuse, said, people, gone, folder, deal, contract, stock, edit, acts>>

(* Customers of the snapshot with the phone of the sale. *)
Matching(s, view) == IF said[s].phone THEN view.rows ELSE {}

ByCode(s) == {f \in Filed : said[s].code /\ folder[f].code}

(* Sheets of the reception for the customer, without an opportunity or with *)
(* an open one.                                                             *)
Candidates(m, view) ==
  {f \in Filed :
     /\ folder[f].customer = m /\ ~folder[f].erased /\ ~folder[f].bridge
     /\ folder[f].resort # "other"
     /\ folder[f].deal # NoDeal => view.stages[folder[f].deal] \in OpenStages}

(* findCaptureForSale: by code, or the only candidate; else none. *)
LinkOf(s, m, view) ==
  IF ByCode(s) # {} THEN {f \in ByCode(s) : ~folder[f].erased /\ folder[f].resort # "other"}
  ELSE IF reuse /\ m # 0 /\ Cardinality(Candidates(m, view)) = 1 THEN Candidates(m, view)
  ELSE {}

(* Mutant: the opportunity of the sheet as the snapshot shows it. *)
ReusableOfSnapshot(f, c, view) ==
  {d \in Deals : d = folder[f].deal /\ deal[d].customer = c /\ view.stages[d] \in OpenStages}

(* The opportunity of the sheet, when the sale can close it. *)
Reusable(f, c, view) ==
  {d \in Deals : d = folder[f].deal /\ deal[d].customer = c /\ deal[d].stage \in OpenStages}

StillWonAnyway(f) == FALSE  \* mutant: the sheet is pointed at the sale in any case

(* An opportunity that is won already stays with its sheet. *)
StillWon(f) == folder[f].deal # NoDeal /\ deal[folder[f].deal].stage = "won"

\* The sheet with the sale written on it: its opportunity, the code it gives, the resort.
LinkedTo(d, file, keeps, coded) ==
  [file EXCEPT !.deal = IF keeps THEN @ ELSE d,
               !.code = @ \/ coded,
               !.resort = IF @ = "none" THEN "ours" ELSE @]

(* The customer, the opportunity and the sheet of a sale. *)
Formalize(k) ==
  LET s == entry[k].sale
      view == entry[k].view
      matched == Matching(s, view)
  IN
  /\ entry[k] # NoEntry /\ entry[k].at = "lock"
  /\ ~Formalized(s) /\ stock > 0
  /\ \E m \in IF matched = {} THEN {0} ELSE matched :
       LET link == LinkOf(s, m, view)
           linked == CHOOSE f \in link : TRUE
           c == IF link # {} THEN folder[linked].customer
                ELSE IF m # 0 THEN m ELSE Cardinality(people) + 1
           old == IF link = {} THEN {} ELSE Reusable(linked, c, view)
       IN /\ c \in PeopleIds
          /\ people' = people \cup {c}
          /\ \E d \in IF old # {} THEN old ELSE NextDeal :
               /\ deal' = [deal EXCEPT ![d] = [customer |-> c, stage |-> "won"]]
               /\ contract' = [contract EXCEPT ![s] = [customer |-> c, deal |-> d, lost |-> FALSE]]
               /\ IF link # {}
                  THEN folder' = [folder EXCEPT ![linked] =
                         LinkedTo(d, folder[linked], StillWon(linked), said[s].code /\ ByCode(s) = {})]
                  ELSE \E f \in NextFolder :
                         folder' = [folder EXCEPT ![f] =
                           [customer |-> c, code |-> said[s].code /\ ByCode(s) = {}, deal |-> d,
                            erased |-> FALSE, resort |-> "ours", bridge |-> TRUE]]
  /\ stock' = stock - 1
  /\ entry' = [entry EXCEPT ![k] = NoEntry]
  /\ taken' = taken \cup {s}
  /\ UNCHANGED <<reuse, said, gone, edit, acts>>

(* Another call formalized the sale: the reference of the proposal is there *)
(* already, everything is rolled back, and the answer is that of a replay.  *)
IntakeRaced(k) ==
  /\ entry[k] # NoEntry /\ entry[k].at = "lock"
  /\ Formalized(entry[k].sale)
  /\ AnswerReplay(entry[k].sale)
  /\ entry' = [entry EXCEPT ![k] = NoEntry]
  /\ UNCHANGED <<reuse, said, people, gone, folder, deal, contract, stock, edit, acts>>

(* Refused (422, as without stock) or failed (503): nothing is written. *)
IntakeFails(k) ==
  /\ entry[k] # NoEntry
  /\ entry' = [entry EXCEPT ![k] = NoEntry]
  /\ UNCHANGED <<reuse, said, people, gone, folder, deal, contract, stock, edit, taken, acts>>

(* The reservation of a sale lapses before the conferences. *)
LoseStock(s) ==
  /\ Formalized(s) /\ ~contract[s].lost
  /\ contract' = [contract EXCEPT ![s].lost = TRUE]
  /\ stock' = stock + 1
  /\ Act
  /\ UNCHANGED <<reuse, said, people, gone, folder, deal, entry, edit, taken>>

-----------------------------------------------------------------------------
(* The reception and the desk. *)

(* captures.create, for a customer that is known or new. *)
OpenFolder(f, c, d, resort) ==
  /\ f \in NextFolder
  /\ c \in (people \ gone) \cup NextPerson
  /\ d \in NextDeal \cup {NoDeal}
  /\ people' = people \cup {c}
  /\ deal' = IF d = NoDeal THEN deal ELSE [deal EXCEPT ![d] = [customer |-> c, stage |-> "new"]]
  /\ folder' = [folder EXCEPT ![f] = [customer |-> c, code |-> FALSE, deal |-> d, erased |-> FALSE,
                                      resort |-> resort, bridge |-> FALSE]]
  /\ Act
  /\ UNCHANGED <<reuse, said, gone, contract, stock, entry, edit, taken>>

(* captureSheet.setCoupleCode: the code is of one sheet. *)
SetCoupleCode(f) ==
  /\ f \in Filed
  /\ \A g \in Filed : ~folder[g].code
  /\ folder' = [folder EXCEPT ![f].code = TRUE]
  /\ Act
  /\ UNCHANGED <<reuse, said, people, gone, deal, contract, stock, entry, edit, taken>>

(* completeErasure: barred by a contract. *)
Anonymize(c) ==
  /\ c \in people \ gone
  /\ \E f \in Filed : folder[f].customer = c
  /\ \A s \in Sales : Formalized(s) => contract[s].customer # c
  /\ gone' = gone \cup {c}
  /\ folder' = [f \in Folders |-> IF f \in Filed /\ folder[f].customer = c
                                  THEN [folder[f] EXCEPT !.erased = TRUE] ELSE folder[f]]
  /\ Act
  /\ UNCHANGED <<reuse, said, people, deal, contract, stock, entry, edit, taken>>

(* updateOpportunity: the stage is read and the move checked ... *)
ReadDeal(d, to, c) ==
  /\ edit = NoEntry
  /\ deal[d] # NoDeal
  /\ to \in Moves[deal[d].stage]
  /\ c \in people
  /\ edit' = [on |-> d, seen |-> deal[d], to |-> [customer |-> c, stage |-> to]]
  /\ Act
  /\ UNCHANGED <<reuse, said, people, gone, folder, deal, contract, stock, entry, taken>>

SameStage == TRUE  \* mutant: the update names the opportunity only
HoldsStage == deal[edit.on].stage = edit.seen.stage

(* ... and written if the stage is still the one that was read, and neither *)
(* customer was anonymized.                                                 *)
WriteDeal ==
  /\ edit # NoEntry
  /\ deal' = IF HoldsStage /\ {edit.seen.customer, edit.to.customer} \cap gone = {}
             THEN [deal EXCEPT ![edit.on] = edit.to] ELSE deal
  /\ edit' = NoEntry
  /\ UNCHANGED <<reuse, said, people, gone, folder, contract, stock, entry, taken, acts>>

(* createProposal, under the lock of the opportunity. *)
CreateProposal(d) ==
  /\ deal[d] # NoDeal /\ deal[d].stage = "new"
  /\ deal' = [deal EXCEPT ![d].stage = "negotiation"]
  /\ Act
  /\ UNCHANGED <<reuse, said, people, gone, folder, contract, stock, entry, edit, taken>>

-----------------------------------------------------------------------------
IntakeNext ==
  \/ \E k \in Entrances :
       \/ \E s \in Sales : LookForSale(k, s)
       \/ OpenIntake(k) \/ Formalize(k) \/ IntakeRaced(k) \/ IntakeFails(k)
  \/ \E s \in Sales : LoseStock(s)
  \/ \E f \in Folders, c \in PeopleIds, d \in Deals \cup {NoDeal}, resort \in {"ours", "none", "other"} :
       OpenFolder(f, c, d, resort)
  \/ \E f \in Folders : SetCoupleCode(f)
  \/ \E c \in PeopleIds : Anonymize(c)
  \/ \E d \in Deals, to \in Stages, c \in PeopleIds : ReadDeal(d, to, c)
  \/ WriteDeal
  \/ \E d \in Deals : CreateProposal(d)

IntakeSpec == IntakeInit /\ [][IntakeNext]_intakeVars

-----------------------------------------------------------------------------
(* What is checked. *)

(* The opportunity a sale closed is of that sale alone, stays won and is on  *)
(* one sheet at most; a quota is taken for each sale that has not lost it;   *)
(* the code of the couple is on one sheet; and a sale that was answered as   *)
(* formalized is.                                                            *)
OneDealEach ==
  /\ \A s, t \in Sales : Formalized(s) /\ Formalized(t) /\ contract[s].deal = contract[t].deal => s = t
  /\ \A s \in Sales : Formalized(s) =>
       /\ deal[contract[s].deal].stage = "won"
       /\ Cardinality({f \in Filed : folder[f].deal = contract[s].deal}) <= 1
  /\ stock = Quotas - Cardinality({s \in Sales : Formalized(s) /\ ~contract[s].lost})
  /\ Cardinality({f \in Filed : folder[f].code}) <= 1
  /\ \A s \in taken : Formalized(s)

(* However calls, sales and the desk interleave, each sale closes a deal of  *)
(* its own and, "Oportunidade anterior ganha (de outra venda) não é          *)
(* roubada": a sheet that led to a sale keeps its opportunity whatever sale  *)
(* comes later; an erased sheet takes no sale; and the sheet and the         *)
(* opportunity a sale is joined to are of its customer.                      *)
EachSaleClosesItsDeal ==
  [][/\ OneDealEach'
     /\ \A f \in Filed :
       /\ folder[f].deal # NoDeal /\ deal[folder[f].deal].stage = "won" =>
            folder'[f].deal = folder[f].deal
       /\ folder[f].erased => folder'[f].deal = folder[f].deal
       /\ folder'[f].deal # folder[f].deal =>
            \E s \in Sales : ~Formalized(s) /\ contract'[s] # NoSale
              /\ contract'[s].deal = folder'[f].deal
              /\ contract'[s].customer = folder'[f].customer
              /\ deal'[folder'[f].deal].customer = folder'[f].customer]_intakeVars
=============================================================================
