----------------------------- MODULE MCCouples -----------------------------
(***************************************************************************)
(* What happens to a couple that did not buy: the projection of who is     *)
(* eligible, the delivery to Recovery, and the erasure of its data.  A     *)
(* behaviour is one of the office it starts in; the others stand still in  *)
(* their first state.  The imports have an office without the feed, where  *)
(* the request of the titular erases a customer in the step the runner of  *)
(* the feed has for it.  What one does to another is an action of the      *)
(* other (NonBuyerDelivery!Reevaluate, Erasure!MarkSold), so none waits    *)
(* for another.                                                            *)
(***************************************************************************)
EXTENDS NonBuyerEligibility, NonBuyerDelivery, Erasure

VARIABLE office

couplesVars == <<eligibilityVars, vars, erasureVars, office>>

\* An erasure that stands still starts in one of its first states only.
CouplesInit ==
  /\ office \in {"eligibility", "delivery", "erasure", "imports"}
  /\ EligibilityInit /\ Init /\ ErasureInit
  /\ office # "erasure" => \A o \in Orders : order[o].mode = "full"

CouplesNext ==
  \/ office = "eligibility" /\ EligibilityNext /\ UNCHANGED <<vars, erasureVars, office>>
  \/ office = "delivery" /\ Next /\ UNCHANGED <<eligibilityVars, erasureVars, office>>
  \/ office = "erasure" /\ (DeskStep \/ FeedStep) /\ UNCHANGED <<eligibilityVars, vars, office>>
  \/ office = "imports" /\ (DeskStep \/ ImportStep) /\ UNCHANGED <<eligibilityVars, vars, office>>

\* The fairness of each module, in the office it is of.
CouplesFairness ==
  /\ \A t \in Txs : WF_eligibilityVars(office = "eligibility" /\ Proceed(t))
  /\ \A c \in Cards : SF_eligibilityVars(office = "eligibility" /\ ScanCapture(c))
  /\ \A w \in Workers : WF_vars(office = "delivery" /\ Work(w))
  /\ \A c \in Captures, s \in Seqs : WF_vars(office = "delivery" /\ Elapse(c, s))
  /\ \A r \in Runners : WF_erasureVars(office = "erasure" /\ RunStep(r))
  /\ \A o \in Orders : WF_erasureVars(office = "erasure" /\ ClaimLapses(o) /\ mishaps' = mishaps)

CouplesSpec == CouplesInit /\ [][CouplesNext]_couplesVars /\ CouplesFairness

\* The type invariants of the three modules.
CouplesTypeOK == EligibilityTypeOK /\ TypeOK /\ ErasureTypeOK
=============================================================================
