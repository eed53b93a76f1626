------------------------------ MODULE MCHouse ------------------------------
(***************************************************************************)
(* The sales room a couple visits, the commissions its sale earns, and     *)
(* what the owner of a contract has of it: the signature of its documents, *)
(* the points, the reservations.  A behaviour is one of the office it      *)
(* starts in; the others stand still in their first state.  What one does  *)
(* to another is an action of the other (SalesRoom!Erase,                  *)
(* PointsLedger!CancelStay).                                               *)
(***************************************************************************)
EXTENDS SalesRoom, Stays, PointsLedger, ESignature, Commissions

VARIABLE office

houseVars == <<roomVars, staysVars, pointsVars, signVars, feeVars, office>>

\* An office that stands still starts in one of its first states only.
HouseInit ==
  /\ office \in {"room", "stays", "points", "signature", "commissions"}
  /\ RoomInit /\ StaysInit /\ PointsInit /\ SignInit /\ FeesInit
  /\ office # "stays" => \A u \in Units : \A n \in Capacities : unit[u].capacity >= n
  /\ office # "signature" => agreement.status = "draft"
  /\ office # "commissions" => rated /\ ~released /\ payout = "entry_total"

HouseNext ==
  /\ UNCHANGED office
  /\ \/ office = "room" /\ RoomNext /\ UNCHANGED <<staysVars, pointsVars, signVars, feeVars>>
     \/ office = "stays" /\ StaysNext /\ UNCHANGED <<roomVars, pointsVars, signVars, feeVars>>
     \/ office = "points" /\ PointsNext /\ UNCHANGED <<roomVars, staysVars, signVars, feeVars>>
     \/ office = "signature" /\ SignNext /\ UNCHANGED <<roomVars, staysVars, pointsVars, feeVars>>
     \/ office = "commissions" /\ FeesNext /\ UNCHANGED <<roomVars, staysVars, pointsVars, signVars>>

\* PointsFairness, in the office it is of.
HouseFairness ==
  /\ WF_pointsVars(office = "points" /\ Sweep)
  /\ WF_pointsVars(office = "points" /\ AuditLapses(Job))

HouseSpec == HouseInit /\ [][HouseNext]_houseVars /\ HouseFairness

\* The type invariants of the five modules.
HouseTypeOK == RoomTypeOK /\ StaysTypeOK /\ PointsTypeOK /\ SignTypeOK /\ FeesTypeOK
=============================================================================
