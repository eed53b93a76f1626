------------------------------ MODULE MCSales ------------------------------
(***************************************************************************)
(* What the Sales Command sends, and what the CRM makes of it: the visits  *)
(* it closed, the sale it confirmed, and the contract of the sale until it *)
(* ends.  A behaviour is one of the office it starts in; the others stand  *)
(* still in a first state.                                                 *)
(***************************************************************************)
EXTENDS SaleFormalization, SaleIntake, AttendanceRegistry, TLC

VARIABLE office

salesVars == <<vars, intakeVars, attendanceVars, office>>

\* A parcel, a couple or a registry that stands still has one first state.
SalesInit ==
  /\ office \in {"formalization", "intake", "visits"}
  /\ Init /\ IntakeInit /\ AttendanceInit
  /\ office # "formalization" => holdFlag
  /\ office # "intake" => reuse /\ people = {} /\ \A s \in Sales : said[s].phone /\ said[s].code
  /\ office # "visits" => resortKey = NoProject /\ \A e \in Encounters : closedAt[e] = [r \in Revisions |-> 1]

SalesNext ==
  \/ office = "formalization" /\ Next /\ UNCHANGED <<intakeVars, attendanceVars, office>>
  \/ office = "intake" /\ IntakeNext /\ UNCHANGED <<vars, attendanceVars, office>>
  \/ office = "visits" /\ AttendanceNext /\ UNCHANGED <<vars, intakeVars, office>>

SalesSpec == SalesInit /\ [][SalesNext]_salesVars

\* The type invariants of the three modules.
SalesTypeOK == TypeOK /\ IntakeTypeOK /\ AttendanceTypeOK

\* Contracts differ in their ids only.
Symmetry == Permutations(Contracts)

\* Every sale carries the phone; none, the first, or both carry the code.
Carried ==
  {x \in [{1, 2} -> [phone : {TRUE}, code : BOOLEAN]] : x[2].code => x[1].code}

\* All encounters are of one couple; what closes later is not corrected to
\* have closed earlier.
OneCouple == [e \in Encounters |-> "couple"]
Corrected == {t \in [Encounters -> [Revisions -> 1..3]] : \A e \in Encounters : t[e][0] <= t[e][1]}
=============================================================================
