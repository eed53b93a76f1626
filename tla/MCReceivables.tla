--------------------------- MODULE MCReceivables ---------------------------
(***************************************************************************)
(* One instance of Receivables in two bounds; the contract a behaviour     *)
(* starts with chooses one.  At the desk an installment of an active       *)
(* contract is renegotiated, adjusted, registered by hand and charged      *)
(* once, and the process may crash; no charge expires there and no call of *)
(* the recovery fails.  At the gateway it is charged twice, all events     *)
(* come and calls fail, from before the validation of the sale on, and the *)
(* amount stays.                                                           *)
(***************************************************************************)
EXTENDS Receivables

VARIABLE focus

AtDesk ==
  /\ issues' <= 1
  /\ \A h \in handling' : h.kind = "confirmed"
  /\ \A p \in Payments : intent'[p].attempts = 0

AtGateway ==
  /\ UNCHANGED <<reneg, registering, adjusting, restarts>>

FocusInit ==
  /\ Init
  /\ focus = IF cstatus = "active" THEN "desk" ELSE "gateway"

FocusNext ==
  /\ Next
  /\ UNCHANGED focus
  /\ focus = "desk" => AtDesk
  /\ focus = "gateway" => AtGateway

\* A bound cuts a failure of the recovery only, where its other steps are enabled or
\* wait for a lock that is released.
FocusSpec == FocusInit /\ [][FocusNext]_<<vars, focus>> /\ Fairness
=============================================================================
