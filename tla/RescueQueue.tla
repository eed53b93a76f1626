----------------------------- MODULE RescueQueue -----------------------------
(***************************************************************************)
(* The queue of rescue: the sweep opens a case for a contract in arrears,  *)
(* follows it to the end of its time, and writes down what the automatic   *)
(* cancellation would do; people call the associate, or dismiss the case.  *)
(* Nothing here changes a contract (shadow mode).                          *)
(*                                                                         *)
(* The sweep takes one contract per transaction.  It locks the contract,   *)
(* and the next read, of the installments, opens the snapshot every plain  *)
(* read of the transaction sees; the case is locked after that, and read   *)
(* as it is.  Who dismisses a case or records a call locks the case only.  *)
(***************************************************************************)
EXTENDS Integers, SequencesExt

CONSTANTS
  Debtors,       \* contracts
  Dues,          \* days their installments are due
  LastDay,       \* bound on the days
  WindowDays,    \* rescueWindowMonths, in days
  LeadDays,      \* rescueAlertLeadDays
  ReopenDays,    \* rescueReopenAfterDays
  PromiseDays,   \* autoCancelPromiseDays
  MaxCases,      \* bound on rows of contract_rescue_cases
  MaxMoves,      \* bound on calls, dismissals, changes of the settings and of what bars
  MaxHalts,      \* bound on contracts that fail and on restarts
  Nobodys        \* no contract

ASSUME DaysOfRescue ==
  /\ {LastDay, WindowDays, LeadDays, ReopenDays, PromiseDays} \cup Dues \subseteq Nat
  /\ LastDay > 0 /\ MaxCases \in Nat

VARIABLES
  today,
  debtor,     \* contracts: [status, unpaid (due days), barred]
  rescue,     \* contract_rescue_cases, by id
  heard,      \* events of each case
  autoCancel, \* autoCancelEnabled of the last version of the settings
  sweep,      \* the round of the job (memory)
  moves, halts

queueVars == <<today, debtor, rescue, heard, autoCancel, sweep, moves, halts>>

Days == 1 .. LastDay
OpenStatuses == {"open", "in_contact", "due_for_cancellation", "manual_review"}
Ids == 1 .. MaxCases
Resting == [on |-> FALSE, todo |-> {}, now |-> 0, auto |-> FALSE, at |-> Nobodys,
            overdue |-> {}, cases |-> <<>>, barred |-> FALSE]

QueueInit ==
  /\ today = 1
  /\ debtor = [c \in Debtors |-> [status |-> "active", unpaid |-> Dues, barred |-> FALSE]]
  /\ rescue = <<>> /\ heard = [k \in Ids |-> {}]
  /\ autoCancel \in BOOLEAN
  /\ sweep = Resting
  /\ moves = 0 /\ halts = 0

LiveOf(rows, c) == {k \in DOMAIN rows : rows[k].of = c /\ rows[k].status \in OpenStatuses}

\* overdueUnpaid
OverdueAt(c, day) == {d \in debtor[c].unpaid : d < day}

-----------------------------------------------------------------------------
(* The round of the job *)

\* Mutant: the round looks for contracts to open a case for, not for open cases.
StartWithoutOpen ==
  /\ ~sweep.on
  /\ sweep' = [Resting EXCEPT
       !.on = TRUE, !.now = today, !.auto = autoCancel,
       !.todo = {c \in Debtors : /\ debtor[c].status = "active" /\ OverdueAt(c, today) # {}
                                 /\ LiveOf(rescue, c) = {}}]
  /\ UNCHANGED <<today, debtor, rescue, heard, autoCancel, moves, halts>>

\* runRescueSweep: now, the settings, and the contracts to look at.
StartSweep ==
  /\ ~sweep.on
  /\ sweep' = [Resting EXCEPT
       !.on = TRUE, !.now = today, !.auto = autoCancel,
       !.todo = {c \in Debtors : \/ debtor[c].status = "active" /\ OverdueAt(c, today) # {}
                                 \/ LiveOf(rescue, c) # {}}]
  /\ UNCHANGED <<today, debtor, rescue, heard, autoCancel, moves, halts>>

\* sweepContract: the contract is locked and the snapshot opened.
LockContract(c) ==
  /\ sweep.on /\ sweep.at = Nobodys /\ c \in sweep.todo
  /\ sweep' = [sweep EXCEPT
       !.at = c, !.cases = rescue, !.barred = debtor[c].barred,
       !.overdue = IF debtor[c].status = "active" THEN OverdueAt(c, sweep.now) ELSE {}]
  /\ UNCHANGED <<today, debtor, rescue, heard, autoCancel, moves, halts>>

\* The case dismissed last that still keeps the contract from a new one, in the snapshot.
Suppressing(c) ==
  {k \in DOMAIN sweep.cases : /\ sweep.cases[k].of = c /\ sweep.cases[k].status = "dismissed"
                              /\ sweep.cases[k].until > sweep.now}

\* No dismissal keeps a case from being opened, or an installment lapsed since.
MayOpen(c) ==
  \/ Suppressing(c) = {}
  \/ LET k == CHOOSE k \in Suppressing(c) : \A h \in Suppressing(c) : h <= k
     IN  \E d \in sweep.overdue : d > sweep.cases[k].closed

FirstOf(S) == CHOOSE d \in S : \A e \in S : d <= e

NewCase(c) ==
  [of |-> c, status |-> "open", due |-> FirstOf(sweep.overdue) + WindowDays,
   closed |-> 0, until |-> 0, promised |-> 0, review |-> FALSE]

Ended(k, how, day) == [rescue EXCEPT ![k].status = how, ![k].closed = day]
Hear(k, what) == [heard EXCEPT ![k] = @ \cup what]

\* The promise as the snapshot knows it.
RecentPromise(k) ==
  /\ PromiseDays > 0 /\ k \in DOMAIN sweep.cases
  /\ sweep.cases[k].promised > 0 /\ sweep.cases[k].promised > sweep.now - PromiseDays

\* shadowDecide, after the events told so far.
ShadowDecide(k, told) ==
  IF sweep.barred \/ RecentPromise(k)
  THEN /\ rescue' = [rescue EXCEPT ![k].status = "manual_review", ![k].review = TRUE]
       /\ heard' = Hear(k, told)
  ELSE /\ rescue' = [rescue EXCEPT ![k].status = "due_for_cancellation"]
       /\ heard' = Hear(k, told \cup {"would_run"})

\* Mutant: what was already decided is not looked for.
DecidesAgain(k) == sweep.auto

\* A case already due when the rehearsal was turned on is decided once.
DecidesLate(k) == sweep.auto /\ "would_run" \notin heard[k]

FollowCase(c, k) ==
  \/ /\ debtor[c].status = "cancelled"
     /\ rescue' = Ended(k, "cancelled", sweep.now) /\ heard' = Hear(k, {"resolved"})
  \/ /\ debtor[c].status # "cancelled" /\ sweep.overdue = {}
     /\ rescue' = Ended(k, "rescued", sweep.now) /\ heard' = Hear(k, {"resolved"})
  \/ /\ sweep.overdue # {}
     /\ \/ /\ rescue[k].status \in {"open", "in_contact"} /\ sweep.now < rescue[k].due
           /\ heard' = Hear(k, IF sweep.now >= rescue[k].due - LeadDays THEN {"due_soon"} ELSE {})
           /\ UNCHANGED rescue
        \/ /\ rescue[k].status \in {"open", "in_contact"} /\ sweep.now >= rescue[k].due
           /\ IF sweep.auto THEN ShadowDecide(k, {})
              ELSE rescue' = [rescue EXCEPT ![k].status = "due_for_cancellation"] /\ UNCHANGED heard
        \/ /\ rescue[k].status = "due_for_cancellation"
           /\ IF DecidesLate(k) /\ sweep.now >= rescue[k].due THEN ShadowDecide(k, {})
              ELSE UNCHANGED <<rescue, heard>>
        \/ rescue[k].status = "manual_review" /\ UNCHANGED <<rescue, heard>>

\* The rest of sweepContract: the case as it is now, the other rows as the snapshot has them.
SweepContract(c) ==
  /\ sweep.on /\ sweep.at = c
  /\ \/ \E k \in LiveOf(rescue, c) : FollowCase(c, k)
     \/ /\ LiveOf(rescue, c) = {}
        /\ IF sweep.overdue # {} /\ MayOpen(c)
           THEN /\ Len(rescue) < MaxCases
                /\ rescue' = Append(rescue, NewCase(c))
                /\ heard' = Hear(Len(rescue) + 1, {"opened"})
           ELSE UNCHANGED <<rescue, heard>>
  /\ sweep' = [sweep EXCEPT !.todo = @ \ {c}, !.at = Nobodys, !.cases = <<>>, !.overdue = {}, !.barred = FALSE]
  /\ UNCHANGED <<today, debtor, autoCancel, moves, halts>>

\* An error in one contract rolls it back and goes on to the next.
FailContract(c) ==
  /\ sweep.at = c /\ halts < MaxHalts
  /\ halts' = halts + 1
  /\ sweep' = [sweep EXCEPT !.todo = @ \ {c}, !.at = Nobodys, !.cases = <<>>, !.overdue = {}, !.barred = FALSE]
  /\ UNCHANGED <<today, debtor, rescue, heard, autoCancel, moves>>

EndSweep ==
  /\ sweep.on /\ sweep.todo = {} /\ sweep.at = Nobodys
  /\ sweep' = Resting
  /\ UNCHANGED <<today, debtor, rescue, heard, autoCancel, moves, halts>>

\* The process stops: the transaction of the round is rolled back.
StopSweep ==
  /\ sweep.on /\ halts < MaxHalts
  /\ halts' = halts + 1 /\ sweep' = Resting
  /\ UNCHANGED <<today, debtor, rescue, heard, autoCancel, moves>>

-----------------------------------------------------------------------------
(* People, and what happens to the contract *)

Move == moves < MaxMoves /\ moves' = moves + 1

\* recordRescueAttempt
RecordAttempt(k, promise) ==
  /\ rescue[k].status \in OpenStatuses /\ Move
  /\ rescue' = [rescue EXCEPT ![k].status = IF @ = "open" THEN "in_contact" ELSE @,
                              ![k].promised = IF promise THEN today ELSE @]
  /\ UNCHANGED <<today, debtor, heard, autoCancel, sweep, halts>>

\* dismissRescueCase, by the settings of now.
Dismiss(k) ==
  /\ rescue[k].status \in OpenStatuses /\ Move
  /\ rescue' = [Ended(k, "dismissed", today) EXCEPT ![k].until = today + ReopenDays]
  /\ heard' = Hear(k, {"resolved"})
  /\ UNCHANGED <<today, debtor, autoCancel, sweep, halts>>

\* saveRetentionSettings
SwitchAuto ==
  /\ Move /\ autoCancel' = ~autoCancel
  /\ UNCHANGED <<today, debtor, rescue, heard, sweep, halts>>

\* A commission is paid, an agreement drawn up or withdrawn: without the contract's lock.
ChangeBars(c) ==
  /\ Move /\ debtor' = [debtor EXCEPT ![c].barred = ~@]
  /\ UNCHANGED <<today, rescue, heard, autoCancel, sweep, halts>>

\* Whoever pays an installment or ends the contract locks it first.
Settle(c) ==
  /\ sweep.at # c
  /\ \/ \E d \in debtor[c].unpaid : debtor' = [debtor EXCEPT ![c].unpaid = @ \ {d}]
     \/ /\ debtor[c].status = "active"
        /\ \E to \in {"cancelled", "closed"} : debtor' = [debtor EXCEPT ![c].status = to]
  /\ UNCHANGED <<today, rescue, heard, autoCancel, sweep, moves, halts>>

NextDay ==
  /\ today < LastDay /\ today' = today + 1
  /\ UNCHANGED <<debtor, rescue, heard, autoCancel, sweep, moves, halts>>

QueueNext ==
  \/ StartSweep \/ EndSweep \/ StopSweep
  \/ \E c \in Debtors : LockContract(c) \/ SweepContract(c) \/ FailContract(c)
  \/ \E k \in DOMAIN rescue : (\E promise \in BOOLEAN : RecordAttempt(k, promise)) \/ Dismiss(k)
  \/ SwitchAuto \/ NextDay
  \/ \E c \in Debtors : ChangeBars(c) \/ Settle(c)

\* The job runs when the process starts and every half hour, and a round goes on to
\* its end.
Round == StartSweep \/ EndSweep \/ \E c \in Debtors : LockContract(c) \/ SweepContract(c)
QueueFairness == WF_queueVars(Round)

QueueSpec == QueueInit /\ [][QueueNext]_queueVars /\ QueueFairness

-----------------------------------------------------------------------------
(* Properties *)

\* Every variable keeps to its values.
QueueTypeOK ==
  /\ today \in Days /\ autoCancel \in BOOLEAN
  /\ debtor \in [Debtors -> [status : {"active", "cancelled", "closed"}, unpaid : SUBSET Dues, barred : BOOLEAN]]
  /\ \A k \in DOMAIN rescue : /\ rescue[k].of \in Debtors
                              /\ rescue[k].status \in OpenStatuses \cup {"rescued", "cancelled", "dismissed"}
                              /\ rescue[k].promised \in 0 .. LastDay
  /\ heard \in [Ids -> SUBSET {"opened", "due_soon", "would_run", "resolved"}]
  /\ sweep.todo \subseteq Debtors /\ sweep.at \in Debtors \cup {Nobodys}

\* However rounds, calls, dismissals, settings and days cross: a contract has one
\* case at a time; what is written of a case is either that it would have been
\* cancelled or that a person decides, never both; a case has ended when and only
\* when that was told; and an ended case does not change again.
CaseIsDecidedOnce ==
  [][/\ \A c \in Debtors : \A k, h \in LiveOf(rescue', c) : k = h
     /\ \A k \in DOMAIN rescue' : /\ ~(rescue'[k].review /\ "would_run" \in heard'[k])
                                  /\ ("resolved" \in heard'[k]) = (rescue'[k].status \notin OpenStatuses)
     /\ \A k \in DOMAIN rescue : rescue[k].status \notin OpenStatuses => rescue'[k] = rescue[k]]_queueVars

\* A contract in arrears has a case, unless one was dismissed; another has none.
InArrears(c) == debtor[c].status = "active" /\ OverdueAt(c, today) # {}
Dismissed(c) == \E k \in DOMAIN rescue : rescue[k].of = c /\ rescue[k].status = "dismissed"
InStep(c) == IF LiveOf(rescue, c) = {} THEN InArrears(c) => Dismissed(c) ELSE InArrears(c)

\* The queue follows the debt, although contracts fail in a round and the process
\* stops: again and again the case of a contract that was paid up, cancelled or closed
\* has ended, and a contract in arrears nobody dismissed has a case (runRescueSweep).
QueueFollowsTheDebt == \A c \in Debtors : []<>InStep(c)
=============================================================================
