----------------------------- MODULE SalesRoom -----------------------------
(***************************************************************************)
(* The visit of a couple: the capture sheet, its way through the reception *)
(* and the sales room, and how the visit ends (a commercial outcome, or a  *)
(* visit without a tour).                                                  *)
(*                                                                         *)
(* Most operations read the sheet without a lock, decide, and write by an  *)
(* update that repeats a part of what was read: two steps.  recordNt reads *)
(* and writes under the lock of the sheet: one step.  A sheet sent by the  *)
(* device carries the number of its submission, which is resent until the  *)
(* device has the answer.                                                  *)
(***************************************************************************)
EXTENDS FiniteSets

CONSTANTS
  Couples,      \* capture sheets
  Hosts,        \* users of the reception and of the sales room
  Submissions,  \* clientRequestId of the device
  NoSheet

VARIABLES
  visit,   \* capture_records
  act,     \* what each host has read and is about to write (memory)
  filed,   \* audit row of create: submission to sheet
  sending  \* where the device is with a submission, and the sheet it was told

roomVars == <<visit, act, filed, sending>>

VisitStatuses == {"captured", "scheduled", "checked_in", "presented", "no_tour", "closed"}

\* presentationTransitions; no_tour is refused by updateStatus.
Allowed == [captured   |-> {"captured", "scheduled", "checked_in"},
            scheduled  |-> {"scheduled", "checked_in"},
            checked_in |-> {"checked_in", "presented"},
            presented  |-> {"presented", "closed"},
            no_tour    |-> {},
            closed     |-> {"closed"}]

Results == {"vendeu", "caiu_em_mesa"}

\* Motives of the list, and what a host says of a visit without a tour: a text,
\* or one of these.  noTourReason keeps the text or the label of the motive.
Motives == {"motive_1", "motive_2"}
Said == {"text"} \cup Motives

Visits == [status : VisitStatuses, table : BOOLEAN, started : BOOLEAN, ended : BOOLEAN,
           outcome : Results \cup {"none"}, nt : Motives \cup {"none"},
           reason : Said \cup {"none"}, erased : BOOLEAN]

ASSUME NoSheetIsNoSheet == NoSheet \notin Visits \cup Couples

Operations == {"status", "check_in", "assign", "start", "end", "no_tour", "outcome"}

NoAct == [op |-> "idle"]

Acts == {NoAct} \cup [op : Operations, on : Couples, seen : VisitStatuses,
                      arg : VisitStatuses \cup Results \cup Said \cup {"-"}]

RoomTypeOK ==
  /\ visit \in [Couples -> Visits \cup {NoSheet}]
  /\ act \in [Hosts -> Acts]
  /\ filed \in [Submissions -> Couples \cup {NoSheet}]
  /\ sending \in [Submissions -> [at : {"device", "server", "answered"}, told : SUBSET Couples]]

RoomInit ==
  /\ visit = [c \in Couples |-> NoSheet]
  /\ act = [h \in Hosts |-> NoAct]
  /\ filed = [q \in Submissions |-> NoSheet]
  /\ sending = [q \in Submissions |-> [at |-> "device", told |-> {}]]

-----------------------------------------------------------------------------
(* A sheet is created.                                                     *)

NewVisit(status) == [status |-> status, table |-> FALSE, started |-> FALSE, ended |-> FALSE,
                     outcome |-> "none", nt |-> "none", reason |-> "none", erased |-> FALSE]

\* The device sends, or sends again: no answer came.
Send(q) ==
  /\ sending[q].at # "answered"
  /\ sending' = [sending EXCEPT ![q].at = "server"]
  /\ UNCHANGED <<visit, act, filed>>

\* captures.create: the audit row with the submission and the sheet, in one
\* transaction; the appointment decides the first status.  The answer may be
\* lost.
Create(q, c, status) ==
  /\ sending[q].at = "server"
  /\ filed[q] = NoSheet
  /\ visit[c] = NoSheet
  /\ visit' = [visit EXCEPT ![c] = NewVisit(status)]
  /\ filed' = [filed EXCEPT ![q] = c]
  /\ UNCHANGED <<act, sending>>

\* The answer of create, or of the replay (found before, or by the duplicate
\* key); a call still on its way may arrive after it.
Answer(q) ==
  /\ sending[q].at = "server"
  /\ filed[q] # NoSheet
  /\ sending' = [sending EXCEPT ![q] = [at |-> "answered", told |-> @.told \cup {filed[q]}]]
  /\ UNCHANGED <<visit, act, filed>>

-----------------------------------------------------------------------------
(* The operations of the room.                                             *)

Exists(c) == visit[c] # NoSheet

\* assertReceptionAction, and the guards of updateStatus and of the outcome.
Admitted(v, op, arg) ==
  /\ ~v.erased
  /\ op \in {"check_in", "assign", "start", "end", "no_tour"} => v.status \notin {"no_tour", "closed"}
  /\ CASE op = "status"   -> arg \in Allowed[v.status]
       [] op = "check_in" -> arg = "-" /\ v.status \in {"captured", "scheduled"}
       [] op = "assign"   -> arg = "-" /\ ~(v.status = "presented" /\ v.ended)
       [] op = "start"    -> arg = "-" /\ v.status = "checked_in" /\ v.table
       [] op = "end"      -> arg = "-" /\ v.status = "presented" /\ v.started /\ ~v.ended
       [] op = "no_tour"  -> arg \in Said /\ v.status # "presented"
       [] op = "outcome"  -> arg \in Results /\ v.outcome = "none" /\ v.status \in {"presented", "closed"}

\* findCaptureOrThrow and the checks on what it read.
Read(h, c, op, arg) ==
  /\ act[h] = NoAct
  /\ Exists(c)
  /\ Admitted(visit[c], op, arg)
  /\ act' = [act EXCEPT ![h] = [op |-> op, on |-> c, seen |-> visit[c].status, arg |-> arg]]
  /\ UNCHANGED <<visit, filed, sending>>

\* Mutant: the update names the sheet and nothing of what was read.
HoldsOfSheetOnly(h) == ~visit[act[h].on].erased

\* What the WHERE of the update repeats: not erased, and the status that was
\* read, or, for an outcome, that there is none.
Holds(h) ==
  LET v == visit[act[h].on]
  IN  /\ ~v.erased
      /\ IF act[h].op = "outcome" THEN v.outcome = "none" ELSE v.status = act[h].seen

\* A visit without a tour: a motive of the list is kept with its label.
WithoutTour(v, reason) ==
  [v EXCEPT !.status = "no_tour", !.ended = TRUE, !.reason = reason,
            !.nt = IF reason \in Motives THEN reason ELSE @]

\* The columns each operation sets.  updateStatus writes the text it is given, or
\* none, as the reason of any status.
Written(v, op, arg, text) ==
  CASE op = "status"   -> [v EXCEPT !.status = arg, !.reason = text]
    [] op = "check_in" -> [v EXCEPT !.status = "checked_in"]
    [] op = "assign"   -> [v EXCEPT !.table = TRUE]
    [] op = "start"    -> [v EXCEPT !.status = "presented", !.started = TRUE, !.ended = FALSE]
    [] op = "end"      -> [v EXCEPT !.status = "closed", !.ended = TRUE]
    [] op = "no_tour"  -> WithoutTour(v, arg)
    [] op = "outcome"  -> [v EXCEPT !.outcome = arg]

\* The update; with no row, the host is told of the conflict.
Write(h, text) ==
  LET a == act[h]
  IN  /\ a # NoAct
      /\ visit' = IF Holds(h) THEN [visit EXCEPT ![a.on] = Written(@, a.op, a.arg, text)] ELSE visit
      /\ act' = [act EXCEPT ![h] = NoAct]
      /\ UNCHANGED <<filed, sending>>

\* Mutant: the status is not looked at.
RecordNtAnywhere(c, motive) ==
  /\ Exists(c)
  /\ ~visit[c].erased /\ visit[c].nt = "none"
  /\ visit' = [visit EXCEPT ![c] = WithoutTour(@, motive)]
  /\ UNCHANGED <<act, filed, sending>>

\* recordNt: the motive of a list, before the presentation.
RecordNt(c, motive) ==
  LET v == visit[c]
  IN  /\ Exists(c)
      /\ ~v.erased /\ v.nt = "none" /\ v.outcome = "none"
      /\ v.status \notin {"no_tour", "presented", "closed"}
      /\ visit' = [visit EXCEPT ![c] = WithoutTour(v, motive)]
      /\ UNCHANGED <<act, filed, sending>>

\* The titular asks for erasure, which a sheet marked VENDEU bars; the reason goes,
\* the motive of the list stays.
Erase(c) ==
  /\ Exists(c)
  /\ ~visit[c].erased /\ visit[c].outcome # "vendeu"
  /\ visit' = [visit EXCEPT ![c].erased = TRUE, ![c].reason = "none"]
  /\ UNCHANGED <<act, filed, sending>>

-----------------------------------------------------------------------------
RoomNext ==
  \/ \E q \in Submissions : Send(q) \/ Answer(q)
  \/ \E q \in Submissions, c \in Couples, status \in {"captured", "scheduled"} : Create(q, c, status)
  \/ \E h \in Hosts, c \in Couples, op \in Operations, arg \in VisitStatuses \cup Results \cup Said \cup {"-"} :
       Read(h, c, op, arg)
  \/ \E h \in Hosts, text \in {"none", "text"} : Write(h, text)
  \/ \E c \in Couples, motive \in Motives : RecordNt(c, motive)
  \/ \E c \in Couples : Erase(c)

RoomSpec == RoomInit /\ [][RoomNext]_roomVars

-----------------------------------------------------------------------------
(* What is checked.                                                        *)

\* A visit ends in one way: an outcome belongs to a couple that was in the
\* presentation, a motive of the list to one that never was and beside its own
\* label, and no visit without a tour is without a reason, until it is erased.  A
\* couple has one visit: a submission makes one sheet and is told of that one,
\* however often it is sent.
OneWayToEnd ==
  /\ \A c \in Couples : Exists(c) =>
       /\ visit[c].outcome # "none" => visit[c].status \in {"presented", "closed"}
       /\ visit[c].started => visit[c].status \in {"presented", "closed"}
       /\ visit[c].nt # "none" => visit[c].status = "no_tour"
       /\ visit[c].status = "no_tour" /\ ~visit[c].erased =>
            visit[c].reason \in IF visit[c].nt = "none" THEN {"text"} ELSE {visit[c].nt}
  /\ Cardinality({c \in Couples : Exists(c)}) = Cardinality({q \in Submissions : filed[q] # NoSheet})
  /\ \A q \in Submissions : sending[q].told \subseteq {filed[q]}

\* However two hosts interleave, whatever they had read: a visit ends in one way,
\* a recorded outcome stays, an ended visit does not return to the queue, one
\* without a tour keeps its motive and its reason until it is erased, and an
\* erased sheet does not change.
VisitEndsOnce ==
  [][/\ OneWayToEnd'
     /\ \A c \in Couples : Exists(c) =>
       /\ visit[c].outcome # "none" => visit'[c].outcome = visit[c].outcome
       /\ visit[c].status \in {"no_tour", "closed"} => visit'[c].status = visit[c].status
       /\ visit[c].status = "no_tour" => /\ visit'[c].nt = visit[c].nt
                                         /\ visit'[c].erased \/ visit'[c].reason = visit[c].reason
       /\ visit[c].erased => visit'[c] = visit[c]]_roomVars
=============================================================================
