------------------------- MODULE AttendanceRegistry -------------------------
(***************************************************************************)
(* The receiver of the visits the Sales Command closed: one event for each *)
(* revision of an encounter, kept in a history, and the registry with the  *)
(* last visit of each couple.  The Sales Command sends an event again      *)
(* until it has an answer, and events come in any order.                   *)
(*                                                                         *)
(* A call looks for the event without a lock and then writes everything in *)
(* one transaction.  The transaction locks the row of the resort before it *)
(* reads anything else, so transactions of one resort follow one another.  *)
(* The project stands for the content of an event: it is a part of the     *)
(* hash, and decides whether the resort takes the event.  All projects     *)
(* bear the name of the one resort.  Names, phone and outcome follow the   *)
(* last visit and are left out.                                            *)
(***************************************************************************)
EXTENDS Integers, FiniteSets

CONSTANTS
  Parties,       \* couples of the Sales Command
  Encounters,    \* encounterId
  Revisions,
  PartyOf,       \* the couple of an encounter
  ClosingTimes,  \* what closedAt may be, by encounter and revision
  Projects,
  Receivers,     \* calls of the route that run at the same time
  NoCouple,
  NoProject

ASSUME AttendanceAssumption ==
  /\ Encounters \subseteq Nat /\ Revisions \subseteq Nat
  /\ PartyOf \in [Encounters -> Parties]
  /\ ClosingTimes \subseteq [Encounters -> [Revisions -> Nat]]
  /\ NoProject \notin Projects

VARIABLES
  closedAt,  \* closedAt of each encounter and revision, as the Sales Command sends it
  resortKey, \* resorts.externalKey
  history,   \* attendance_records
  registry,  \* couple_registry
  route,      \* what each call is about to write
  accepted   \* events answered with 200 or 201

attendanceVars == <<closedAt, resortKey, history, registry, route, accepted>>

Visited == [encounter : Encounters, revision : Revisions, project : Projects]
LastVisit == [encounter : Encounters, revision : Revisions, count : Nat]
ASSUME NoCoupleIsNoVisit == NoCouple \notin LastVisit

NoEvent == [at |-> "idle"]
RouteStates == {NoEvent} \cup [at : {"commit"}, event : Visited]

AttendanceTypeOK ==
  /\ closedAt \in ClosingTimes
  /\ resortKey \in Projects \cup {NoProject}
  /\ history \subseteq Visited
  /\ \A c \in Parties : registry[c] = NoCouple \/ registry[c] \in LastVisit
  /\ DOMAIN registry = Parties
  /\ route \in [Receivers -> RouteStates]
  /\ accepted \subseteq Visited

AttendanceInit ==
  /\ closedAt \in ClosingTimes
  /\ resortKey \in Projects \cup {NoProject}
  /\ history = {}
  /\ registry = [c \in Parties |-> NoCouple]
  /\ route = [r \in Receivers |-> NoEvent]
  /\ accepted = {}

-----------------------------------------------------------------------------
(* eventId is derived from the encounter and the revision. *)
SameId(d, e) == d.encounter = e.encounter /\ d.revision = e.revision
Known(e) == \E d \in history : SameId(d, e)

(* settle: a replay with the same content is accepted, another is a conflict. *)
Replay(e) == accepted' = IF e \in history THEN accepted \cup {e} ELSE accepted

(* The look before the transaction. *)
LookUp(r, e) ==
  /\ route[r] = NoEvent
  /\ IF Known(e) THEN Replay(e) /\ UNCHANGED route
     ELSE route' = [route EXCEPT ![r] = [at |-> "commit", event |-> e]] /\ UNCHANGED accepted
  /\ UNCHANGED <<closedAt, resortKey, history, registry>>

(* resolveResortForProject: by key, or by name when the resort has no key. *)
Mapped(e) == resortKey \in {e.project, NoProject}

(* Of the couple, in the history. *)
VisitsOf(c) == {d \in history : PartyOf[d.encounter] = c}

NewerByTime(e, last) ==  \* mutant: a revision of the same encounter is compared by its time
  closedAt[e.encounter][e.revision] > closedAt[last.encounter][last.revision]

Newer(e, last) ==
  LET mine == closedAt[e.encounter][e.revision]
      its == closedAt[last.encounter][last.revision]
  IN  IF e.encounter = last.encounter THEN e.revision > last.revision
      ELSE mine > its \/ (mine = its /\ e.encounter > last.encounter)

Counted(c, e) ==
  IF \E d \in VisitsOf(c) : d.encounter = e.encounter THEN registry[c].count ELSE registry[c].count + 1

Updated(c, e) ==
  IF registry[c] = NoCouple
  THEN [encounter |-> e.encounter, revision |-> e.revision, count |-> 1]
  ELSE LET last == IF Newer(e, registry[c]) THEN e ELSE registry[c]
       IN  [encounter |-> last.encounter, revision |-> last.revision, count |-> Counted(c, e)]

(* The transaction: the project, the couple, the history. *)
Record(r) ==
  LET e == route[r].event
      c == PartyOf[e.encounter]
  IN  /\ route[r] # NoEvent
      /\ Mapped(e) /\ ~Known(e)
      /\ resortKey' = e.project
      /\ registry' = [registry EXCEPT ![c] = Updated(c, e)]
      /\ history' = history \cup {e}
      /\ accepted' = accepted \cup {e}
      /\ route' = [route EXCEPT ![r] = NoEvent]
      /\ UNCHANGED closedAt

(* Another call wrote the event first: the duplicate key rolls everything   *)
(* back, the key of the resort too, and the answer is the one of a replay.  *)
RecordTwice(r) ==
  /\ route[r] # NoEvent
  /\ Mapped(route[r].event) /\ Known(route[r].event)
  /\ Replay(route[r].event)
  /\ route' = [route EXCEPT ![r] = NoEvent]
  /\ UNCHANGED <<closedAt, resortKey, history, registry>>

(* The resort is of another project (422), or the transaction fails (503). *)
RefuseEvent(r) ==
  /\ route[r] # NoEvent
  /\ route' = [route EXCEPT ![r] = NoEvent]
  /\ UNCHANGED <<closedAt, resortKey, history, registry, accepted>>

AttendanceNext ==
  \E r \in Receivers :
    \/ \E e \in Visited : LookUp(r, e)
    \/ Record(r)
    \/ RecordTwice(r)
    \/ RefuseEvent(r)

AttendanceSpec == AttendanceInit /\ [][AttendanceNext]_attendanceVars

-----------------------------------------------------------------------------
(* What is checked. *)

(* However often and in whatever order events come: an event is in the       *)
(* history once, with the content that was accepted and under the project of *)
(* the resort; a couple is registered with its first visit, and              *)
(* encountersCount is the number of its encounters.                          *)
HistoryIsCounted ==
  /\ accepted \subseteq history
  /\ \A d, e \in history : SameId(d, e) => d = e
  /\ \A e \in history : e.project = resortKey
  /\ \A c \in Parties :
       IF VisitsOf(c) = {} THEN registry[c] = NoCouple
       ELSE registry[c].count = Cardinality({d.encounter : d \in VisitsOf(c)})

(* The greatest revision that came of each encounter. *)
Final(c) == {d \in VisitsOf(c) : \A e \in VisitsOf(c) :
               e.encounter = d.encounter => e.revision <= d.revision}

(* "dentro do mesmo atendimento vale a maior revision; entre atendimentos    *)
(* vale o de closedAt mais recente", in any order of arrival: the registry   *)
(* shows the last visit of the couple as it was last corrected, whatever     *)
(* came late.                                                                *)
LastIsNewest ==
  \A c \in Parties : VisitsOf(c) # {} =>
    /\ \E d \in Final(c) : d.encounter = registry[c].encounter /\ d.revision = registry[c].revision
    /\ \A d \in Final(c) : ~Newer(d, registry[c])
=============================================================================
