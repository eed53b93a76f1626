---------------------------- MODULE SalesProofs -----------------------------
(***************************************************************************)
(* What the Sales Command sends, for any numbers.                          *)
(*                                                                         *)
(* The registry of visits, for any couples, encounters, revisions,         *)
(* projects and receivers.  LastIsNewest needs that corrections do not     *)
(* move the end of an encounter back (without it the code does not keep    *)
(* it).                                                                    *)
(*                                                                         *)
(* The sales it confirms, for any sales, replays, sheets and edits beside  *)
(* them: rows are numbered as they come, so an opportunity nobody has yet  *)
(* is new to every sheet and every sale (FoldersOK, DealsOK), and the      *)
(* stock is what the sales that kept their quota leave of it (StockOK).    *)
(***************************************************************************)
EXTENDS MCSales, SaleFormalizationProofs, FiniteSetTheorems, TLAPS

(* The registry of visits.                                                  *)

(* A later revision never has an earlier end. *)
CorrectionsMoveForward ==
  \A t \in ClosingTimes, e \in Encounters, r, s \in Revisions : r <= s => t[e][r] <= t[e][s]

(* A couple is registered exactly when it has a visit; what is registered   *)
(* is one of its visits.                                                    *)
Registered ==
  \A c \in Parties :
    /\ registry[c] = NoCouple <=> VisitsOf(c) = {}
    /\ registry[c] # NoCouple =>
         \E d \in VisitsOf(c) : d.encounter = registry[c].encounter /\ d.revision = registry[c].revision

EncountersOf(c) == {d.encounter : d \in VisitsOf(c)}

(* What is sent again is counted once: the inductive form of                *)
(* HistoryIsCounted.                                                        *)
Numbered ==
  \A c \in Parties :
    /\ IsFiniteSet(EncountersOf(c))
    /\ registry[c] # NoCouple => registry[c].count = Cardinality(EncountersOf(c))

HistoryShape ==
  /\ accepted \subseteq history
  /\ \A d, e \in history : SameId(d, e) => d = e
  /\ \A e \in history : e.project = resortKey

RegistryInv == AttendanceTypeOK /\ HistoryShape /\ Registered /\ Numbered

(* No visit of the couple is newer than the one registered. *)
NothingNewer ==
  \A c \in Parties : registry[c] # NoCouple => \A d \in VisitsOf(c) : ~Newer(d, registry[c])

-----------------------------------------------------------------------------
(* Types, and what an event that is about to be written looks like. *)

(* An event that is about to be written is a visit of a couple.             *)
LEMMA PendingEvent ==
  ASSUME AttendanceTypeOK, NEW r \in Receivers, route[r] # NoEvent
  PROVE  /\ route[r].event \in Visited
         /\ route[r].event.encounter \in Encounters
         /\ route[r].event.revision \in Revisions
         /\ route[r].event.project \in Projects
         /\ PartyOf[route[r].event.encounter] \in Parties
BY AttendanceAssumption DEF AttendanceTypeOK, RouteStates, Visited

(* What Record writes of a couple is a last visit.                          *)
LEMMA UpdatedType ==
  ASSUME AttendanceTypeOK, NEW c \in Parties, NEW e \in Visited
  PROVE  Updated(c, e) \in LastVisit
<1>1. CASE registry[c] = NoCouple
  BY <1>1 DEF Updated, Visited, LastVisit
<1>2. CASE registry[c] # NoCouple
  <2>1. registry[c] \in LastVisit
    BY <1>2 DEF AttendanceTypeOK
  <2>2. Counted(c, e) \in Nat
    BY <2>1 DEF Counted, LastVisit
  <2> QED
    BY <1>2, <2>1, <2>2 DEF Updated, Visited, LastVisit
<1> QED
  BY <1>1, <1>2

LEMMA RegistryTypesKept ==
  /\ AttendanceInit => AttendanceTypeOK
  /\ AttendanceTypeOK /\ [AttendanceNext]_attendanceVars => AttendanceTypeOK'
<1>1. AttendanceInit => AttendanceTypeOK
  BY DEF AttendanceInit, AttendanceTypeOK, RouteStates
<1>2. AttendanceTypeOK /\ [AttendanceNext]_attendanceVars => AttendanceTypeOK'
  <2> SUFFICES ASSUME AttendanceTypeOK, [AttendanceNext]_attendanceVars
               PROVE  AttendanceTypeOK'
    OBVIOUS
  <2>1. ASSUME NEW r \in Receivers, NEW e \in Visited, LookUp(r, e)
        PROVE  AttendanceTypeOK'
    BY <2>1 DEF LookUp, Replay, Known, AttendanceTypeOK, RouteStates, Visited
  <2>2. ASSUME NEW r \in Receivers, Record(r)
        PROVE  AttendanceTypeOK'
    <3> DEFINE e == route[r].event
               c == PartyOf[e.encounter]
    <3>1. e \in Visited /\ c \in Parties /\ e.project \in Projects
      BY <2>2, PendingEvent DEF Record
    <3>2. Updated(c, e) \in LastVisit
      BY <3>1, UpdatedType
    <3>3. /\ resortKey' = e.project
          /\ registry' = [registry EXCEPT ![c] = Updated(c, e)]
          /\ history' = history \cup {e} /\ accepted' = accepted \cup {e}
          /\ route' = [route EXCEPT ![r] = NoEvent] /\ closedAt' = closedAt
      BY <2>2 DEF Record
    <3> QED
      BY <3>1, <3>2, <3>3 DEF AttendanceTypeOK, RouteStates
  <2>3. ASSUME NEW r \in Receivers, RecordTwice(r)
        PROVE  AttendanceTypeOK'
    BY <2>3 DEF RecordTwice, Replay, AttendanceTypeOK, RouteStates, Visited
  <2>4. ASSUME NEW r \in Receivers, RefuseEvent(r)
        PROVE  AttendanceTypeOK'
    BY <2>4 DEF RefuseEvent, AttendanceTypeOK, RouteStates
  <2>5. CASE UNCHANGED attendanceVars
    BY <2>5 DEF attendanceVars, AttendanceTypeOK, RouteStates
  <2> QED
    BY <2>1, <2>2, <2>3, <2>4, <2>5 DEF AttendanceNext
<1> QED
  BY <1>1, <1>2

(* Every reachable state is well typed. *)
THEOREM AttendanceTypeCorrect == AttendanceSpec => []AttendanceTypeOK
  BY RegistryTypesKept, PTL DEF AttendanceSpec

-----------------------------------------------------------------------------
(* What each step does to the history and the registry. *)

(* Only Record writes; every other step leaves history and registry.        *)
LEMMA OnlyRecordWrites ==
  ASSUME AttendanceTypeOK, [AttendanceNext]_attendanceVars,
         ~(\E r \in Receivers : Record(r))
  PROVE  /\ history' = history /\ registry' = registry /\ closedAt' = closedAt
         /\ resortKey' = resortKey
         /\ accepted' \subseteq accepted \cup history
BY DEF AttendanceNext, attendanceVars, LookUp, RecordTwice, RefuseEvent, Replay

(* Record in the terms of the event it writes. *)
LEMMA RecordWrites ==
  ASSUME AttendanceTypeOK, NEW r \in Receivers, Record(r)
  PROVE  \E e \in Visited, c \in Parties :
           /\ c = PartyOf[e.encounter]
           /\ Mapped(e) /\ ~Known(e)
           /\ resortKey' = e.project
           /\ registry' = [registry EXCEPT ![c] = Updated(c, e)]
           /\ history' = history \cup {e}
           /\ accepted' = accepted \cup {e}
           /\ closedAt' = closedAt
BY PendingEvent DEF Record

(* The visits of the couple of an event that is written, and of the others. *)
LEMMA VisitsGrow ==
  ASSUME NEW e \in Visited, NEW c \in Parties, c = PartyOf[e.encounter],
         history' = history \cup {e}, NEW x \in Parties
  PROVE  VisitsOf(x)' = IF x = c THEN VisitsOf(x) \cup {e} ELSE VisitsOf(x)
BY DEF VisitsOf

(* An event nobody knew, of the mapped project, keeps the history free of   *)
(* doubles and of other projects.                                           *)
LEMMA HistoryKept ==
  ASSUME RegistryInv, AttendanceTypeOK',
         NEW e \in Visited, NEW c \in Parties, c = PartyOf[e.encounter],
         Mapped(e), ~Known(e), resortKey' = e.project,
         history' = history \cup {e}, accepted' = accepted \cup {e}
  PROVE  HistoryShape'
<1>1. \A d \in history : d.project = resortKey
  BY DEF RegistryInv, HistoryShape
<1>2. \A d \in history : d.project \in Projects
  BY DEF RegistryInv, AttendanceTypeOK, Visited
<1>3. \A d \in history : d.project = e.project
  BY <1>1, <1>2, AttendanceAssumption DEF Mapped
<1>4. \A d \in history : ~SameId(d, e) /\ ~SameId(e, d)
  BY DEF Known, SameId
<1> QED
  BY <1>3, <1>4 DEF RegistryInv, HistoryShape, SameId

(* After Record the couple is registered with one of its visits.            *)
LEMMA RegisteredKept ==
  ASSUME RegistryInv,
         NEW e \in Visited, NEW c \in Parties, c = PartyOf[e.encounter],
         registry' = [registry EXCEPT ![c] = Updated(c, e)],
         history' = history \cup {e}
  PROVE  Registered'
<1> SUFFICES ASSUME NEW x \in Parties
             PROVE  /\ registry'[x] = NoCouple <=> VisitsOf(x)' = {}
                    /\ registry'[x] # NoCouple =>
                         \E d \in VisitsOf(x)' :
                           d.encounter = registry'[x].encounter /\ d.revision = registry'[x].revision
  BY DEF Registered
<1>1. VisitsOf(x)' = IF x = c THEN VisitsOf(x) \cup {e} ELSE VisitsOf(x)
  BY VisitsGrow
<1>2. CASE x # c
  <2>1. registry'[x] = registry[x]
    BY <1>2 DEF RegistryInv, AttendanceTypeOK
  <2> QED
    BY <1>1, <1>2, <2>1 DEF RegistryInv, Registered
<1>3. CASE x = c
  <2>1. registry'[c] = Updated(c, e)
    BY DEF RegistryInv, AttendanceTypeOK
  <2>2. registry'[c] # NoCouple
    BY <2>1, UpdatedType, NoCoupleIsNoVisit DEF RegistryInv
  <2>3. \/ Updated(c, e).encounter = e.encounter /\ Updated(c, e).revision = e.revision
        \/ /\ registry[c] # NoCouple
           /\ Updated(c, e).encounter = registry[c].encounter
           /\ Updated(c, e).revision = registry[c].revision
    BY DEF Updated
  <2> QED
    BY <1>1, <1>3, <2>1, <2>2, <2>3 DEF RegistryInv, Registered
<1> QED
  BY <1>2, <1>3

(* Record counts an encounter once, whatever the revision it comes with.    *)
LEMMA NumberedKept ==
  ASSUME RegistryInv,
         NEW e \in Visited, NEW c \in Parties, c = PartyOf[e.encounter],
         registry' = [registry EXCEPT ![c] = Updated(c, e)],
         history' = history \cup {e}
  PROVE  Numbered'
<1> SUFFICES ASSUME NEW x \in Parties
             PROVE  /\ IsFiniteSet(EncountersOf(x))'
                    /\ registry'[x] # NoCouple => registry'[x].count = Cardinality(EncountersOf(x))'
  BY DEF Numbered
<1>1. EncountersOf(x)' = IF x = c THEN EncountersOf(x) \cup {e.encounter} ELSE EncountersOf(x)
  BY VisitsGrow DEF EncountersOf
<1>2. CASE x # c
  <2>1. registry'[x] = registry[x]
    BY <1>2 DEF RegistryInv, AttendanceTypeOK
  <2> QED
    BY <1>1, <1>2, <2>1 DEF RegistryInv, Numbered
<1>3. CASE x = c
  <2>1. registry'[c] = Updated(c, e)
    BY DEF RegistryInv, AttendanceTypeOK
  <2>2. IsFiniteSet(EncountersOf(c))
    BY DEF RegistryInv, Numbered
  <2>3. /\ IsFiniteSet(EncountersOf(c) \cup {e.encounter})
        /\ Cardinality(EncountersOf(c) \cup {e.encounter}) =
             IF e.encounter \in EncountersOf(c) THEN Cardinality(EncountersOf(c))
             ELSE Cardinality(EncountersOf(c)) + 1
    BY <2>2, FS_AddElement
  <2>4. CASE registry[c] = NoCouple
    <3>1. EncountersOf(c) = {}
      BY <2>4 DEF RegistryInv, Registered, EncountersOf
    <3>2. Updated(c, e).count = 1
      BY <2>4 DEF Updated
    <3> QED
      BY <1>1, <1>3, <2>1, <2>3, <3>1, <3>2, FS_EmptySet
  <2>5. CASE registry[c] # NoCouple
    <3>1. registry[c].count = Cardinality(EncountersOf(c))
      BY <2>5 DEF RegistryInv, Numbered
    <3>2. Updated(c, e).count = Counted(c, e)
      BY <2>5 DEF Updated
    <3>3. e.encounter \in EncountersOf(c) <=> \E d \in VisitsOf(c) : d.encounter = e.encounter
      BY DEF EncountersOf
    <3> QED
      BY <1>1, <1>3, <2>1, <2>3, <3>1, <3>2, <3>3 DEF Counted
  <2> QED
    BY <2>4, <2>5
<1> QED
  BY <1>2, <1>3

-----------------------------------------------------------------------------
(* The registry tells of the history. *)

(* The inductive invariant: types, history, registration and count.         *)
LEMMA RegistryInvariant == AttendanceSpec => []RegistryInv
<1>1. AttendanceInit => RegistryInv
  <2> SUFFICES ASSUME AttendanceInit PROVE RegistryInv
    OBVIOUS
  <2>1. AttendanceTypeOK
    BY DEF AttendanceInit, AttendanceTypeOK, RouteStates
  <2>2. \A c \in Parties : VisitsOf(c) = {} /\ registry[c] = NoCouple /\ EncountersOf(c) = {}
    BY DEF AttendanceInit, VisitsOf, EncountersOf
  <2>3. Registered /\ Numbered
    BY <2>2, FS_EmptySet DEF Registered, Numbered
  <2> QED
    BY <2>1, <2>3 DEF RegistryInv, HistoryShape, AttendanceInit
<1>2. RegistryInv /\ AttendanceTypeOK' /\ [AttendanceNext]_attendanceVars => RegistryInv'
  <2> SUFFICES ASSUME RegistryInv, AttendanceTypeOK', [AttendanceNext]_attendanceVars
               PROVE  RegistryInv'
    OBVIOUS
  <2>1. CASE \E r \in Receivers : Record(r)
    <3>1. PICK e \in Visited, c \in Parties :
             /\ c = PartyOf[e.encounter]
             /\ Mapped(e) /\ ~Known(e)
             /\ resortKey' = e.project
             /\ registry' = [registry EXCEPT ![c] = Updated(c, e)]
             /\ history' = history \cup {e}
             /\ accepted' = accepted \cup {e}
      BY <2>1, RecordWrites DEF RegistryInv
    <3> QED
      BY <3>1, HistoryKept, RegisteredKept, NumberedKept DEF RegistryInv
  <2>2. CASE ~(\E r \in Receivers : Record(r))
    <3>1. /\ history' = history /\ registry' = registry /\ resortKey' = resortKey
          /\ accepted' \subseteq accepted \cup history
      BY <2>2, OnlyRecordWrites DEF RegistryInv
    <3> QED
      BY <3>1 DEF RegistryInv, HistoryShape, Registered, Numbered, EncountersOf, VisitsOf
  <2> QED
    BY <2>1, <2>2
<1> QED
  BY <1>1, <1>2, AttendanceTypeCorrect, PTL DEF AttendanceSpec

(* However often and in whatever order events come, the history holds each  *)
(* once, under one project, and the couple's encounters are counted.        *)
THEOREM HistoryCounted == AttendanceSpec => []HistoryIsCounted
<1>1. RegistryInv => HistoryIsCounted
  BY DEF RegistryInv, HistoryShape, Registered, Numbered, EncountersOf, HistoryIsCounted
<1> QED
  BY <1>1, RegistryInvariant, PTL

-----------------------------------------------------------------------------
(* The registry shows the last visit. *)

(* What is newer than the last visit is newer than all that are not.        *)
LEMMA NewerThanAll ==
  ASSUME CorrectionsMoveForward, closedAt \in ClosingTimes,
         NEW e \in Visited, NEW f \in Visited, NEW l \in LastVisit,
         ~Newer(f, l), Newer(e, l)
  PROVE  ~Newer(f, e)
<1> DEFINE time(x) == closedAt[x.encounter][x.revision]
<1> closedAt \in [Encounters -> [Revisions -> Nat]]
  BY AttendanceAssumption
<1>a. /\ e.encounter \in Encounters /\ e.revision \in Revisions
      /\ f.encounter \in Encounters /\ f.revision \in Revisions
      /\ l.encounter \in Encounters /\ l.revision \in Revisions
  BY DEF Visited, LastVisit
<1>1. /\ e.encounter \in Nat /\ e.revision \in Nat /\ time(e) \in Nat
      /\ f.encounter \in Nat /\ f.revision \in Nat /\ time(f) \in Nat
      /\ l.encounter \in Nat /\ l.revision \in Nat /\ time(l) \in Nat
  BY <1>a, AttendanceAssumption
<1>2. /\ e.encounter = f.encounter /\ e.revision <= f.revision => time(e) <= time(f)
      /\ e.encounter = l.encounter /\ l.revision <= e.revision => time(l) <= time(e)
      /\ f.encounter = l.encounter /\ f.revision <= l.revision => time(f) <= time(l)
  BY <1>a DEF CorrectionsMoveForward
<1>3. CASE e.encounter = l.encounter
  BY <1>1, <1>2, <1>3 DEF Newer
<1>4. CASE e.encounter # l.encounter /\ f.encounter = l.encounter
  BY <1>1, <1>2, <1>4 DEF Newer
<1>5. CASE e.encounter # l.encounter /\ f.encounter # l.encounter
  BY <1>1, <1>2, <1>5 DEF Newer
<1> QED
  BY <1>3, <1>4, <1>5

(* After Record no visit of the couple is newer than the one registered:    *)
(* the event was compared with the last visit only, and that is enough when *)
(* corrections move forward.                                                *)
LEMMA NothingNewerKept ==
  ASSUME CorrectionsMoveForward, RegistryInv, AttendanceTypeOK', NothingNewer,
         NEW e \in Visited, NEW c \in Parties, c = PartyOf[e.encounter],
         registry' = [registry EXCEPT ![c] = Updated(c, e)],
         history' = history \cup {e}, closedAt' = closedAt
  PROVE  NothingNewer'
<1> SUFFICES ASSUME NEW x \in Parties, registry'[x] # NoCouple, NEW d \in VisitsOf(x)'
             PROVE  ~Newer(d, registry[x])'
  BY DEF NothingNewer
<1>1. VisitsOf(x)' = IF x = c THEN VisitsOf(x) \cup {e} ELSE VisitsOf(x)
  BY VisitsGrow
<1>2. Newer(d, registry[x])' <=> Newer(d, registry'[x])
  BY DEF Newer
<1>3. CASE x # c
  <2>1. registry'[x] = registry[x]
    BY <1>3 DEF RegistryInv, AttendanceTypeOK
  <2> QED
    BY <1>1, <1>2, <1>3, <2>1 DEF NothingNewer
<1>4. CASE x = c
  <2>1. registry'[c] = Updated(c, e)
    BY DEF RegistryInv, AttendanceTypeOK
  <2>2. d = e \/ d \in VisitsOf(c)
    BY <1>1, <1>4
  <2>3. e.revision \in Nat /\ e.encounter \in Nat
    BY AttendanceAssumption DEF Visited
  <2>4. ~Newer(e, e)
    BY <2>3 DEF Newer
  <2>5. CASE registry[c] = NoCouple
    <3>1. d = e
      BY <2>2, <2>5 DEF RegistryInv, Registered
    <3>2. Updated(c, e).encounter = e.encounter /\ Updated(c, e).revision = e.revision
      BY <2>5 DEF Updated
    <3> QED
      BY <1>2, <1>4, <2>1, <2>4, <3>1, <3>2 DEF Newer
  <2>6. CASE registry[c] # NoCouple
    <3>1. registry[c] \in LastVisit
      BY <2>6 DEF RegistryInv, AttendanceTypeOK
    <3>2. CASE Newer(e, registry[c])
      <4>1. Updated(c, e).encounter = e.encounter /\ Updated(c, e).revision = e.revision
        BY <2>6, <3>2 DEF Updated
      <4>2. ~Newer(d, e)
        <5>1. CASE d = e
          BY <2>4, <5>1
        <5>2. CASE d \in VisitsOf(c)
          <6>1. d \in Visited
            BY <5>2 DEF VisitsOf, RegistryInv, AttendanceTypeOK
          <6>2. ~Newer(d, registry[c])
            BY <2>6, <5>2 DEF NothingNewer
          <6> QED
            BY <3>1, <3>2, <6>1, <6>2, NewerThanAll DEF RegistryInv, AttendanceTypeOK
        <5> QED
          BY <2>2, <5>1, <5>2
      <4> QED
        BY <1>2, <1>4, <2>1, <4>1, <4>2 DEF Newer
    <3>3. CASE ~Newer(e, registry[c])
      <4>1. /\ Updated(c, e).encounter = registry[c].encounter
            /\ Updated(c, e).revision = registry[c].revision
        BY <2>6, <3>3 DEF Updated
      <4>2. ~Newer(d, registry[c])
        BY <2>2, <2>6, <3>3 DEF NothingNewer
      <4> QED
        BY <1>2, <1>4, <2>1, <4>1, <4>2 DEF Newer
    <3> QED
      BY <3>2, <3>3
  <2> QED
    BY <2>5, <2>6
<1> QED
  BY <1>3, <1>4

(* In any order of arrival the registry shows the last visit of the couple   *)
(* as it was last corrected, when corrections do not move an encounter back. *)
THEOREM LastVisitIsShown ==
  ASSUME CorrectionsMoveForward
  PROVE  AttendanceSpec => []LastIsNewest
<1>1. AttendanceInit => NothingNewer
  BY DEF AttendanceInit, NothingNewer
<1>2. RegistryInv /\ AttendanceTypeOK' /\ NothingNewer /\ [AttendanceNext]_attendanceVars => NothingNewer'
  <2> SUFFICES ASSUME RegistryInv, AttendanceTypeOK', NothingNewer, [AttendanceNext]_attendanceVars
               PROVE  NothingNewer'
    OBVIOUS
  <2>1. CASE \E r \in Receivers : Record(r)
    <3>1. PICK e \in Visited, c \in Parties :
             /\ c = PartyOf[e.encounter]
             /\ registry' = [registry EXCEPT ![c] = Updated(c, e)]
             /\ history' = history \cup {e}
             /\ closedAt' = closedAt
      BY <2>1, RecordWrites DEF RegistryInv
    <3> QED
      BY <3>1, CorrectionsMoveForward, NothingNewerKept
  <2>2. CASE ~(\E r \in Receivers : Record(r))
    <3>1. history' = history /\ registry' = registry /\ closedAt' = closedAt
      BY <2>2, OnlyRecordWrites DEF RegistryInv
    <3> QED
      BY <3>1 DEF NothingNewer, VisitsOf, Newer
  <2> QED
    BY <2>1, <2>2
<1>3. RegistryInv /\ NothingNewer => LastIsNewest
  <2> SUFFICES ASSUME RegistryInv, NothingNewer, NEW c \in Parties, VisitsOf(c) # {}
               PROVE  /\ \E d \in Final(c) :
                           d.encounter = registry[c].encounter /\ d.revision = registry[c].revision
                      /\ \A d \in Final(c) : ~Newer(d, registry[c])
    BY DEF LastIsNewest
  <2>1. registry[c] # NoCouple
    BY DEF RegistryInv, Registered
  <2>2. \A d \in VisitsOf(c) : ~Newer(d, registry[c])
    BY <2>1 DEF NothingNewer
  <2>3. PICK d \in VisitsOf(c) : d.encounter = registry[c].encounter /\ d.revision = registry[c].revision
    BY <2>1 DEF RegistryInv, Registered
  <2>4. ASSUME NEW f \in VisitsOf(c), f.encounter = d.encounter
        PROVE  f.revision <= d.revision
    <3>1. f.revision \in Nat /\ d.revision \in Nat
      BY AttendanceAssumption DEF VisitsOf, RegistryInv, AttendanceTypeOK, Visited
    <3> QED
      BY <2>2, <2>3, <2>4, <3>1 DEF Newer
  <2>5. d \in Final(c)
    BY <2>4 DEF Final
  <2> QED
    BY <2>2, <2>3, <2>5 DEF Final
<1> QED
  BY <1>1, <1>2, <1>3, RegistryInvariant, AttendanceTypeCorrect, PTL DEF AttendanceSpec

-----------------------------------------------------------------------------
(* The sales.                                                               *)

Made == {d \in Deals : deal[d] # NoDeal}
Kept == {s \in Sales : Formalized(s) /\ ~contract[s].lost}

(* What a call may have read. *)
Entries == {NoEntry} \cup [at : {"begin"}, sale : Sales] \cup [at : {"lock"}, sale : Sales, view : Views]

(* Sheets are numbered as they come; an opportunity is on one sheet at most, *)
(* and so is the code of the couple.                                         *)
FoldersOK ==
  /\ \E n \in Nat : Filed = 1..n
  /\ \A f \in Filed : folder[f].deal # NoDeal => folder[f].deal \in Made
  /\ \A f, g \in Filed : folder[f].deal # NoDeal /\ folder[f].deal = folder[g].deal => f = g
  /\ \A f, g \in Filed : folder[f].code /\ folder[g].code => f = g

(* Opportunities are numbered as they come; the one of a sale is won and of no *)
(* other sale, and what the desk is about to write does not reopen it.         *)
DealsOK ==
  /\ \E n \in Nat : Made = 1..n
  /\ \A s \in Sales : Formalized(s) => contract[s].deal \in Made /\ deal[contract[s].deal].stage = "won"
  /\ \A s, t \in Sales : Formalized(s) /\ Formalized(t) /\ contract[s].deal = contract[t].deal => s = t
  /\ edit # NoEntry => edit.on \in Made /\ edit.to.stage \in Moves[edit.seen.stage]

StockOK ==
  /\ IsFiniteSet(Kept) /\ stock = Quotas - Cardinality(Kept)
  /\ \A s \in taken : Formalized(s)

IntakeInv == IntakeTypeOK /\ entry \in [Entrances -> Entries] /\ FoldersOK /\ DealsOK /\ StockOK

(* What EachSaleClosesItsDeal says of a step. *)
SheetsKeepTheirDeals ==
  \A f \in Filed :
    /\ folder[f].deal # NoDeal /\ deal[folder[f].deal].stage = "won" => folder'[f].deal = folder[f].deal
    /\ folder[f].erased => folder'[f].deal = folder[f].deal
    /\ folder'[f].deal # folder[f].deal =>
         \E s \in Sales : ~Formalized(s) /\ contract'[s] # NoSale
           /\ contract'[s].deal = folder'[f].deal
           /\ contract'[s].customer = folder'[f].customer
           /\ deal'[folder'[f].deal].customer = folder'[f].customer

\* At most one of the sheets is the only one there is.
LEMMA AtMostOne ==
  ASSUME NEW S, \A x, y \in S : x = y
  PROVE  Cardinality(S) <= 1
<1>1. CASE S = {}
  BY <1>1, FS_EmptySet
<1>2. ASSUME NEW x \in S
      PROVE  Cardinality(S) <= 1
  <2>1. S = {x}
    BY <1>2
  <2> QED
    BY <2>1, FS_Singleton
<1> QED
  BY <1>1, <1>2

LEMMA ProperIntake == IntakeInv => OneDealEach
<1> SUFFICES ASSUME IntakeInv
             PROVE  OneDealEach
  OBVIOUS
<1>1. \A s \in Sales : Formalized(s) => Cardinality({f \in Filed : folder[f].deal = contract[s].deal}) <= 1
  <2> SUFFICES ASSUME NEW s \in Sales, Formalized(s)
               PROVE  Cardinality({f \in Filed : folder[f].deal = contract[s].deal}) <= 1
    OBVIOUS
  <2> DEFINE S == {f \in Filed : folder[f].deal = contract[s].deal}
  <2>1. contract[s].deal # NoDeal
    BY NoRowsOfIntake DEF IntakeInv, DealsOK, Made
  <2>2. \A f, g \in S : f = g
    BY <2>1 DEF IntakeInv, FoldersOK
  <2> HIDE DEF S
  <2>3. Cardinality(S) <= 1
    BY <2>2, AtMostOne
  <2> QED
    BY <2>3 DEF S
<1>2. Cardinality({f \in Filed : folder[f].code}) <= 1
  <2> DEFINE S == {f \in Filed : folder[f].code}
  <2>1. \A f, g \in S : f = g
    BY DEF IntakeInv, FoldersOK
  <2> HIDE DEF S
  <2>2. Cardinality(S) <= 1
    BY <2>1, AtMostOne
  <2> QED
    BY <2>2 DEF S
<1> QED
  BY <1>1, <1>2 DEF OneDealEach, IntakeInv, DealsOK, StockOK, Kept

\* The row that is inserted next is a new one.
LEMMA NextRows ==
  ASSUME IntakeInv
  PROVE  /\ \A f \in NextFolder : f \in Folders /\ f \notin Filed /\ \E n \in Nat : Filed \cup {f} = 1..n
         /\ \A d \in NextDeal : d \in Deals /\ d \notin Made /\ \E n \in Nat : Made \cup {d} = 1..n
<1>1. ASSUME NEW n \in Nat
      PROVE  Cardinality(1..n) = n /\ 1..n \cup {n + 1} = 1..(n + 1) /\ n + 1 \notin 1..n
  <2>1. Cardinality(1..n) = n
    BY FS_Interval
  <2> QED
    BY <2>1
<1>2. PICK n \in Nat : Filed = 1..n
  BY DEF IntakeInv, FoldersOK
<1>3. PICK m \in Nat : Made = 1..m
  BY DEF IntakeInv, DealsOK
<1>4. \A f \in NextFolder : f \in Folders /\ f = n + 1
  BY <1>1, <1>2 DEF NextFolder
<1>5. NextDeal = {Cardinality(Made) + 1} \cap Deals
  BY DEF NextDeal, Made
<1>6. \A d \in NextDeal : d \in Deals /\ d = m + 1
  BY <1>1, <1>3, <1>5
<1>7. /\ n + 1 \notin Filed /\ Filed \cup {n + 1} = 1..(n + 1) /\ n + 1 \in Nat
      /\ m + 1 \notin Made /\ Made \cup {m + 1} = 1..(m + 1) /\ m + 1 \in Nat
  BY <1>1, <1>2, <1>3
<1> QED
  BY <1>4, <1>6, <1>7

LEMMA IntakeStarts ==
  ASSUME IntakeInit
  PROVE  IntakeInv
<1>1. /\ taken = {} /\ stock = Quotas /\ edit = NoEntry /\ \A s \in Sales : ~Formalized(s)
      /\ contract \in [Sales -> SaleRows \cup {NoSale}] /\ entry \in [Entrances -> Entries]
      /\ reuse \in BOOLEAN /\ said \in Sayings /\ stock \in 0..Quotas /\ acts \in 0..MaxActs
      /\ gone = {} /\ \A k \in Entrances : entry[k] = NoEntry
  BY IntakeAssumption DEF IntakeInit, Formalized, Entries
<1>2. StockOK
  <2>1. Kept = {}
    BY <1>1 DEF Kept
  <2> QED
    BY <1>1, <2>1, FS_EmptySet, IntakeAssumption DEF StockOK
<1>3. ASSUME people \subseteq PeopleIds, folder \in [Folders -> Files \cup {NoFolder}],
             deal \in [Deals -> DealRows \cup {NoDeal}], FoldersOK, \E n \in Nat : Made = 1..n
      PROVE  IntakeInv
  BY <1>1, <1>2, <1>3 DEF IntakeInv, IntakeTypeOK, DealsOK
<1>4. CASE people = {} /\ folder = [f \in Folders |-> NoFolder] /\ deal = [d \in Deals |-> NoDeal]
  <2>1. Filed = {} /\ Made = {} /\ 1..0 = {} /\ 0 \in Nat
    BY <1>4 DEF Filed, Made
  <2>2. FoldersOK
    BY <2>1 DEF FoldersOK
  <2> QED
    BY <1>3, <1>4, <2>1, <2>2
<1>5. ASSUME NEW file \in Files, file.customer = 1, file.deal \in {1, NoDeal}, people = {1},
             folder = [f \in Folders |-> IF f = 1 THEN file ELSE NoFolder],
             deal = [d \in Deals |-> IF d = file.deal THEN [customer |-> 1, stage |-> "new"] ELSE NoDeal]
      PROVE  IntakeInv
  <2> DEFINE row == [customer |-> 1, stage |-> "new"]
  <2>1. 1 \in Folders /\ 1 \in Deals /\ 1 \in PeopleIds
    BY <1>5 DEF Files, PeopleIds, Folders, Deals
  <2>2. row \in DealRows /\ row # NoDeal /\ file # NoFolder
    BY <2>1, NoRowsOfIntake DEF DealRows, Stages
  <2> HIDE DEF row
  <2>3. folder \in [Folders -> Files \cup {NoFolder}] /\ deal \in [Deals -> DealRows \cup {NoDeal}]
    BY <1>5, <2>2 DEF row
  <2>4. Filed = {1} /\ folder[1] = file
    BY <1>5, <2>1, <2>2 DEF Filed
  <2>5. Made = IF file.deal = 1 THEN {1} ELSE {}
    <3>1. NoDeal \notin Deals
      BY NoRowsOfIntake
    <3>2. deal = [d \in Deals |-> IF d = file.deal THEN row ELSE NoDeal]
      BY <1>5 DEF row
    <3> QED
      BY <1>5, <2>1, <2>2, <3>1, <3>2 DEF Made
  <2>6. 1..1 = {1} /\ 1..0 = {} /\ 0 \in Nat /\ 1 \in Nat
    OBVIOUS
  <2>7. FoldersOK
    BY <1>5, <2>4, <2>5, <2>6 DEF FoldersOK
  <2>8. \E n \in Nat : Made = 1..n
    BY <2>5, <2>6
  <2> QED
    BY <1>3, <1>5, <2>1, <2>3, <2>7, <2>8
<1> QED
  BY <1>4, <1>5 DEF IntakeInit

\* A call reads, and is answered for a sale that is formalized.
LEMMA CallKeeps ==
  ASSUME IntakeInv, entry' \in [Entrances -> Entries], taken' \subseteq taken \cup {s \in Sales : Formalized(s)},
         UNCHANGED <<reuse, said, people, gone, folder, deal, contract, stock, edit, acts>>
  PROVE  IntakeInv' /\ SheetsKeepTheirDeals
<1>1. \A k \in Entrances :
        \/ entry'[k] = NoEntry
        \/ entry'[k].at = "begin" /\ entry'[k].sale \in Sales
        \/ entry'[k].at = "lock" /\ entry'[k].sale \in Sales /\ entry'[k].view \in Views
  BY DEF Entries
<1>2. IntakeTypeOK'
  BY <1>1 DEF IntakeInv, IntakeTypeOK
<1>3. FoldersOK' /\ DealsOK'
  BY DEF IntakeInv, FoldersOK, DealsOK, Filed, Made, Formalized
<1>4. StockOK'
  <2>1. Kept' = Kept
    BY DEF Kept, Formalized
  <2> QED
    BY <2>1 DEF IntakeInv, StockOK, Formalized
<1>5. SheetsKeepTheirDeals
  BY DEF SheetsKeepTheirDeals
<1> QED
  BY <1>2, <1>3, <1>4, <1>5 DEF IntakeInv

LEMMA CallsKeep ==
  ASSUME IntakeInv, NEW k \in Entrances,
         (\E s \in Sales : LookForSale(k, s)) \/ OpenIntake(k) \/ IntakeRaced(k) \/ IntakeFails(k)
  PROVE  IntakeInv' /\ SheetsKeepTheirDeals
<1>1. entry[k] \in Entries /\ entry \in [Entrances -> Entries]
  BY DEF IntakeInv
<1>2. UNCHANGED <<reuse, said, people, gone, folder, deal, contract, stock, edit, acts>>
  BY DEF LookForSale, OpenIntake, IntakeRaced, IntakeFails
<1>3. NoEntry \in Entries
  BY DEF Entries
<1>4. ASSUME NEW s \in Sales, LookForSale(k, s)
      PROVE  entry' \in [Entrances -> Entries] /\ taken' \subseteq taken \cup {t \in Sales : Formalized(t)}
  <2>1. [at |-> "begin", sale |-> s] \in Entries
    BY DEF Entries
  <2> QED
    BY <1>1, <1>4, <2>1 DEF LookForSale, AnswerReplay
<1>5. CASE OpenIntake(k)
  <2> DEFINE view == [rows |-> people \ gone,
                      stages |-> [d \in Deals |-> IF deal[d] = NoDeal THEN "none" ELSE deal[d].stage]]
             x == [at |-> "lock", sale |-> entry[k].sale, view |-> view]
  <2>1. view \in Views
    BY DEF Views, IntakeInv, IntakeTypeOK, DealRows
  <2>2. entry[k].sale \in Sales
    BY <1>1, <1>5 DEF OpenIntake, Entries
  <2>3. x \in Entries
    BY <2>1, <2>2 DEF Entries
  <2>4. \/ taken' = taken \cup {entry[k].sale} /\ Formalized(entry[k].sale) /\ entry' = [entry EXCEPT ![k] = NoEntry]
        \/ taken' = taken /\ entry' = [entry EXCEPT ![k] = x]
    BY <1>5 DEF OpenIntake
  <2> HIDE DEF x
  <2>5. entry' \in [Entrances -> Entries] /\ taken' \subseteq taken \cup {t \in Sales : Formalized(t)}
    BY <1>1, <1>3, <2>2, <2>3, <2>4
  <2> QED
    BY <1>2, <2>5, CallKeeps
<1>6. CASE IntakeRaced(k)
  <2>1. entry[k].sale \in Sales
    BY <1>1, <1>6 DEF IntakeRaced, Entries
  <2>2. entry' \in [Entrances -> Entries] /\ taken' \subseteq taken \cup {t \in Sales : Formalized(t)}
    BY <1>1, <1>3, <1>6, <2>1 DEF IntakeRaced, AnswerReplay
  <2> QED
    BY <1>2, <2>2, CallKeeps
<1>7. CASE IntakeFails(k)
  <2>1. entry' \in [Entrances -> Entries] /\ taken' = taken
    BY <1>1, <1>3, <1>7 DEF IntakeFails
  <2> QED
    BY <1>2, <2>1, CallKeeps
<1> QED
  BY <1>2, <1>4, <1>5, <1>6, <1>7, CallKeeps

\* An opportunity moves, of a sale only to won; the desk has read or written.
LEMMA DealMoves ==
  ASSUME IntakeInv, NEW d \in Made, NEW x \in DealRows, deal[d].stage = "won" => x.stage = "won",
         deal' = [deal EXCEPT ![d] = x],
         edit' = NoEntry \/ edit' \in [on : Deals, seen : DealRows, to : DealRows],
         edit' # NoEntry => edit'.on \in Made /\ edit'.to.stage \in Moves[edit'.seen.stage],
         acts' \in 0..MaxActs,
         UNCHANGED <<reuse, said, people, gone, folder, contract, stock, entry, taken>>
  PROVE  IntakeInv' /\ SheetsKeepTheirDeals
<1>1. IntakeTypeOK' /\ entry' \in [Entrances -> Entries]
  BY DEF IntakeInv, IntakeTypeOK
<1>2. \A e \in Deals : deal'[e] = IF e = d THEN x ELSE deal[e]
  BY DEF IntakeInv, IntakeTypeOK
<1>3. Made' = Made
  BY <1>2, NoRowsOfIntake DEF Made
<1>4. FoldersOK'
  BY <1>3 DEF IntakeInv, FoldersOK, Filed
<1>5. \A s \in Sales : Formalized(s) => contract[s].deal \in Deals /\ deal'[contract[s].deal].stage = "won"
  BY <1>2 DEF IntakeInv, DealsOK, Made
<1>6. DealsOK'
  BY <1>3, <1>5 DEF IntakeInv, DealsOK, Formalized
<1>7. StockOK'
  <2>1. Kept' = Kept
    BY DEF Kept, Formalized
  <2> QED
    BY <2>1 DEF IntakeInv, StockOK, Formalized
<1>8. SheetsKeepTheirDeals
  BY DEF SheetsKeepTheirDeals
<1> QED
  BY <1>1, <1>4, <1>6, <1>7, <1>8 DEF IntakeInv

LEMMA ActCounts ==
  ASSUME IntakeInv, Act
  PROVE  acts' \in 0..MaxActs
BY IntakeAssumption DEF IntakeInv, IntakeTypeOK, Act

LEMMA DeskKeepsDeals ==
  ASSUME IntakeInv,
         \/ \E d \in Deals, to \in Stages, c \in PeopleIds : ReadDeal(d, to, c)
         \/ WriteDeal
         \/ \E d \in Deals : CreateProposal(d)
  PROVE  IntakeInv' /\ SheetsKeepTheirDeals
<1>1. deal \in [Deals -> DealRows \cup {NoDeal}] /\ acts \in 0..MaxActs
  BY DEF IntakeInv, IntakeTypeOK
<1>2. ASSUME NEW d \in Deals, NEW to \in Stages, NEW c \in PeopleIds, ReadDeal(d, to, c)
      PROVE  IntakeInv' /\ SheetsKeepTheirDeals
  <2> DEFINE x == [customer |-> c, stage |-> to]
             e == [on |-> d, seen |-> deal[d], to |-> x]
  <2>1. d \in Made /\ deal[d] \in DealRows /\ x \in DealRows /\ x.stage = to
    BY <1>1, <1>2 DEF ReadDeal, Made, DealRows
  <2>2. e \in [on : Deals, seen : DealRows, to : DealRows] /\ e.on = d /\ e.to.stage \in Moves[e.seen.stage]
    BY <1>2, <2>1 DEF ReadDeal
  <2>3. /\ edit' = e /\ deal' = [deal EXCEPT ![d] = deal[d]]
        /\ UNCHANGED <<reuse, said, people, gone, folder, contract, stock, entry, taken>>
    BY <1>1, <1>2 DEF ReadDeal
  <2>4. acts' \in 0..MaxActs
    BY <1>2, ActCounts DEF ReadDeal
  <2> HIDE DEF e
  <2> QED
    BY <2>1, <2>2, <2>3, <2>4, DealMoves
<1>3. CASE WriteDeal
  <2> DEFINE d == edit.on
             x == IF HoldsStage /\ {edit.seen.customer, edit.to.customer} \cap gone = {} THEN edit.to ELSE deal[d]
  <2>1. d \in Made /\ d \in Deals /\ edit.to \in DealRows /\ edit.seen \in DealRows
        /\ edit.to.stage \in Moves[edit.seen.stage]
    BY <1>3 DEF WriteDeal, IntakeInv, IntakeTypeOK, DealsOK
  <2>2. deal[d] \in DealRows
    BY <1>1, <2>1 DEF Made
  <2>3. edit.seen.stage = "won" => edit.to.stage = "won"
    BY <2>1 DEF Moves
  <2>4. x \in DealRows /\ (deal[d].stage = "won" => x.stage = "won")
    BY <2>1, <2>2, <2>3 DEF HoldsStage
  <2>5. /\ deal' = [deal EXCEPT ![d] = x] /\ edit' = NoEntry
        /\ UNCHANGED <<reuse, said, people, gone, folder, contract, stock, entry, taken>> /\ acts' = acts
    BY <1>1, <1>3, <2>1 DEF WriteDeal
  <2> HIDE DEF x, d
  <2> QED
    BY <1>1, <2>1, <2>4, <2>5, DealMoves
<1>4. ASSUME NEW d \in Deals, CreateProposal(d)
      PROVE  IntakeInv' /\ SheetsKeepTheirDeals
  <2> DEFINE x == [deal[d] EXCEPT !.stage = "negotiation"]
  <2>1. d \in Made /\ deal[d] \in DealRows /\ deal[d].stage = "new"
    BY <1>1, <1>4 DEF CreateProposal, Made
  <2>2. x \in DealRows
    BY <2>1 DEF DealRows, Stages
  <2>3. /\ deal' = [deal EXCEPT ![d] = x] /\ edit' = edit
        /\ UNCHANGED <<reuse, said, people, gone, folder, contract, stock, entry, taken>>
    BY <1>4 DEF CreateProposal
  <2>4. acts' \in 0..MaxActs
    BY <1>4, ActCounts DEF CreateProposal
  <2>5. /\ edit' = NoEntry \/ edit' \in [on : Deals, seen : DealRows, to : DealRows]
        /\ edit' # NoEntry => edit'.on \in Made /\ edit'.to.stage \in Moves[edit'.seen.stage]
    BY <2>3 DEF IntakeInv, IntakeTypeOK, DealsOK
  <2> HIDE DEF x
  <2> QED
    BY <2>1, <2>2, <2>3, <2>4, <2>5, DealMoves
<1> QED
  BY <1>2, <1>3, <1>4

LEMMA LoseStockKeeps ==
  ASSUME IntakeInv, NEW s \in Sales, LoseStock(s)
  PROVE  IntakeInv' /\ SheetsKeepTheirDeals
<1> DEFINE x == [contract[s] EXCEPT !.lost = TRUE]
<1>1. contract \in [Sales -> SaleRows \cup {NoSale}] /\ contract[s] \in SaleRows /\ ~contract[s].lost
      /\ contract[s] # NoSale
  BY DEF LoseStock, Formalized, IntakeInv, IntakeTypeOK
<1>2. x \in SaleRows /\ x.deal = contract[s].deal /\ x.lost = TRUE
  BY <1>1 DEF SaleRows
<1>3. /\ contract' = [contract EXCEPT ![s] = x] /\ stock' = stock + 1
      /\ UNCHANGED <<reuse, said, people, gone, folder, deal, entry, edit, taken>>
  BY DEF LoseStock
<1>4. x # NoSale
  BY <1>2, NoRowsOfIntake
<1> HIDE DEF x
<1>5. \A t \in Sales : contract'[t] = IF t = s THEN x ELSE contract[t]
  BY <1>1, <1>3
<1>6. \A t \in Sales : /\ Formalized(t)' = Formalized(t)
                       /\ Formalized(t) => contract'[t].deal = contract[t].deal
  BY <1>1, <1>2, <1>4, <1>5 DEF Formalized
<1>7. Kept' = Kept \ {s} /\ s \in Kept
  BY <1>1, <1>2, <1>5, <1>6 DEF Kept, Formalized
<1>8. IsFiniteSet(Kept \ {s}) /\ Cardinality(Kept \ {s}) = Cardinality(Kept) - 1 /\ Cardinality(Kept \ {s}) \in Nat
  BY <1>7, FS_RemoveElement, FS_CardinalityType DEF IntakeInv, StockOK
<1>9. stock' = Quotas - Cardinality(Kept') /\ stock' \in 0..Quotas
  <2>1. stock = Quotas - Cardinality(Kept) /\ stock \in 0..Quotas /\ Quotas \in Nat
    BY IntakeAssumption DEF IntakeInv, IntakeTypeOK, StockOK
  <2>2. Cardinality(Kept) \in Nat
    BY FS_CardinalityType DEF IntakeInv, StockOK
  <2> DEFINE a == Cardinality(Kept)
             b == Cardinality(Kept \ {s})
  <2>3. a \in Nat /\ b \in Nat /\ b = a - 1 /\ stock = Quotas - a /\ stock' = stock + 1
    BY <1>3, <1>8, <2>1, <2>2
  <2> HIDE DEF a, b
  <2>4. stock' = Quotas - b /\ stock' \in 0..Quotas
    BY <2>1, <2>3
  <2> QED
    BY <1>7, <2>4 DEF b
<1>10. StockOK'
  BY <1>3, <1>6, <1>7, <1>8, <1>9 DEF IntakeInv, IntakeTypeOK, StockOK
<1>11. acts' \in 0..MaxActs
  BY ActCounts DEF LoseStock
<1>12. IntakeTypeOK' /\ entry' \in [Entrances -> Entries]
  BY <1>2, <1>3, <1>9, <1>11 DEF IntakeInv, IntakeTypeOK
<1>13. FoldersOK' /\ DealsOK'
  BY <1>3, <1>6 DEF IntakeInv, FoldersOK, DealsOK, Filed, Made
<1>14. SheetsKeepTheirDeals
  BY <1>3 DEF SheetsKeepTheirDeals
<1> QED
  BY <1>10, <1>12, <1>13, <1>14 DEF IntakeInv

\* The sheets there are change in something else than their opportunity.
LEMMA SheetsChange ==
  ASSUME IntakeInv, folder' \in [Folders -> Files \cup {NoFolder}],
         \A f \in Folders : (folder'[f] = NoFolder) = (folder[f] = NoFolder),
         \A f \in Filed : folder'[f].deal = folder[f].deal,
         \A f, g \in Filed : folder'[f].code /\ folder'[g].code => f = g,
         gone' \subseteq people, acts' \in 0..MaxActs,
         UNCHANGED <<reuse, said, people, deal, contract, stock, entry, edit, taken>>
  PROVE  IntakeInv' /\ SheetsKeepTheirDeals
<1>1. IntakeTypeOK' /\ entry' \in [Entrances -> Entries]
  BY DEF IntakeInv, IntakeTypeOK
<1>2. Filed' = Filed /\ Made' = Made
  BY DEF Filed, Made
<1>3. FoldersOK'
  BY <1>2 DEF IntakeInv, FoldersOK
<1>4. DealsOK'
  BY <1>2 DEF IntakeInv, DealsOK, Formalized
<1>5. StockOK'
  <2>1. Kept' = Kept
    BY DEF Kept, Formalized
  <2> QED
    BY <2>1 DEF IntakeInv, StockOK, Formalized
<1>6. SheetsKeepTheirDeals
  BY DEF SheetsKeepTheirDeals
<1> QED
  BY <1>1, <1>3, <1>4, <1>5, <1>6 DEF IntakeInv

LEMMA SheetsKeep ==
  ASSUME IntakeInv, (\E f \in Folders : SetCoupleCode(f)) \/ (\E c \in PeopleIds : Anonymize(c))
  PROVE  IntakeInv' /\ SheetsKeepTheirDeals
<1>1. folder \in [Folders -> Files \cup {NoFolder}] /\ gone \subseteq people /\ Filed \subseteq Folders
      /\ \A f \in Filed : folder[f] \in Files /\ folder[f] # NoFolder
  BY DEF IntakeInv, IntakeTypeOK, Filed
<1>2. ASSUME NEW f \in Folders, SetCoupleCode(f)
      PROVE  IntakeInv' /\ SheetsKeepTheirDeals
  <2> DEFINE x == [folder[f] EXCEPT !.code = TRUE]
  <2>1. f \in Filed /\ \A g \in Filed : ~folder[g].code
    BY <1>2 DEF SetCoupleCode
  <2>2. x \in Files /\ x.deal = folder[f].deal
    BY <1>1, <2>1 DEF Files
  <2>3. x # NoFolder
    BY <2>2, NoRowsOfIntake
  <2>4. /\ folder' = [folder EXCEPT ![f] = x]
        /\ UNCHANGED <<reuse, said, people, gone, deal, contract, stock, entry, edit, taken>>
    BY <1>2 DEF SetCoupleCode
  <2> HIDE DEF x
  <2>5. \A g \in Folders : folder'[g] = IF g = f THEN x ELSE folder[g]
    BY <1>1, <2>4
  <2>6. folder' \in [Folders -> Files \cup {NoFolder}]
    BY <1>1, <2>2, <2>4
  <2>7. /\ \A g \in Folders : (folder'[g] = NoFolder) = (folder[g] = NoFolder)
        /\ \A g \in Filed : folder'[g].deal = folder[g].deal
        /\ \A g, h \in Filed : folder'[g].code /\ folder'[h].code => g = h
    BY <1>1, <2>1, <2>2, <2>3, <2>5
  <2>8. acts' \in 0..MaxActs
    BY <1>2, ActCounts DEF SetCoupleCode
  <2> QED
    BY <1>1, <2>4, <2>6, <2>7, <2>8, SheetsChange
<1>3. ASSUME NEW c \in PeopleIds, Anonymize(c)
      PROVE  IntakeInv' /\ SheetsKeepTheirDeals
  <2> DEFINE Erased(f) == [folder[f] EXCEPT !.erased = TRUE]
  <2>1. /\ folder' = [f \in Folders |-> IF f \in Filed /\ folder[f].customer = c THEN Erased(f) ELSE folder[f]]
        /\ gone' = gone \cup {c} /\ c \in people
        /\ UNCHANGED <<reuse, said, people, deal, contract, stock, entry, edit, taken>>
    BY <1>3 DEF Anonymize
  <2>2. \A f \in Filed : Erased(f) \in Files /\ Erased(f).deal = folder[f].deal /\ Erased(f).code = folder[f].code
    BY <1>1 DEF Files
  <2> HIDE DEF Erased
  <2>3. \A f \in Filed : Erased(f) # NoFolder
    BY <2>2, NoRowsOfIntake
  <2>4. folder' \in [Folders -> Files \cup {NoFolder}]
    BY <1>1, <2>1, <2>2
  <2>5. /\ \A g \in Folders : (folder'[g] = NoFolder) = (folder[g] = NoFolder)
        /\ \A g \in Filed : folder'[g].deal = folder[g].deal /\ folder'[g].code = folder[g].code
    BY <1>1, <2>1, <2>2, <2>3
  <2>6. \A g, h \in Filed : folder'[g].code /\ folder'[h].code => g = h
    BY <2>5 DEF IntakeInv, FoldersOK
  <2>7. acts' \in 0..MaxActs
    BY <1>3, ActCounts DEF Anonymize
  <2> QED
    BY <1>1, <2>1, <2>4, <2>5, <2>6, <2>7, SheetsChange
<1> QED
  BY <1>2, <1>3

\* One sheet is written, new or not.
LEMMA SheetWritten ==
  ASSUME IntakeInv, NEW f \in Folders, NEW row \in Files, folder' = [folder EXCEPT ![f] = row],
         f \in Filed \/ f \in NextFolder, Made \subseteq Made',
         row.deal # NoDeal => row.deal \in Made' /\ \A g \in Filed \ {f} : folder[g].deal # row.deal,
         row.code => \A g \in Filed \ {f} : ~folder[g].code
  PROVE  /\ FoldersOK' /\ folder' \in [Folders -> Files \cup {NoFolder}]
         /\ \A g \in Folders : folder'[g] = IF g = f THEN row ELSE folder[g]
<1>1. /\ folder' \in [Folders -> Files \cup {NoFolder}]
      /\ \A g \in Folders : folder'[g] = IF g = f THEN row ELSE folder[g]
  BY DEF IntakeInv, IntakeTypeOK
<1>2. row # NoFolder
  BY NoRowsOfIntake
<1>3. Filed' = Filed \cup {f}
  BY <1>1, <1>2 DEF Filed
<1>4. \E n \in Nat : Filed' = 1..n
  <2>1. CASE f \in Filed
    BY <1>3, <2>1 DEF IntakeInv, FoldersOK
  <2>2. CASE f \in NextFolder
    BY <1>3, <2>2, NextRows
  <2> QED
    BY <2>1, <2>2
<1>5. \A g \in Filed : g \in Folders
  BY DEF Filed
<1>6. \A g \in Filed' : folder'[g].deal # NoDeal => folder'[g].deal \in Made'
  BY <1>1, <1>3, <1>5 DEF IntakeInv, FoldersOK
<1>7. \A g, h \in Filed' : folder'[g].deal # NoDeal /\ folder'[g].deal = folder'[h].deal => g = h
  BY <1>1, <1>3, <1>5 DEF IntakeInv, FoldersOK
<1>8. \A g, h \in Filed' : folder'[g].code /\ folder'[h].code => g = h
  BY <1>1, <1>3, <1>5 DEF IntakeInv, FoldersOK
<1> QED
  BY <1>1, <1>4, <1>6, <1>7, <1>8 DEF FoldersOK

\* An opportunity is written, new or one that was still open.
LEMMA DealWritten ==
  ASSUME IntakeInv, NEW d \in Deals, NEW x \in DealRows, deal' = [deal EXCEPT ![d] = x],
         d \in NextDeal \/ (d \in Made /\ deal[d].stage \in OpenStages)
  PROVE  /\ deal' \in [Deals -> DealRows \cup {NoDeal}]
         /\ \A e \in Deals : deal'[e] = IF e = d THEN x ELSE deal[e]
         /\ Made' = Made \cup {d} /\ \E n \in Nat : Made' = 1..n
         /\ \A s \in Sales : Formalized(s) =>
              /\ contract[s].deal \in Made' /\ deal'[contract[s].deal].stage = "won"
              /\ contract[s].deal # d
<1>1. /\ deal' \in [Deals -> DealRows \cup {NoDeal}]
      /\ \A e \in Deals : deal'[e] = IF e = d THEN x ELSE deal[e]
  BY DEF IntakeInv, IntakeTypeOK
<1>2. x # NoDeal
  BY NoRowsOfIntake
<1>3. Made' = Made \cup {d}
  BY <1>1, <1>2 DEF Made
<1>4. \E n \in Nat : Made' = 1..n
  <2>1. CASE d \in NextDeal
    BY <1>3, <2>1, NextRows
  <2>2. CASE d \in Made
    BY <1>3, <2>2 DEF IntakeInv, DealsOK
  <2> QED
    BY <2>1, <2>2
<1>5. d \notin Made \/ deal[d].stage # "won"
  BY NextRows DEF OpenStages
<1>6. \A s \in Sales : Formalized(s) => contract[s].deal # d /\ contract[s].deal \in Made
  BY <1>5 DEF IntakeInv, DealsOK
<1>7. \A e \in Made : e \in Deals
  BY DEF Made
<1>8. \A s \in Sales : Formalized(s) => deal'[contract[s].deal].stage = "won"
  BY <1>1, <1>6, <1>7 DEF IntakeInv, DealsOK
<1> QED
  BY <1>1, <1>3, <1>4, <1>6, <1>8

LEMMA OpenFolderKeeps ==
  ASSUME IntakeInv, NEW f \in Folders, NEW c \in PeopleIds, NEW d \in Deals \cup {NoDeal},
         NEW resort \in {"ours", "none", "other"}, OpenFolder(f, c, d, resort)
  PROVE  IntakeInv' /\ SheetsKeepTheirDeals
<1> DEFINE row == [customer |-> c, code |-> FALSE, deal |-> d, erased |-> FALSE,
                   resort |-> resort, bridge |-> FALSE]
           x == [customer |-> c, stage |-> "new"]
<1>1. /\ f \in NextFolder /\ d \in NextDeal \cup {NoDeal} /\ people' = people \cup {c}
      /\ deal' = IF d = NoDeal THEN deal ELSE [deal EXCEPT ![d] = x]
      /\ folder' = [folder EXCEPT ![f] = row]
      /\ UNCHANGED <<reuse, said, gone, contract, stock, entry, edit, taken>>
  BY DEF OpenFolder
<1>2. row \in Files /\ row.deal = d /\ row.code = FALSE /\ x \in DealRows
  BY DEF Files, DealRows, Stages
<1> HIDE DEF row, x
<1>3. f \notin Filed /\ f \in Folders
  BY <1>1, NextRows
<1>4. /\ deal' \in [Deals -> DealRows \cup {NoDeal}] /\ Made \subseteq Made' /\ \E n \in Nat : Made' = 1..n
      /\ d # NoDeal => d \in Made'
      /\ \A s \in Sales : Formalized(s) =>
           contract[s].deal \in Made' /\ deal'[contract[s].deal].stage = "won"
  <2>1. CASE d = NoDeal
    <3>1. deal' = deal /\ Made' = Made
      BY <1>1, <2>1 DEF Made
    <3> QED
      BY <2>1, <3>1 DEF IntakeInv, IntakeTypeOK, DealsOK
  <2>2. CASE d # NoDeal
    <3>1. d \in NextDeal /\ d \in Deals /\ deal' = [deal EXCEPT ![d] = x]
      BY <1>1, <2>2 DEF NextDeal
    <3>2. /\ deal' \in [Deals -> DealRows \cup {NoDeal}]
          /\ Made' = Made \cup {d} /\ \E n \in Nat : Made' = 1..n
          /\ \A s \in Sales : Formalized(s) =>
               contract[s].deal \in Made' /\ deal'[contract[s].deal].stage = "won"
      BY <1>2, <3>1, DealWritten
    <3> QED
      BY <3>2
  <2> QED
    BY <2>1, <2>2
<1>5. row.deal # NoDeal => row.deal \in Made' /\ \A g \in Filed \ {f} : folder[g].deal # row.deal
  <2>1. d # NoDeal => d \notin Made
    BY <1>1, NextRows
  <2> QED
    BY <1>2, <1>4, <2>1 DEF IntakeInv, FoldersOK
<1>6. FoldersOK' /\ folder' \in [Folders -> Files \cup {NoFolder}]
      /\ \A g \in Folders : folder'[g] = IF g = f THEN row ELSE folder[g]
  BY <1>1, <1>2, <1>4, <1>5, SheetWritten
<1>7. acts' \in 0..MaxActs
  BY ActCounts DEF OpenFolder
<1>8. IntakeTypeOK' /\ entry' \in [Entrances -> Entries]
  BY <1>1, <1>4, <1>6, <1>7 DEF IntakeInv, IntakeTypeOK
<1>9. DealsOK'
  BY <1>1, <1>4 DEF IntakeInv, DealsOK, Formalized
<1>10. StockOK'
  <2>1. Kept' = Kept
    BY <1>1 DEF Kept, Formalized
  <2> QED
    BY <1>1, <2>1 DEF IntakeInv, StockOK, Formalized
<1>11. SheetsKeepTheirDeals
  BY <1>3, <1>6 DEF SheetsKeepTheirDeals, Filed
<1> QED
  BY <1>6, <1>8, <1>9, <1>10, <1>11 DEF IntakeInv

\* What is left of a sale once its opportunity and its sheet are written.
LEMMA SaleWritten ==
  ASSUME IntakeInv, NEW k \in Entrances, NEW s \in Sales, NEW c \in PeopleIds, NEW d \in Deals,
         ~Formalized(s), stock > 0, people' = people \cup {c},
         deal' = [deal EXCEPT ![d] = [customer |-> c, stage |-> "won"]],
         d \in NextDeal \/ (d \in Made /\ deal[d].stage \in OpenStages),
         contract' = [contract EXCEPT ![s] = [customer |-> c, deal |-> d, lost |-> FALSE]],
         FoldersOK', folder' \in [Folders -> Files \cup {NoFolder}],
         stock' = stock - 1, entry' = [entry EXCEPT ![k] = NoEntry], taken' = taken \cup {s},
         UNCHANGED <<reuse, said, gone, edit, acts>>
  PROVE  /\ IntakeInv' /\ contract'[s] # NoSale /\ contract'[s].deal = d /\ contract'[s].customer = c
         /\ deal'[d].customer = c
<1> DEFINE x == [customer |-> c, stage |-> "won"]
           y == [customer |-> c, deal |-> d, lost |-> FALSE]
<1>1. x \in DealRows /\ x.stage = "won" /\ x.customer = c
  BY DEF DealRows, Stages
<1>2. y \in SaleRows /\ y.deal = d /\ y.customer = c /\ y.lost = FALSE /\ y # NoSale
  <2>1. y \in SaleRows /\ y.deal = d /\ y.customer = c /\ y.lost = FALSE
    BY DEF SaleRows
  <2> HIDE DEF y
  <2> QED
    BY <2>1, NoRowsOfIntake
<1>3. deal' = [deal EXCEPT ![d] = x] /\ contract' = [contract EXCEPT ![s] = y]
  OBVIOUS
<1> HIDE DEF x, y
<1>4. /\ deal' \in [Deals -> DealRows \cup {NoDeal}] /\ deal'[d] = x
      /\ Made' = Made \cup {d} /\ \E n \in Nat : Made' = 1..n
      /\ \A t \in Sales : Formalized(t) =>
           contract[t].deal \in Made' /\ deal'[contract[t].deal].stage = "won" /\ contract[t].deal # d
  BY <1>1, <1>3, DealWritten
<1>5. /\ contract' \in [Sales -> SaleRows \cup {NoSale}]
      /\ \A t \in Sales : contract'[t] = IF t = s THEN y ELSE contract[t]
  <2>1. contract \in [Sales -> SaleRows \cup {NoSale}]
    BY DEF IntakeInv, IntakeTypeOK
  <2> QED
    BY <1>2, <1>3, <2>1
<1>6. \A t \in Sales : Formalized(t)' = (Formalized(t) \/ t = s)
  BY <1>2, <1>5 DEF Formalized
<1>7. DealsOK'
  <2>1. \A t \in Sales : (Formalized(t) \/ t = s) =>
          contract'[t].deal \in Made' /\ deal'[contract'[t].deal].stage = "won"
    BY <1>1, <1>2, <1>4, <1>5
  <2>2. \A t, u \in Sales : (Formalized(t) \/ t = s) /\ (Formalized(u) \/ u = s)
                            /\ contract'[t].deal = contract'[u].deal => t = u
    BY <1>2, <1>4, <1>5 DEF IntakeInv, DealsOK
  <2>3. edit' # NoEntry => edit'.on \in Made' /\ edit'.to.stage \in Moves[edit'.seen.stage]
    BY <1>4 DEF IntakeInv, DealsOK
  <2> QED
    BY <1>4, <1>6, <2>1, <2>2, <2>3 DEF DealsOK
<1>8. Kept' = Kept \cup {s} /\ s \notin Kept
  BY <1>2, <1>5, <1>6 DEF Kept, Formalized
<1>9. IsFiniteSet(Kept \cup {s}) /\ Cardinality(Kept \cup {s}) = Cardinality(Kept) + 1 /\ Cardinality(Kept) \in Nat
  BY <1>8, FS_AddElement, FS_CardinalityType DEF IntakeInv, StockOK
<1>10. stock' = Quotas - Cardinality(Kept \cup {s}) /\ stock' \in 0..Quotas
  <2> DEFINE a == Cardinality(Kept)
             b == Cardinality(Kept \cup {s})
  <2>1. a \in Nat /\ b = a + 1 /\ stock = Quotas - a /\ stock \in 0..Quotas /\ Quotas \in Nat
    BY <1>9, IntakeAssumption DEF IntakeInv, IntakeTypeOK, StockOK
  <2> HIDE DEF a, b
  <2>2. stock' = Quotas - b /\ stock' \in 0..Quotas
    BY <2>1
  <2> QED
    BY <2>2 DEF b
<1>11. StockOK'
  <2>1. \A t \in taken : t \in Sales /\ Formalized(t)
    BY DEF IntakeInv, IntakeTypeOK, StockOK
  <2>2. \A t \in taken' : Formalized(t)'
    BY <1>6, <2>1
  <2> QED
    BY <1>8, <1>9, <1>10, <2>2 DEF StockOK
<1>12. entry' \in [Entrances -> Entries]
  BY DEF IntakeInv, Entries
<1>13. \A j \in Entrances :
        \/ entry'[j] = NoEntry
        \/ entry'[j].at = "begin" /\ entry'[j].sale \in Sales
        \/ entry'[j].at = "lock" /\ entry'[j].sale \in Sales /\ entry'[j].view \in Views
  BY <1>12 DEF Entries
<1>14. IntakeTypeOK'
  BY <1>4, <1>5, <1>10, <1>13 DEF IntakeInv, IntakeTypeOK
<1>15. contract'[s] = y
  BY <1>5
<1> QED
  BY <1>1, <1>2, <1>4, <1>7, <1>11, <1>12, <1>14, <1>15 DEF IntakeInv

LEMMA FormalizeKeeps ==
  ASSUME IntakeInv, NEW k \in Entrances, Formalize(k)
  PROVE  IntakeInv' /\ SheetsKeepTheirDeals
<1> DEFINE s == entry[k].sale
           view == entry[k].view
           matched == Matching(s, view)
<1>1. /\ s \in Sales /\ view \in Views /\ ~Formalized(s) /\ stock > 0 /\ said[s].code \in BOOLEAN
      /\ stock' = stock - 1 /\ entry' = [entry EXCEPT ![k] = NoEntry] /\ taken' = taken \cup {s}
      /\ UNCHANGED <<reuse, said, gone, edit, acts>>
  BY IntakeAssumption DEF Formalize, IntakeInv, IntakeTypeOK, Entries
<1>2. /\ folder \in [Folders -> Files \cup {NoFolder}]
      /\ \A f \in Filed : f \in Folders /\ folder[f] \in Files
  BY DEF IntakeInv, IntakeTypeOK, Filed
<1>3. PICK m \in IF matched = {} THEN {0} ELSE matched :
        LET link == LinkOf(s, m, view)
            linked == CHOOSE f \in link : TRUE
            c == IF link # {} THEN folder[linked].customer
                 ELSE IF m # 0 THEN m ELSE Cardinality(people) + 1
            old == IF link = {} THEN {} ELSE Reusable(linked, c, view)
        IN /\ c \in PeopleIds
           /\ people' = people \cup {c}
           /\ \E d \in IF old # {} THEN old ELSE NextDeal :
                /\ deal' = [deal EXCEPT ![d] = [customer |-> c, stage |-> "won"]]
                /\ contract' = [contract EXCEPT ![s] = [customer |-> c, deal |-> d, lost |-> FALSE]]
                /\ IF link # {}
                   THEN folder' = [folder EXCEPT ![linked] =
                          LinkedTo(d, folder[linked], StillWon(linked), said[s].code /\ ByCode(s) = {})]
                   ELSE \E f \in NextFolder :
                          folder' = [folder EXCEPT ![f] =
                            [customer |-> c, code |-> said[s].code /\ ByCode(s) = {}, deal |-> d,
                             erased |-> FALSE, resort |-> "ours", bridge |-> TRUE]]
  BY DEF Formalize
<1> DEFINE link == LinkOf(s, m, view)
           linked == CHOOSE f \in link : TRUE
           c == IF link # {} THEN folder[linked].customer
                ELSE IF m # 0 THEN m ELSE Cardinality(people) + 1
           old == IF link = {} THEN {} ELSE Reusable(linked, c, view)
<1>4. c \in PeopleIds /\ people' = people \cup {c}
  BY <1>3
<1>5. PICK d \in IF old # {} THEN old ELSE NextDeal :
        /\ deal' = [deal EXCEPT ![d] = [customer |-> c, stage |-> "won"]]
        /\ contract' = [contract EXCEPT ![s] = [customer |-> c, deal |-> d, lost |-> FALSE]]
        /\ IF link # {}
           THEN folder' = [folder EXCEPT ![linked] =
                  LinkedTo(d, folder[linked], StillWon(linked), said[s].code /\ ByCode(s) = {})]
           ELSE \E f \in NextFolder :
                  folder' = [folder EXCEPT ![f] =
                    [customer |-> c, code |-> said[s].code /\ ByCode(s) = {}, deal |-> d,
                     erased |-> FALSE, resort |-> "ours", bridge |-> TRUE]]
  BY <1>3
<1>6. link # {} => linked \in link
  OBVIOUS
<1>7. \A f \in link : f \in Filed /\ ~folder[f].erased
  BY DEF LinkOf, ByCode, Candidates
<1> HIDE DEF link, linked
<1>8. link # {} => c = folder[linked].customer
  OBVIOUS
<1>9. /\ d \in Deals
      /\ \/ d \in NextDeal
         \/ /\ d \in Made /\ deal[d].stage \in OpenStages
            /\ link # {} /\ d = folder[linked].deal
  <2>1. CASE old # {}
    <3>1. d \in Deals /\ link # {} /\ d = folder[linked].deal /\ deal[d].stage \in OpenStages
      BY <1>5, <2>1 DEF Reusable
    <3>2. linked \in Filed /\ d # NoDeal
      BY <1>6, <1>7, <3>1, NoRowsOfIntake
    <3>3. d \in Made
      BY <3>1, <3>2 DEF IntakeInv, FoldersOK
    <3> QED
      BY <3>1, <3>3
  <2>2. CASE old = {}
    <3>1. d \in NextDeal
      BY <1>5, <2>2
    <3> QED
      BY <3>1 DEF NextDeal
  <2> QED
    BY <2>1, <2>2
<1> HIDE DEF old
<1>10. Made' = Made \cup {d} /\ d # NoDeal
  <2> DEFINE x == [customer |-> c, stage |-> "won"]
  <2>1. x \in DealRows
    BY <1>4 DEF DealRows, Stages
  <2>2. deal' = [deal EXCEPT ![d] = x]
    BY <1>5
  <2> HIDE DEF x
  <2> QED
    BY <1>9, <2>1, <2>2, DealWritten, NoRowsOfIntake
<1>11. d \in NextDeal => \A f \in Filed : folder[f].deal # d
  BY <1>10, NextRows DEF IntakeInv, FoldersOK
<1> HIDE DEF c, s, view, matched
<1>16. /\ d \in Deals /\ s \in Sales /\ c \in PeopleIds /\ ~Formalized(s) /\ stock > 0
       /\ people' = people \cup {c}
       /\ d \in NextDeal \/ (d \in Made /\ deal[d].stage \in OpenStages)
       /\ deal' = [deal EXCEPT ![d] = [customer |-> c, stage |-> "won"]]
       /\ contract' = [contract EXCEPT ![s] = [customer |-> c, deal |-> d, lost |-> FALSE]]
       /\ stock' = stock - 1 /\ entry' = [entry EXCEPT ![k] = NoEntry] /\ taken' = taken \cup {s}
       /\ UNCHANGED <<reuse, said, gone, edit, acts>>
  BY <1>1, <1>4, <1>5, <1>9
<1>12. CASE link # {}
  <2> DEFINE v == folder[linked]
             to == IF StillWon(linked) THEN v.deal ELSE d
             coded == v.code \/ (said[s].code /\ ByCode(s) = {})
             where == IF v.resort = "none" THEN "ours" ELSE v.resort
             row == LinkedTo(d, v, StillWon(linked), said[s].code /\ ByCode(s) = {})
  <2>1. linked \in Filed /\ linked \in Folders /\ v \in Files /\ ~v.erased /\ v.customer = c
    BY <1>2, <1>6, <1>7, <1>8, <1>12
  <2>2. folder' = [folder EXCEPT ![linked] = row]
    BY <1>5, <1>12
  <2>3. to \in Deals \cup {NoDeal} /\ coded \in BOOLEAN /\ where \in {"ours", "none", "other"}
    BY <1>1, <1>9, <2>1 DEF Files
  <2>4. coded => \A g \in Filed \ {linked} : ~folder[g].code
    <3>1. CASE v.code
      BY <2>1, <3>1 DEF IntakeInv, FoldersOK
    <3>2. CASE said[s].code /\ ByCode(s) = {}
      BY <3>2 DEF ByCode
    <3> QED
      BY <3>1, <3>2
  <2>5. /\ to # NoDeal => to \in Made'
        /\ to # NoDeal => \A g \in Filed \ {linked} : folder[g].deal # to
    <3>1. CASE StillWon(linked)
      BY <1>10, <2>1, <3>1 DEF IntakeInv, FoldersOK
    <3>2. CASE ~StillWon(linked)
      <4>1. CASE d \in NextDeal
        BY <1>10, <1>11, <3>2, <4>1
      <4>2. CASE d = v.deal
        BY <1>10, <2>1, <3>2, <4>2 DEF IntakeInv, FoldersOK
      <4> QED
        BY <1>9, <4>1, <4>2
    <3> QED
      BY <3>1, <3>2
  <2>6. StillWon(linked) <=> v.deal # NoDeal /\ deal[v.deal].stage = "won"
    BY DEF StillWon
  <2>7. /\ v.deal # NoDeal /\ deal[v.deal].stage = "won" => to = v.deal
        /\ to = v.deal \/ to = d
    BY <2>6
  <2> HIDE DEF to, coded, where
  <2>8. row \in Files /\ row.deal = to /\ row.code = coded /\ row.customer = c
    <3>1. row = [v EXCEPT !.deal = to, !.code = coded, !.resort = where]
      BY <2>1 DEF Files, LinkedTo, to, coded, where
    <3> HIDE DEF row
    <3> QED
      BY <2>1, <2>3, <3>1 DEF Files
  <2> HIDE DEF row
  <2>9. /\ FoldersOK' /\ folder' \in [Folders -> Files \cup {NoFolder}]
        /\ \A g \in Folders : folder'[g] = IF g = linked THEN row ELSE folder[g]
    BY <1>10, <2>1, <2>2, <2>4, <2>5, <2>8, SheetWritten
  <2> HIDE DEF v
  <2>12. FoldersOK' /\ folder' \in [Folders -> Files \cup {NoFolder}]
    BY <2>9
  <2>10. /\ IntakeInv' /\ contract'[s] # NoSale /\ contract'[s].deal = d /\ contract'[s].customer = c
         /\ deal'[d].customer = c
    BY <1>16, <2>12, SaleWritten, Zenon
  <2> USE DEF v
  <2>11. SheetsKeepTheirDeals
    <3> SUFFICES ASSUME NEW f \in Filed
                 PROVE  /\ folder[f].deal # NoDeal /\ deal[folder[f].deal].stage = "won" => folder'[f].deal = folder[f].deal
                        /\ folder[f].erased => folder'[f].deal = folder[f].deal
                        /\ folder'[f].deal # folder[f].deal =>
                             \E t \in Sales : ~Formalized(t) /\ contract'[t] # NoSale
                               /\ contract'[t].deal = folder'[f].deal
                               /\ contract'[t].customer = folder'[f].customer
                               /\ deal'[folder'[f].deal].customer = folder'[f].customer
      BY DEF SheetsKeepTheirDeals
    <3>1. CASE f = linked
      <4>1. folder'[f].deal = to /\ folder'[f].customer = c
        BY <2>1, <2>8, <2>9, <3>1
      <4> QED
        BY <1>1, <2>1, <2>7, <2>10, <3>1, <4>1
    <3>2. CASE f # linked
      BY <1>2, <2>9, <3>2
    <3> QED
      BY <3>1, <3>2
  <2> QED
    BY <2>10, <2>11
<1>13. CASE link = {}
  <2>1. PICK f \in NextFolder :
          folder' = [folder EXCEPT ![f] =
            [customer |-> c, code |-> said[s].code /\ ByCode(s) = {}, deal |-> d,
             erased |-> FALSE, resort |-> "ours", bridge |-> TRUE]]
    BY <1>5, <1>13
  <2> DEFINE coded == said[s].code /\ ByCode(s) = {}
             row == [customer |-> c, code |-> coded, deal |-> d,
                     erased |-> FALSE, resort |-> "ours", bridge |-> TRUE]
  <2>2. coded \in BOOLEAN /\ (coded => \A g \in Filed : ~folder[g].code)
    BY <1>1 DEF ByCode
  <2> HIDE DEF coded
  <2>3. row \in Files /\ row.deal = d /\ row.code = coded
    BY <1>4, <1>9, <2>2 DEF Files
  <2>4. folder' = [folder EXCEPT ![f] = row]
    BY <2>1 DEF coded
  <2> HIDE DEF row
  <2>5. d \in NextDeal /\ f \in Folders /\ f \notin Filed
    BY <1>9, <1>13, NextRows
  <2>6. /\ FoldersOK' /\ folder' \in [Folders -> Files \cup {NoFolder}]
        /\ \A g \in Folders : folder'[g] = IF g = f THEN row ELSE folder[g]
    BY <1>10, <1>11, <2>2, <2>3, <2>4, <2>5, SheetWritten
  <2>7. IntakeInv'
    BY <1>16, <2>6, SaleWritten, Zenon
  <2>8. SheetsKeepTheirDeals
    BY <1>2, <2>5, <2>6 DEF SheetsKeepTheirDeals
  <2> QED
    BY <2>7, <2>8
<1> QED
  BY <1>12, <1>13

LEMMA IntakeStep ==
  ASSUME IntakeInv, [IntakeNext]_intakeVars
  PROVE  IntakeInv' /\ SheetsKeepTheirDeals
<1>1. CASE UNCHANGED intakeVars
  <2>1. entry' \in [Entrances -> Entries] /\ taken' = taken
    BY <1>1 DEF intakeVars, IntakeInv
  <2>2. UNCHANGED <<reuse, said, people, gone, folder, deal, contract, stock, edit, acts>>
    BY <1>1 DEF intakeVars
  <2> QED
    BY <2>1, <2>2, CallKeeps
<1>2. ASSUME NEW k \in Entrances,
             (\E s \in Sales : LookForSale(k, s)) \/ OpenIntake(k) \/ IntakeRaced(k) \/ IntakeFails(k)
      PROVE  IntakeInv' /\ SheetsKeepTheirDeals
  BY <1>2, CallsKeep
<1>3. ASSUME NEW k \in Entrances, Formalize(k)
      PROVE  IntakeInv' /\ SheetsKeepTheirDeals
  BY <1>3, FormalizeKeeps
<1>4. ASSUME NEW s \in Sales, LoseStock(s)
      PROVE  IntakeInv' /\ SheetsKeepTheirDeals
  BY <1>4, LoseStockKeeps
<1>5. ASSUME NEW f \in Folders, NEW c \in PeopleIds, NEW d \in Deals \cup {NoDeal},
             NEW resort \in {"ours", "none", "other"}, OpenFolder(f, c, d, resort)
      PROVE  IntakeInv' /\ SheetsKeepTheirDeals
  BY <1>5, OpenFolderKeeps
<1>6. CASE (\E f \in Folders : SetCoupleCode(f)) \/ (\E c \in PeopleIds : Anonymize(c))
  BY <1>6, SheetsKeep
<1>7. CASE \/ \E d \in Deals, to \in Stages, c \in PeopleIds : ReadDeal(d, to, c)
           \/ WriteDeal
           \/ \E d \in Deals : CreateProposal(d)
  BY <1>7, DeskKeepsDeals
<1> QED
  BY <1>1, <1>2, <1>3, <1>4, <1>5, <1>6, <1>7 DEF IntakeNext

(* Customers, sheets, opportunities, contracts and what the calls hold keep *)
(* their types, for any sales, entrances and bounds.                        *)
THEOREM IntakeTypes == IntakeSpec => []IntakeTypeOK
<1>1. IntakeInv => IntakeTypeOK
  BY DEF IntakeInv
<1> QED
  BY <1>1, IntakeStarts, IntakeStep, PTL DEF IntakeSpec

(* A sale closes one opportunity of its own that stays won and is on one    *)
(* sheet at most, takes one quota, and writes the code of the couple on one *)
(* sheet; the opportunity of a sheet is never taken from a sale that won    *)
(* it, and an erased sheet is not moved: however calls of the same sale,    *)
(* receptions, edits and erasures cross (materializeSalesCommandSale,       *)
(* salesCommandBridge.ts).                                                  *)
THEOREM SalesCloseTheirDeals == IntakeSpec => EachSaleClosesItsDeal
<1>1. IntakeInit => IntakeInv
  BY IntakeStarts
<1>2. IntakeInv /\ [IntakeNext]_intakeVars => IntakeInv' /\ SheetsKeepTheirDeals
  BY IntakeStep
<1>3. IntakeInv => OneDealEach
  BY ProperIntake
<1> QED
  BY <1>1, <1>2, <1>3, PTL DEF IntakeSpec, EachSaleClosesItsDeal, SheetsKeepTheirDeals

-----------------------------------------------------------------------------
(* Each office moves its own variables only, so all keep their types in any *)
(* behaviour of the three (MCSales).                                        *)
THEOREM SalesTypesKept == SalesSpec => []SalesTypeOK
<1> DEFINE All == TypeOK /\ IntakeInv /\ AttendanceTypeOK
<1>1. SalesInit => All
  BY SaleTypesKept, IntakeStarts, RegistryTypesKept DEF SalesInit
<1>2. All /\ [SalesNext]_salesVars => All'
  <2> SUFFICES ASSUME TypeOK, IntakeInv, AttendanceTypeOK, [SalesNext]_salesVars
               PROVE  TypeOK' /\ IntakeInv' /\ AttendanceTypeOK'
    OBVIOUS
  <2>1. [Next]_vars /\ [IntakeNext]_intakeVars /\ [AttendanceNext]_attendanceVars
    BY DEF SalesNext, salesVars
  <2> QED
    BY <2>1, SaleTypesKept, IntakeStep, RegistryTypesKept
<1>3. All => SalesTypeOK
  BY DEF IntakeInv, SalesTypeOK
<1> QED
  BY <1>1, <1>2, <1>3, PTL DEF SalesSpec
=============================================================================
