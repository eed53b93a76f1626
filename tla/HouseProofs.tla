---------------------------- MODULE HouseProofs -----------------------------
(***************************************************************************)
(* The house: the sales room, the stays, the signature, the points and the *)
(* commissions, for any numbers.                                           *)
(*                                                                         *)
(* The sales room: what a host is about to write was admitted for the      *)
(* status it repeats (Fits), and the write repeats it.                     *)
(*                                                                         *)
(* The stays: what a desk has read still names rows (Knows), and what is   *)
(* read under the locks of unit and item is what is written.               *)
(*                                                                         *)
(* The signature: what is active, signed or cancelled at the service has   *)
(* its document on record (EnvelopesAreKnown), and what a webhook under    *)
(* way or a reading says is so at the service (WordsAreTrue), where        *)
(* nothing is taken back (Later).                                          *)
(*                                                                         *)
(* The points: what is left of the credits of the years that can still be  *)
(* spent covers what was taken from them (Covered), whichever order        *)
(* credits, stays, reversals, adjustments and settlements come in.         *)
(*                                                                         *)
(* The commissions: the lines in force are of one rule, and none is more   *)
(* than what the due leaves of those before it (LinesOK), in whichever     *)
(* order payments, validation and reprocess make them; a decision is of a  *)
(* line that was not decided when it was read (DecisionsOK).               *)
(*                                                                         *)
(* The payments: lines only grow behind those before them by their rule    *)
(* (Grown), so what a payment left to be noticed stays noticed; and the    *)
(* agreements lead from each installment to one end (Ends), which the code *)
(* finds again by date (Matches) when no agreement is due on a day of the  *)
(* schedule, so that the entry then pays at its ends only (WholeEntry).    *)
(***************************************************************************)
EXTENDS MCHouse, Recursion, FiniteSetTheorems, SequenceTheorems, TLAPS

(* The sales room.                                                          *)

(* What a host is about to write was admitted for the status it repeats; an *)
(* outcome repeats none, but the presentation does not go back.             *)
Fits(a) ==
  /\ Exists(a.on)
  /\ a.op \in {"check_in", "assign", "start", "end", "no_tour"} => a.seen \notin {"no_tour", "closed"}
  /\ a.op = "status" => a.arg \in Allowed[a.seen]
  /\ a.op = "check_in" => a.seen \in {"captured", "scheduled"}
  /\ a.op = "start" => a.seen = "checked_in"
  /\ a.op = "end" => a.seen = "presented"
  /\ a.op = "no_tour" => a.seen # "presented" /\ a.arg \in Said
  /\ a.op = "outcome" => a.arg \in Results /\ visit[a.on].status \in {"presented", "closed"}

(* The first part of OneWayToEnd, of one sheet. *)
EndsOneWay(v) ==
  /\ v.outcome # "none" => v.status \in {"presented", "closed"}
  /\ v.nt # "none" => v.status = "no_tour"
  /\ v.status = "no_tour" /\ ~v.erased => v.reason \in IF v.nt = "none" THEN {"text"} ELSE {v.nt}
  /\ v.started => v.status \in {"presented", "closed"}

Sheets == {c \in Couples : Exists(c)}
Sent == {q \in Submissions : filed[q] # NoSheet}

SheetsMatch ==
  /\ IsFiniteSet(Sheets) /\ IsFiniteSet(Sent) /\ Cardinality(Sheets) = Cardinality(Sent)
  /\ \A q \in Submissions : sending[q].told \subseteq {filed[q]} /\ (filed[q] = NoSheet => sending[q].told = {})

RoomInv ==
  /\ RoomTypeOK
  /\ \A h \in Hosts : act[h] # NoAct => Fits(act[h])
  /\ \A c \in Couples : Exists(c) => EndsOneWay(visit[c])
  /\ SheetsMatch

(* What a step may do to a sheet. *)
GoesOn(v, w) ==
  /\ w \in Visits /\ EndsOneWay(w)
  /\ v.outcome # "none" => w.outcome = v.outcome
  /\ v.status \in {"no_tour", "closed"} => w.status = v.status
  /\ v.status = "no_tour" => w.nt = v.nt /\ (w.erased \/ w.reason = v.reason)
  /\ v.status \in {"presented", "closed"} => w.status \in {"presented", "closed"}
  /\ v.erased => w = v

LEMMA WithoutTourGoesOn ==
  ASSUME NEW v \in Visits, EndsOneWay(v), ~v.erased, v.status \notin {"no_tour", "presented", "closed"}, NEW said \in Said
  PROVE  GoesOn(v, WithoutTour(v, said))
<1> DEFINE w == WithoutTour(v, said)
<1>1. /\ w.status = "no_tour" /\ w.reason = said /\ w.nt = IF said \in Motives THEN said ELSE v.nt
      /\ w.outcome = v.outcome /\ w.started = v.started /\ w.erased = v.erased /\ w \in Visits
  BY DEF WithoutTour, Visits, VisitStatuses, Said
<1>2. v.nt = "none" /\ v.outcome = "none" /\ v.started = FALSE
  BY DEF EndsOneWay, Visits
<1>3. "none" \notin Motives /\ (said = "text" \/ said \in Motives) /\ "text" \notin Motives
  BY DEF Said, Motives
<1> HIDE DEF w
<1> QED
  BY <1>1, <1>2, <1>3 DEF GoesOn, EndsOneWay, w

LEMMA WriteGoesOn ==
  ASSUME NEW a, a \in Acts, a # NoAct, NEW text \in {"none", "text"}, NEW v \in Visits, EndsOneWay(v), ~v.erased,
         IF a.op = "outcome" THEN v.outcome = "none" ELSE v.status = a.seen,
         a.op \in {"check_in", "assign", "start", "end", "no_tour"} => a.seen \notin {"no_tour", "closed"},
         a.op = "status" => a.arg \in Allowed[a.seen],
         a.op = "check_in" => a.seen \in {"captured", "scheduled"},
         a.op = "start" => a.seen = "checked_in",
         a.op = "end" => a.seen = "presented",
         a.op = "no_tour" => a.seen # "presented" /\ a.arg \in Said,
         a.op = "outcome" => a.arg \in Results /\ v.status \in {"presented", "closed"}
  PROVE  GoesOn(v, Written(v, a.op, a.arg, text))
<1>1. a.op \in Operations /\ a.seen \in VisitStatuses
  BY DEF Acts
<1>2. CASE a.op = "status"
  <2>1. a.arg \in Allowed[a.seen] /\ v.status = a.seen
    BY <1>2
  <2>2. /\ a.seen # "no_tour" /\ a.arg \in VisitStatuses \ {"no_tour"}
        /\ a.seen = "closed" => a.arg = "closed"
        /\ a.seen = "presented" => a.arg \in {"presented", "closed"}
    BY <1>1, <2>1 DEF Allowed, VisitStatuses
  <2>3. Written(v, a.op, a.arg, text) = [v EXCEPT !.status = a.arg, !.reason = text]
    BY <1>2 DEF Written
  <2> QED
    BY <2>1, <2>2, <2>3 DEF GoesOn, EndsOneWay, Visits, Said
<1>3. CASE a.op = "check_in"
  <2>1. Written(v, a.op, a.arg, text) = [v EXCEPT !.status = "checked_in"]
    BY <1>3 DEF Written
  <2> QED
    BY <1>3, <2>1 DEF GoesOn, EndsOneWay, Visits, VisitStatuses
<1>4. CASE a.op = "assign"
  <2>1. Written(v, a.op, a.arg, text) = [v EXCEPT !.table = TRUE]
    BY <1>4 DEF Written
  <2> QED
    BY <1>4, <2>1 DEF GoesOn, EndsOneWay, Visits
<1>5. CASE a.op = "start"
  <2>1. Written(v, a.op, a.arg, text) = [v EXCEPT !.status = "presented", !.started = TRUE, !.ended = FALSE]
    BY <1>5 DEF Written
  <2> QED
    BY <1>5, <2>1 DEF GoesOn, EndsOneWay, Visits, VisitStatuses
<1>6. CASE a.op = "end"
  <2>1. Written(v, a.op, a.arg, text) = [v EXCEPT !.status = "closed", !.ended = TRUE]
    BY <1>6 DEF Written
  <2> QED
    BY <1>6, <2>1 DEF GoesOn, EndsOneWay, Visits, VisitStatuses
<1>7. CASE a.op = "no_tour"
  <2>1. Written(v, a.op, a.arg, text) = WithoutTour(v, a.arg)
    BY <1>7 DEF Written
  <2>2. v.status \in VisitStatuses \ {"no_tour", "presented", "closed"} /\ a.arg \in Said
    BY <1>1, <1>7
  <2> QED
    BY <2>1, <2>2, WithoutTourGoesOn
<1>8. CASE a.op = "outcome"
  <2>1. Written(v, a.op, a.arg, text) = [v EXCEPT !.outcome = a.arg]
    BY <1>8 DEF Written
  <2> QED
    BY <1>8, <2>1 DEF GoesOn, EndsOneWay, Visits
<1> QED
  BY <1>1, <1>2, <1>3, <1>4, <1>5, <1>6, <1>7, <1>8 DEF Operations

\* While sheets only go on, what the hosts had read still admits what they write.
LEMMA ActsKeep ==
  ASSUME RoomInv,
         \A h \in Hosts : act'[h] \in {act[h], NoAct},
         \A d \in Couples : Exists(d) => Exists(d)' /\ GoesOn(visit[d], visit'[d])
  PROVE  (\A h \in Hosts : act[h] # NoAct => Fits(act[h]))'
<1> SUFFICES ASSUME NEW h \in Hosts, act'[h] # NoAct
             PROVE  Fits(act[h])'
  OBVIOUS
<1>1. act'[h] = act[h] /\ act[h] # NoAct
  OBVIOUS
<1> DEFINE a == act[h]
<1>2. a \in Acts /\ a.on \in Couples /\ Fits(a)
  BY <1>1 DEF RoomInv, RoomTypeOK, Acts
<1>3. Exists(a.on) /\ visit'[a.on] # NoSheet /\ GoesOn(visit[a.on], visit'[a.on])
  BY <1>2 DEF Fits, Exists
<1> QED
  BY <1>1, <1>2, <1>3 DEF Fits, GoesOn, Exists

\* A step that changes one sheet, which goes on, and starts no writing.
LEMMA SheetKeeps ==
  ASSUME RoomInv, NEW c \in Couples, Exists(c), NEW w, GoesOn(visit[c], w),
         visit' = [visit EXCEPT ![c] = w],
         act' \in [Hosts -> Acts],
         \A h \in Hosts : act'[h] \in {act[h], NoAct},
         filed' = filed, sending' = sending
  PROVE  /\ RoomInv'
         /\ \A d \in Couples : Exists(d) => GoesOn(visit[d], visit'[d])
<1>1. w \in Visits /\ w # NoSheet /\ EndsOneWay(w)
  BY NoSheetIsNoSheet DEF GoesOn
<1>2. visit' \in [Couples -> Visits \cup {NoSheet}] /\ RoomTypeOK'
  BY <1>1 DEF RoomInv, RoomTypeOK
<1>3. \A d \in Couples : visit'[d] = IF d = c THEN w ELSE visit[d]
  BY DEF RoomInv, RoomTypeOK
<1>4. \A d \in Couples : Exists(d) => GoesOn(visit[d], visit[d])
  BY DEF GoesOn, RoomInv, RoomTypeOK, Exists
<1>5. \A d \in Couples : Exists(d) => GoesOn(visit[d], visit'[d])
  BY <1>3, <1>4
<1>6. \A d \in Couples : Exists(d)' = Exists(d)
  BY <1>1, <1>3 DEF Exists
<1>7. (\A h \in Hosts : act[h] # NoAct => Fits(act[h]))'
  BY <1>5, <1>6, ActsKeep
<1>8. (\A d \in Couples : Exists(d) => EndsOneWay(visit[d]))'
  BY <1>5, <1>6 DEF GoesOn
<1>9. Sheets' = Sheets /\ Sent' = Sent
  BY <1>6 DEF Sheets, Sent
<1>10. SheetsMatch'
  BY <1>9 DEF SheetsMatch, RoomInv
<1> QED
  BY <1>2, <1>5, <1>7, <1>8, <1>10 DEF RoomInv

LEMMA ReadFits ==
  ASSUME NEW h \in Hosts, NEW c \in Couples, NEW op \in Operations,
         NEW arg \in VisitStatuses \cup Results \cup Said \cup {"-"},
         Exists(c), visit[c] \in Visits, Admitted(visit[c], op, arg)
  PROVE  Fits([op |-> op, on |-> c, seen |-> visit[c].status, arg |-> arg])
<1> DEFINE v == visit[c]
<1>1. op \in {"check_in", "assign", "start", "end", "no_tour"} => v.status \notin {"no_tour", "closed"}
  BY DEF Admitted
<1>2. op = "status" => arg \in Allowed[v.status]
  BY DEF Admitted
<1>3. op = "check_in" => v.status \in {"captured", "scheduled"}
  BY DEF Admitted
<1>4. op = "start" => v.status = "checked_in"
  BY DEF Admitted
<1>5. op = "end" => v.status = "presented"
  BY DEF Admitted
<1>6. op = "no_tour" => v.status # "presented" /\ arg \in Said
  BY DEF Admitted
<1>7. op = "outcome" => arg \in Results /\ v.status \in {"presented", "closed"}
  BY DEF Admitted
<1> QED
  BY <1>1, <1>2, <1>3, <1>4, <1>5, <1>6, <1>7 DEF Fits

LEMMA ReadKeeps ==
  ASSUME RoomInv, NEW h \in Hosts, NEW c \in Couples, NEW op \in Operations,
         NEW arg \in VisitStatuses \cup Results \cup Said \cup {"-"},
         Read(h, c, op, arg)
  PROVE  RoomInv' /\ visit' = visit
<1> DEFINE a == [op |-> op, on |-> c, seen |-> visit[c].status, arg |-> arg]
<1>1. visit[c] \in Visits /\ visit[c].status \in VisitStatuses
  BY DEF Read, RoomInv, RoomTypeOK, Exists, Visits
<1>2. a \in Acts /\ Fits(a)
  BY <1>1, ReadFits DEF Read, Acts
<1> HIDE DEF a
<1>3. act' = [act EXCEPT ![h] = a]
  BY DEF Read, a
<1>4. UNCHANGED <<visit, filed, sending>>
  BY DEF Read
<1>5. RoomTypeOK'
  BY <1>2, <1>3, <1>4 DEF RoomInv, RoomTypeOK
<1>6. \A g \in Hosts : act'[g] # NoAct => Fits(act'[g])
  BY <1>2, <1>3 DEF RoomInv, RoomTypeOK
<1>7. (\A g \in Hosts : act[g] # NoAct => Fits(act[g]))'
  BY <1>4, <1>6 DEF Fits, Exists
<1>8. (\A d \in Couples : Exists(d) => EndsOneWay(visit[d]))' /\ SheetsMatch'
  BY <1>4 DEF RoomInv, Exists, SheetsMatch, Sheets, Sent
<1> QED
  BY <1>4, <1>5, <1>7, <1>8 DEF RoomInv

LEMMA WriteKeeps ==
  ASSUME RoomInv, NEW h \in Hosts, NEW text \in {"none", "text"}, Write(h, text)
  PROVE  /\ RoomInv'
         /\ \A d \in Couples : Exists(d) => GoesOn(visit[d], visit'[d])
<1> DEFINE a == act[h]
           w == Written(visit[a.on], a.op, a.arg, text)
<1>1. a \in Acts /\ a # NoAct /\ a.on \in Couples /\ Fits(a) /\ Exists(a.on)
  BY DEF Write, RoomInv, RoomTypeOK, Acts, Fits
<1>2. visit[a.on] \in Visits /\ EndsOneWay(visit[a.on])
  BY <1>1 DEF RoomInv, RoomTypeOK, Exists
<1>3. act' = [act EXCEPT ![h] = NoAct] /\ filed' = filed /\ sending' = sending
  BY DEF Write
<1>4. act' \in [Hosts -> Acts] /\ \A g \in Hosts : act'[g] \in {act[g], NoAct}
  BY <1>3 DEF RoomInv, RoomTypeOK, Acts
<1>5. CASE Holds(h)
  <2>1. ~visit[a.on].erased /\ IF a.op = "outcome" THEN visit[a.on].outcome = "none" ELSE visit[a.on].status = a.seen
    BY <1>5 DEF Holds
  <2>2. GoesOn(visit[a.on], w)
    BY <1>1, <1>2, <2>1, WriteGoesOn DEF Fits
  <2>3. visit' = [visit EXCEPT ![a.on] = w]
    BY <1>5 DEF Write
  <2> HIDE DEF a, w
  <2> QED
    BY <1>1, <1>3, <1>4, <2>2, <2>3, SheetKeeps
<1>6. CASE ~Holds(h)
  <2>1. visit' = [visit EXCEPT ![a.on] = visit[a.on]]
    BY <1>6 DEF Write, RoomInv, RoomTypeOK
  <2>2. GoesOn(visit[a.on], visit[a.on])
    BY <1>2 DEF GoesOn
  <2> HIDE DEF a
  <2> QED
    BY <1>1, <1>3, <1>4, <2>1, <2>2, SheetKeeps
<1> QED
  BY <1>5, <1>6

LEMMA RecordNtKeeps ==
  ASSUME RoomInv, NEW c \in Couples, NEW motive \in Motives, RecordNt(c, motive)
  PROVE  /\ RoomInv'
         /\ \A d \in Couples : Exists(d) => GoesOn(visit[d], visit'[d])
<1> DEFINE v == visit[c]
           w == WithoutTour(v, motive)
<1>1. v \in Visits /\ EndsOneWay(v) /\ Exists(c)
  BY DEF RecordNt, RoomInv, RoomTypeOK, Exists
<1>2. ~v.erased /\ v.nt = "none" /\ v.outcome = "none" /\ v.status \notin {"no_tour", "presented", "closed"}
  BY DEF RecordNt
<1>3. visit' = [visit EXCEPT ![c] = w] /\ UNCHANGED <<act, filed, sending>>
  BY DEF RecordNt
<1>4. GoesOn(v, w)
  BY <1>1, <1>2, WithoutTourGoesOn DEF Said
<1>5. act' \in [Hosts -> Acts] /\ \A g \in Hosts : act'[g] \in {act[g], NoAct}
  BY <1>3 DEF RoomInv, RoomTypeOK
<1> HIDE DEF w
<1> QED
  BY <1>1, <1>3, <1>4, <1>5, SheetKeeps

LEMMA EraseKeeps ==
  ASSUME RoomInv, NEW c \in Couples, Erase(c)
  PROVE  /\ RoomInv'
         /\ \A d \in Couples : Exists(d) => GoesOn(visit[d], visit'[d])
<1> DEFINE v == visit[c]
           w == [v EXCEPT !.erased = TRUE, !.reason = "none"]
<1>1. v \in Visits /\ EndsOneWay(v) /\ Exists(c) /\ ~v.erased
  BY DEF Erase, RoomInv, RoomTypeOK, Exists
<1>3. visit' = [visit EXCEPT ![c] = w] /\ UNCHANGED <<act, filed, sending>>
  BY <1>1 DEF Erase, RoomInv, RoomTypeOK
<1>4. GoesOn(v, w)
  BY <1>1 DEF GoesOn, EndsOneWay, Visits
<1>5. act' \in [Hosts -> Acts] /\ \A g \in Hosts : act'[g] \in {act[g], NoAct}
  BY <1>3 DEF RoomInv, RoomTypeOK
<1> HIDE DEF w
<1> QED
  BY <1>1, <1>3, <1>4, <1>5, SheetKeeps

LEMMA CreateKeeps ==
  ASSUME RoomInv, NEW q \in Submissions, NEW c \in Couples,
         NEW status \in {"captured", "scheduled"}, Create(q, c, status)
  PROVE  /\ RoomInv'
         /\ \A d \in Couples : Exists(d) => GoesOn(visit[d], visit'[d])
<1> DEFINE w == NewVisit(status)
<1>1. w \in Visits /\ w # NoSheet /\ EndsOneWay(w)
  <2>1. w \in Visits
    BY DEF NewVisit, Visits, VisitStatuses
  <2>2. w.outcome = "none" /\ w.nt = "none" /\ w.status # "no_tour" /\ w.started = FALSE
    BY DEF NewVisit
  <2>3. EndsOneWay(w)
    BY <2>2 DEF EndsOneWay
  <2> QED
    BY <2>1, <2>3, NoSheetIsNoSheet
<1> HIDE DEF w
<1>2. /\ visit' = [visit EXCEPT ![c] = w] /\ filed' = [filed EXCEPT ![q] = c]
      /\ act' = act /\ sending' = sending
      /\ filed[q] = NoSheet /\ visit[c] = NoSheet /\ ~Exists(c)
  BY DEF Create, w, Exists
<1>3. /\ \A d \in Couples : visit'[d] = IF d = c THEN w ELSE visit[d]
      /\ \A p \in Submissions : filed'[p] = IF p = q THEN c ELSE filed[p]
  BY <1>2 DEF RoomInv, RoomTypeOK
<1>4. RoomTypeOK'
  BY <1>1, <1>2 DEF RoomInv, RoomTypeOK
<1>5. \A d \in Couples : Exists(d) => Exists(d)' /\ visit'[d] = visit[d] /\ GoesOn(visit[d], visit'[d])
  BY <1>2, <1>3 DEF Exists, GoesOn, RoomInv, RoomTypeOK
<1>6. (\A h \in Hosts : act[h] # NoAct => Fits(act[h]))'
  BY <1>2, <1>5, ActsKeep
<1>7. (\A d \in Couples : Exists(d) => EndsOneWay(visit[d]))'
  BY <1>1, <1>3 DEF Exists, RoomInv
<1>8. Sheets' = Sheets \cup {c} /\ c \notin Sheets
  BY <1>1, <1>2, <1>3 DEF Sheets, Exists
<1>9. Sent' = Sent \cup {q} /\ q \notin Sent
  BY <1>2, <1>3, NoSheetIsNoSheet DEF Sent
<1>10. IsFiniteSet(Sheets') /\ IsFiniteSet(Sent') /\ Cardinality(Sheets') = Cardinality(Sent')
  <2>1. IsFiniteSet(Sheets) /\ IsFiniteSet(Sent) /\ Cardinality(Sheets) = Cardinality(Sent)
    BY DEF RoomInv, SheetsMatch
  <2>2. IsFiniteSet(Sheets \cup {c}) /\ Cardinality(Sheets \cup {c}) = Cardinality(Sheets) + 1
    BY <1>8, <2>1, FS_AddElement
  <2>3. IsFiniteSet(Sent \cup {q}) /\ Cardinality(Sent \cup {q}) = Cardinality(Sent) + 1
    BY <1>9, <2>1, FS_AddElement
  <2> QED
    BY <1>8, <1>9, <2>1, <2>2, <2>3
<1>11. \A p \in Submissions : sending'[p].told \subseteq {filed'[p]} /\ (filed'[p] = NoSheet => sending'[p].told = {})
  BY <1>2, <1>3, NoSheetIsNoSheet DEF RoomInv, SheetsMatch
<1>12. SheetsMatch'
  BY <1>10, <1>11 DEF SheetsMatch
<1> QED
  BY <1>4, <1>5, <1>6, <1>7, <1>12 DEF RoomInv

LEMMA SendingKeeps ==
  ASSUME RoomInv, NEW q \in Submissions, Send(q) \/ Answer(q)
  PROVE  RoomInv' /\ visit' = visit
<1>1. UNCHANGED <<visit, act, filed>>
  BY DEF Send, Answer
<1>2. /\ sending' \in [Submissions -> [at : {"device", "server", "answered"}, told : SUBSET Couples]]
      /\ \A p \in Submissions : sending'[p].told \subseteq {filed[p]} /\ (filed[p] = NoSheet => sending'[p].told = {})
  <2> DEFINE s == [at |-> "answered", told |-> sending[q].told \cup {filed[q]}]
             t == [sending[q] EXCEPT !.at = "server"]
  <2>1. CASE Send(q)
    <3>1. t \in [at : {"device", "server", "answered"}, told : SUBSET Couples] /\ t.told = sending[q].told
      BY DEF RoomInv, RoomTypeOK
    <3>2. sending' = [sending EXCEPT ![q] = t]
      BY <2>1 DEF Send
    <3> HIDE DEF t
    <3> QED
      BY <3>1, <3>2 DEF RoomInv, RoomTypeOK, SheetsMatch
  <2>2. CASE Answer(q)
    <3>1. filed[q] # NoSheet /\ filed[q] \in Couples
      BY <2>2 DEF Answer, RoomInv, RoomTypeOK
    <3>2. s \in [at : {"device", "server", "answered"}, told : SUBSET Couples] /\ s.told \subseteq {filed[q]}
      BY <3>1 DEF RoomInv, RoomTypeOK, SheetsMatch
    <3>3. sending' = [sending EXCEPT ![q] = s]
      BY <2>2 DEF Answer
    <3> HIDE DEF s
    <3> QED
      BY <3>1, <3>2, <3>3 DEF RoomInv, RoomTypeOK, SheetsMatch
  <2> QED
    BY <2>1, <2>2
<1>3. RoomTypeOK' /\ SheetsMatch'
  BY <1>1, <1>2 DEF RoomInv, RoomTypeOK, SheetsMatch, Sheets, Sent, Exists
<1>4. (\A h \in Hosts : act[h] # NoAct => Fits(act[h]))' /\ (\A d \in Couples : Exists(d) => EndsOneWay(visit[d]))'
  BY <1>1 DEF RoomInv, Fits, Exists
<1> QED
  BY <1>1, <1>3, <1>4 DEF RoomInv

LEMMA RoomStarts ==
  ASSUME RoomInit
  PROVE  RoomInv
<1>1. RoomTypeOK
  BY DEF RoomInit, RoomTypeOK, Acts
<1>2. Sheets = {} /\ Sent = {}
  BY DEF RoomInit, Sheets, Sent, Exists
<1>3. SheetsMatch
  BY <1>2, FS_EmptySet DEF SheetsMatch, RoomInit
<1> QED
  BY <1>1, <1>3 DEF RoomInv, RoomInit, Exists

LEMMA RoomStep ==
  ASSUME RoomInv, [RoomNext]_roomVars
  PROVE  /\ RoomInv'
         /\ \A d \in Couples : Exists(d) => GoesOn(visit[d], visit'[d])
<1>1. CASE visit' = visit /\ RoomInv'
  <2>1. \A d \in Couples : Exists(d) => visit[d] \in Visits /\ EndsOneWay(visit[d])
    BY DEF RoomInv, RoomTypeOK, Exists
  <2> QED
    BY <1>1, <2>1 DEF GoesOn
<1>2. CASE UNCHANGED roomVars
  <2>1. RoomInv'
    BY <1>2 DEF roomVars, RoomInv, RoomTypeOK, Fits, Exists, SheetsMatch, Sheets, Sent
  <2> QED
    BY <1>1, <1>2, <2>1 DEF roomVars
<1>3. CASE \E q \in Submissions : Send(q) \/ Answer(q)
  BY <1>1, <1>3, SendingKeeps
<1>4. CASE \E q \in Submissions, c \in Couples, status \in {"captured", "scheduled"} : Create(q, c, status)
  BY <1>4, CreateKeeps
<1>5. CASE \E h \in Hosts, c \in Couples, op \in Operations,
               arg \in VisitStatuses \cup Results \cup Said \cup {"-"} : Read(h, c, op, arg)
  BY <1>1, <1>5, ReadKeeps
<1>6. CASE \E h \in Hosts, text \in {"none", "text"} : Write(h, text)
  BY <1>6, WriteKeeps
<1>7. CASE \E c \in Couples, motive \in Motives : RecordNt(c, motive)
  BY <1>7, RecordNtKeeps
<1>8. CASE \E c \in Couples : Erase(c)
  BY <1>8, EraseKeeps
<1> QED
  BY <1>2, <1>3, <1>4, <1>5, <1>6, <1>7, <1>8 DEF RoomNext

(* Sheets, visits and what the hosts hold keep their types, for any         *)
(* couples, hosts and vacancies.                                            *)
THEOREM RoomTypes == RoomSpec => []RoomTypeOK
<1>1. RoomInv => RoomTypeOK
  BY DEF RoomInv
<1> QED
  BY <1>1, RoomStarts, RoomStep, PTL DEF RoomSpec

(* A visit ends one way and once, whatever two hosts have read of it and    *)
(* whatever reason comes with any status: an outcome stays, an ended visit  *)
(* does not return, one without a tour keeps its motive and its reason      *)
(* until it is erased, and an erased sheet is not written (captures.ts,     *)
(* captureSheet.ts).                                                        *)
THEOREM VisitsEndOnce == RoomSpec => VisitEndsOnce
<1> DEFINE EndsOnce ==
      /\ OneWayToEnd'
      /\ \A c \in Couples : Exists(c) =>
           /\ visit[c].outcome # "none" => visit'[c].outcome = visit[c].outcome
           /\ visit[c].status \in {"no_tour", "closed"} => visit'[c].status = visit[c].status
           /\ visit[c].status = "no_tour" => /\ visit'[c].nt = visit[c].nt
                                             /\ visit'[c].erased \/ visit'[c].reason = visit[c].reason
           /\ visit[c].erased => visit'[c] = visit[c]
<1>1. RoomInv => OneWayToEnd
  BY DEF RoomInv, OneWayToEnd, EndsOneWay, SheetsMatch, Sheets, Sent
<1>2. RoomInv /\ [RoomNext]_roomVars => [EndsOnce]_roomVars
  <2> SUFFICES ASSUME RoomInv, [RoomNext]_roomVars
               PROVE  EndsOnce
    OBVIOUS
  <2>1. RoomInv' /\ \A d \in Couples : Exists(d) => GoesOn(visit[d], visit'[d])
    BY RoomStep
  <2>2. OneWayToEnd'
    BY <1>1, <2>1, PTL
  <2> QED
    BY <2>1, <2>2 DEF GoesOn
<1>3. RoomInit => RoomInv
  BY RoomStarts
<1>4. RoomInv /\ [RoomNext]_roomVars => RoomInv'
  BY RoomStep
<1> QED
  BY <1>2, <1>3, <1>4, PTL DEF RoomSpec, VisitEndsOnce

-----------------------------------------------------------------------------
(* The stays.                                                               *)

(* What a desk has read still names rows, and moves the list as it allows. *)
Knows(d) ==
  /\ d.op = "item" => item[d.on] # NoRow /\ d.to \in ItemMoves[d.seen]
  /\ d.op = "presence" => booking[d.on] # NoRow

(* An offer that became a reservation is confirmed for good. *)
OffersTaken ==
  \A b \in Booked : booking[b].offer # NoRow =>
    item[booking[b].offer] # NoRow /\ item[booking[b].offer].status = "confirmed"

StaysInv ==
  /\ StaysTypeOK
  /\ PartyFits
  /\ OffersTaken
  /\ \A k \in Desks : Knows(desk[k])

(* The party of a row against a capacity, of PartyFits. *)
GuestsOf(r) == r.party + IF r.companion = "none" THEN 0 ELSE 1
FitsIn(r, row) == r.status \in Standing => GuestsOf(r) <= row.capacity

(* What a step keeps of the rows it finds: rows stay, of the same unit, period *)
(* and offer, and a confirmed item stays confirmed.                            *)
RowsStay ==
  /\ \A b \in Bookings : booking[b] # NoRow =>
       /\ booking'[b] # NoRow /\ booking'[b].unit = booking[b].unit
       /\ booking'[b].offer = booking[b].offer
  /\ \A i \in Items : item[i] # NoRow =>
       item'[i] # NoRow /\ (item[i].status = "confirmed" => item'[i].status = "confirmed")

\* A desk that keeps what it read, or rests, keeps its knowledge.
LEMMA KnowledgeStays ==
  ASSUME StaysInv, RowsStay, NEW k \in Desks, desk'[k] = desk[k]
  PROVE  Knows(desk[k])'
<1> DEFINE d == desk[k]
<1>1. d \in DeskStates /\ Knows(d)
  BY DEF StaysInv, StaysTypeOK
<1>2. CASE d.op = "item"
  <2>1. d.on \in Items
    BY <1>1, <1>2 DEF DeskStates, Unoccupied
  <2> QED
    BY <1>1, <1>2, <2>1 DEF Knows, RowsStay
<1>3. CASE d.op = "presence"
  <2>1. d.on \in Bookings
    BY <1>1, <1>3 DEF DeskStates, Unoccupied
  <2> QED
    BY <1>1, <1>3, <2>1 DEF Knows, RowsStay
<1> QED
  BY <1>2, <1>3 DEF Knows

\* A step in which no reservation is made keeps the offers.
LEMMA OffersStay ==
  ASSUME StaysInv, RowsStay,
         \A b \in Bookings : booking[b] = NoRow /\ booking'[b] # NoRow => booking'[b].offer = NoRow
  PROVE  OffersTaken'
<1> SUFFICES ASSUME NEW b \in Bookings, booking'[b] # NoRow, booking'[b].offer # NoRow
             PROVE  item'[booking'[b].offer] # NoRow /\ item'[booking'[b].offer].status = "confirmed"
  BY DEF OffersTaken, Booked
<1>1. booking[b] # NoRow /\ booking[b] \in BookingRows /\ booking'[b].offer = booking[b].offer
  BY DEF RowsStay, StaysInv, StaysTypeOK
<1>2. booking[b].offer \in Items
  BY <1>1 DEF BookingRows
<1>3. item[booking[b].offer] # NoRow /\ item[booking[b].offer].status = "confirmed"
  BY <1>1 DEF StaysInv, OffersTaken, Booked
<1> QED
  BY <1>1, <1>2, <1>3 DEF RowsStay

\* The party fits when it fits row by row.
LEMMA PartyByRows ==
  PartyFits <=> \A b \in Bookings : booking[b] # NoRow => FitsIn(booking[b], unit[booking[b].unit])
BY DEF PartyFits, Booked, FitsIn, Guests, GuestsOf

LEMMA PeriodsOfNights ==
  ASSUME NEW p \in Periods
  PROVE  p \subseteq Nights
<1>1. \E a, b \in Nights : p = a .. b
  BY DEF Periods
<1> QED
  BY <1>1, StaysAssumption

LEMMA TakenOfNights ==
  ASSUME StaysTypeOK, NEW u \in Units
  PROVE  Taken(u) \in SUBSET Nights
<1>1. \A p \in Periods : p \subseteq Nights
  BY PeriodsOfNights
<1>2. \A b \in Booked : booking[b].period \subseteq Nights
  BY <1>1 DEF StaysTypeOK, BookingRows, Booked
<1>3. \A p \in blocked[u] : p \subseteq Nights
  BY <1>1 DEF StaysTypeOK
<1> QED
  BY <1>2, <1>3 DEF Taken, RowsOf

LEMMA StaysStart ==
  ASSUME StaysInit
  PROVE  StaysInv
<1>1. StaysTypeOK
  BY DEF StaysInit, StaysTypeOK, DeskStates
<1>2. Booked = {}
  BY DEF StaysInit, Booked
<1>3. \A k \in Desks : Knows(desk[k])
  BY DEF StaysInit, Knows, Unoccupied
<1> QED
  BY <1>1, <1>2, <1>3 DEF StaysInv, PartyFits, OffersTaken

(* What StaysFindTheUnitFree says of a step, beside the parties. *)
UnitFree ==
  /\ \A b \in Bookings : booking[b] = NoRow /\ booking'[b] # NoRow /\ booking'[b].offer # NoRow =>
       /\ booking'[b].period \cap Taken(booking'[b].unit) = {}
       /\ \A c \in Booked : booking[c].offer # booking'[b].offer
  /\ \A u \in Units : \A p \in blocked'[u] \ blocked[u] :
       \A b \in RowsOf(u) : booking[b].status \in Standing => booking[b].period \cap p = {}

\* The desks after a step in which each keeps what it read or rests.
LEMMA DesksStay ==
  ASSUME StaysInv, RowsStay, desk' \in [Desks -> DeskStates],
         \A k \in Desks : desk'[k] \in {desk[k], Unoccupied}
  PROVE  (\A k \in Desks : Knows(desk[k]))'
<1> SUFFICES ASSUME NEW k \in Desks
             PROVE  Knows(desk[k])'
  OBVIOUS
<1>1. CASE desk'[k] = desk[k]
  BY <1>1, KnowledgeStays
<1>2. CASE desk'[k] = Unoccupied
  BY <1>2 DEF Knows, Unoccupied
<1> QED
  BY <1>1, <1>2

\* A step of a desk that reads, or gives up.
LEMMA DeskKeeps ==
  ASSUME StaysInv, NEW k \in Desks, NEW d \in DeskStates, Knows(d),
         desk' = [desk EXCEPT ![k] = d], UNCHANGED <<unit, booking, blocked, item>>
  PROVE  StaysInv' /\ UnitFree
<1>1. StaysTypeOK'
  BY DEF StaysInv, StaysTypeOK
<1>2. PartyFits' /\ OffersTaken'
  BY DEF StaysInv, PartyFits, OffersTaken, Booked, Guests
<1>3. \A j \in Desks : desk'[j] = IF j = k THEN d ELSE desk[j]
  BY DEF StaysInv, StaysTypeOK
<1>4. (\A j \in Desks : Knows(desk[j]))'
  BY <1>3 DEF StaysInv, Knows
<1>5. UnitFree
  BY DEF UnitFree
<1> QED
  BY <1>1, <1>2, <1>4, <1>5 DEF StaysInv

\* A step that writes one reservation, of no offer or of the one it had.
LEMMA RowKeeps ==
  ASSUME StaysInv, NEW b \in Bookings, NEW r \in BookingRows,
         booking' = [booking EXCEPT ![b] = r],
         UNCHANGED <<unit, blocked, item>>,
         desk' \in [Desks -> DeskStates],
         \A k \in Desks : desk'[k] \in {desk[k], Unoccupied},
         FitsIn(r, unit[r.unit]),
         booking[b] # NoRow => r.unit = booking[b].unit /\ r.offer = booking[b].offer,
         booking[b] = NoRow => r.offer = NoRow
  PROVE  StaysInv' /\ UnitFree
<1>1. \A c \in Bookings : booking'[c] = IF c = b THEN r ELSE booking[c]
  BY DEF StaysInv, StaysTypeOK
<1>2. StaysTypeOK'
  BY DEF StaysInv, StaysTypeOK
<1>3. RowsStay
  BY <1>1, NoRowIsNoRow DEF RowsStay
<1>4. (\A c \in Bookings : booking[c] # NoRow => FitsIn(booking[c], unit[booking[c].unit]))'
  BY <1>1, PartyByRows DEF StaysInv, FitsIn
<1>5. PartyFits'
  BY <1>4 DEF PartyFits, Booked, FitsIn, Guests, GuestsOf
<1>6. OffersTaken'
  BY <1>1, <1>3, OffersStay
<1>7. (\A k \in Desks : Knows(desk[k]))'
  BY <1>3, DesksStay
<1>8. UnitFree
  BY <1>1 DEF UnitFree
<1> QED
  BY <1>2, <1>5, <1>6, <1>7, <1>8 DEF StaysInv

\* A step that writes one item of the waiting list.
LEMMA ItemKeeps ==
  ASSUME StaysInv, NEW i \in Items, NEW r \in ItemRows,
         item' = [item EXCEPT ![i] = r],
         UNCHANGED <<unit, booking, blocked>>,
         desk' \in [Desks -> DeskStates],
         \A k \in Desks : desk'[k] \in {desk[k], Unoccupied},
         item[i] # NoRow /\ item[i].status = "confirmed" => r.status = "confirmed"
  PROVE  StaysInv' /\ UnitFree
<1>1. \A j \in Items : item'[j] = IF j = i THEN r ELSE item[j]
  BY DEF StaysInv, StaysTypeOK
<1>2. StaysTypeOK'
  BY DEF StaysInv, StaysTypeOK
<1>3. RowsStay
  BY <1>1, NoRowIsNoRow DEF RowsStay
<1>4. PartyFits'
  BY DEF StaysInv, PartyFits, Booked, Guests
<1>5. OffersTaken'
  BY <1>3, OffersStay
<1>6. (\A k \in Desks : Knows(desk[k]))'
  BY <1>3, DesksStay
<1>7. UnitFree
  BY DEF UnitFree
<1> QED
  BY <1>2, <1>4, <1>5, <1>6, <1>7 DEF StaysInv

LEMMA BeginBookingKeeps ==
  ASSUME StaysInv, NEW k \in Desks, NEW p \in Periods, BeginBooking(k, p)
  PROVE  StaysInv' /\ UnitFree
<1> DEFINE d == [op |-> "book", period |-> p, taken |-> [u \in Units |-> Taken(u)]]
<1>1. d \in DeskStates
  BY TakenOfNights DEF StaysInv, DeskStates
<1>2. Knows(d)
  BY DEF Knows
<1>3. desk' = [desk EXCEPT ![k] = d] /\ UNCHANGED <<unit, booking, blocked, item>>
  BY DEF BeginBooking
<1> HIDE DEF d
<1> QED
  BY <1>1, <1>2, <1>3, DeskKeeps

LEMMA GiveUpKeeps ==
  ASSUME StaysInv, NEW k \in Desks, GiveUp(k)
  PROVE  StaysInv' /\ UnitFree
<1>1. Unoccupied \in DeskStates /\ Knows(Unoccupied)
  BY DEF DeskStates, Knows, Unoccupied
<1>2. desk' = [desk EXCEPT ![k] = Unoccupied] /\ UNCHANGED <<unit, booking, blocked, item>>
  BY DEF GiveUp
<1> QED
  BY <1>1, <1>2, DeskKeeps

LEMMA ReadGuestKeeps ==
  ASSUME StaysInv, NEW k \in Desks, NEW b \in Bookings, NEW to \in {"in", "out"}, ReadGuest(k, b, to)
  PROVE  StaysInv' /\ UnitFree
<1> DEFINE d == [op |-> "presence", on |-> b, to |-> to]
<1>1. d \in DeskStates
  BY DEF DeskStates
<1>2. Knows(d)
  BY DEF Knows, ReadGuest, Booked
<1>3. desk' = [desk EXCEPT ![k] = d] /\ UNCHANGED <<unit, booking, blocked, item>>
  BY DEF ReadGuest
<1> HIDE DEF d
<1> QED
  BY <1>1, <1>2, <1>3, DeskKeeps

LEMMA ReadItemKeeps ==
  ASSUME StaysInv, NEW k \in Desks, NEW i \in Items, NEW to \in ItemStatuses, ReadItem(k, i, to)
  PROVE  StaysInv' /\ UnitFree
<1> DEFINE d == [op |-> "item", on |-> i, seen |-> item[i].status, to |-> to, key |-> item[i].key]
<1>1. d \in DeskStates
  <2>1. item[i] \in ItemRows
    BY DEF StaysInv, StaysTypeOK, ReadItem
  <2> QED
    BY <2>1 DEF DeskStates, ItemRows
<1>2. Knows(d)
  BY DEF Knows, ReadItem
<1>3. desk' = [desk EXCEPT ![k] = d] /\ UNCHANGED <<unit, booking, blocked, item>>
  BY DEF ReadItem
<1> HIDE DEF d
<1> QED
  BY <1>1, <1>2, <1>3, DeskKeeps

LEMMA DeskRests ==
  ASSUME StaysTypeOK, NEW k \in Desks, desk' = desk \/ desk' = [desk EXCEPT ![k] = Unoccupied]
  PROVE  desk' \in [Desks -> DeskStates] /\ \A j \in Desks : desk'[j] \in {desk[j], Unoccupied}
BY DEF StaysTypeOK, DeskStates

LEMMA BookKeeps ==
  ASSUME StaysInv, NEW k \in Desks, NEW u \in Units, NEW b \in Bookings, NEW party \in Capacities,
         NEW status \in {"pending", "confirmed"}, Book(k, u, b, party, status)
  PROVE  StaysInv' /\ UnitFree
<1> DEFINE r == Row(u, desk[k].period, party, status, NoRow)
<1>1. desk[k].period \in Periods
  BY DEF Book, StaysInv, StaysTypeOK, DeskStates, Unoccupied
<1>2. r \in BookingRows
  BY <1>1 DEF Row, BookingRows, StayStatuses, Presences
<1>3. r.unit = u /\ r.offer = NoRow /\ FitsIn(r, unit[r.unit])
  <2>1. r.unit = u /\ r.offer = NoRow /\ r.party = party /\ r.companion = "none"
    BY DEF Row
  <2>2. party <= unit[u].capacity /\ party \in Nat
    BY StaysAssumption DEF Book
  <2> HIDE DEF r
  <2> QED
    BY <2>1, <2>2 DEF FitsIn, GuestsOf
<1>4. /\ booking' = [booking EXCEPT ![b] = r] /\ booking[b] = NoRow
      /\ UNCHANGED <<unit, blocked, item>> /\ desk' = [desk EXCEPT ![k] = Unoccupied]
  BY DEF Book
<1>5. desk' \in [Desks -> DeskStates] /\ \A j \in Desks : desk'[j] \in {desk[j], Unoccupied}
  BY <1>4, DeskRests DEF StaysInv
<1> HIDE DEF r
<1> QED
  BY <1>2, <1>3, <1>4, <1>5, RowKeeps

LEMMA MoveStayKeeps ==
  ASSUME StaysInv, NEW b \in Bookings, NEW status \in StayStatuses, MoveStay(b, status)
  PROVE  StaysInv' /\ UnitFree
<1> DEFINE v == booking[b]
           there == IF status = "completed" /\ v.companion = "in" THEN "out" ELSE v.companion
           r == [v EXCEPT !.status = status, !.companion = there]
<1>1. v # NoRow /\ v \in BookingRows /\ FitsIn(v, unit[v.unit])
  BY PartyByRows DEF MoveStay, Booked, StaysInv, StaysTypeOK
<1>2. status \in StayMoves[v.status] /\ v.status \in StayStatuses
  BY <1>1 DEF MoveStay, BookingRows
<1>3. status \in Standing => v.status \in Standing
  BY <1>2 DEF StayMoves, StayStatuses, Standing
<1>4. there \in Presences /\ (there = "none") = (v.companion = "none")
  BY <1>1 DEF BookingRows, Presences
<1>5. /\ r \in BookingRows /\ r.unit = v.unit /\ r.offer = v.offer /\ r.party = v.party
      /\ r.status = status /\ r.companion = there
  BY <1>1, <1>4 DEF BookingRows
<1>6. booking' = [booking EXCEPT ![b] = r] /\ UNCHANGED <<unit, blocked, item, desk>>
  BY DEF MoveStay, StaysInv, StaysTypeOK
<1> HIDE DEF r, there
<1>7. FitsIn(r, unit[r.unit])
  BY <1>1, <1>3, <1>4, <1>5 DEF FitsIn, GuestsOf
<1>8. desk' \in [Desks -> DeskStates] /\ \A j \in Desks : desk'[j] \in {desk[j], Unoccupied}
  BY <1>6 DEF StaysInv, StaysTypeOK
<1> QED
  BY <1>1, <1>5, <1>6, <1>7, <1>8, RowKeeps

LEMMA AddGuestKeeps ==
  ASSUME StaysInv, NEW b \in Bookings, AddGuest(b)
  PROVE  StaysInv' /\ UnitFree
<1> DEFINE v == booking[b]
           r == [v EXCEPT !.companion = "away"]
<1>1. v # NoRow /\ v \in BookingRows
  BY DEF AddGuest, Booked, StaysInv, StaysTypeOK
<1>2. /\ r \in BookingRows /\ r.unit = v.unit /\ r.offer = v.offer /\ r.party = v.party
      /\ r.companion = "away"
  BY <1>1 DEF BookingRows, Presences
<1>3. v.party \in Nat /\ v.companion = "none" /\ v.party + 0 < unit[v.unit].capacity
  BY <1>1, StaysAssumption DEF AddGuest, Guests, BookingRows
<1>4. unit[v.unit].capacity \in Nat
  BY <1>1, StaysAssumption DEF StaysInv, StaysTypeOK, BookingRows
<1>5. booking' = [booking EXCEPT ![b] = r] /\ UNCHANGED <<unit, blocked, item, desk>>
  BY DEF AddGuest, StaysInv, StaysTypeOK
<1> HIDE DEF r
<1>6. FitsIn(r, unit[r.unit])
  BY <1>2, <1>3, <1>4 DEF FitsIn, GuestsOf
<1>7. desk' \in [Desks -> DeskStates] /\ \A j \in Desks : desk'[j] \in {desk[j], Unoccupied}
  BY <1>5 DEF StaysInv, StaysTypeOK
<1> QED
  BY <1>1, <1>2, <1>5, <1>6, <1>7, RowKeeps

LEMMA MarkGuestKeeps ==
  ASSUME StaysInv, NEW k \in Desks, MarkGuest(k)
  PROVE  StaysInv' /\ UnitFree
<1> DEFINE b == desk[k].on
           v == booking[b]
           before == IF desk[k].to = "in" THEN "away" ELSE "in"
           r == IF v.companion = before THEN [v EXCEPT !.companion = desk[k].to] ELSE v
<1>1. b \in Bookings /\ desk[k].to \in {"in", "out"}
  BY DEF MarkGuest, StaysInv, StaysTypeOK, DeskStates, Unoccupied
<1>2. v # NoRow /\ v \in BookingRows /\ FitsIn(v, unit[v.unit])
  BY <1>1, PartyByRows DEF MarkGuest, StaysInv, StaysTypeOK, Knows
<1>3. /\ r \in BookingRows /\ r.unit = v.unit /\ r.offer = v.offer /\ r.party = v.party
      /\ r.status = v.status /\ (r.companion = "none") = (v.companion = "none")
  BY <1>1, <1>2 DEF BookingRows, Presences
<1>4. booking' = [booking EXCEPT ![b] = r]
  BY <1>1 DEF MarkGuest, StaysInv, StaysTypeOK
<1>5. UNCHANGED <<unit, blocked, item>> /\ desk' = [desk EXCEPT ![k] = Unoccupied]
  BY DEF MarkGuest
<1>6. desk' \in [Desks -> DeskStates] /\ \A j \in Desks : desk'[j] \in {desk[j], Unoccupied}
  BY <1>5, DeskRests DEF StaysInv
<1> HIDE DEF r, b
<1>7. FitsIn(r, unit[r.unit])
  BY <1>2, <1>3 DEF FitsIn, GuestsOf
<1> QED
  BY <1>1, <1>2, <1>3, <1>4, <1>5, <1>6, <1>7, RowKeeps

LEMMA JoinKeeps ==
  ASSUME StaysInv, NEW i \in Items, NEW p \in Periods, NEW party \in Capacities, Join(i, p, party)
  PROVE  StaysInv' /\ UnitFree
<1> DEFINE r == [period |-> p, party |-> party, status |-> "waiting", key |-> TRUE]
<1>1. r \in ItemRows
  BY DEF ItemRows, ItemStatuses
<1>2. item' = [item EXCEPT ![i] = r] /\ item[i] = NoRow /\ UNCHANGED <<unit, booking, blocked, desk>>
  BY DEF Join
<1>3. desk' \in [Desks -> DeskStates] /\ \A j \in Desks : desk'[j] \in {desk[j], Unoccupied}
  BY <1>2 DEF StaysInv, StaysTypeOK
<1> HIDE DEF r
<1> QED
  BY <1>1, <1>2, <1>3, ItemKeeps

LEMMA MoveItemKeeps ==
  ASSUME StaysInv, NEW k \in Desks, MoveItem(k)
  PROVE  StaysInv' /\ UnitFree
<1> DEFINE d == desk[k]
           i == d.on
           v == item[i]
           held == d.key /\ d.to \in {"waiting", "offered"}
           w == [v EXCEPT !.status = d.to, !.key = held]
           r == IF v.status = d.seen THEN w ELSE v
<1>1. i \in Items /\ d.to \in ItemStatuses /\ d.seen \in ItemStatuses /\ d.key \in BOOLEAN
  BY DEF MoveItem, StaysInv, StaysTypeOK, DeskStates, Unoccupied
<1>2. v # NoRow /\ v \in ItemRows /\ d.to \in ItemMoves[d.seen]
  BY <1>1 DEF MoveItem, StaysInv, StaysTypeOK, Knows
<1>3. d.seen = "confirmed" => d.to = "confirmed"
  BY <1>2 DEF ItemMoves
<1>4. held \in BOOLEAN
  BY <1>1
<1> HIDE DEF held
<1>5. w \in ItemRows /\ w.status = d.to
  BY <1>1, <1>2, <1>4 DEF ItemRows
<1>6. item' = [item EXCEPT ![i] = r]
  <2>1. CASE v.status = d.seen
    <3>1. item' = [item EXCEPT ![i].status = d.to, ![i].key = held]
      BY <2>1 DEF MoveItem, held
    <3> QED
      BY <1>1, <2>1, <3>1 DEF StaysInv, StaysTypeOK
  <2>2. CASE v.status # d.seen
    BY <1>1, <2>2 DEF MoveItem, StaysInv, StaysTypeOK
  <2> QED
    BY <2>1, <2>2
<1>7. UNCHANGED <<unit, booking, blocked>> /\ desk' = [desk EXCEPT ![k] = Unoccupied]
  BY DEF MoveItem
<1>8. desk' \in [Desks -> DeskStates] /\ \A j \in Desks : desk'[j] \in {desk[j], Unoccupied}
  BY <1>7, DeskRests DEF StaysInv
<1> HIDE DEF w
<1>9. r \in ItemRows /\ (v.status = "confirmed" => r.status = "confirmed")
  BY <1>2, <1>3, <1>5
<1> HIDE DEF r, i
<1> QED
  BY <1>1, <1>2, <1>6, <1>7, <1>8, <1>9, ItemKeeps

LEMMA ConvertKeeps ==
  ASSUME StaysInv, NEW i \in Items, NEW u \in Units, NEW b \in Bookings, Convert(i, u, b)
  PROVE  StaysInv' /\ UnitFree
<1> DEFINE v == item[i]
           r == Row(u, v.period, v.party, "confirmed", i)
           w == [v EXCEPT !.status = "confirmed"]
<1>1. v # NoRow /\ v \in ItemRows /\ v.status = "offered" /\ booking[b] = NoRow
  BY DEF Convert, StaysInv, StaysTypeOK
<1>2. r \in BookingRows /\ w \in ItemRows
  BY <1>1 DEF Row, BookingRows, ItemRows, StayStatuses, Presences, ItemStatuses
<1>3. /\ r.unit = u /\ r.offer = i /\ r.party = v.party /\ r.companion = "none" /\ r.period = v.period
      /\ w.status = "confirmed"
  BY <1>1 DEF Row, ItemRows
<1>4. v.party <= unit[u].capacity /\ v.party \in Nat /\ v.period \cap Taken(u) = {}
  BY <1>1, StaysAssumption DEF Convert, ItemRows
<1>5. /\ booking' = [booking EXCEPT ![b] = r] /\ item' = [item EXCEPT ![i] = w]
      /\ UNCHANGED <<unit, blocked, desk>>
  BY DEF Convert, StaysInv, StaysTypeOK
<1> HIDE DEF r, w
<1>6. /\ \A c \in Bookings : booking'[c] = IF c = b THEN r ELSE booking[c]
      /\ \A j \in Items : item'[j] = IF j = i THEN w ELSE item[j]
  BY <1>5 DEF StaysInv, StaysTypeOK
<1>7. r # NoRow /\ w # NoRow
  BY <1>2, NoRowIsNoRow
<1>8. StaysTypeOK'
  BY <1>2, <1>5 DEF StaysInv, StaysTypeOK
<1>9. RowsStay
  BY <1>1, <1>3, <1>6, <1>7 DEF RowsStay
<1>10. PartyFits'
  <2>1. FitsIn(r, unit[r.unit])
    BY <1>3, <1>4 DEF FitsIn, GuestsOf
  <2>2. (\A c \in Bookings : booking[c] # NoRow => FitsIn(booking[c], unit[booking[c].unit]))'
    BY <1>5, <1>6, <2>1, PartyByRows DEF StaysInv, FitsIn
  <2> QED
    BY <2>2 DEF PartyFits, Booked, FitsIn, Guests, GuestsOf
<1>11. \A c \in Booked : booking[c].offer # i
  BY <1>1, NoRowIsNoRow DEF StaysInv, OffersTaken
<1>12. OffersTaken'
  <2> SUFFICES ASSUME NEW c \in Bookings, booking'[c] # NoRow, booking'[c].offer # NoRow
               PROVE  item'[booking'[c].offer] # NoRow /\ item'[booking'[c].offer].status = "confirmed"
    BY DEF OffersTaken, Booked
  <2>1. CASE c = b
    BY <1>3, <1>6, <1>7, <2>1
  <2>2. CASE c # b
    <3>1. booking'[c] = booking[c] /\ c \in Booked /\ booking[c] \in BookingRows
      BY <1>6, <2>2 DEF Booked, StaysInv, StaysTypeOK
    <3>2. booking[c].offer \in Items
      BY <3>1 DEF BookingRows
    <3>3. item[booking[c].offer] # NoRow /\ item[booking[c].offer].status = "confirmed"
      BY <3>1 DEF StaysInv, OffersTaken
    <3> QED
      BY <1>9, <3>1, <3>2, <3>3 DEF RowsStay
  <2> QED
    BY <2>1, <2>2
<1>13. desk' \in [Desks -> DeskStates] /\ \A j \in Desks : desk'[j] \in {desk[j], Unoccupied}
  BY <1>5 DEF StaysInv, StaysTypeOK
<1>14. (\A k \in Desks : Knows(desk[k]))'
  BY <1>9, <1>13, DesksStay
<1>15. UnitFree
  <2>1. \A c \in Bookings : booking[c] = NoRow /\ booking'[c] # NoRow /\ booking'[c].offer # NoRow => c = b
    BY <1>6
  <2> QED
    BY <1>3, <1>4, <1>5, <1>6, <1>11, <2>1 DEF UnitFree
<1> QED
  BY <1>8, <1>10, <1>12, <1>14, <1>15 DEF StaysInv

LEMMA BlockKeeps ==
  ASSUME StaysInv, NEW u \in Units, NEW p \in Periods, Block(u, p)
  PROVE  StaysInv' /\ UnitFree
<1>1. /\ blocked' = [blocked EXCEPT ![u] = @ \cup {p}] /\ UNCHANGED <<unit, booking, item, desk>>
      /\ \A b \in RowsOf(u) : booking[b].status \in Standing => booking[b].period \cap p = {}
  BY DEF Block
<1>2. StaysTypeOK'
  BY <1>1 DEF StaysInv, StaysTypeOK
<1>3. PartyFits' /\ OffersTaken' /\ (\A k \in Desks : Knows(desk[k]))'
  BY <1>1 DEF StaysInv, PartyFits, OffersTaken, Booked, Guests, Knows
<1>4. \A x \in Units : \A q \in blocked'[x] \ blocked[x] : x = u /\ q = p
  BY <1>1 DEF StaysInv, StaysTypeOK
<1>5. UnitFree
  BY <1>1, <1>4 DEF UnitFree
<1> QED
  BY <1>2, <1>3, <1>5 DEF StaysInv

LEMMA UpdateUnitKeeps ==
  ASSUME StaysInv, NEW u \in Units, NEW status \in {"active", "maintenance", "inactive"},
         NEW capacity \in Capacities, UpdateUnit(u, status, capacity)
  PROVE  StaysInv' /\ UnitFree
<1> DEFINE row == [status |-> status, capacity |-> capacity]
<1>1. /\ unit' = [unit EXCEPT ![u] = row] /\ UNCHANGED <<booking, blocked, item, desk>>
      /\ \A b \in RowsOf(u) : booking[b].status \in Standing => Guests(b) <= capacity
  BY DEF UpdateUnit
<1>2. StaysTypeOK'
  BY <1>1 DEF StaysInv, StaysTypeOK
<1>3. PartyFits'
  <2>1. \A b \in Booked : Guests(b)' = Guests(b)
    BY <1>1 DEF Guests
  <2>2. \A x \in Units : unit'[x].capacity = IF x = u THEN capacity ELSE unit[x].capacity
    BY <1>1 DEF StaysInv, StaysTypeOK
  <2>3. \A b \in Booked : booking[b].unit \in Units /\ (booking[b].unit = u => b \in RowsOf(u))
    BY DEF Booked, RowsOf, StaysInv, StaysTypeOK, BookingRows
  <2>4. \A b \in Booked : booking[b].status \in Standing => Guests(b) <= unit'[booking[b].unit].capacity
    BY <1>1, <2>2, <2>3 DEF StaysInv, PartyFits
  <2> QED
    BY <1>1, <2>1, <2>4 DEF PartyFits, Booked, Guests
<1>4. OffersTaken' /\ (\A k \in Desks : Knows(desk[k]))'
  BY <1>1 DEF StaysInv, OffersTaken, Booked, Knows
<1>5. UnitFree
  BY <1>1 DEF UnitFree
<1> QED
  BY <1>2, <1>3, <1>4, <1>5 DEF StaysInv

LEMMA StaysStep ==
  ASSUME StaysInv, [StaysNext]_staysVars
  PROVE  StaysInv' /\ UnitFree
<1>1. CASE UNCHANGED staysVars
  <2>1. StaysInv'
    BY <1>1 DEF staysVars, StaysInv, StaysTypeOK, PartyFits, OffersTaken, Booked, Guests, Knows
  <2> QED
    BY <1>1, <2>1 DEF staysVars, UnitFree
<1>2. ASSUME NEW k \in Desks, NEW p \in Periods, BeginBooking(k, p)
      PROVE  StaysInv' /\ UnitFree
  BY <1>2, BeginBookingKeeps
<1>3. ASSUME NEW k \in Desks, NEW u \in Units, NEW b \in Bookings, NEW party \in Capacities,
             NEW status \in {"pending", "confirmed"}, Book(k, u, b, party, status)
      PROVE  StaysInv' /\ UnitFree
  BY <1>3, BookKeeps
<1>4. ASSUME NEW k \in Desks, \/ GiveUp(k) \/ MarkGuest(k) \/ MoveItem(k)
      PROVE  StaysInv' /\ UnitFree
  BY <1>4, GiveUpKeeps, MarkGuestKeeps, MoveItemKeeps
<1>5. ASSUME NEW k \in Desks, NEW b \in Bookings, NEW to \in {"in", "out"}, ReadGuest(k, b, to)
      PROVE  StaysInv' /\ UnitFree
  BY <1>5, ReadGuestKeeps
<1>6. ASSUME NEW k \in Desks, NEW i \in Items, NEW to \in ItemStatuses, ReadItem(k, i, to)
      PROVE  StaysInv' /\ UnitFree
  BY <1>6, ReadItemKeeps
<1>7. ASSUME NEW b \in Bookings, NEW status \in StayStatuses, MoveStay(b, status)
      PROVE  StaysInv' /\ UnitFree
  BY <1>7, MoveStayKeeps
<1>8. ASSUME NEW b \in Bookings, AddGuest(b)
      PROVE  StaysInv' /\ UnitFree
  BY <1>8, AddGuestKeeps
<1>9. ASSUME NEW i \in Items, NEW p \in Periods, NEW party \in Capacities, Join(i, p, party)
      PROVE  StaysInv' /\ UnitFree
  BY <1>9, JoinKeeps
<1>10. ASSUME NEW i \in Items, NEW u \in Units, NEW b \in Bookings, Convert(i, u, b)
      PROVE  StaysInv' /\ UnitFree
  BY <1>10, ConvertKeeps
<1>11. ASSUME NEW u \in Units, NEW p \in Periods, Block(u, p)
      PROVE  StaysInv' /\ UnitFree
  BY <1>11, BlockKeeps
<1>12. ASSUME NEW u \in Units, NEW status \in {"active", "maintenance", "inactive"},
              NEW capacity \in Capacities, UpdateUnit(u, status, capacity)
      PROVE  StaysInv' /\ UnitFree
  BY <1>12, UpdateUnitKeeps
<1> QED
  BY <1>1, <1>2, <1>3, <1>4, <1>5, <1>6, <1>7, <1>8, <1>9, <1>10, <1>11, <1>12 DEF StaysNext

(* Bookings, items of the waiting list, blocks and what the desks hold keep *)
(* their types, for any units, nights, parties and desks.                   *)
THEOREM StaysTypes == StaysSpec => []StaysTypeOK
<1>1. StaysInv => StaysTypeOK
  BY DEF StaysInv
<1> QED
  BY <1>1, StaysStart, StaysStep, PTL DEF StaysSpec

(* A reservation made from an offer finds its nights free and is the only   *)
(* one of that offer; a block finds no standing reservation in its nights;  *)
(* the party of a stay fits its unit: for any desks that convert, create,   *)
(* block and change units at once (operations.ts).                          *)
THEOREM UnitsAreFree == StaysSpec => StaysFindTheUnitFree
<1>1. StaysInit => StaysInv
  BY StaysStart
<1>2. StaysInv /\ [StaysNext]_staysVars => StaysInv'
  BY StaysStep
<1>3. StaysInv /\ [StaysNext]_staysVars => PartyFits' /\ UnitFree
  BY StaysStep DEF StaysInv
<1>4. PartyFits' /\ UnitFree =>
        [/\ PartyFits'
         /\ \A b \in Bookings : booking[b] = NoRow /\ booking'[b] # NoRow /\ booking'[b].offer # NoRow =>
              /\ booking'[b].period \cap Taken(booking'[b].unit) = {}
              /\ \A c \in Booked : booking[c].offer # booking'[b].offer
         /\ \A u \in Units : \A p \in blocked'[u] \ blocked[u] :
              \A b \in RowsOf(u) : booking[b].status \in Standing => booking[b].period \cap p = {}]_staysVars
  BY DEF UnitFree
<1> QED
  BY <1>1, <1>2, <1>3, <1>4, PTL DEF StaysSpec, StaysFindTheUnitFree

-----------------------------------------------------------------------------
(* The signature.                                                           *)

(* Active, signed or cancelled at the service.                              *)
Begun(at) == at.status \in {"running", "closed"} \/ at.signed \/ at.dropped

(* What the row of an envelope, its setup and the service know of one        *)
(* another.                                                                 *)
Known(row, step, at) ==
  IF row = NoEnvelope THEN step \in {"none", "read"} /\ at.status = "none" /\ ~Begun(at)
  ELSE /\ step \notin {"none", "read"}
       /\ step \in {"documented", "activated"} \/ Begun(at) => row.document # "none"
       /\ Begun(at) => step \notin {"inserted", "created", "linked"}
       /\ step \in {"created", "linked"} \/ row.external => at.status # "none"
       /\ row.document = "canceled" => at.dropped
       /\ row.status = "closed" => at.status = "closed"

EnvelopesAreKnown == \A e \in Envelopes : Known(envelope[e], setup[e], remote[e])

(* What an event says of the envelope it is of.                             *)
Tells(event, at) ==
  /\ event = "sign" => at.signed
  /\ event \in {"document_closed", "envelope_closed"} => at.status = "closed"
  /\ event = "document_canceled" => at.dropped

(* The webhooks and the reconciliations tell what is so at the service.     *)
WordsAreTrue ==
  /\ \A p \in posted : envelope[p.on] # NoEnvelope /\ Tells(p.event, remote[p.on])
  /\ \A r \in Reconcilers : reading[r] # NoEnvelope =>
       /\ envelope[reading[r].on] # NoEnvelope /\ reading[r].status # "none"
       /\ reading[r].status = "closed" => remote[reading[r].on].status = "closed"

Agreements == [status : {"draft", "pending_signature", "active", "cancelled"}, signedAt : BOOLEAN]

SignInv == SignTypeOK /\ EnvelopesAreKnown /\ WordsAreTrue /\ SignatureIsReal

LEMMA SignStart == SignInit => SignInv
<1> SUFFICES ASSUME SignInit PROVE SignInv
  OBVIOUS
<1>1. SignTypeOK
  <2>1. agreement \in Agreements
    BY DEF SignInit, Agreements
  <2>2. remote \in [Envelopes -> Remotes]
    BY DEF SignInit, RemoteStatuses, Remotes
  <2>3. byHand \in [confirmed : BOOLEAN, stored : BOOLEAN]
    BY DEF SignInit
  <2> QED
    BY <2>1, <2>2, <2>3 DEF SignInit, SignTypeOK, Steps, Agreements
<1>2. EnvelopesAreKnown
  BY DEF SignInit, EnvelopesAreKnown, Known, Begun
<1>3. WordsAreTrue
  BY DEF SignInit, WordsAreTrue
<1>4. SignatureIsReal
  <2>1. agreement.signedAt = FALSE /\ signed = FALSE /\ announced = 0
    BY DEF SignInit
  <2> QED
    BY <2>1 DEF SignatureIsReal
<1> QED
  BY <1>1, <1>2, <1>3, <1>4 DEF SignInv

(* What is so at the service stays so.                                      *)
Later(at, new) ==
  /\ at.signed => new.signed
  /\ at.dropped => new.dropped
  /\ at.status = "closed" => new.status = "closed"

(* A step about one envelope: its row, its setup, and what it is at the     *)
(* service afterwards.                                                      *)
LEMMA EnvelopeStep ==
  ASSUME SignInv, NEW e \in Envelopes, NEW row \in EnvelopeRows, NEW step \in Steps, NEW at \in Remotes,
         envelope' = [envelope EXCEPT ![e] = row],
         setup' = [setup EXCEPT ![e] = step],
         remote' = [remote EXCEPT ![e] = at],
         reading' = reading,
         Known(row, step, at), Later(remote[e], at),
         posted' \subseteq Posts,
         \A p \in posted' \ posted : p.on = e /\ Tells(p.event, at)
  PROVE  /\ EnvelopesAreKnown' /\ WordsAreTrue'
         /\ envelope' \in [Envelopes -> EnvelopeRows \cup {NoEnvelope}]
         /\ setup' \in [Envelopes -> Steps] /\ remote' \in [Envelopes -> Remotes]
         /\ \A d \in Envelopes : /\ Later(remote[d], remote'[d])
                                 /\ envelope'[d] = IF d = e THEN row ELSE envelope[d]
<1>0. /\ SignTypeOK /\ EnvelopesAreKnown /\ WordsAreTrue
      /\ NoEnvelope \notin EnvelopeRows
  BY NoEnvelopeIsNoRow DEF SignInv
<1>1. /\ envelope \in [Envelopes -> EnvelopeRows \cup {NoEnvelope}]
      /\ setup \in [Envelopes -> Steps] /\ remote \in [Envelopes -> Remotes]
      /\ reading \in [Reconcilers -> {NoEnvelope} \cup Readings]
      /\ posted \subseteq Posts
  BY <1>0 DEF SignTypeOK
<1>2. \A d \in Envelopes :
        /\ envelope'[d] = IF d = e THEN row ELSE envelope[d]
        /\ setup'[d] = IF d = e THEN step ELSE setup[d]
        /\ remote'[d] = IF d = e THEN at ELSE remote[d]
  BY <1>1
<1>3. \A d \in Envelopes :
        /\ Later(remote[d], remote'[d])
        /\ envelope[d] # NoEnvelope => envelope'[d] # NoEnvelope
  BY <1>0, <1>2 DEF Later
<1>4. EnvelopesAreKnown'
  BY <1>0, <1>2 DEF EnvelopesAreKnown
<1>5. WordsAreTrue'
  <2>1. \A p \in posted' : envelope'[p.on] # NoEnvelope /\ Tells(p.event, remote'[p.on])
    <3>1. ASSUME NEW p \in posted'
          PROVE  envelope'[p.on] # NoEnvelope /\ Tells(p.event, remote'[p.on])
      <4>1. CASE p \in posted
        <5>1. p.on \in Envelopes /\ envelope[p.on] # NoEnvelope /\ Tells(p.event, remote[p.on])
          BY <1>0, <1>1, <4>1 DEF Posts, WordsAreTrue
        <5> QED
          BY <1>3, <5>1 DEF Tells, Later
      <4>2. CASE p \notin posted
        BY <1>0, <1>2, <3>1, <4>2
      <4> QED
        BY <4>1, <4>2
    <3> QED
      BY <3>1
  <2>2. \A r \in Reconcilers : reading[r] # NoEnvelope => reading[r].on \in Envelopes
    BY <1>1 DEF Readings
  <2> QED
    BY <1>0, <1>3, <2>1, <2>2 DEF WordsAreTrue, Later
<1> QED
  BY <1>1, <1>2, <1>3, <1>4, <1>5

(* A step that leaves the agreement, the document and its announcements.    *)
LEMMA RealStays ==
  ASSUME SignInv, UNCHANGED <<signed, byHand, announced>>, agreement'.signedAt = agreement.signedAt,
         \A d \in Envelopes : /\ Later(remote[d], remote'[d])
                              /\ remote[d].status = "closed" /\ envelope[d].document = "canceled" =>
                                   envelope'[d].document = "canceled"
  PROVE  SignatureIsReal'
<1>0. SignatureIsReal
  BY DEF SignInv
<1>1. \A d \in Envelopes : remote[d].signed \/ remote[d].status = "closed" => remote'[d].signed \/ remote'[d].status = "closed"
  BY DEF Later
<1>2. ASSUME NEW d \in Envelopes, remote[d].status = "closed", signed \/ (remote[d].dropped /\ envelope[d].document = "canceled")
      PROVE  remote'[d].status = "closed" /\ (signed' \/ (remote'[d].dropped /\ envelope'[d].document = "canceled"))
  BY <1>2 DEF Later
<1> QED
  BY <1>0, <1>1, <1>2 DEF SignatureIsReal

(* The setup of an envelope and the acts of the service, which tell the CRM  *)
(* nothing.                                                                 *)
LEMMA SetupKeeps ==
  ASSUME SignInv, NEW e \in Envelopes,
         \/ ReadForSignature(e) \/ InsertEnvelope(e) \/ CallService(e) \/ RecordService(e) \/ FinishSetup(e)
         \/ FailSetup(e) \/ StopSetup(e) \/ ServiceActs(e)
  PROVE  SignInv'
<1>0. /\ SignTypeOK /\ EnvelopesAreKnown /\ WordsAreTrue /\ SignatureIsReal
      /\ UNCHANGED <<signed, byHand, processed, announced, reading>>
      /\ NoEnvelope \notin EnvelopeRows
  BY NoEnvelopeIsNoRow
     DEF SignInv, ReadForSignature, InsertEnvelope, CallService, RecordService, FinishSetup, FailSetup, StopSetup,
         ServiceActs, Does
<1>1. /\ setup[e] \in Steps /\ remote[e] \in Remotes
      /\ envelope[e] \in EnvelopeRows \cup {NoEnvelope}
      /\ envelope = [envelope EXCEPT ![e] = envelope[e]]
      /\ setup = [setup EXCEPT ![e] = setup[e]]
      /\ remote = [remote EXCEPT ![e] = remote[e]]
      /\ posted \subseteq Posts /\ agreement \in Agreements
      /\ Known(envelope[e], setup[e], remote[e])
  BY <1>0 DEF SignTypeOK, EnvelopesAreKnown, Agreements
<1>2. ASSUME NEW row \in EnvelopeRows, NEW step \in Steps, NEW at \in Remotes,
             envelope' = [envelope EXCEPT ![e] = row],
             setup' = [setup EXCEPT ![e] = step],
             remote' = [remote EXCEPT ![e] = at],
             Known(row, step, at), Later(remote[e], at),
             remote[e].status = "closed" => row.document = envelope[e].document,
             posted' \subseteq Posts,
             \A p \in posted' \ posted : p.on = e /\ Tells(p.event, at),
             agreement' \in Agreements, agreement'.signedAt = agreement.signedAt
      PROVE  SignInv'
  <2>1. /\ EnvelopesAreKnown' /\ WordsAreTrue'
        /\ envelope' \in [Envelopes -> EnvelopeRows \cup {NoEnvelope}]
        /\ setup' \in [Envelopes -> Steps] /\ remote' \in [Envelopes -> Remotes]
        /\ \A d \in Envelopes : /\ Later(remote[d], remote'[d])
                                /\ envelope'[d] = IF d = e THEN row ELSE envelope[d]
    BY <1>0, <1>1, <1>2, EnvelopeStep
  <2>2. SignTypeOK'
    BY <1>0, <1>2, <2>1 DEF SignTypeOK, Agreements
  <2>3. SignatureIsReal'
    BY <1>0, <1>2, <2>1, RealStays
  <2> QED
    BY <2>1, <2>2, <2>3 DEF SignInv
<1>3. ASSUME NEW step \in {"none", "read"}, setup[e] \in {"none", "read"}, setup' = [setup EXCEPT ![e] = step],
             UNCHANGED <<agreement, envelope, remote, posted>>
      PROVE  SignInv'
  <2>1. setup' \in [Envelopes -> Steps]
    BY <1>0, <1>3 DEF SignTypeOK, Steps
  <2>2. EnvelopesAreKnown'
    BY <1>0, <1>3 DEF EnvelopesAreKnown, Known, SignTypeOK
  <2>3. WordsAreTrue' /\ SignatureIsReal'
    BY <1>0, <1>3 DEF WordsAreTrue, SignatureIsReal
  <2> QED
    BY <1>0, <1>3, <2>1, <2>2, <2>3 DEF SignInv, SignTypeOK
<1>4. CASE ReadForSignature(e)
  BY <1>3, <1>4 DEF ReadForSignature
<1>5. CASE InsertEnvelope(e)
  <2> DEFINE row == [status |-> "draft", key |-> TRUE, external |-> FALSE, document |-> "none"]
  <2>1. CASE setup' = [setup EXCEPT ![e] = "none"] /\ UNCHANGED envelope
    BY <1>3, <1>5, <2>1 DEF InsertEnvelope
  <2>2. CASE envelope' = [envelope EXCEPT ![e] = row] /\ setup' = [setup EXCEPT ![e] = "inserted"]
    <3>1. row \in EnvelopeRows /\ "inserted" \in Steps
      BY DEF EnvelopeRows, RowStatuses, Steps
    <3>2. remote[e].status = "none" /\ ~Begun(remote[e]) /\ UNCHANGED <<agreement, remote, posted>>
      BY <1>0, <1>1, <1>5 DEF InsertEnvelope, Known
    <3>3. Known(row, "inserted", remote[e]) /\ Later(remote[e], remote[e])
      BY <1>0, <3>1, <3>2 DEF Known, Later
    <3> HIDE DEF row
    <3> QED
      BY <1>1, <1>2, <2>2, <3>1, <3>2, <3>3
  <2> QED
    BY <1>5, <2>1, <2>2 DEF InsertEnvelope
<1>6. CASE CallService(e)
  <2>1. UNCHANGED <<agreement, envelope, posted>>
    BY <1>6 DEF CallService
  <2>2. CASE setup[e] = "inserted"
    <3> DEFINE at == [remote[e] EXCEPT !.status = "draft"]
    <3>1. remote' = [remote EXCEPT ![e] = at] /\ setup' = [setup EXCEPT ![e] = "created"]
      BY <1>6, <2>2 DEF CallService
    <3>2. at \in Remotes /\ "created" \in Steps /\ at.status = "draft" /\ at.signed = remote[e].signed
          /\ at.dropped = remote[e].dropped
      BY <1>1 DEF Remotes, RemoteStatuses, Steps
    <3> HIDE DEF at
    <3>3. envelope[e] \in EnvelopeRows /\ Known(envelope[e], "created", at) /\ Later(remote[e], at)
      BY <1>1, <2>2, <3>2 DEF Known, Later, Begun
    <3> QED
      BY <1>1, <1>2, <2>1, <3>1, <3>2, <3>3
  <2>3. CASE setup[e] # "inserted"
    <3> DEFINE at == [remote[e] EXCEPT !.status = IF remote[e].status = "draft" THEN "running" ELSE remote[e].status]
    <3>1. /\ remote' = [remote EXCEPT ![e] = at] /\ setup' = [setup EXCEPT ![e] = "activated"]
          /\ setup[e] = "documented"
      BY <1>6, <2>3 DEF CallService
    <3>2. /\ at \in Remotes /\ "activated" \in Steps /\ at.signed = remote[e].signed
          /\ at.dropped = remote[e].dropped /\ at.status \in {"running", remote[e].status}
          /\ at.status = "running" => remote[e].status \in {"draft", "running"}
      BY <1>1 DEF Remotes, RemoteStatuses, Steps
    <3> HIDE DEF at
    <3>3. envelope[e] \in EnvelopeRows /\ Known(envelope[e], "activated", at) /\ Later(remote[e], at)
      <4>1. envelope[e] # NoEnvelope
        BY <1>1, <3>1 DEF Known
      <4>2. Later(remote[e], at)
        BY <3>2 DEF Later
      <4>3. /\ envelope[e].document # "none"
            /\ envelope[e].document = "canceled" => remote[e].dropped
            /\ envelope[e].status = "closed" => remote[e].status = "closed"
            /\ envelope[e].external => remote[e].status # "none"
        BY <1>1, <3>1, <4>1 DEF Known
      <4>4. Known(envelope[e], "activated", at)
        BY <3>2, <4>1, <4>3 DEF Known
      <4> QED
        BY <1>1, <4>1, <4>2, <4>4
    <3> QED
      BY <1>1, <1>2, <2>1, <3>1, <3>2, <3>3
  <2> QED
    BY <2>2, <2>3
<1>7. CASE RecordService(e) \/ FinishSetup(e) \/ FailSetup(e) \/ StopSetup(e)
  <2> DEFINE row == envelope[e]
  <2>1. row \in EnvelopeRows /\ row # NoEnvelope
    BY <1>0, <1>1, <1>7 DEF RecordService, FinishSetup, FailSetup, StopSetup, Known
  <2>2. UNCHANGED <<remote, posted>> /\ agreement'.signedAt = agreement.signedAt /\ agreement' \in Agreements
    BY <1>1, <1>7 DEF RecordService, FinishSetup, FailSetup, StopSetup, Agreements
  <2>3. PICK step \in Steps, new \in EnvelopeRows :
          /\ setup' = [setup EXCEPT ![e] = step] /\ envelope' = [envelope EXCEPT ![e] = new]
          /\ new.status \in {row.status, "running", "error"}
          /\ step \notin {"none", "read", "inserted", "created"}
          /\ step = "linked" => setup[e] = "created"
          /\ step = "documented" => setup[e] = "linked" /\ new.document = "pending"
          /\ step # "documented" => new.document = row.document /\ (step = "activated" => setup[e] = "activated")
          /\ new.external => setup[e] = "created" \/ row.external
    <3>1. CASE RecordService(e) /\ setup[e] = "created"
      <4> DEFINE new == [row EXCEPT !.external = TRUE]
      <4>1. new \in EnvelopeRows /\ new.status = row.status /\ new.document = row.document
        BY <2>1 DEF EnvelopeRows
      <4>2. setup' = [setup EXCEPT ![e] = "linked"] /\ envelope' = [envelope EXCEPT ![e] = new] /\ "linked" \in Steps
        BY <3>1 DEF RecordService, Steps
      <4> HIDE DEF new
      <4> QED
        BY <3>1, <4>1, <4>2
    <3>2. CASE RecordService(e) /\ setup[e] # "created"
      <4> DEFINE new == [row EXCEPT !.document = "pending"]
      <4>1. new \in EnvelopeRows /\ new.status = row.status /\ new.external = row.external /\ new.document = "pending"
        BY <2>1 DEF EnvelopeRows
      <4>2. /\ setup' = [setup EXCEPT ![e] = "documented"] /\ envelope' = [envelope EXCEPT ![e] = new]
            /\ "documented" \in Steps /\ setup[e] = "linked"
        BY <3>2 DEF RecordService, Steps
      <4> HIDE DEF new
      <4> QED
        BY <4>1, <4>2
    <3>3. CASE FinishSetup(e)
      <4> DEFINE new == [row EXCEPT !.status = "running"]
      <4>1. new \in EnvelopeRows /\ new.status = "running" /\ new.external = row.external /\ new.document = row.document
        BY <2>1 DEF EnvelopeRows, RowStatuses
      <4>2. setup' = [setup EXCEPT ![e] = "recording"] /\ envelope' = [envelope EXCEPT ![e] = new] /\ "recording" \in Steps
        BY <3>3 DEF FinishSetup, Steps
      <4> HIDE DEF new
      <4> QED
        BY <4>1, <4>2
    <3>4. CASE FailSetup(e)
      <4> DEFINE new == [row EXCEPT !.status = "error", !.key = FALSE]
      <4>1. new \in EnvelopeRows /\ new.status = "error" /\ new.external = row.external /\ new.document = row.document
        BY <2>1 DEF EnvelopeRows, RowStatuses
      <4>2. setup' = [setup EXCEPT ![e] = "failed"] /\ envelope' = [envelope EXCEPT ![e] = new] /\ "failed" \in Steps
        BY <1>0, <2>1, <3>4 DEF FailSetup, SignTypeOK, Steps
      <4> HIDE DEF new
      <4> QED
        BY <4>1, <4>2
    <3>5. CASE StopSetup(e)
      BY <1>1, <2>1, <3>5 DEF StopSetup, Steps
    <3> QED
      BY <1>7, <3>1, <3>2, <3>3, <3>4, <3>5
  <2>4. Known(new, step, remote[e]) /\ Later(remote[e], remote[e])
    <3>1. new # NoEnvelope
      BY <1>0
    <3>2. /\ setup[e] \notin {"none", "read"}
          /\ setup[e] \in {"documented", "activated"} \/ Begun(remote[e]) => row.document # "none"
          /\ Begun(remote[e]) => setup[e] \notin {"inserted", "created", "linked"}
          /\ setup[e] \in {"created", "linked"} \/ row.external => remote[e].status # "none"
          /\ row.document = "canceled" => remote[e].dropped
          /\ row.status = "closed" => remote[e].status = "closed"
      BY <1>1, <2>1 DEF Known
    <3>3. /\ step \in {"documented", "activated"} \/ Begun(remote[e]) => new.document # "none"
          /\ Begun(remote[e]) => step \notin {"inserted", "created", "linked"}
      BY <2>3, <3>2
    <3>4. /\ step \in {"created", "linked"} \/ new.external => remote[e].status # "none"
          /\ new.document = "canceled" => remote[e].dropped
          /\ new.status = "closed" => remote[e].status = "closed"
      BY <2>3, <3>2
    <3> QED
      BY <2>3, <3>1, <3>3, <3>4 DEF Known, Later
  <2>5. remote[e].status = "closed" => new.document = envelope[e].document
    BY <1>1, <2>1, <2>3 DEF Known, Begun
  <2> QED
    BY <1>1, <1>2, <2>2, <2>3, <2>4, <2>5
<1>8. CASE ServiceActs(e)
  <2> DEFINE at == remote[e]
  <2>1. PICK new \in Remotes, events \in SUBSET Events :
          /\ Does(e, new, events) /\ Later(at, new)
          /\ Begun(new) => Begun(at) \/ at.status = "running"
          /\ at.status # "none" /\ new.status # "none"
          /\ \A ev \in events : Tells(ev, new)
    <3>1. CASE at.status = "running" /\ Does(e, [at EXCEPT !.signed = TRUE], {"sign"})
      <4> DEFINE new == [at EXCEPT !.signed = TRUE]
      <4>1. new \in Remotes /\ new.signed /\ new.status = at.status /\ new.dropped = at.dropped
        BY <1>1 DEF Remotes
      <4>2. {"sign"} \in SUBSET Events /\ Does(e, new, {"sign"})
        BY <3>1 DEF Events
      <4> HIDE DEF new
      <4>3. Later(at, new) /\ \A ev \in {"sign"} : Tells(ev, new)
        BY <3>1, <4>1 DEF Later, Tells
      <4> QED
        BY <3>1, <4>1, <4>2, <4>3
    <3>2. ASSUME NEW evs \in SUBSET {"document_closed", "envelope_closed"},
                 at.status = "running", Does(e, [at EXCEPT !.status = "closed"], evs)
          PROVE  \E new \in Remotes, events \in SUBSET Events :
                   /\ Does(e, new, events) /\ Later(at, new)
                   /\ Begun(new) => Begun(at) \/ at.status = "running"
                   /\ at.status # "none" /\ new.status # "none"
                   /\ \A ev \in events : Tells(ev, new)
      <4> DEFINE new == [at EXCEPT !.status = "closed"]
      <4>1. new \in Remotes /\ new.signed = at.signed /\ new.status = "closed" /\ new.dropped = at.dropped
        BY <1>1 DEF Remotes, RemoteStatuses
      <4>2. evs \in SUBSET Events /\ Does(e, new, evs)
        BY <3>2 DEF Events
      <4> HIDE DEF new
      <4>3. Later(at, new) /\ \A ev \in evs : Tells(ev, new)
        BY <3>2, <4>1 DEF Later, Tells
      <4> QED
        BY <3>2, <4>1, <4>2, <4>3
    <3>3. CASE at.status = "running" /\ Does(e, [at EXCEPT !.dropped = TRUE], {"document_canceled"})
      <4> DEFINE new == [at EXCEPT !.dropped = TRUE]
      <4>1. new \in Remotes /\ new.dropped /\ new.status = at.status /\ new.signed = at.signed
        BY <1>1 DEF Remotes
      <4>2. {"document_canceled"} \in SUBSET Events /\ Does(e, new, {"document_canceled"})
        BY <3>3 DEF Events
      <4> HIDE DEF new
      <4>3. Later(at, new) /\ \A ev \in {"document_canceled"} : Tells(ev, new)
        BY <3>3, <4>1 DEF Later, Tells
      <4> QED
        BY <3>3, <4>1, <4>2, <4>3
    <3>4. CASE at.status \in {"draft", "running"} /\ Does(e, [at EXCEPT !.status = "canceled"], {"envelope_canceled"})
      <4> DEFINE new == [at EXCEPT !.status = "canceled"]
      <4>1. new \in Remotes /\ new.signed = at.signed /\ new.status = "canceled" /\ new.dropped = at.dropped
        BY <1>1 DEF Remotes, RemoteStatuses
      <4>2. {"envelope_canceled"} \in SUBSET Events /\ Does(e, new, {"envelope_canceled"})
        BY <3>4 DEF Events
      <4> HIDE DEF new
      <4>3. Later(at, new) /\ \A ev \in {"envelope_canceled"} : Tells(ev, new)
        BY <3>4, <4>1 DEF Later, Tells
      <4>4. Begun(new) => Begun(at)
        BY <4>1 DEF Begun
      <4> QED
        BY <3>4, <4>1, <4>2, <4>3, <4>4
    <3>5. /\ {"document_closed", "envelope_closed"} \in SUBSET {"document_closed", "envelope_closed"}
          /\ {"envelope_closed"} \in SUBSET {"document_closed", "envelope_closed"}
      OBVIOUS
    <3> QED
      BY <1>8, <3>1, <3>2, <3>3, <3>4, <3>5 DEF ServiceActs
  <2>2. /\ envelope[e] \in EnvelopeRows /\ envelope[e] # NoEnvelope
        /\ Known(envelope[e], setup[e], new)
    <3>1. envelope[e] # NoEnvelope
      BY <1>1, <2>1 DEF Known
    <3>2. Begun(new) => Begun(at)
      BY <2>1 DEF Begun
    <3> QED
      BY <1>1, <2>1, <3>1, <3>2 DEF Known, Later
  <2>3. /\ UNCHANGED <<agreement, envelope, setup>> /\ remote' = [remote EXCEPT ![e] = new]
        /\ posted' \subseteq Posts
        /\ \A p \in posted' \ posted : p.on = e /\ Tells(p.event, new)
    BY <1>1, <2>1 DEF Does, Posts
  <2> QED
    BY <1>1, <1>2, <2>1, <2>2, <2>3
<1> QED
  BY <1>4, <1>5, <1>6, <1>7, <1>8

(* The reconciliations, the administration and the contract.                *)
LEMMA ReadingsKeep ==
  ASSUME SignInv,
         \/ \E r \in Reconcilers : WriteReading(r) \/ \E e \in Envelopes : ReadRemote(r, e)
         \/ ConfirmSignature \/ StoreSignedFile \/ MoveContract \/ UNCHANGED signVars
  PROVE  SignInv'
<1>0. /\ SignTypeOK /\ EnvelopesAreKnown /\ WordsAreTrue /\ SignatureIsReal
      /\ UNCHANGED <<setup, remote, posted, processed>>
      /\ NoEnvelope \notin EnvelopeRows /\ NoEnvelope \notin Readings
  BY NoEnvelopeIsNoRow
     DEF SignInv, SignTypeOK, WriteReading, ReadRemote, ConfirmSignature, StoreSignedFile, MoveContract, signVars
<1>1. ASSUME NEW r \in Reconcilers, WriteReading(r)
      PROVE  SignInv'
  <2> DEFINE read == reading[r]
             e == read.on
             row == envelope[e]
             key == read.key /\ read.status \notin {"closed", "canceled"}
             new == [row EXCEPT !.status = read.status, !.key = key]
  <2>1. /\ read \in Readings /\ e \in Envelopes /\ read.status \in RemoteStatuses /\ read.key \in BOOLEAN
        /\ UNCHANGED <<agreement, signed, byHand, announced>>
        /\ reading' = [reading EXCEPT ![r] = NoEnvelope] /\ read # NoEnvelope
    BY <1>0, <1>1 DEF WriteReading, SignTypeOK, Readings
  <2>2. row \in EnvelopeRows /\ row # NoEnvelope
    BY <1>0, <1>1, <2>1 DEF WriteReading, SignTypeOK, WordsAreTrue
  <2>3. read.status \in RowStatuses /\ (read.status = "closed" => remote[e].status = "closed")
    BY <1>0, <2>1 DEF WordsAreTrue, RowStatuses, RemoteStatuses
  <2>4. /\ new \in EnvelopeRows /\ new.document = row.document /\ new.external = row.external
        /\ new.status = read.status
    BY <2>1, <2>2, <2>3 DEF EnvelopeRows
  <2>5. envelope' = envelope \/ envelope' = [envelope EXCEPT ![e] = new]
    BY <1>0, <1>1, <2>2 DEF WriteReading, SignTypeOK
  <2>6. \A d \in Envelopes : envelope'[d] = envelope[d] \/ (d = e /\ envelope'[d] = new)
    BY <1>0, <2>5 DEF SignTypeOK
  <2> HIDE DEF new
  <2>7. SignTypeOK'
    BY <1>0, <2>1, <2>4, <2>5 DEF SignTypeOK
  <2>8. new # NoEnvelope /\ \A d \in Envelopes : /\ envelope[d] # NoEnvelope => envelope'[d] # NoEnvelope
                                               /\ envelope'[d].document = envelope[d].document
    BY <1>0, <2>4, <2>6
  <2>9. EnvelopesAreKnown'
    <3>1. Known(new, setup[e], remote[e])
      BY <1>0, <2>1, <2>2, <2>3, <2>4, <2>8 DEF EnvelopesAreKnown, Known
    <3> QED
      BY <1>0, <2>6, <3>1 DEF EnvelopesAreKnown
  <2>10. WordsAreTrue'
    <3>1. \A q \in Reconcilers : /\ reading[q] # NoEnvelope => reading[q].on \in Envelopes
                                 /\ reading'[q] # NoEnvelope => reading'[q] = reading[q]
      BY <1>0, <2>1 DEF SignTypeOK, Readings
    <3>2. \A p \in posted : p.on \in Envelopes
      BY <1>0 DEF SignTypeOK, Posts
    <3> QED
      BY <1>0, <2>8, <3>1, <3>2 DEF WordsAreTrue
  <2>11. SignatureIsReal'
    <3>1. \A d \in Envelopes : Later(remote[d], remote'[d])
      BY <1>0 DEF Later
    <3> QED
      BY <2>1, <2>8, <3>1, RealStays
  <2> QED
    BY <2>7, <2>9, <2>10, <2>11 DEF SignInv
<1>2. ASSUME NEW r \in Reconcilers, NEW e \in Envelopes, ReadRemote(r, e)
      PROVE  SignInv'
  <2> DEFINE read == [on |-> e, key |-> envelope[e].key, status |-> remote[e].status]
  <2>1. envelope[e] # NoEnvelope /\ envelope[e] \in EnvelopeRows /\ envelope[e].external
        /\ UNCHANGED <<agreement, signed, byHand, envelope, announced>> /\ reading' = [reading EXCEPT ![r] = read]
    BY <1>0, <1>2 DEF ReadRemote, SignTypeOK
  <2>2. read \in Readings /\ read.on = e /\ read.status = remote[e].status
    BY <1>0, <2>1 DEF SignTypeOK, EnvelopeRows, Readings, Remotes
  <2>3. remote[e].status # "none"
    BY <1>0, <2>1 DEF EnvelopesAreKnown, Known
  <2> HIDE DEF read
  <2>4. \A q \in Reconcilers : reading'[q] = IF q = r THEN read ELSE reading[q]
    BY <1>0, <2>1 DEF SignTypeOK
  <2>5. SignTypeOK'
    BY <1>0, <2>1, <2>2 DEF SignTypeOK
  <2>6. EnvelopesAreKnown' /\ SignatureIsReal'
    BY <1>0, <2>1 DEF EnvelopesAreKnown, SignatureIsReal
  <2>7. WordsAreTrue'
    BY <1>0, <2>1, <2>2, <2>3, <2>4 DEF WordsAreTrue
  <2> QED
    BY <2>5, <2>6, <2>7 DEF SignInv
<1>3. CASE ConfirmSignature \/ StoreSignedFile \/ MoveContract \/ UNCHANGED signVars
  <2>1. UNCHANGED <<envelope, reading>>
    BY <1>3 DEF ConfirmSignature, StoreSignedFile, MoveContract, signVars
  <2>2. /\ agreement \in Agreements /\ byHand \in [confirmed : BOOLEAN, stored : BOOLEAN]
        /\ signed \in BOOLEAN /\ announced \in Nat
    BY <1>0 DEF SignTypeOK, Agreements
  <2>3. EnvelopesAreKnown' /\ WordsAreTrue'
    BY <1>0, <2>1 DEF EnvelopesAreKnown, WordsAreTrue
  <2>4. CASE ConfirmSignature
    <3>1. ~signed /\ signed' = TRUE /\ announced' = announced + 1 /\ agreement' = agreement
          /\ byHand' \in [confirmed : BOOLEAN, stored : BOOLEAN] /\ byHand'.confirmed /\ byHand'.stored = byHand.stored
      BY <2>2, <2>4 DEF ConfirmSignature
    <3>2. SignTypeOK'
      BY <1>0, <2>1, <2>2, <3>1 DEF SignTypeOK
    <3>3. SignatureIsReal'
      BY <1>0, <2>1, <2>2, <3>1 DEF SignatureIsReal
    <3> QED
      BY <2>3, <3>2, <3>3 DEF SignInv
  <2>5. CASE StoreSignedFile
    <3>1. UNCHANGED <<signed, announced, agreement>>
          /\ byHand' \in [confirmed : BOOLEAN, stored : BOOLEAN] /\ byHand'.stored /\ byHand'.confirmed = byHand.confirmed
      BY <2>2, <2>5 DEF StoreSignedFile
    <3>2. SignTypeOK'
      BY <1>0, <2>1, <2>2, <3>1 DEF SignTypeOK
    <3>3. SignatureIsReal'
      BY <1>0, <2>1, <3>1 DEF SignatureIsReal
    <3> QED
      BY <2>3, <3>2, <3>3 DEF SignInv
  <2>6. CASE MoveContract
    <3>1. UNCHANGED <<signed, byHand, announced>>
          /\ agreement' \in Agreements /\ (agreement'.signedAt => agreement.signedAt \/ byHand.stored)
      <4>1. CASE byHand.stored /\ agreement' = [status |-> "active", signedAt |-> TRUE]
        BY <2>6, <4>1 DEF MoveContract, Agreements
      <4>2. CASE agreement' = [agreement EXCEPT !.status = "cancelled"]
        BY <2>2, <2>6, <4>2 DEF MoveContract, Agreements
      <4> QED
        BY <2>6, <4>1, <4>2 DEF MoveContract
    <3>2. SignTypeOK'
      BY <1>0, <2>1, <3>1 DEF SignTypeOK, Agreements
    <3>3. SignatureIsReal'
      BY <1>0, <2>1, <3>1 DEF SignatureIsReal
    <3> QED
      BY <2>3, <3>2, <3>3 DEF SignInv
  <2>7. CASE UNCHANGED signVars
    BY <1>0, <2>7 DEF signVars, SignInv, SignTypeOK, EnvelopesAreKnown, WordsAreTrue, SignatureIsReal
  <2> QED
    BY <1>3, <2>4, <2>5, <2>6, <2>7
<1> QED
  BY <1>1, <1>2, <1>3

(* What a webhook makes of the document of its envelope.                    *)
LEMMA DocumentMoves ==
  ASSUME NEW row, NEW event, row.document \in {"none", "pending", "signed", "closed", "canceled"}
  PROVE  LET after == DocumentAfter(row, event)
         IN  /\ after \in {"none", "pending", "signed", "closed", "canceled"}
             /\ (after = "none") <=> (row.document = "none")
             /\ after = "canceled" => row.document = "canceled" \/ event = "document_canceled"
<1>1. CASE row.document = "none"
  BY <1>1 DEF DocumentAfter
<1>2. CASE row.document # "none" /\ event = "sign"
  BY <1>2 DEF DocumentAfter
<1>3. CASE row.document # "none" /\ event = "document_closed"
  BY <1>3 DEF DocumentAfter
<1>4. CASE row.document # "none" /\ event = "document_canceled"
  BY <1>4 DEF DocumentAfter
<1>5. CASE row.document # "none" /\ event \notin {"sign", "document_closed", "document_canceled"}
  <2>1. DocumentAfter(row, event) = row.document
    BY <1>5 DEF DocumentAfter
  <2> QED
    BY <1>5, <2>1
<1> QED
  BY <1>1, <1>2, <1>3, <1>4, <1>5

(* A webhook, received once.                                                *)
LEMMA ReceiveKeeps ==
  ASSUME SignInv, NEW p \in Posts, Receive(p)
  PROVE  SignInv'
<1> DEFINE e == p.on
           row == envelope[e]
           now == StatusAfter(row, p.event)
           marks == MarksDocument(row, p.event)
           after == DocumentAfter(row, p.event)
<1>0. /\ SignTypeOK /\ EnvelopesAreKnown /\ WordsAreTrue /\ SignatureIsReal
      /\ UNCHANGED <<byHand, setup, remote, posted, reading>>
      /\ p \in posted /\ processed' = processed \cup {p} /\ processed' \subseteq Posts
      /\ e \in Envelopes /\ p.event \in Events
      /\ NoEnvelope \notin EnvelopeRows
  BY NoEnvelopeIsNoRow DEF SignInv, SignTypeOK, Receive, Posts
<1>1. CASE ~row.external
  <2>1. UNCHANGED <<envelope, agreement, signed, announced>>
    BY <1>1 DEF Receive
  <2> QED
    BY <1>0, <2>1 DEF SignInv, SignTypeOK, EnvelopesAreKnown, WordsAreTrue, SignatureIsReal
<1>2. CASE row.external
  <2>1. row # NoEnvelope /\ row \in EnvelopeRows /\ Tells(p.event, remote[e])
    BY <1>0 DEF SignTypeOK, WordsAreTrue
  <2>2. /\ row.status \in RowStatuses /\ row.key \in BOOLEAN
        /\ row.document \in {"none", "pending", "signed", "closed", "canceled"}
    BY <2>1 DEF EnvelopeRows
  <2>3. Known(row, setup[e], remote[e])
    BY <1>0 DEF EnvelopesAreKnown
  <2>4. now \in RowStatuses /\ (now = "closed" => remote[e].status = "closed")
    BY <1>0, <2>1, <2>2, <2>3 DEF StatusAfter, RowStatuses, Events, Tells, Known
  <2>5. /\ after \in {"none", "pending", "signed", "closed", "canceled"}
        /\ (after = "none") <=> (row.document = "none")
        /\ after = "canceled" => remote[e].dropped
    <3>1. row.document = "canceled" => remote[e].dropped
      BY <2>1, <2>3 DEF Known
    <3>2. p.event = "document_canceled" => remote[e].dropped
      BY <2>1 DEF Tells
    <3>3. /\ after \in {"none", "pending", "signed", "closed", "canceled"}
          /\ (after = "none") <=> (row.document = "none")
          /\ after = "canceled" => row.document = "canceled" \/ p.event = "document_canceled"
      BY <2>2, DocumentMoves
    <3> QED
      BY <3>1, <3>2, <3>3
  <2>6. marks \in BOOLEAN /\ (marks => remote[e].signed \/ remote[e].status = "closed")
    BY <2>1, <2>4 DEF MarksDocument, Tells
  <2>7. now = "closed" => marks \/ after = "canceled"
    BY <2>3, <2>4, <2>5 DEF MarksDocument, Known, Begun
  <2>8. remote[e].status = "closed" /\ row.document = "canceled" => after = "canceled" \/ marks
    BY <1>0, <2>2 DEF DocumentAfter, MarksDocument, Events
  <2> DEFINE new == [row EXCEPT !.status = now, !.document = after, !.key = row.key /\ now \notin {"closed", "canceled"}]
  <2>9. /\ envelope' = [envelope EXCEPT ![e].status = now, ![e].document = after, ![e].key = @ /\ now \notin {"closed", "canceled"}]
        /\ agreement' = [agreement EXCEPT !.signedAt = @ \/ (now = "closed" /\ agreement.status = "pending_signature")]
        /\ signed' = (signed \/ marks)
        /\ announced' \in {announced, announced + IF marks /\ ~signed THEN 1 ELSE 0}
    BY <1>2 DEF Receive
  <2> HIDE DEF now, marks, after
  <2>10. envelope' = [envelope EXCEPT ![e] = new]
    BY <1>0, <2>1, <2>9 DEF SignTypeOK
  <2>11. new \in EnvelopeRows /\ new.status = now /\ new.document = after /\ new.external = row.external
    BY <2>1, <2>4, <2>5 DEF EnvelopeRows
  <2> HIDE DEF new
  <2>12. /\ EnvelopesAreKnown' /\ WordsAreTrue'
         /\ envelope' \in [Envelopes -> EnvelopeRows \cup {NoEnvelope}]
         /\ \A d \in Envelopes : envelope'[d] = IF d = e THEN new ELSE envelope[d]
    <3>1. /\ setup[e] \in Steps /\ remote[e] \in Remotes
          /\ setup' = [setup EXCEPT ![e] = setup[e]] /\ remote' = [remote EXCEPT ![e] = remote[e]]
          /\ posted' = posted /\ posted \subseteq Posts
      BY <1>0 DEF SignTypeOK
    <3>2. Known(new, setup[e], remote[e]) /\ Later(remote[e], remote[e])
      BY <1>0, <2>1, <2>3, <2>4, <2>5, <2>11 DEF Known, Later
    <3>3. reading' = reading /\ posted' \subseteq Posts /\ \A q \in posted' \ posted : q.on = e /\ Tells(q.event, remote[e])
      BY <1>0, <3>1
    <3> HIDE DEF e, row
    <3>4. e \in Envelopes
      BY <1>0
    <3> QED
      BY <2>10, <2>11, <3>1, <3>2, <3>3, <3>4, EnvelopeStep
  <2>13. /\ agreement' \in Agreements
         /\ agreement'.signedAt => agreement.signedAt \/ now = "closed"
         /\ agreement.signedAt \in BOOLEAN /\ signed \in BOOLEAN /\ announced \in Nat
    BY <1>0, <2>9 DEF SignTypeOK, Agreements
  <2>14. signed' \in BOOLEAN /\ announced' \in Nat
    BY <2>6, <2>9, <2>13
  <2>15. SignTypeOK'
    BY <1>0, <2>12, <2>13, <2>14 DEF SignTypeOK, Agreements
  <2>16. SignatureIsReal'
    <3>1. signed' => byHand.confirmed \/ \E d \in Envelopes : remote[d].signed \/ remote[d].status = "closed"
      BY <1>0, <2>6, <2>9 DEF SignatureIsReal
    <3>2. agreement'.signedAt =>
            \/ byHand.stored
            \/ \E d \in Envelopes :
                 remote[d].status = "closed" /\ (signed' \/ (remote[d].dropped /\ envelope'[d].document = "canceled"))
      <4>1. CASE now = "closed"
        BY <1>0, <2>4, <2>5, <2>7, <2>9, <2>11, <2>12, <4>1
      <4>2. CASE now # "closed" /\ agreement'.signedAt
        <5>1. agreement.signedAt
          BY <2>13, <4>2
        <5>2. CASE byHand.stored
          BY <5>2
        <5>3. CASE ~byHand.stored
          <6>1. PICK d \in Envelopes :
                  remote[d].status = "closed" /\ (signed \/ (remote[d].dropped /\ envelope[d].document = "canceled"))
            BY <1>0, <5>1, <5>3 DEF SignatureIsReal
          <6>2. signed' \/ envelope'[d].document = envelope[d].document \/ envelope'[d].document = "canceled"
            BY <2>8, <2>9, <2>11, <2>12, <6>1
          <6> QED
            BY <2>9, <6>1, <6>2
        <5> QED
          BY <5>2, <5>3
      <4> QED
        BY <4>1, <4>2
    <3>3. announced' <= IF signed' THEN 1 ELSE 0
      BY <1>0, <2>6, <2>9, <2>13 DEF SignatureIsReal
    <3> QED
      BY <1>0, <3>1, <3>2, <3>3 DEF SignatureIsReal
  <2> QED
    BY <2>12, <2>15, <2>16 DEF SignInv
<1> QED
  BY <1>1, <1>2

LEMMA SignInvariant == SignSpec => []SignInv
<1>1. SignInv /\ [SignNext]_signVars => SignInv'
  BY SetupKeeps, ReadingsKeep, ReceiveKeeps DEF SignNext
<1> QED
  BY SignStart, <1>1, PTL DEF SignSpec

(* Agreement, envelopes, setups and readings keep their types, for any      *)
(* envelopes and bounds.                                                    *)
THEOREM SignTypes == SignSpec => []SignTypeOK
<1>1. SignInv => SignTypeOK
  BY DEF SignInv
<1> QED
  BY <1>1, SignInvariant, PTL

(* A document is signed only if the associate signed it at the service, the *)
(* service closed its envelope or the administration confirmed it; a        *)
(* contract has its signature only with a stored signed file or a closed    *)
(* envelope, whose document is then signed unless it was cancelled at the   *)
(* service; and the signed document is announced once at most: whatever     *)
(* setups fail or stop and however late, repeated or out of order the       *)
(* webhooks come (eSignatureService.ts; markDocumentSigned, contracts.ts).  *)
THEOREM SignaturesAreReal == SignSpec => []SignatureIsReal
<1>1. SignInv => SignatureIsReal
  BY DEF SignInv
<1> QED
  BY <1>1, SignInvariant, PTL

-----------------------------------------------------------------------------
(* The statement of points.                                                 *)

(* RunningTotals over rows of a statement.                                           *)

Keys == ({"annual", "expiry"} \X Years) \cup ({"usage", "adjustment"} \X Requests)
        \cup ({"reversal"} \X Nat)

Rows == [type : Types, points : Int, year : 0 .. LastYear, stay : ResStays \cup {None},
         reverses : Nat, key : Keys]

Total(L, ids) ==
  LET sum[n \in 0 .. Len(L)] ==
        IF n = 0 THEN 0 ELSE sum[n - 1] + IF n \in ids THEN L[n].points ELSE 0
  IN  sum[Len(L)]

(* The partial sums.                                                        *)
RunningTotals(L, ids, s) ==
  /\ s \in [0 .. Len(L) -> Int] /\ s[0] = 0
  /\ \A n \in 1 .. Len(L) : s[n] = s[n - 1] + IF n \in ids THEN L[n].points ELSE 0

LEMMA RowsAreRows ==
  ASSUME NEW L \in Seq(Rows)
  PROVE  /\ Len(L) \in Nat /\ DOMAIN L = 1 .. Len(L)
         /\ \A n \in 1 .. Len(L) : L[n] \in Rows /\ L[n].points \in Int
<1>1. Len(L) \in Nat /\ DOMAIN L = 1 .. Len(L) /\ \A n \in 1 .. Len(L) : L[n] \in Rows
  BY ElementOfSeq, LenProperties
<1>2. \A r \in Rows : r.points \in Int
  BY DEF Rows
<1> QED
  BY <1>1, <1>2

LEMMA RunningTotalsExist ==
  ASSUME NEW L \in Seq(Rows), NEW ids
  PROVE  \E s : RunningTotals(L, ids, s) /\ Total(L, ids) = s[Len(L)]
<1> DEFINE P(s) == s = [n \in 0 .. Len(L) |->
                          IF n = 0 THEN 0 ELSE s[n - 1] + IF n \in ids THEN L[n].points ELSE 0]
           step == [n \in 1 .. Len(L) |-> [x \in Int |-> x + IF n \in ids THEN L[n].points ELSE 0]]
           t == CHOOSE s : P(s)
<1>1. Len(L) \in Nat /\ \A n \in 1 .. Len(L) : L[n].points \in Int
  BY RowsAreRows
<1>2. step \in [1 .. Len(L) -> [Int -> Int]]
  BY <1>1
<1>0. Len(L) \in Nat
  BY <1>1
<1>3. PICK g \in [0 .. Len(L) -> Int] :
        g[0] = 0 /\ \A n \in 1 .. Len(L) : g[n] = step[n][g[n - 1]]
  <2> DEFINE N == Len(L)
             D == Int
             zero == 0
  <2>1. N \in Nat /\ zero \in D /\ step \in [1 .. N -> [D -> D]]
    BY <1>0, <1>2
  <2>2. Recurs(N, D, zero, step)
    <3> HIDE DEF N, D, zero, step
    <3> QED
      BY <2>1, ByRecursion
  <2> QED
    BY <2>2 DEF Recurs
<1>4. ASSUME NEW n \in 1 .. Len(L)
      PROVE  g[n] = g[n - 1] + IF n \in ids THEN L[n].points ELSE 0
  <2>1. n - 1 \in 0 .. Len(L)
    BY <1>1
  <2>2. g[n - 1] \in Int
    BY <2>1
  <2> QED
    BY <1>3, <2>2
<1>5. P(g)
  BY <1>3, <1>4
<1>6. P(t)
  <2> HIDE DEF P
  <2> QED
    BY <1>5
<1>7. /\ t[0] = 0 /\ t = [n \in 0 .. Len(L) |-> t[n]]
      /\ \A n \in 1 .. Len(L) : t[n] = t[n - 1] + IF n \in ids THEN L[n].points ELSE 0
  <2> HIDE DEF t
  <2> QED
    BY <1>1, <1>6
<1>8. Total(L, ids) = t[Len(L)]
  BY DEF Total
<1> HIDE DEF t
<1>9. \A n \in 0 .. Len(L) : t[n] \in Int
  <2> DEFINE S == {n \in 0 .. Len(L) : t[n] \in Int}
  <2>1. 0 \in S
    BY <1>1, <1>7
  <2>2. ASSUME NEW n \in 1 .. Len(L), n - 1 \in S PROVE n \in S
    <3>1. t[n - 1] \in Int /\ n \in 0 .. Len(L)
      BY <1>1, <2>2
    <3> DEFINE p == IF n \in ids THEN L[n].points ELSE 0
    <3>2. p \in Int
      BY <1>1
    <3>3. t[n] = t[n - 1] + p
      BY <1>7
    <3>4. t[n] \in Int
      <4> HIDE DEF p
      <4> QED
        BY <3>1, <3>2, <3>3
    <3> QED
      BY <3>1, <3>4
  <2>3. 0 .. Len(L) \subseteq S
    <3> HIDE DEF S
    <3> QED
      BY <1>1, <2>1, <2>2, CountingUp
  <2> QED
    BY <2>3
<1> QED
  BY <1>7, <1>8, <1>9 DEF RunningTotals

(* A sum is one number, and two sums that grow alike agree.                 *)
LEMMA TotalIs ==
  ASSUME NEW L \in Seq(Rows), NEW ids
  PROVE  Total(L, ids) \in Int
<1>1. Len(L) \in 0 .. Len(L)
  BY RowsAreRows
<1> QED
  BY <1>1, RunningTotalsExist DEF RunningTotals

LEMMA TotalAppend ==
  ASSUME NEW L \in Seq(Rows), NEW r \in Rows, NEW ids
  PROVE  Total(Append(L, r), ids) = Total(L, ids) + IF Len(L) + 1 \in ids THEN r.points ELSE 0
<1> DEFINE M == Append(L, r)
           N == Len(L)
<1>1. /\ M \in Seq(Rows) /\ N \in Nat /\ Len(M) = N + 1
      /\ M[N + 1] = r /\ \A n \in 1 .. N : M[n] = L[n]
  BY AppendProperties, RowsAreRows
<1>2. PICK s : RunningTotals(L, ids, s) /\ Total(L, ids) = s[N]
  BY RunningTotalsExist
<1>3. PICK t : RunningTotals(M, ids, t) /\ Total(M, ids) = t[N + 1]
  BY <1>1, RunningTotalsExist
<1> HIDE DEF M, N
<1>4. s[N] = t[N]
  <2> DEFINE S == {n \in 0 .. N : s[n] = t[n]}
  <2>1. 0 \in S
    BY <1>1, <1>2, <1>3 DEF RunningTotals
  <2>2. ASSUME NEW n \in 1 .. N, n - 1 \in S PROVE n \in S
    <3>1. n \in 0 .. N /\ n \in 1 .. N + 1 /\ s[n - 1] = t[n - 1] /\ M[n] = L[n]
      BY <1>1, <2>2
    <3>2. s[n] = s[n - 1] + IF n \in ids THEN L[n].points ELSE 0
      BY <1>2 DEF RunningTotals, N
    <3>3. t[n] = t[n - 1] + IF n \in ids THEN M[n].points ELSE 0
      BY <1>1, <1>3, <3>1 DEF RunningTotals
    <3> QED
      BY <3>1, <3>2, <3>3
  <2>3. 0 .. N \subseteq S
    <3> HIDE DEF S
    <3> QED
      BY <1>1, <2>1, <2>2, CountingUp
  <2>4. N \in 0 .. N
    BY <1>1
  <2> QED
    BY <2>3, <2>4
<1>5. t[N + 1] = t[N] + IF N + 1 \in ids THEN r.points ELSE 0
  <2>1. N + 1 \in 1 .. Len(M) /\ N + 1 - 1 = N
    BY <1>1
  <2> QED
    BY <1>1, <1>3, <2>1 DEF RunningTotals
<1> QED
  BY <1>2, <1>3, <1>4, <1>5 DEF M, N

LEMMA TotalSame ==
  ASSUME NEW L \in Seq(Rows), NEW A, NEW B, \A i \in DOMAIN L : i \in A <=> i \in B
  PROVE  Total(L, A) = Total(L, B)
<1> DEFINE N == Len(L)
<1>1. N \in Nat /\ DOMAIN L = 1 .. N
  BY RowsAreRows
<1>2. PICK s : RunningTotals(L, A, s) /\ Total(L, A) = s[N]
  BY RunningTotalsExist
<1>3. PICK t : RunningTotals(L, B, t) /\ Total(L, B) = t[N]
  BY RunningTotalsExist
<1> DEFINE S == {n \in 0 .. N : s[n] = t[n]}
<1>4. 0 \in S
  BY <1>1, <1>2, <1>3 DEF RunningTotals
<1>5. ASSUME NEW n \in 1 .. N, n - 1 \in S PROVE n \in S
  <2>1. n \in 0 .. N /\ s[n - 1] = t[n - 1] /\ (n \in A <=> n \in B)
    BY <1>1, <1>5
  <2>2. s[n] = s[n - 1] + IF n \in A THEN L[n].points ELSE 0
    BY <1>2 DEF RunningTotals
  <2>3. t[n] = t[n - 1] + IF n \in B THEN L[n].points ELSE 0
    BY <1>3 DEF RunningTotals
  <2> QED
    BY <2>1, <2>2, <2>3
<1>6. 0 .. N \subseteq S
  <2> HIDE DEF S, N
  <2> QED
    BY <1>1, <1>4, <1>5, CountingUp
<1>7. N \in 0 .. N
  BY <1>1
<1> QED
  BY <1>2, <1>3, <1>6, <1>7

LEMMA TotalOfBoth ==
  ASSUME NEW L \in Seq(Rows), NEW A, NEW B, A \cap B = {}
  PROVE  Total(L, A \cup B) = Total(L, A) + Total(L, B)
<1> DEFINE N == Len(L)
           C == A \cup B
<1>1. N \in Nat /\ \A n \in 1 .. N : L[n].points \in Int
  BY RowsAreRows
<1>2. PICK s : RunningTotals(L, A, s) /\ Total(L, A) = s[N]
  BY RunningTotalsExist
<1>3. PICK t : RunningTotals(L, B, t) /\ Total(L, B) = t[N]
  BY RunningTotalsExist
<1>4. PICK u : RunningTotals(L, C, u) /\ Total(L, C) = u[N]
  BY RunningTotalsExist
<1> DEFINE S == {n \in 0 .. N : u[n] = s[n] + t[n]}
<1>5. 0 \in S
  BY <1>1, <1>2, <1>3, <1>4 DEF RunningTotals
<1>6. ASSUME NEW n \in 1 .. N, n - 1 \in S PROVE n \in S
  <2> HIDE DEF N
  <2>1. n \in 0 .. N /\ n - 1 \in 0 .. N /\ u[n - 1] = s[n - 1] + t[n - 1] /\ L[n].points \in Int
    BY <1>1, <1>6
  <2>2. s[n - 1] \in Int /\ s[n] = s[n - 1] + IF n \in A THEN L[n].points ELSE 0
    BY <1>2, <2>1 DEF RunningTotals, N
  <2>3. t[n - 1] \in Int /\ t[n] = t[n - 1] + IF n \in B THEN L[n].points ELSE 0
    BY <1>3, <2>1 DEF RunningTotals, N
  <2>4. u[n] = u[n - 1] + IF n \in C THEN L[n].points ELSE 0
    BY <1>4 DEF RunningTotals, N
  <2>5. ~(n \in A /\ n \in B) /\ (n \in C <=> n \in A \/ n \in B)
    OBVIOUS
  <2> HIDE DEF C
  <2>6. u[n] = s[n] + t[n]
    BY <2>1, <2>2, <2>3, <2>4, <2>5
  <2> QED
    BY <2>1, <2>6
<1>7. 0 .. N \subseteq S
  <2> HIDE DEF S, N
  <2> QED
    BY <1>1, <1>5, <1>6, CountingUp
<1>8. N \in 0 .. N
  BY <1>1
<1> QED
  BY <1>2, <1>3, <1>4, <1>7, <1>8

LEMMA TotalAtLeastZero ==
  ASSUME NEW L \in Seq(Rows), NEW A, \A i \in DOMAIN L : i \in A => L[i].points >= 0
  PROVE  Total(L, A) >= 0
<1> DEFINE N == Len(L)
<1>1. N \in Nat /\ DOMAIN L = 1 .. N /\ \A n \in 1 .. N : L[n].points \in Int
  BY RowsAreRows
<1>2. PICK s : RunningTotals(L, A, s) /\ Total(L, A) = s[N]
  BY RunningTotalsExist
<1> DEFINE S == {n \in 0 .. N : s[n] >= 0}
<1>4. 0 \in S
  BY <1>1, <1>2 DEF RunningTotals
<1>5. ASSUME NEW n \in 1 .. N, n - 1 \in S PROVE n \in S
  <2> HIDE DEF N
  <2>1. n \in 0 .. N /\ n - 1 \in 0 .. N /\ s[n - 1] >= 0 /\ L[n].points \in Int
    BY <1>1, <1>5
  <2>2. s[n - 1] \in Int /\ s[n] = s[n - 1] + IF n \in A THEN L[n].points ELSE 0
    BY <1>2, <2>1 DEF RunningTotals, N
  <2>3. n \in A => L[n].points >= 0
    BY <1>1
  <2>4. s[n] >= 0
    BY <2>1, <2>2, <2>3
  <2> QED
    BY <2>1, <2>4
<1>6. 0 .. N \subseteq S
  <2> HIDE DEF S, N
  <2> QED
    BY <1>1, <1>4, <1>5, CountingUp
<1>7. N \in 0 .. N
  BY <1>1
<1> QED
  BY <1>2, <1>6, <1>7

LEMMA TotalOfNone ==
  ASSUME NEW L \in Seq(Rows)
  PROVE  Total(L, {}) = 0
<1>1. Total(L, {}) = Total(L, {}) + Total(L, {})
  BY TotalOfBoth
<1> QED
  BY <1>1, TotalIs

(* A sum without one of its rows.                                           *)
LEMMA TotalWithout ==
  ASSUME NEW L \in Seq(Rows), NEW A, NEW i \in A \cap DOMAIN L
  PROVE  Total(L, A) = Total(L, A \ {i}) + L[i].points
<1> DEFINE N == Len(L)
           B == A \ {i}
<1>1. N \in Nat /\ DOMAIN L = 1 .. N /\ \A n \in 1 .. N : L[n].points \in Int
  BY RowsAreRows
<1>2. PICK s : RunningTotals(L, A, s) /\ Total(L, A) = s[N]
  BY RunningTotalsExist
<1>3. PICK t : RunningTotals(L, B, t) /\ Total(L, B) = t[N]
  BY RunningTotalsExist
<1> DEFINE S == {n \in 0 .. N : s[n] = t[n] + IF n >= i THEN L[i].points ELSE 0}
<1>0. i \in 1 .. N
  BY <1>1
<1>4. 0 \in S
  BY <1>0, <1>1, <1>2, <1>3 DEF RunningTotals
<1>5. ASSUME NEW n \in 1 .. N, n - 1 \in S PROVE n \in S
  <2> HIDE DEF N
  <2>1. n \in 0 .. N /\ n - 1 \in 0 .. N /\ L[n].points \in Int /\ L[i].points \in Int /\ i \in Nat /\ n \in Nat
    BY <1>0, <1>1, <1>5
  <2>6. s[n - 1] = t[n - 1] + IF n - 1 >= i THEN L[i].points ELSE 0
    BY <1>5
  <2>2. s[n - 1] \in Int /\ s[n] = s[n - 1] + IF n \in A THEN L[n].points ELSE 0
    BY <1>2, <2>1 DEF RunningTotals, N
  <2>3. t[n - 1] \in Int /\ t[n] = t[n - 1] + IF n \in B THEN L[n].points ELSE 0
    BY <1>3, <2>1 DEF RunningTotals, N
  <2>4. n \in A <=> n \in B \/ n = i
    OBVIOUS
  <2>7. i \notin B
    OBVIOUS
  <2> HIDE DEF B
  <2>5. s[n] = t[n] + IF n >= i THEN L[i].points ELSE 0
    <3>1. CASE n = i
      BY <2>1, <2>2, <2>3, <2>4, <2>6, <2>7, <3>1
    <3>2. CASE n # i
      <4>1. n >= i <=> n - 1 >= i
        BY <2>1, <3>2
      <4> QED
        BY <2>1, <2>2, <2>3, <2>4, <2>6, <3>2, <4>1
    <3> QED
      BY <3>1, <3>2
  <2> QED
    BY <2>1, <2>5
<1>6. 0 .. N \subseteq S
  <2> HIDE DEF S, N
  <2> QED
    BY <1>1, <1>4, <1>5, CountingUp
<1>7. N \in 0 .. N /\ N >= i
  BY <1>0, <1>1
<1> QED
  BY <1>2, <1>3, <1>6, <1>7

-----------------------------------------------------------------------------
(* The statement.                                                           *)

(* What a row says of its own type; its number is n.                        *)
RowOK(r, n) ==
  /\ r \in Rows
  /\ r.reverses \in 0 .. n - 1
  /\ r.type = "annual_credit" =>
       r.points = AnnualPoints /\ r.year \in Years /\ r.reverses = 0 /\ r.key = <<"annual", r.year>>
  /\ r.type = "usage" => r.points <= 0 /\ r.reverses = 0 /\ r.key[1] = "usage"
  /\ r.type = "adjustment" => r.reverses = 0 /\ r.key[1] = "adjustment"
  /\ r.type = "reversal" => r.reverses > 0 /\ r.key = <<"reversal", r.reverses>>
  /\ r.type = "expiration" =>
       r.points <= 0 /\ r.year \in Years /\ r.reverses = 0 /\ r.key = <<"expiry", r.year>>

RowsOK == ledger \in Seq(Rows) /\ \A i \in DOMAIN ledger : RowOK(ledger[i], i)

KeysApart == \A i, j \in DOMAIN ledger : i # j => ledger[i].key # ledger[j].key

(* A settled year is over, and so is every credited year before it.         *)
YearsOK ==
  /\ \A z \in SettledYears : LastValidYear(z) < year
  /\ \A i \in OfType("annual_credit"), z \in SettledYears :
       ledger[i].year <= z => ledger[i].year \in SettledYears

CreditsOf(ys) == {i \in OfType("annual_credit") : ledger[i].year \in ys /\ ~Reversed(i)}
Others == {i \in Ids \ OfType("annual_credit") : ledger[i].points > 0 /\ ~Reversed(i)}

LEMMA AsTotals ==
  /\ \A ids : Points(ids) = Total(ledger, ids)
  /\ Balance = Total(ledger, DOMAIN ledger)
  /\ \A ys : Credited(ys) = Total(ledger, CreditsOf(ys))
  /\ NewestNonCredit = Total(ledger, Others)
<1>1. \A ids : Points(ids) = Total(ledger, ids)
  BY DEF Points, Total
<1> QED
  BY <1>1 DEF Balance, Credited, NewestNonCredit, CreditsOf, Others, Ids

LEMMA AreNumbers ==
  ASSUME RowsOK
  PROVE  /\ Balance \in Int /\ NewestNonCredit \in Int /\ NewestNonCredit >= 0
         /\ \A ys : Credited(ys) \in Int /\ Credited(ys) >= 0
<1>0. ledger \in Seq(Rows)
  BY DEF RowsOK
<1>1. \A ids : Total(ledger, ids) \in Int
  BY <1>0, TotalIs
<1>2. ASSUME NEW ys PROVE Total(ledger, CreditsOf(ys)) >= 0
  <2>1. \A i \in DOMAIN ledger : i \in CreditsOf(ys) => ledger[i].points >= 0
    BY PointsAssumption DEF RowsOK, RowOK, CreditsOf, OfType, Ids
  <2> QED
    BY <1>0, <2>1, TotalAtLeastZero
<1>3. Total(ledger, Others) >= 0
  <2>1. \A i \in DOMAIN ledger : i \in Others => ledger[i].points >= 0
    BY <1>0, RowsAreRows DEF Others, Ids
  <2> QED
    BY <1>0, <2>1, TotalAtLeastZero
<1> QED
  BY <1>1, <1>2, <1>3, AsTotals

LEMMA LeastAndMost ==
  ASSUME NEW a \in Int, NEW b \in Int
  PROVE  /\ Min({a, b}) = IF a <= b THEN a ELSE b
         /\ Max({a, b}) = IF a >= b THEN a ELSE b
<1>1. \E x \in {a, b} : \A y \in {a, b} : x <= y
  <2>1. CASE a <= b
    BY <2>1
  <2>2. CASE ~(a <= b)
    BY <2>2
  <2> QED
    BY <2>1, <2>2
<1>2. \E x \in {a, b} : \A y \in {a, b} : x >= y
  <2>1. CASE a >= b
    BY <2>1
  <2>2. CASE ~(a >= b)
    BY <2>2
  <2> QED
    BY <2>1, <2>2
<1>3. Min({a, b}) \in {a, b} /\ \A y \in {a, b} : Min({a, b}) <= y
  BY <1>1 DEF Min
<1>4. Max({a, b}) \in {a, b} /\ \A y \in {a, b} : Max({a, b}) >= y
  BY <1>2 DEF Max
<1> QED
  BY <1>3, <1>4

LEMMA LeftOverIs ==
  ASSUME RowsOK, NEW y, NEW b \in Int
  PROVE  LET newer == NewestNonCredit + Credited({z \in Years : z > y})
             c == Credited({y})
             least == IF c <= b - newer THEN c ELSE b - newer
         IN  LeftOver(y, b) = IF 0 >= least THEN 0 ELSE least
<1> DEFINE newer == NewestNonCredit + Credited({z \in Years : z > y})
           c == Credited({y})
           least == IF c <= b - newer THEN c ELSE b - newer
<1>1. c \in Int /\ newer \in Int /\ b - newer \in Int
  BY AreNumbers
<1>2. LeftOver(y, b) = Max({0, Min({c, b - newer})})
  BY DEF LeftOver
<1> HIDE DEF c, newer
<1>3. Min({c, b - newer}) = least
  BY <1>1, LeastAndMost
<1>4. least \in Int
  BY <1>1
<1>5. Max({0, least}) = IF 0 >= least THEN 0 ELSE least
  <2> HIDE DEF least
  <2> QED
    BY <1>4, LeastAndMost
<1> QED
  BY <1>2, <1>3, <1>5 DEF c, newer

(* What lapses, year by year.                                               *)
LEMMA LapsesByYear ==
  ASSUME RowsOK
  PROVE  /\ LapsedUpTo \in [0 .. LastYear -> Int]
         /\ LapsedUpTo[0] = 0
         /\ \A y \in Years : LapsedUpTo[y] = LapsedUpTo[y - 1] +
              IF y \in UnsettledExpiredYears THEN LeftOver(y, Balance - LapsedUpTo[y - 1]) ELSE 0
<1> DEFINE U == UnsettledExpiredYears
           Q(s) == s = [y \in 0 .. LastYear |->
                          IF y = 0 THEN 0
                          ELSE s[y - 1] + IF y \in U THEN LeftOver(y, Balance - s[y - 1]) ELSE 0]
           step == [y \in 1 .. LastYear |->
                      [x \in Int |-> x + IF y \in U THEN LeftOver(y, Balance - x) ELSE 0]]
           t == CHOOSE s : Q(s)
<1>1. LastYear \in Nat /\ Balance \in Int
  BY PointsAssumption, AreNumbers
<1>0. ASSUME NEW y, NEW b \in Int PROVE LeftOver(y, b) \in Int
  <2> DEFINE newer == NewestNonCredit + Credited({z \in Years : z > y})
             c == Credited({y})
             least == IF c <= b - newer THEN c ELSE b - newer
  <2>1. newer \in Int /\ c \in Int
    BY AreNumbers
  <2>2. least \in Int
    <3> HIDE DEF newer, c
    <3> QED
      BY <2>1
  <2>3. LeftOver(y, b) = IF 0 >= least THEN 0 ELSE least
    BY LeftOverIs
  <2> HIDE DEF least
  <2> QED
    BY <2>2, <2>3
<1>2. ASSUME NEW y \in 1 .. LastYear, NEW x \in Int
      PROVE  x + (IF y \in U THEN LeftOver(y, Balance - x) ELSE 0) \in Int
  <2>1. Balance - x \in Int
    BY <1>1
  <2>2. LeftOver(y, Balance - x) \in Int
    BY <1>0, <2>1
  <2> QED
    BY <2>2
<1>3. PICK g \in [0 .. LastYear -> Int] :
        g[0] = 0 /\ \A n \in 1 .. LastYear : g[n] = step[n][g[n - 1]]
  <2> DEFINE N == LastYear
             D == Int
             zero == 0
  <2>1. step \in [1 .. N -> [D -> D]]
    BY <1>2
  <2>2. N \in Nat /\ zero \in D
    BY <1>1
  <2>3. Recurs(N, D, zero, step)
    <3> HIDE DEF N, D, zero, step
    <3> QED
      BY <2>1, <2>2, ByRecursion
  <2> QED
    BY <2>3 DEF Recurs
<1>4. ASSUME NEW n \in 1 .. LastYear
      PROVE  g[n] = g[n - 1] + IF n \in U THEN LeftOver(n, Balance - g[n - 1]) ELSE 0
  <2>1. g[n - 1] \in Int
    BY <1>1
  <2> QED
    BY <1>3, <2>1
<1>5. Q(g)
  BY <1>3, <1>4
<1>6. Q(t)
  <2> HIDE DEF Q
  <2> QED
    BY <1>5
<1>7. /\ t[0] = 0 /\ t = [n \in 0 .. LastYear |-> t[n]]
      /\ \A n \in 1 .. LastYear : t[n] = t[n - 1] + IF n \in U THEN LeftOver(n, Balance - t[n - 1]) ELSE 0
  <2> HIDE DEF t
  <2> QED
    BY <1>1, <1>6
<1>8. LapsedUpTo = t
  BY DEF LapsedUpTo
<1> HIDE DEF t
<1>9. \A n \in 0 .. LastYear : t[n] \in Int
  <2> DEFINE S == {n \in 0 .. LastYear : t[n] \in Int}
  <2>1. 0 \in S
    BY <1>1, <1>7
  <2>2. ASSUME NEW n \in 1 .. LastYear, n - 1 \in S PROVE n \in S
    <3>1. t[n - 1] \in Int /\ n \in 0 .. LastYear
      BY <1>1, <2>2
    <3>2. t[n] \in Int
      BY <1>2, <1>7, <3>1
    <3> QED
      BY <3>1, <3>2
  <2>3. 0 .. LastYear \subseteq S
    <3> HIDE DEF S
    <3> QED
      BY <1>1, <2>1, <2>2, CountingUp
  <2> QED
    BY <2>3
<1> QED
  BY <1>7, <1>8, <1>9 DEF Years

(* The years a settlement of the years up to y leaves.                      *)
Left(y) == {z \in Years \ SettledYears : z > y \/ z \notin UnsettledExpiredYears}

LEMMA YearsLeft ==
  ASSUME RowsOK, YearsOK, year \in Years
  PROVE  /\ Left(0) = Years \ SettledYears
         /\ Left(LastYear) = Years \ (SettledYears \cup UnsettledExpiredYears)
         /\ \A y \in Years \ UnsettledExpiredYears : Left(y - 1) = Left(y)
         /\ \A y \in UnsettledExpiredYears :
              /\ y \in Years \ SettledYears /\ LastValidYear(y) < year
              /\ Credited(Left(y - 1)) = Credited(Left(y)) + Credited({y})
              /\ Credited({z \in Years : z > y}) = Credited(Left(y))
<1>0. Years \subseteq Int /\ year \in Int /\ \A y \in Years : 1 <= y /\ y <= LastYear
  BY PointsAssumption DEF Years
<1>1. \A i \in OfType("annual_credit") : i \in DOMAIN ledger /\ ledger[i].year \in Years
  BY DEF RowsOK, RowOK, OfType, Ids
<1>2. \A y : y \in UnsettledExpiredYears <=>
        y \notin SettledYears /\ LastValidYear(y) < year /\ \E i \in OfType("annual_credit") : ledger[i].year = y
  BY DEF UnsettledExpiredYears
<1>3. ASSUME NEW y \in UnsettledExpiredYears PROVE y \in Years \ SettledYears
  BY <1>1, <1>2
<1>4. Left(0) = Years \ SettledYears
  <2>1. \A z \in Years \ SettledYears : z > 0
    BY <1>0
  <2> QED
    BY <2>1 DEF Left
<1>5. Left(LastYear) = Years \ (SettledYears \cup UnsettledExpiredYears)
  <2>1. \A z \in Years \ SettledYears : ~(z > LastYear)
    BY <1>0, PointsAssumption
  <2> QED
    BY <2>1 DEF Left
<1>6. ASSUME NEW y \in Years \ UnsettledExpiredYears PROVE Left(y - 1) = Left(y)
  <2>1. \A z \in Years \ SettledYears : z > y - 1 <=> z > y \/ z = y
    BY <1>0
  <2> QED
    BY <2>1 DEF Left
<1>7. ASSUME NEW y \in UnsettledExpiredYears
      PROVE  /\ Credited(Left(y - 1)) = Credited(Left(y)) + Credited({y})
             /\ Credited({z \in Years : z > y}) = Credited(Left(y))
  <2>1. y \in Years \ SettledYears /\ y \in Int
    BY <1>0, <1>3
  <2>2. Left(y - 1) = Left(y) \cup {y} /\ y \notin Left(y)
    <3>1. \A z \in Years \ SettledYears : z > y - 1 <=> z > y \/ z = y
      BY <1>0, <2>1
    <3>2. ~(y > y)
      BY <2>1
    <3> QED
      BY <1>7, <2>1, <3>1, <3>2 DEF Left
  <2>3. CreditsOf(Left(y - 1)) = CreditsOf(Left(y)) \cup CreditsOf({y})
    BY <2>2 DEF CreditsOf
  <2>4. CreditsOf(Left(y)) \cap CreditsOf({y}) = {}
    BY <2>2 DEF CreditsOf
  <2>5. Credited(Left(y - 1)) = Credited(Left(y)) + Credited({y})
    <3>1. ledger \in Seq(Rows)
      BY DEF RowsOK
    <3>2. Total(ledger, CreditsOf(Left(y)) \cup CreditsOf({y}))
            = Total(ledger, CreditsOf(Left(y))) + Total(ledger, CreditsOf({y}))
      BY <2>4, <3>1, TotalOfBoth
    <3> QED
      BY <2>3, <3>2, AsTotals
  <2>6. ASSUME NEW i \in OfType("annual_credit")
        PROVE  ledger[i].year > y <=> ledger[i].year \in Left(y)
    <3> DEFINE z == ledger[i].year
    <3>1. z \in Years /\ z \in Int
      BY <1>0, <1>1, <2>6
    <3>2. CASE z > y
      <4>1. z \notin SettledYears
        <5>1. PICK j \in OfType("annual_credit") : ledger[j].year = y
          BY <1>2, <1>7
        <5>2. y <= z
          BY <2>1, <3>1, <3>2
        <5> QED
          BY <2>1, <5>1, <5>2 DEF YearsOK
      <4> QED
        BY <3>1, <3>2, <4>1 DEF Left
    <3>3. CASE ~(z > y)
      <4>1. ASSUME z \notin SettledYears PROVE z \in UnsettledExpiredYears
        <5>1. LastValidYear(y) < year
          BY <1>2, <1>7
        <5>2. LastValidYear(z) < year
          BY <1>0, <2>1, <3>1, <3>3, <5>1 DEF LastValidYear, ValidityYears
        <5> QED
          BY <1>2, <2>6, <4>1, <5>2
      <4> QED
        BY <2>1, <3>1, <3>3, <4>1 DEF Left
    <3> QED
      BY <3>2, <3>3
  <2>7. CreditsOf({z \in Years : z > y}) = CreditsOf(Left(y))
    BY <1>1, <2>6 DEF CreditsOf
  <2>8. Credited({z \in Years : z > y}) = Credited(Left(y))
    BY <2>7, AsTotals
  <2> QED
    BY <2>5, <2>8
<1> QED
  BY <1>2, <1>3, <1>4, <1>5, <1>6, <1>7

(* What is left once the years up to y lapsed.                              *)
LEMMA LapsesTake ==
  ASSUME RowsOK, YearsOK, year \in Years,
         Balance <= Credited(Years \ SettledYears) + NewestNonCredit
  PROVE  /\ \A y \in Years : LapsedUpTo[y - 1] <= LapsedUpTo[y]
         /\ LET left == Credited(Years \ (SettledYears \cup UnsettledExpiredYears)) + NewestNonCredit
            IN  Balance - LapsedUpTo[LastYear] = IF Balance <= left THEN Balance ELSE left
<1> DEFINE B == Balance
           N == NewestNonCredit
           U == UnsettledExpiredYears
           C(y) == Credited(Left(y)) + N
           Takes(y) == B - LapsedUpTo[y] = IF B <= C(y) THEN B ELSE C(y)
           S == {y \in 0 .. LastYear : Takes(y)}
<1>0. LastYear \in Nat /\ Years = 1 .. LastYear
  BY PointsAssumption DEF Years
<1>1. B \in Int /\ N \in Int /\ N >= 0 /\ \A ys : Credited(ys) \in Int /\ Credited(ys) >= 0
  BY AreNumbers
<1>2. \A y \in 0 .. LastYear : LapsedUpTo[y] \in Int
  BY LapsesByYear
<1>3. 0 \in S
  <2>1. C(0) = Credited(Years \ SettledYears) + N
    BY YearsLeft
  <2>2. LapsedUpTo[0] = 0
    BY LapsesByYear
  <2>3. B <= C(0)
    BY <2>1
  <2>4. 0 \in 0 .. LastYear
    BY <1>0
  <2> HIDE DEF C, B
  <2> QED
    BY <1>1, <2>2, <2>3, <2>4
<1>4. ASSUME NEW y \in 1 .. LastYear
      PROVE  /\ LapsedUpTo[y - 1] <= LapsedUpTo[y]
             /\ y - 1 \in S => y \in S
  <2> DEFINE b == B - LapsedUpTo[y - 1]
             c == Credited({y})
             newer == N + Credited({z \in Years : z > y})
             least == IF c <= b - newer THEN c ELSE b - newer
             more == IF y \in U THEN LeftOver(y, b) ELSE 0
  <2>1. y \in Years /\ y \in 0 .. LastYear /\ y - 1 \in 0 .. LastYear
    BY <1>0
  <2>2. LapsedUpTo[y - 1] \in Int /\ LapsedUpTo[y] \in Int /\ b \in Int
    BY <1>1, <1>2, <2>1
  <2>3. LapsedUpTo[y] = LapsedUpTo[y - 1] + more
    BY <2>1, LapsesByYear
  <2>4. CASE y \in U
    <3>1. LeftOver(y, b) = IF 0 >= least THEN 0 ELSE least
      BY <2>2, LeftOverIs
    <3>2. more = IF 0 >= least THEN 0 ELSE least
      BY <2>4, <3>1
    <3>3. newer = C(y) /\ C(y - 1) = C(y) + c
      <4>1. Credited(Left(y)) \in Int /\ Credited(Left(y - 1)) \in Int /\ c \in Int
        BY <1>1
      <4>2. /\ Credited(Left(y - 1)) = Credited(Left(y)) + c
            /\ Credited({z \in Years : z > y}) = Credited(Left(y))
        BY <2>4, YearsLeft
      <4> HIDE DEF c
      <4> QED
        BY <1>1, <4>1, <4>2
    <3>4. c \in Int /\ c >= 0 /\ C(y) \in Int
      BY <1>1
    <3>5. Takes(y - 1) <=> b = IF B <= C(y - 1) THEN B ELSE C(y - 1)
      OBVIOUS
    <3>6. Takes(y) <=> B - LapsedUpTo[y] = IF B <= C(y) THEN B ELSE C(y)
      OBVIOUS
    <3>7. b = B - LapsedUpTo[y - 1]
      OBVIOUS
    <3>8. least = IF c <= b - C(y) THEN c ELSE b - C(y)
      BY <3>3
    <3>9. B \in Int
      BY <1>1
    <3> HIDE DEF B, C, c, b, newer, least, more, Takes
    <3>10. LapsedUpTo[y - 1] <= LapsedUpTo[y] /\ (Takes(y - 1) => Takes(y))
      BY <2>2, <2>3, <3>2, <3>3, <3>4, <3>5, <3>6, <3>7, <3>8, <3>9
    <3> QED
      BY <2>1, <3>10
  <2>5. CASE y \notin U
    <3>1. C(y - 1) = C(y)
      BY <2>1, <2>5, YearsLeft
    <3>2. LapsedUpTo[y] = LapsedUpTo[y - 1]
      BY <2>2, <2>3, <2>5
    <3> HIDE DEF C, B
    <3> QED
      BY <2>1, <2>2, <3>1, <3>2
  <2> QED
    BY <2>4, <2>5
<1>5. 0 .. LastYear \subseteq S
  <2> HIDE DEF S
  <2> QED
    BY <1>0, <1>3, <1>4, CountingUp
<1>6. Takes(LastYear)
  BY <1>0, <1>5
<1>7. C(LastYear) = Credited(Years \ (SettledYears \cup UnsettledExpiredYears)) + N
  BY YearsLeft
<1> QED
  BY <1>0, <1>4, <1>6, <1>7

-----------------------------------------------------------------------------
(* A settlement.                                                            *)

LEMMA NewExpiration ==
  ASSUME RowsOK, YearsOK, year \in Years,
         Balance <= Credited(Years \ SettledYears) + NewestNonCredit,
         NEW y \in UnsettledExpiredYears
  PROVE  LET r == ExpirationRow(y)
         IN  /\ y \in Years /\ r \in Rows
             /\ r.type = "expiration" /\ r.points = LapsedUpTo[y - 1] - LapsedUpTo[y] /\ r.points <= 0
             /\ r.year = y /\ r.stay = None /\ r.reverses = 0 /\ r.key = <<"expiry", y>>
<1> DEFINE p == LapsedUpTo[y - 1] - LapsedUpTo[y]
<1>1. y \in Years /\ y \in 0 .. LastYear /\ y - 1 \in 0 .. LastYear
  <2>1. y \in Years
    BY YearsLeft
  <2> QED
    BY <2>1, PointsAssumption DEF Years
<1>2. p \in Int /\ p <= 0
  <2>1. LapsedUpTo[y - 1] \in Int /\ LapsedUpTo[y] \in Int
    BY <1>1, LapsesByYear
  <2>2. LapsedUpTo[y - 1] <= LapsedUpTo[y]
    BY <1>1, LapsesTake
  <2> QED
    BY <2>1, <2>2
<1>3. <<"expiry", y>> \in Keys
  BY <1>1 DEF Keys
<1>4. ExpirationRow(y) = [type |-> "expiration", points |-> p, year |-> y, stay |-> None,
                          reverses |-> 0, key |-> <<"expiry", y>>]
  BY DEF ExpirationRow, Entry
<1> HIDE DEF p
<1>5. ExpirationRow(y) \in Rows
  BY <1>1, <1>2, <1>3, <1>4 DEF Rows, Types
<1> QED
  BY <1>1, <1>2, <1>4, <1>5 DEF p

(* K is the statement with the expirations of the years up to y.            *)
Settling(y, K) ==
  /\ K \in Seq(Rows)
  /\ Len(K) = Len(ledger) + Cardinality({z \in UnsettledExpiredYears : z <= y})
  /\ \A i \in 1 .. Len(ledger) : K[i] = ledger[i]
  /\ \A i \in Len(ledger) + 1 .. Len(K) :
       /\ K[i].year \in UnsettledExpiredYears /\ K[i].year <= y
       /\ K[i] = ExpirationRow(K[i].year)
  /\ \A i, j \in Len(ledger) + 1 .. Len(K) : i # j => K[i].year # K[j].year
  /\ \A z \in UnsettledExpiredYears :
       z <= y => \E i \in Len(ledger) + 1 .. Len(K) : K[i].year = z
  /\ Total(K, DOMAIN K) = Balance - LapsedUpTo[y]
  /\ \A ids \in SUBSET DOMAIN ledger : Total(K, ids) = Total(ledger, ids)

LEMMA UpToIsFinite ==
  ASSUME RowsOK, YearsOK, year \in Years
  PROVE  /\ IsFiniteSet(UnsettledExpiredYears)
         /\ \A y \in Int : LET V == {z \in UnsettledExpiredYears : z <= y}
                           IN  IsFiniteSet(V) /\ Cardinality(V) \in Nat
<1>1. IsFiniteSet(Years)
  BY PointsAssumption, FS_Interval DEF Years
<1>2. UnsettledExpiredYears \subseteq Years
  BY YearsLeft
<1>3. IsFiniteSet(UnsettledExpiredYears)
  BY <1>1, <1>2, FS_Subset
<1>4. ASSUME NEW y \in Int
      PROVE  LET V == {z \in UnsettledExpiredYears : z <= y} IN IsFiniteSet(V) /\ Cardinality(V) \in Nat
  <2>1. {z \in UnsettledExpiredYears : z <= y} \subseteq UnsettledExpiredYears
    OBVIOUS
  <2> QED
    BY <1>3, <2>1, FS_Subset, FS_CardinalityType
<1> QED
  BY <1>3, <1>4

LEMMA SettleYear ==
  ASSUME RowsOK, YearsOK, year \in Years,
         Balance <= Credited(Years \ SettledYears) + NewestNonCredit,
         NEW y \in Years, NEW K, Settling(y - 1, K)
  PROVE  Settling(y, IF y \in UnsettledExpiredYears THEN Append(K, ExpirationRow(y)) ELSE K)
<1> DEFINE U == UnsettledExpiredYears
           r == ExpirationRow(y)
           M == Append(K, r)
           l == Len(ledger)
           k == Len(K)
<1>1. /\ K \in Seq(Rows) /\ k \in Nat /\ DOMAIN K = 1 .. k
      /\ l \in Nat /\ DOMAIN ledger = 1 .. l
      /\ k >= l
  <2>1. K \in Seq(Rows) /\ ledger \in Seq(Rows)
    BY DEF Settling, RowsOK
  <2>2. k \in Nat /\ DOMAIN K = 1 .. k /\ l \in Nat /\ DOMAIN ledger = 1 .. l
    BY <2>1, RowsAreRows
  <2>3. y - 1 \in Int
    BY PointsAssumption DEF Years
  <2>4. Cardinality({z \in U : z <= y - 1}) \in Nat
    BY <2>3, UpToIsFinite
  <2>5. k = l + Cardinality({z \in U : z <= y - 1})
    BY DEF Settling
  <2> QED
    BY <2>1, <2>2, <2>4, <2>5
<1>2. U \subseteq Int /\ y \in Int /\ y \in 0 .. LastYear /\ y - 1 \in 0 .. LastYear
  <2>1. U \subseteq Years
    BY YearsLeft
  <2> QED
    BY <2>1, PointsAssumption DEF Years
<1>3. LapsedUpTo[y] \in Int /\ LapsedUpTo[y - 1] \in Int /\ Balance \in Int
  BY <1>2, LapsesByYear, AreNumbers
<1>4. CASE y \notin U
  <2>1. \A z \in U : z <= y - 1 <=> z <= y
    BY <1>2, <1>4
  <2>2. LapsedUpTo[y] = LapsedUpTo[y - 1]
    <3>1. LapsedUpTo[y] = LapsedUpTo[y - 1] + 0
      BY <1>4, LapsesByYear
    <3> QED
      BY <1>3, <3>1
  <2>3. {z \in U : z <= y} = {z \in U : z <= y - 1}
    BY <2>1
  <2>4. Settling(y, K)
    BY <2>1, <2>2, <2>3 DEF Settling
  <2> QED
    BY <1>4, <2>4
<1>5. CASE y \in U
  <2>1. /\ r \in Rows /\ r.year = y /\ r.points = LapsedUpTo[y - 1] - LapsedUpTo[y]
    BY <1>5, NewExpiration
  <2>2. /\ M \in Seq(Rows) /\ Len(M) = k + 1 /\ DOMAIN M = 1 .. k + 1
        /\ M[k + 1] = r /\ \A i \in 1 .. k : M[i] = K[i]
    BY <1>1, <2>1, AppendProperties, RowsAreRows
  <2>3. \A ids : Total(M, ids) = Total(K, ids) + IF k + 1 \in ids THEN r.points ELSE 0
    BY <1>1, <2>1, TotalAppend
  <2>4. /\ k = l + Cardinality({z \in U : z <= y - 1})
        /\ \A i \in 1 .. l : K[i] = ledger[i]
        /\ \A i \in l + 1 .. k : K[i].year \in U /\ K[i].year <= y - 1 /\ K[i] = ExpirationRow(K[i].year)
        /\ \A i, j \in l + 1 .. k : i # j => K[i].year # K[j].year
        /\ \A z \in U : z <= y - 1 => \E i \in l + 1 .. k : K[i].year = z
        /\ Total(K, DOMAIN K) = Balance - LapsedUpTo[y - 1]
        /\ \A ids \in SUBSET DOMAIN ledger : Total(K, ids) = Total(ledger, ids)
    BY DEF Settling
  <2>5. Len(M) = l + Cardinality({z \in U : z <= y})
    <3> DEFINE V == {z \in U : z <= y - 1}
               c == Cardinality(V)
    <3>0. y \in Int /\ y - 1 \in Int /\ ~(y <= y - 1) /\ y <= y
      BY <1>2
    <3>1. {z \in U : z <= y} = V \cup {y}
      <4>1. \A z \in U : z <= y <=> z <= y - 1 \/ z = y
        <5>1. \A z \in U : z \in Int
          BY <1>2
        <5> HIDE DEF U
        <5> QED
          BY <3>0, <5>1
      <4> HIDE DEF U
      <4> QED
        BY <1>5, <3>0, <4>1
    <3>5. y \notin V
      BY <3>0
    <3>2. IsFiniteSet(V) /\ c \in Nat
      BY <3>0, UpToIsFinite
    <3>4. k = l + c
      BY <2>4
    <3>3. Cardinality(V \cup {y}) = c + 1
      <4> HIDE DEF U
      <4> QED
        BY <3>5, <3>2, FS_AddElement
    <3> DEFINE d == Cardinality({z \in U : z <= y})
    <3>6. d = c + 1
      BY <3>1, <3>3
    <3>7. Len(M) = k + 1 /\ l \in Nat
      BY <1>1, <2>2
    <3>8. Len(M) = l + d
      <4> HIDE DEF d, c, k, l, M
      <4> QED
        BY <3>2, <3>4, <3>6, <3>7
    <3> QED
      BY <3>8
  <2>6. \A i \in 1 .. l : M[i] = ledger[i]
    BY <1>1, <2>2, <2>4
  <2>7. ASSUME NEW i \in l + 1 .. k + 1 PROVE M[i] = IF i = k + 1 THEN r ELSE K[i]
    BY <1>1, <2>2
  <2>8. \A i \in l + 1 .. k + 1 : i = k + 1 \/ i \in l + 1 .. k
    BY <1>1
  <2>9. ASSUME NEW i \in l + 1 .. k
        PROVE  K[i].year # y /\ K[i].year \in U /\ K[i].year <= y /\ K[i] = ExpirationRow(K[i].year)
    <3> DEFINE z == K[i].year
    <3>1. z \in U /\ z <= y - 1 /\ K[i] = ExpirationRow(z)
      BY <2>4
    <3>2. z \in Int
      BY <1>2, <3>1
    <3>3. z # y /\ z <= y
      <4> HIDE DEF z, U
      <4> QED
        BY <1>2, <3>1, <3>2
    <3> QED
      BY <3>1, <3>3
  <2>10. k + 1 \in l + 1 .. k + 1 /\ \A i \in l + 1 .. k : i \in l + 1 .. k + 1 /\ i # k + 1
    BY <1>1
  <2>11. y <= y
    BY <1>2
  <2>12. Total(M, DOMAIN M) = Balance - LapsedUpTo[y]
    <3>1. Total(K, DOMAIN M) = Total(K, DOMAIN K)
      BY <1>1, <2>2, TotalSame
    <3>2. k + 1 \in DOMAIN M
      BY <1>1, <2>2
    <3>3. Total(M, DOMAIN M) = Balance - LapsedUpTo[y - 1] + (LapsedUpTo[y - 1] - LapsedUpTo[y])
      BY <2>1, <2>3, <2>4, <3>1, <3>2
    <3> QED
      BY <1>3, <3>3
  <2>13. ASSUME NEW ids \in SUBSET DOMAIN ledger PROVE Total(M, ids) = Total(ledger, ids)
    <3>1. k + 1 \notin ids
      BY <1>1
    <3>2. Total(K, ids) = Total(ledger, ids) /\ Total(K, ids) \in Int
      BY <1>1, <2>4, TotalIs
    <3>3. Total(M, ids) = Total(K, ids) + 0
      BY <2>3, <3>1
    <3> QED
      BY <3>2, <3>3
  <2> HIDE DEF M, r, U, l, k
  <2>14. \A i \in l + 1 .. k + 1 : M[i].year \in U /\ M[i].year <= y /\ M[i] = ExpirationRow(M[i].year)
    <3>1. r = ExpirationRow(r.year)
      BY <2>1 DEF r
    <3> QED
      BY <1>5, <2>1, <2>7, <2>8, <2>9, <2>11, <3>1
  <2>15. \A i, j \in l + 1 .. k + 1 : i # j => M[i].year # M[j].year
    BY <2>1, <2>4, <2>7, <2>8, <2>9, <2>10
  <2>16. ASSUME NEW z \in U, z <= y PROVE \E i \in l + 1 .. k + 1 : M[i].year = z
    <3>1. CASE z = y
      BY <2>1, <2>7, <2>10, <3>1
    <3>2. CASE z # y
      <4>1. z <= y - 1
        BY <1>2, <2>16, <3>2
      <4>2. PICK i \in l + 1 .. k : K[i].year = z
        BY <2>4, <4>1
      <4> QED
        BY <2>7, <2>10, <4>2
    <3> QED
      BY <3>1, <3>2
  <2>17. Settling(y, M)
    BY <2>2, <2>5, <2>6, <2>12, <2>13, <2>14, <2>15, <2>16 DEF Settling, U, l
  <2> QED
    BY <1>5, <2>17 DEF M, r, U
<1> QED
  BY <1>4, <1>5

LEMMA SettledIs ==
  ASSUME RowsOK, YearsOK, year \in Years,
         Balance <= Credited(Years \ SettledYears) + NewestNonCredit
  PROVE  Settling(LastYear, Settled)
<1> DEFINE U == UnsettledExpiredYears
           More(y, K) == IF y \in U THEN Append(K, ExpirationRow(y)) ELSE K
           Q(s) == s = [y \in 0 .. LastYear |->
                          IF y = 0 THEN ledger
                          ELSE IF y \in U THEN Append(s[y - 1], ExpirationRow(y)) ELSE s[y - 1]]
           step == [y \in 1 .. LastYear |-> [K \in Seq(Rows) |-> More(y, K)]]
           t == CHOOSE s : Q(s)
<1>1. LastYear \in Nat /\ Years = 1 .. LastYear
  BY PointsAssumption DEF Years
<1>2. ASSUME NEW y \in 1 .. LastYear, NEW K \in Seq(Rows)
      PROVE  More(y, K) \in Seq(Rows)
  <2>1. y \in U => ExpirationRow(y) \in Rows
    BY NewExpiration
  <2> QED
    BY <2>1, AppendProperties
<1>3. PICK g \in [0 .. LastYear -> Seq(Rows)] :
        g[0] = ledger /\ \A n \in 1 .. LastYear : g[n] = step[n][g[n - 1]]
  <2> DEFINE N == LastYear
             D == Seq(Rows)
  <2>1. step \in [1 .. N -> [D -> D]]
    <3> HIDE DEF More
    <3> QED
      BY <1>2
  <2>2. N \in Nat /\ ledger \in D
    BY <1>1 DEF RowsOK
  <2>3. Recurs(N, D, ledger, step)
    <3> HIDE DEF N, D, step
    <3> QED
      BY <2>1, <2>2, ByRecursion
  <2> QED
    BY <2>3 DEF Recurs
<1>4. ASSUME NEW n \in 1 .. LastYear PROVE g[n] = More(n, g[n - 1])
  <2>1. g[n - 1] \in Seq(Rows)
    BY <1>1
  <2>2. g[n] = step[n][g[n - 1]]
    BY <1>3
  <2> HIDE DEF More
  <2>3. \A K \in Seq(Rows) : step[n][K] = More(n, K)
    OBVIOUS
  <2> HIDE DEF step
  <2> QED
    BY <2>1, <2>2, <2>3
<1>5. Q(g)
  <2> DEFINE f == [y \in 0 .. LastYear |->
                     IF y = 0 THEN ledger
                     ELSE IF y \in U THEN Append(g[y - 1], ExpirationRow(y)) ELSE g[y - 1]]
  <2>1. ASSUME NEW n \in 0 .. LastYear PROVE f[n] = g[n]
    <3>1. CASE n = 0
      BY <1>3, <2>1, <3>1
    <3>2. CASE n # 0
      <4>1. n \in 1 .. LastYear
        BY <1>1, <3>2
      <4>2. g[n] = More(n, g[n - 1])
        BY <1>4, <4>1
      <4>3. f[n] = More(n, g[n - 1])
        <5> HIDE DEF U
        <5> QED
          BY <2>1, <3>2
      <4> QED
        BY <4>2, <4>3
    <3> QED
      BY <3>1, <3>2
  <2>2. g = f
    <3>1. g = [n \in 0 .. LastYear |-> g[n]]
      BY <1>3
    <3>2. f = [n \in 0 .. LastYear |-> f[n]]
      OBVIOUS
    <3> HIDE DEF f
    <3> QED
      BY <2>1, <3>1, <3>2
  <2> QED
    BY <2>2
<1>6. Q(t)
  <2> HIDE DEF Q
  <2> QED
    BY <1>5
<1>7. t[0] = ledger /\ \A n \in 1 .. LastYear : t[n] = More(n, t[n - 1])
  <2> DEFINE f == [y \in 0 .. LastYear |->
                     IF y = 0 THEN ledger
                     ELSE IF y \in U THEN Append(t[y - 1], ExpirationRow(y)) ELSE t[y - 1]]
  <2>1. t = f
    <3> HIDE DEF t
    <3> QED
      BY <1>6
  <2>2. f[0] = ledger
    BY <1>1
  <2>3. ASSUME NEW n \in 1 .. LastYear PROVE f[n] = More(n, t[n - 1])
    <3>1. n \in 0 .. LastYear /\ n # 0
      BY <1>1
    <3> HIDE DEF t, U
    <3> QED
      BY <3>1
  <2> HIDE DEF t, f, More
  <2> QED
    BY <2>1, <2>2, <2>3
<1>8. Settled = t[LastYear]
  BY DEF Settled
<1> HIDE DEF t, More
<1> DEFINE S == {n \in 0 .. LastYear : Settling(n, t[n])}
<1>9. 0 \in S
  <2>1. \A z \in U : ~(z <= 0)
    <3>1. \A z \in U : z \in 1 .. LastYear
      BY <1>1, YearsLeft
    <3> HIDE DEF U
    <3> QED
      BY <1>1, <3>1
  <2>2. ledger \in Seq(Rows) /\ Len(ledger) \in Nat
    BY RowsAreRows DEF RowsOK
  <2>3. Len(ledger) + 1 .. Len(ledger) = {}
    BY <2>2
  <2>4. Len(ledger) = Len(ledger) + Cardinality({z \in U : z <= 0})
    <3>1. {z \in U : z <= 0} = {}
      BY <2>1
    <3> QED
      <4>1. Cardinality({z \in U : z <= 0}) = 0
        BY <3>1, FS_EmptySet
      <4> HIDE DEF U
      <4> QED
        BY <2>2, <4>1
  <2>5. Total(ledger, DOMAIN ledger) = Balance - LapsedUpTo[0]
    BY AsTotals, AreNumbers, LapsesByYear
  <2>6. Settling(0, ledger)
    BY <2>1, <2>2, <2>3, <2>4, <2>5 DEF Settling
  <2> QED
    BY <1>1, <1>7, <2>6
<1>10. ASSUME NEW n \in 1 .. LastYear, n - 1 \in S PROVE n \in S
  <2>1. Settling(n, More(n, t[n - 1]))
    BY <1>1, <1>10, SettleYear DEF More
  <2> QED
    BY <1>1, <1>7, <2>1
<1>11. 0 .. LastYear \subseteq S
  <2> HIDE DEF S
  <2> QED
    BY <1>1, <1>9, <1>10, CountingUp
<1> QED
  BY <1>1, <1>8, <1>11
-----------------------------------------------------------------------------
(* What a step of the statement keeps.                                      *)

CreditYears == {ledger[i].year : i \in OfType("annual_credit")}

Covered ==
  /\ Balance >= 0
  /\ Balance <= Credited(Years \ SettledYears) + NewestNonCredit

StaysHold ==
  \A s \in ResStays : /\ s \in stayGone => UsageOf(s) = {}
                      /\ \A i, j \in UsageOf(s) : i = j

HasRoom == Len(ledger) + Cardinality(CreditYears \ SettledYears) <= MaxEntries

StatementOK == RowsOK /\ KeysApart /\ YearsOK /\ Covered /\ StaysHold /\ HasRoom

LEMMA AsTotalsNext ==
  /\ Balance' = Total(ledger', DOMAIN ledger')
  /\ Credited(Years \ SettledYears)' =
       Total(ledger', {i \in OfType("annual_credit")' : ledger'[i].year \in Years \ SettledYears' /\ ~Reversed(i)'})
  /\ NewestNonCredit' = Total(ledger', Others')
<1>1. \A ids : Points(ids)' = Total(ledger', ids)
  BY DEF Points, Total
<1>2. Balance' = Total(ledger', DOMAIN ledger')
  BY DEF Balance, Ids, Points, Total
<1>3. NewestNonCredit' = Total(ledger', Others')
  BY DEF NewestNonCredit, Others, Points, Total
<1>4. Credited(Years \ SettledYears)' =
        Total(ledger', {i \in OfType("annual_credit")' : ledger'[i].year \in Years \ SettledYears' /\ ~Reversed(i)'})
  BY DEF Credited, Points, Total
<1> QED
  BY <1>2, <1>3, <1>4

LEMMA RowsAre ==
  ASSUME RowsOK
  PROVE  /\ ledger \in Seq(Rows) /\ Len(ledger) \in Nat /\ DOMAIN ledger = 1 .. Len(ledger)
         /\ \A i \in DOMAIN ledger : RowOK(ledger[i], i) /\ i \in Nat /\ i > 0
         /\ \A i : Reversed(i) => i < Len(ledger)
         /\ CreditYears \subseteq Years /\ IsFiniteSet(CreditYears)
         /\ IsFiniteSet(CreditYears \ SettledYears) /\ Cardinality(CreditYears \ SettledYears) \in Nat
<1>1. ledger \in Seq(Rows) /\ \A i \in DOMAIN ledger : RowOK(ledger[i], i)
  BY DEF RowsOK
<1>2. Len(ledger) \in Nat /\ DOMAIN ledger = 1 .. Len(ledger)
  BY <1>1, RowsAreRows
<1>3. \A i \in DOMAIN ledger : i \in Nat /\ i > 0
  BY <1>2
<1>4. ASSUME NEW i, Reversed(i) PROVE i < Len(ledger)
  <2>1. PICK j \in DOMAIN ledger : ledger[j].reverses = i
    BY <1>4 DEF Reversed, Ids
  <2>2. i \in 0 .. j - 1
    BY <1>1, <2>1 DEF RowOK
  <2> QED
    BY <1>2, <2>1, <2>2
<1>5. CreditYears \subseteq Years
  BY <1>1 DEF CreditYears, OfType, RowOK, Ids
<1>6. IsFiniteSet(Years)
  BY PointsAssumption, FS_Interval DEF Years
<1>7. IsFiniteSet(CreditYears) /\ IsFiniteSet(CreditYears \ SettledYears)
  BY <1>5, <1>6, FS_Subset
<1>8. Cardinality(CreditYears \ SettledYears) \in Nat
  BY <1>7, FS_CardinalityType
<1> QED
  BY <1>1, <1>2, <1>3, <1>4, <1>5, <1>7, <1>8

(* What the settlement leaves.                                              *)
LEMMA SettlementLeaves ==
  ASSUME RowsOK, KeysApart, YearsOK, Covered, year \in Years, ledger' = Settled
  PROVE  /\ RowsOK' /\ KeysApart'
         /\ SettledYears' = SettledYears \cup UnsettledExpiredYears
         /\ \A t \in Types \ {"expiration"} : OfType(t)' = OfType(t)
         /\ \A i \in DOMAIN ledger : i \in DOMAIN ledger' /\ ledger'[i] = ledger[i]
         /\ \A i \in DOMAIN ledger : Reversed(i)' <=> Reversed(i)
         /\ Others' = Others
         /\ Balance' = Balance - LapsedUpTo[LastYear]
         /\ \A ids \in SUBSET DOMAIN ledger : Total(ledger', ids) = Total(ledger, ids)
         /\ Len(ledger') = Len(ledger) + Cardinality(UnsettledExpiredYears)
<1> DEFINE U == UnsettledExpiredYears
           K == ledger'
           l == Len(ledger)
           k == Len(K)
<1>1. Settling(LastYear, K)
  BY SettledIs DEF Covered
<1>2. /\ ledger \in Seq(Rows) /\ l \in Nat /\ DOMAIN ledger = 1 .. l
      /\ \A i \in DOMAIN ledger : RowOK(ledger[i], i) /\ i \in Nat /\ i > 0
  BY RowsAre
<1>3. U \subseteq Years /\ \A z \in U : z <= LastYear /\ z \notin SettledYears
  <2>1. U \subseteq Years /\ \A z \in U : z \notin SettledYears
    BY YearsLeft
  <2>2. \A z \in Years : z <= LastYear
    BY PointsAssumption DEF Years
  <2> QED
    BY <2>1, <2>2
<1>4. Cardinality(U) \in Nat
  BY UpToIsFinite, FS_CardinalityType
<1>5. {z \in U : z <= LastYear} = U
  BY <1>3
<1>6. /\ K \in Seq(Rows) /\ k = l + Cardinality(U)
      /\ \A i \in 1 .. l : K[i] = ledger[i]
      /\ \A i \in l + 1 .. k : K[i].year \in U /\ K[i] = ExpirationRow(K[i].year)
      /\ \A i, j \in l + 1 .. k : i # j => K[i].year # K[j].year
      /\ \A z \in U : \E i \in l + 1 .. k : K[i].year = z
      /\ Total(K, DOMAIN K) = Balance - LapsedUpTo[LastYear]
      /\ \A ids \in SUBSET DOMAIN ledger : Total(K, ids) = Total(ledger, ids)
  BY <1>1, <1>3, <1>5 DEF Settling
<1>7. k \in Nat /\ DOMAIN K = 1 .. k /\ k >= l
  <2>1. k \in Nat /\ DOMAIN K = 1 .. k
    BY <1>6, RowsAreRows
  <2> QED
    BY <1>2, <1>4, <1>6, <2>1
<1>8. ASSUME NEW i \in l + 1 .. k
      PROVE  /\ K[i] \in Rows /\ K[i].type = "expiration" /\ K[i].points <= 0
             /\ K[i].year \in U /\ K[i].reverses = 0 /\ K[i].key = <<"expiry", K[i].year>>
  <2>1. K[i].year \in U /\ K[i] = ExpirationRow(K[i].year)
    BY <1>6
  <2> QED
    BY <2>1, NewExpiration DEF Covered
<1>9. \A i : i \in DOMAIN K <=> i \in DOMAIN ledger \/ i \in l + 1 .. k
  BY <1>2, <1>7
<1>10. \A i : ~(i \in DOMAIN ledger /\ i \in l + 1 .. k)
  BY <1>2
<1>11. \A i \in DOMAIN ledger : K[i] = ledger[i]
  BY <1>2, <1>6
<1> HIDE DEF K, l, k, U
<1>12. RowsOK'
  <2>1. ASSUME NEW i \in l + 1 .. k PROVE RowOK(K[i], i)
    <3>1. 0 \in 0 .. i - 1
      BY <1>2
    <3> QED
      BY <1>3, <1>8, <3>1 DEF RowOK
  <2>2. \A i \in DOMAIN K : RowOK(K[i], i)
    BY <1>2, <1>9, <1>11, <2>1
  <2> QED
    BY <1>6, <2>2 DEF RowsOK, K
<1>13. ASSUME NEW i \in DOMAIN ledger, NEW j \in l + 1 .. k PROVE K[i].key # K[j].key
  <2>1. RowOK(ledger[i], i) /\ K[i] = ledger[i]
    BY <1>2, <1>11
  <2>2. K[j].key = <<"expiry", K[j].year>> /\ K[j].year \in U
    BY <1>8
  <2>3. CASE ledger[i].type = "expiration"
    <3>1. ledger[i].key = <<"expiry", ledger[i].year>>
      BY <2>1, <2>3 DEF RowOK
    <3>2. ledger[i].year \in SettledYears
      BY <2>3 DEF SettledYears, OfType, Ids
    <3> QED
      BY <1>3, <2>1, <2>2, <3>1, <3>2
  <2>4. CASE ledger[i].type # "expiration"
    <3>1. ledger[i].key[1] # "expiry"
      <4>1. ledger[i].type \in Types
        BY <2>1 DEF RowOK, Rows
      <4> QED
        BY <2>1, <2>4, <4>1 DEF RowOK, Types
    <3> QED
      BY <2>1, <2>2, <3>1
  <2> QED
    BY <2>3, <2>4
<1>14. KeysApart'
  <2>1. ASSUME NEW i \in l + 1 .. k, NEW j \in l + 1 .. k, i # j PROVE K[i].key # K[j].key
    BY <1>6, <1>8, <2>1
  <2>2. ASSUME NEW i \in DOMAIN ledger, NEW j \in DOMAIN ledger, i # j PROVE K[i].key # K[j].key
    BY <1>11, <2>2 DEF KeysApart
  <2>3. \A i, j \in DOMAIN K : i # j => K[i].key # K[j].key
    BY <1>9, <1>13, <2>1, <2>2
  <2> QED
    BY <2>3 DEF KeysApart, K
<1>15. SettledYears' = SettledYears \cup U
  <2>1. SettledYears' = {K[i].year : i \in {j \in DOMAIN K : K[j].type = "expiration"}}
    BY DEF SettledYears, OfType, Ids, K
  <2>2. SettledYears = {ledger[i].year : i \in {j \in DOMAIN ledger : ledger[j].type = "expiration"}}
    BY DEF SettledYears, OfType, Ids
  <2>3. ASSUME NEW z \in SettledYears' PROVE z \in SettledYears \cup U
    <3>1. PICK i \in DOMAIN K : K[i].type = "expiration" /\ z = K[i].year
      BY <2>1, <2>3
    <3> QED
      BY <1>8, <1>9, <1>11, <2>2, <3>1
  <2>4. ASSUME NEW z \in SettledYears PROVE z \in SettledYears'
    <3>1. PICK i \in DOMAIN ledger : ledger[i].type = "expiration" /\ z = ledger[i].year
      BY <2>2, <2>4
    <3> QED
      BY <1>9, <1>11, <2>1, <3>1
  <2>5. ASSUME NEW z \in U PROVE z \in SettledYears'
    <3>1. PICK i \in l + 1 .. k : K[i].year = z
      BY <1>6, <2>5
    <3> QED
      BY <1>8, <1>9, <2>1, <3>1
  <2> QED
    BY <2>3, <2>4, <2>5
<1>16. ASSUME NEW t \in Types \ {"expiration"} PROVE OfType(t)' = OfType(t)
  <2>1. OfType(t)' = {i \in DOMAIN K : K[i].type = t} /\ OfType(t) = {i \in DOMAIN ledger : ledger[i].type = t}
    BY DEF OfType, Ids, K
  <2> QED
    BY <1>8, <1>9, <1>11, <2>1
<1>17. ASSUME NEW i, i # 0 PROVE Reversed(i)' <=> Reversed(i)
  <2>1. Reversed(i)' <=> \E j \in DOMAIN K : K[j].reverses = i
    BY DEF Reversed, Ids, K
  <2>2. Reversed(i) <=> \E j \in DOMAIN ledger : ledger[j].reverses = i
    BY DEF Reversed, Ids
  <2> QED
    BY <1>8, <1>9, <1>11, <1>17, <2>1, <2>2
<1>18. \A i \in DOMAIN ledger : i # 0
  BY <1>2
<1>19. Others' = Others
  <2>1. Others' = {i \in DOMAIN K \ OfType("annual_credit")' : K[i].points > 0 /\ ~Reversed(i)'}
    BY DEF Others, Ids, K
  <2>2. Others = {i \in DOMAIN ledger \ OfType("annual_credit") : ledger[i].points > 0 /\ ~Reversed(i)}
    BY DEF Others, Ids
  <2>3. OfType("annual_credit")' = OfType("annual_credit")
    BY <1>16 DEF Types
  <2>4. \A i \in l + 1 .. k : ~(K[i].points > 0)
    <3>1. \A i \in l + 1 .. k : K[i].points \in Int
      BY <1>8 DEF Rows
    <3> QED
      BY <1>8, <3>1
  <2> QED
    BY <1>9, <1>11, <1>17, <1>18, <2>1, <2>2, <2>3, <2>4
<1>20. Balance' = Balance - LapsedUpTo[LastYear]
  <2>1. Balance' = Total(K, DOMAIN K)
    BY AsTotalsNext DEF K
  <2> QED
    BY <1>6, <2>1
<1> QED
  BY <1>6, <1>9, <1>11, <1>12, <1>14, <1>15, <1>16, <1>17, <1>18, <1>19, <1>20 DEF K, U, l, k

LEMMA SettlementTakes ==
  ASSUME RowsOK, KeysApart, YearsOK, Covered, year \in Years, ledger' = Settled
  PROVE  LET left == Credited(Years \ (SettledYears \cup UnsettledExpiredYears)) + NewestNonCredit
         IN  /\ Balance' = IF Balance <= left THEN Balance ELSE left
             /\ (Credited(Years \ SettledYears) + NewestNonCredit)' = left
<1> DEFINE ys == Years \ (SettledYears \cup UnsettledExpiredYears)
           left == Credited(ys) + NewestNonCredit
<1>1. Balance' = IF Balance <= left THEN Balance ELSE left
  BY SettlementLeaves, LapsesTake DEF Covered
<1>2. Years \ SettledYears' = ys
  BY SettlementLeaves
<1>3. {i \in OfType("annual_credit")' : ledger'[i].year \in ys /\ ~Reversed(i)'} = CreditsOf(ys)
  <2>1. OfType("annual_credit")' = OfType("annual_credit")
    BY SettlementLeaves DEF Types
  <2>2. \A i \in OfType("annual_credit") : i \in DOMAIN ledger
    BY DEF OfType, Ids
  <2>3. \A i \in DOMAIN ledger : ledger'[i] = ledger[i] /\ (Reversed(i)' <=> Reversed(i))
    BY SettlementLeaves
  <2> QED
    BY <2>1, <2>2, <2>3 DEF CreditsOf
<1>4. Credited(Years \ SettledYears)' = Credited(ys)
  <2>1. CreditsOf(ys) \subseteq DOMAIN ledger
    BY DEF CreditsOf, OfType, Ids
  <2>2. Total(ledger', CreditsOf(ys)) = Total(ledger, CreditsOf(ys))
    BY <2>1, SettlementLeaves
  <2>3. Credited(Years \ SettledYears)' = Total(ledger', CreditsOf(ys))
    BY <1>2, <1>3, AsTotalsNext
  <2> QED
    BY <2>2, <2>3, AsTotals
<1>5. NewestNonCredit' = NewestNonCredit
  <2>1. Others \subseteq DOMAIN ledger /\ Others' = Others
    BY SettlementLeaves DEF Others, Ids
  <2>2. Total(ledger', Others) = Total(ledger, Others)
    BY <2>1, SettlementLeaves
  <2> QED
    <3>1. NewestNonCredit' = Total(ledger', Others)
      BY <2>1, AsTotalsNext
    <3> QED
      BY <2>2, <3>1, AsTotals
<1>6. (Credited(Years \ SettledYears) + NewestNonCredit)' = left
  BY <1>4, <1>5
<1> QED
  BY <1>1, <1>6

LEMMA SettlementKeeps ==
  ASSUME StatementOK, year \in Years, ledger' = Settled, year' = year, stayGone' = stayGone
  PROVE  /\ StatementOK'
         /\ DOMAIN ledger \subseteq DOMAIN ledger'
         /\ Balance' = Min({Balance, Credited(Years \ (SettledYears \cup UnsettledExpiredYears)) + NewestNonCredit})
<1> USE DEF StatementOK
<1> DEFINE U == UnsettledExpiredYears
           left == Credited(Years \ (SettledYears \cup U)) + NewestNonCredit
<1>1. RowsOK' /\ KeysApart' /\ DOMAIN ledger \subseteq DOMAIN ledger'
  BY SettlementLeaves
<1>2. SettledYears' = SettledYears \cup U
  BY SettlementLeaves
<1>3. OfType("annual_credit")' = OfType("annual_credit") /\ OfType("usage")' = OfType("usage")
  BY SettlementLeaves DEF Types
<1>4. \A i \in DOMAIN ledger : ledger'[i] = ledger[i] /\ (Reversed(i)' <=> Reversed(i))
  BY SettlementLeaves
<1>5. /\ U \subseteq CreditYears \ SettledYears
      /\ \A z \in U : LastValidYear(z) < year /\ z \in Years
      /\ \A z \in CreditYears \ SettledYears : LastValidYear(z) < year => z \in U
  <2>1. U \subseteq Years
    BY YearsLeft
  <2> QED
    BY <2>1 DEF UnsettledExpiredYears, CreditYears
<1>6. \A i \in OfType("annual_credit") \cup OfType("usage") : i \in DOMAIN ledger
  BY DEF OfType, Ids
<1>7. \A i \in OfType("annual_credit") : ledger[i].year \in CreditYears
  BY DEF CreditYears
<1>8. CreditYears \subseteq Years /\ Years \subseteq Int /\ year \in Int
  BY RowsAre, PointsAssumption DEF Years
<1>9. YearsOK'
  <2>1. \A z \in SettledYears \cup U : LastValidYear(z) < year
    BY <1>5 DEF YearsOK
  <2>2. ASSUME NEW i \in OfType("annual_credit"), NEW z \in SettledYears \cup U, ledger[i].year <= z
        PROVE  ledger[i].year \in SettledYears \cup U
    <3> DEFINE y == ledger[i].year
    <3>1. y \in CreditYears /\ y \in Int
      BY <1>7, <1>8
    <3>2. CASE z \in SettledYears
      BY <2>2, <3>2 DEF YearsOK
    <3>3. CASE z \in U
      <4>1. z \in Int /\ LastValidYear(z) < year
        BY <1>5, <1>8, <3>3
      <4>2. LastValidYear(y) < year
        BY <1>8, <2>2, <3>1, <4>1 DEF LastValidYear, ValidityYears
      <4> QED
        BY <1>5, <3>1, <4>2
    <3> QED
      BY <3>2, <3>3
  <2>3. \A z \in SettledYears' : LastValidYear(z) < year'
    BY <1>2, <2>1
  <2>4. \A i \in OfType("annual_credit")', z \in SettledYears' :
          ledger'[i].year <= z => ledger'[i].year \in SettledYears'
    BY <1>2, <1>3, <1>4, <1>6, <2>2
  <2> QED
    BY <2>3, <2>4 DEF YearsOK
<1>10. Covered'
  <2> DEFINE right == Credited(Years \ SettledYears) + NewestNonCredit
  <2>1. left \in Int /\ left >= 0 /\ Balance \in Int
    <3>1. NewestNonCredit \in Int /\ NewestNonCredit >= 0 /\ Balance \in Int
      BY AreNumbers
    <3>2. Credited(Years \ (SettledYears \cup U)) \in Int /\ Credited(Years \ (SettledYears \cup U)) >= 0
      BY AreNumbers
    <3> QED
      BY <3>1, <3>2
  <2>2. /\ Balance' = IF Balance <= left THEN Balance ELSE left
        /\ right' = left
    BY SettlementTakes
  <2>3. Balance >= 0
    BY DEF Covered
  <2> HIDE DEF left
  <2>4. Balance' >= 0 /\ Balance' <= left
    BY <2>1, <2>2, <2>3
  <2>5. Balance' <= right'
    BY <2>2, <2>4
  <2> QED
    BY <2>4, <2>5 DEF Covered
<1>11. StaysHold'
  <2>1. ASSUME NEW s \in ResStays PROVE UsageOf(s)' = UsageOf(s)
    BY <1>3, <1>4, <1>6 DEF UsageOf
  <2> QED
    BY <2>1 DEF StaysHold
<1>12. HasRoom'
  <2> DEFINE X == CreditYears \ SettledYears
             c == Cardinality(X)
             u == Cardinality(U)
  <2>1. CreditYears' = CreditYears
    BY <1>3, <1>4, <1>6 DEF CreditYears
  <2>2. CreditYears' \ SettledYears' = X \ U
    BY <1>2, <2>1
  <2>3. IsFiniteSet(X) /\ c \in Nat /\ Len(ledger) \in Nat
    BY RowsAre
  <2>4. X \cap U = U /\ IsFiniteSet(U) /\ u \in Nat
    BY <1>5, UpToIsFinite, FS_CardinalityType
  <2>5. Cardinality(X \ U) = c - Cardinality(X \cap U)
    <3> HIDE DEF X, U
    <3> QED
      BY <2>3, FS_Difference
  <2>6. Len(ledger') = Len(ledger) + u
    BY SettlementLeaves
  <2>7. Len(ledger) + c <= MaxEntries
    BY DEF HasRoom
  <2> DEFINE c2 == Cardinality(CreditYears' \ SettledYears')
  <2>8. c2 = c - u
    BY <2>2, <2>4, <2>5
  <2>9. Len(ledger') + c2 <= MaxEntries
    <3> HIDE DEF c, u, c2
    <3> QED
      BY <2>3, <2>4, <2>6, <2>7, <2>8, PointsAssumption
  <2> QED
    BY <2>9 DEF HasRoom
<1>13. Balance' = Min({Balance, left})
  <2>1. left \in Int /\ Balance \in Int
    <3>1. NewestNonCredit \in Int /\ Balance \in Int
      BY AreNumbers
    <3>2. Credited(Years \ (SettledYears \cup U)) \in Int
      BY AreNumbers
    <3> QED
      BY <3>1, <3>2
  <2>2. Balance' = IF Balance <= left THEN Balance ELSE left
    BY SettlementTakes
  <2> HIDE DEF left
  <2> QED
    BY <2>1, <2>2, LeastAndMost
<1> QED
  BY <1>1, <1>9, <1>10, <1>11, <1>12, <1>13

(* What a new row leaves.                                                   *)
LEMMA RowLeaves ==
  ASSUME StatementOK, NEW r, RowOK(r, Len(ledger) + 1), ledger' = Append(ledger, r),
         \A i \in DOMAIN ledger : ledger[i].key # r.key
  PROVE  LET n == Len(ledger) + 1
         IN  /\ RowsOK' /\ KeysApart' /\ Len(ledger') = n
             /\ n \notin DOMAIN ledger /\ n # 0 /\ r \in Rows /\ r.points \in Int
             /\ \A i : i \in DOMAIN ledger' <=> i \in DOMAIN ledger \/ i = n
             /\ ledger'[n] = r /\ \A i \in DOMAIN ledger : ledger'[i] = ledger[i]
             /\ \A t : \A i : i \in OfType(t)' <=> i \in OfType(t) \/ (i = n /\ r.type = t)
             /\ \A i : Reversed(i)' <=> Reversed(i) \/ i = r.reverses
             /\ \A i : i = n => ~Reversed(i)'
             /\ Balance' = Balance + r.points
             /\ \A ids : Total(ledger', ids) = Total(ledger, ids) + IF n \in ids THEN r.points ELSE 0
<1> DEFINE l == Len(ledger)
           n == Len(ledger) + 1
           K == ledger'
<1>1. /\ RowsOK /\ ledger \in Seq(Rows) /\ l \in Nat /\ DOMAIN ledger = 1 .. l
      /\ \A i \in DOMAIN ledger : RowOK(ledger[i], i)
  BY RowsAre DEF StatementOK
<1>2. r \in Rows /\ r.points \in Int /\ r.reverses \in 0 .. n - 1
  BY DEF RowOK, Rows
<1>3. /\ K \in Seq(Rows) /\ Len(K) = n /\ DOMAIN K = 1 .. n
      /\ K[n] = r /\ \A i \in 1 .. l : K[i] = ledger[i]
  BY <1>1, <1>2, AppendProperties, RowsAreRows
<1>4. n \notin DOMAIN ledger /\ n # 0 /\ n \in Nat /\ \A i : i \in DOMAIN K <=> i \in DOMAIN ledger \/ i = n
  BY <1>1, <1>3
<1>5. \A ids : Total(K, ids) = Total(ledger, ids) + IF n \in ids THEN r.points ELSE 0
  BY <1>1, <1>2, TotalAppend
<1>6. \A i \in DOMAIN ledger : K[i] = ledger[i]
  BY <1>1, <1>3
<1> HIDE DEF K, l, n
<1>7. RowsOK'
  <2>1. RowOK(r, n)
    BY DEF n
  <2>2. \A i \in DOMAIN K : RowOK(K[i], i)
    BY <1>1, <1>3, <1>4, <1>6, <2>1
  <2> QED
    BY <1>3, <2>2 DEF RowsOK, K
<1>8. KeysApart'
  <2>1. \A i, j \in DOMAIN ledger : i # j => ledger[i].key # ledger[j].key
    BY DEF StatementOK, KeysApart
  <2>2. \A i, j \in DOMAIN K : i # j => K[i].key # K[j].key
    BY <1>3, <1>4, <1>6, <2>1
  <2> QED
    BY <2>2 DEF KeysApart, K
<1>9. ASSUME NEW t, NEW i PROVE i \in OfType(t)' <=> i \in OfType(t) \/ (i = n /\ r.type = t)
  <2>1. OfType(t)' = {j \in DOMAIN K : K[j].type = t} /\ OfType(t) = {j \in DOMAIN ledger : ledger[j].type = t}
    BY DEF OfType, Ids, K
  <2> QED
    BY <1>3, <1>4, <1>6, <2>1
<1>10. ASSUME NEW i PROVE Reversed(i)' <=> Reversed(i) \/ i = r.reverses
  <2>1. Reversed(i)' <=> \E j \in DOMAIN K : K[j].reverses = i
    BY DEF Reversed, Ids, K
  <2>2. Reversed(i) <=> \E j \in DOMAIN ledger : ledger[j].reverses = i
    BY DEF Reversed, Ids
  <2> QED
    BY <1>3, <1>4, <1>6, <2>1, <2>2
<1>11. ASSUME NEW i, i = n PROVE ~Reversed(i)'
  <2>1. i # r.reverses
    BY <1>2, <1>4, <1>11
  <2>2. ~Reversed(i)
    <3>1. ~(i < l)
      BY <1>1, <1>11 DEF n, l
    <3>2. Reversed(i) => i < l
      BY <1>1, RowsAre DEF l
    <3> QED
      BY <3>1, <3>2
  <2> QED
    BY <1>10, <2>1, <2>2
<1>12. Balance' = Balance + r.points
  <2>1. Total(ledger, DOMAIN K) = Total(ledger, DOMAIN ledger)
    BY <1>1, <1>4, TotalSame
  <2>2. n \in DOMAIN K
    BY <1>4
  <2>3. Balance' = Total(K, DOMAIN K)
    BY AsTotalsNext DEF K
  <2> QED
    BY <1>5, <2>1, <2>2, <2>3, AsTotals
<1> QED
  BY <1>2, <1>3, <1>4, <1>5, <1>6, <1>7, <1>8, <1>9, <1>10, <1>11, <1>12 DEF K, l, n

(* What covers the balance, after a row that reverses none.                 *)
Cover == Credited(Years \ SettledYears) + NewestNonCredit
Standing2 == CreditsOf(Years \ SettledYears)

LEMMA CoverIs ==
  /\ Cover = Total(ledger, Standing2) + Total(ledger, Others)
  /\ Cover' = Total(ledger', Standing2') + Total(ledger', Others')
<1>1. Cover = Total(ledger, Standing2) + Total(ledger, Others)
  BY AsTotals DEF Cover, Standing2
<1>2. Standing2' = {i \in OfType("annual_credit")' : ledger'[i].year \in Years \ SettledYears' /\ ~Reversed(i)'}
  BY DEF Standing2, CreditsOf
<1>3. Credited(Years \ SettledYears)' = Total(ledger', Standing2') /\ NewestNonCredit' = Total(ledger', Others')
  BY <1>2, AsTotalsNext
<1>4. Cover' = Total(ledger', Standing2') + Total(ledger', Others')
  BY <1>3 DEF Cover
<1> QED
  BY <1>1, <1>4

LEMMA MembersLeft ==
  ASSUME StatementOK, NEW r, RowOK(r, Len(ledger) + 1), ledger' = Append(ledger, r),
         \A i \in DOMAIN ledger : ledger[i].key # r.key, r.type # "expiration"
  PROVE  LET n == Len(ledger) + 1
         IN  /\ SettledYears' = SettledYears
             /\ \A i : i \in Standing2' <=>
                         \/ i \in Standing2 /\ i # r.reverses
                         \/ i = n /\ r.type = "annual_credit" /\ r.year \notin SettledYears
             /\ \A i : i \in Others' <=>
                         \/ i \in Others /\ i # r.reverses
                         \/ i = n /\ r.type # "annual_credit" /\ r.points > 0
<1> DEFINE n == Len(ledger) + 1
           K == ledger'
<1>0. r.type = "annual_credit" => r.year \in Years
  BY DEF RowOK
<1>1. /\ n \notin DOMAIN ledger
      /\ \A i : i \in DOMAIN K <=> i \in DOMAIN ledger \/ i = n
      /\ K[n] = r /\ \A i \in DOMAIN ledger : K[i] = ledger[i]
  BY RowLeaves
<1>2. \A t : \A i : i \in OfType(t)' <=> i \in OfType(t) \/ (i = n /\ r.type = t)
  BY RowLeaves
<1>3. \A i : Reversed(i)' <=> Reversed(i) \/ i = r.reverses
  BY RowLeaves
<1>4. \A i : i = n => ~Reversed(i)'
  BY RowLeaves
<1>5. \A t : \A i \in OfType(t) : i \in DOMAIN ledger
  BY DEF OfType, Ids
<1> HIDE DEF n, K
<1>6. SettledYears' = SettledYears
  <2>1. SettledYears' = {K[i].year : i \in OfType("expiration")'}
    BY DEF SettledYears, K
  <2>2. OfType("expiration")' = OfType("expiration")
    <3> DEFINE E == OfType("expiration")
               F == OfType("expiration")'
    <3>1. \A i : i \in F <=> i \in E
      BY <1>2
    <3>2. E = {i \in Ids : ledger[i].type = "expiration"} /\ F = {i \in Ids' : ledger'[i].type = "expiration"}
      BY DEF OfType
    <3> HIDE DEF E, F
    <3>3. F = E
      BY <3>1, <3>2
    <3> QED
      BY <3>3 DEF E, F
  <2>3. \A i \in OfType("expiration") : K[i] = ledger[i]
    BY <1>1, <1>5
  <2> QED
    BY <2>1, <2>2, <2>3 DEF SettledYears
<1>7. ASSUME NEW i
      PROVE  i \in Standing2' <=> \/ i \in Standing2 /\ i # r.reverses
                                  \/ i = n /\ r.type = "annual_credit" /\ r.year \notin SettledYears
  <2>1. i \in Standing2' <=> /\ i \in OfType("annual_credit")' /\ K[i].year \in Years \ SettledYears
                             /\ ~Reversed(i)'
    BY <1>6 DEF Standing2, CreditsOf, K
  <2>2. i \in Standing2 <=> /\ i \in OfType("annual_credit") /\ ledger[i].year \in Years \ SettledYears
                            /\ ~Reversed(i)
    BY DEF Standing2, CreditsOf
  <2>3. CASE i = n
    BY <1>0, <1>1, <1>2, <1>4, <1>5, <2>1, <2>2, <2>3
  <2>4. CASE i # n
    BY <1>1, <1>2, <1>3, <1>5, <2>1, <2>2, <2>4
  <2> QED
    BY <2>3, <2>4
<1>8. ASSUME NEW i
      PROVE  i \in Others' <=> \/ i \in Others /\ i # r.reverses
                               \/ i = n /\ r.type # "annual_credit" /\ r.points > 0
  <2>1. i \in Others' <=> /\ i \in DOMAIN K /\ i \notin OfType("annual_credit")' /\ K[i].points > 0
                          /\ ~Reversed(i)'
    BY DEF Others, Ids, K
  <2>2. i \in Others <=> /\ i \in DOMAIN ledger /\ i \notin OfType("annual_credit") /\ ledger[i].points > 0
                         /\ ~Reversed(i)
    BY DEF Others, Ids
  <2>3. CASE i = n
    BY <1>1, <1>2, <1>4, <1>5, <2>1, <2>2, <2>3
  <2>4. CASE i # n
    BY <1>1, <1>2, <1>3, <1>5, <2>1, <2>2, <2>4
  <2> QED
    BY <2>3, <2>4
<1> QED
  BY <1>6, <1>7, <1>8 DEF n

LEMMA CoverOfEntry ==
  ASSUME StatementOK, NEW r, RowOK(r, Len(ledger) + 1), ledger' = Append(ledger, r),
         \A i \in DOMAIN ledger : ledger[i].key # r.key,
         r.type \in {"annual_credit", "usage", "adjustment"}, r.reverses = 0,
         r.type = "annual_credit" => r.year \notin SettledYears
  PROVE  Cover' = Cover + IF r.points > 0 THEN r.points ELSE 0
<1> DEFINE n == Len(ledger) + 1
           K == ledger'
           S == Standing2'
           T == Others'
<1>1. /\ \A i : i \in S <=> (i \in Standing2 /\ i # r.reverses) \/ (i = n /\ r.type = "annual_credit")
      /\ \A i : i \in T <=> \/ i \in Others /\ i # r.reverses
                            \/ i = n /\ r.type # "annual_credit" /\ r.points > 0
  <2>1. r.type # "expiration"
    OBVIOUS
  <2> QED
    BY <2>1, MembersLeft
<1>2. /\ n \notin DOMAIN ledger /\ r.points \in Int
      /\ \A ids : Total(K, ids) = Total(ledger, ids) + IF n \in ids THEN r.points ELSE 0
  BY RowLeaves
<1>3. ledger \in Seq(Rows) /\ \A i \in DOMAIN ledger : i # 0 /\ i # n
  BY <1>2, RowsAre DEF StatementOK
<1>4. Standing2 \subseteq DOMAIN ledger /\ Others \subseteq DOMAIN ledger
  BY DEF Standing2, CreditsOf, OfType, Others, Ids
<1>5. Cover = Total(ledger, Standing2) + Total(ledger, Others)
  BY CoverIs
<1>6. Cover' = Total(K, S) + Total(K, T)
  BY CoverIs
<1> HIDE DEF n, K, S, T
<1>7. Total(ledger, S) = Total(ledger, Standing2) /\ Total(ledger, T) = Total(ledger, Others)
  BY <1>1, <1>3, TotalSame
<1>8. /\ n \in S <=> r.type = "annual_credit"
      /\ n \in T <=> r.type # "annual_credit" /\ r.points > 0
  BY <1>1, <1>2, <1>4
<1>9. /\ Total(ledger, Standing2) \in Int /\ Total(ledger, Others) \in Int
      /\ r.type = "annual_credit" => r.points > 0
  BY <1>3, TotalIs, PointsAssumption DEF RowOK
<1> QED
  BY <1>2, <1>5, <1>6, <1>7, <1>8, <1>9

LEMMA CoverOfReversal ==
  ASSUME StatementOK, NEW r, RowOK(r, Len(ledger) + 1), ledger' = Append(ledger, r),
         \A i \in DOMAIN ledger : ledger[i].key # r.key,
         r.type = "reversal", NEW e \in DOMAIN ledger, r.reverses = e,
         r.points = 0 - ledger[e].points, ~Reversed(e),
         ledger[e].type = "annual_credit" => ledger[e].year \notin SettledYears
  PROVE  Cover' = Cover + r.points
<1> DEFINE n == Len(ledger) + 1
           K == ledger'
           S == Standing2'
           T == Others'
           p == ledger[e].points
<1>1. /\ \A i : i \in S <=> i \in Standing2 /\ i # e
      /\ \A i : i \in T <=> (i \in Others /\ i # e) \/ (i = n /\ r.points > 0)
  BY MembersLeft
<1>2. /\ n \notin DOMAIN ledger /\ r.points \in Int
      /\ \A ids : Total(K, ids) = Total(ledger, ids) + IF n \in ids THEN r.points ELSE 0
  BY RowLeaves
<1>3. ledger \in Seq(Rows) /\ (\A i \in DOMAIN ledger : i # n) /\ RowOK(ledger[e], e)
  BY <1>2, RowsAre DEF StatementOK
<1>4. Standing2 \subseteq DOMAIN ledger /\ Others \subseteq DOMAIN ledger
  BY DEF Standing2, CreditsOf, OfType, Others, Ids
<1>5. Cover = Total(ledger, Standing2) + Total(ledger, Others)
  BY CoverIs
<1>6. Cover' = Total(K, S) + Total(K, T)
  BY CoverIs
<1>7. p \in Int /\ (ledger[e].type = "annual_credit" => ledger[e].year \in Years)
  BY <1>3 DEF RowOK, Rows
<1>8. /\ e \in Standing2 <=> ledger[e].type = "annual_credit"
      /\ e \in Others <=> ledger[e].type # "annual_credit" /\ p > 0
  BY <1>7 DEF Standing2, CreditsOf, OfType, Others, Ids
<1> HIDE DEF n, K, S, T, p
<1>9. /\ Total(ledger, S) = Total(ledger, Standing2 \ {e})
      /\ Total(ledger, T) = Total(ledger, Others \ {e})
  BY <1>1, <1>3, TotalSame
<1>10. /\ n \notin S
       /\ n \in T <=> r.points > 0
  BY <1>1, <1>2, <1>4
<1>11. /\ Total(ledger, Standing2) \in Int /\ Total(ledger, Others) \in Int
       /\ Total(ledger, Standing2 \ {e}) \in Int /\ Total(ledger, Others \ {e}) \in Int
  BY <1>3, TotalIs
<1>12. Total(ledger, Standing2) = Total(ledger, Standing2 \ {e}) + IF e \in Standing2 THEN p ELSE 0
  <2>1. CASE e \in Standing2
    BY <1>3, <2>1, TotalWithout DEF p
  <2>2. CASE e \notin Standing2
    <3> DEFINE a == Total(ledger, Standing2)
               b == Total(ledger, Standing2 \ {e})
    <3>1. Standing2 \ {e} = Standing2
      BY <2>2
    <3>2. b = a
      BY <3>1
    <3>3. b \in Int
      BY <1>11
    <3> HIDE DEF a, b
    <3>4. a = b + IF e \in Standing2 THEN p ELSE 0
      BY <2>2, <3>2, <3>3
    <3> QED
      BY <3>4 DEF a, b
  <2> QED
    BY <2>1, <2>2
<1>13. Total(ledger, Others) = Total(ledger, Others \ {e}) + IF e \in Others THEN p ELSE 0
  <2>1. CASE e \in Others
    BY <1>3, <2>1, TotalWithout DEF p
  <2>2. CASE e \notin Others
    <3> DEFINE a == Total(ledger, Others)
               b == Total(ledger, Others \ {e})
    <3>1. Others \ {e} = Others
      BY <2>2
    <3>2. b = a
      BY <3>1
    <3>3. b \in Int
      BY <1>11
    <3> HIDE DEF a, b
    <3>4. a = b + IF e \in Others THEN p ELSE 0
      BY <2>2, <3>2, <3>3
    <3> QED
      BY <3>4 DEF a, b
  <2> QED
    BY <2>1, <2>2
<1>14. Total(K, S) = Total(ledger, Standing2 \ {e})
  BY <1>2, <1>9, <1>10, <1>11
<1>15. Total(K, T) = Total(ledger, Others \ {e}) + IF r.points > 0 THEN r.points ELSE 0
  BY <1>2, <1>9, <1>10, <1>11
<1>16. r.points = 0 - p /\ (ledger[e].type = "annual_credit" => p > 0)
  BY <1>3, PointsAssumption DEF RowOK, p
<1> DEFINE a == Total(ledger, Standing2 \ {e})
           b == Total(ledger, Others \ {e})
           x == IF e \in Standing2 THEN p ELSE 0
           y == IF e \in Others THEN p ELSE 0
           z == IF r.points > 0 THEN r.points ELSE 0
<1>17. x \in Int /\ y \in Int /\ z \in Int /\ z + 0 - x - y = r.points
  <2>1. CASE ledger[e].type = "annual_credit"
    <3>1. x = p /\ y = 0 /\ z = 0
      BY <1>7, <1>8, <1>16, <2>1
    <3> HIDE DEF x, y, z
    <3> QED
      BY <1>7, <1>16, <3>1
  <2>2. CASE ledger[e].type # "annual_credit"
    <3>1. x = 0 /\ y = IF p > 0 THEN p ELSE 0
      BY <1>8, <2>2
    <3>2. z = IF 0 - p > 0 THEN 0 - p ELSE 0
      BY <1>16
    <3>3. r.points = 0 - p
      BY <1>16
    <3> HIDE DEF x, y, z
    <3> QED
      BY <1>7, <3>1, <3>2, <3>3
  <2> QED
    BY <2>1, <2>2
<1>18. Cover = a + x + (b + y) /\ Cover' = a + (b + z) /\ a \in Int /\ b \in Int
  BY <1>5, <1>6, <1>11, <1>12, <1>13, <1>14, <1>15
<1> HIDE DEF a, b, x, y, z
<1> QED
  BY <1>17, <1>18

(* The row of an entry that its guards let through.                         *)
LEMMA EntryIs ==
  ASSUME StatementOK, year \in Years, NEW ask \in Asks, Recorded(ask) = {},
         ask.op = "reverse" => ask.entry \in Ids, AllowedEntry(ask)
  PROVE  LET r == EntryOf(ask)
         IN  /\ RowOK(r, Len(ledger) + 1)
             /\ \A i \in DOMAIN ledger : ledger[i].key # r.key
             /\ Balance + r.points >= 0
             /\ r.type \in {"annual_credit", "usage", "adjustment", "reversal"}
             /\ r.type # "reversal" => r.reverses = 0
             /\ r.type = "annual_credit" => ask.op = "credit" /\ r.year \notin SettledYears
             /\ r.type = "usage" =>
                  r.stay = None \/ (r.stay \notin stayGone /\ UsageOf(r.stay) = {})
             /\ r.type = "reversal" =>
                  /\ r.reverses \in DOMAIN ledger /\ ~Reversed(r.reverses)
                  /\ r.points = 0 - ledger[r.reverses].points
                  /\ ledger[r.reverses].type = "annual_credit" => ledger[r.reverses].year \notin SettledYears
<1> DEFINE r == EntryOf(ask)
           n == Len(ledger) + 1
<1>1. /\ RowsOK /\ YearsOK /\ n \in Nat /\ 0 \in 0 .. n - 1 /\ DOMAIN ledger = 1 .. n - 1
      /\ \A i \in DOMAIN ledger : RowOK(ledger[i], i) /\ i \in Nat /\ i > 0
  <2>1. Len(ledger) \in Nat /\ DOMAIN ledger = 1 .. Len(ledger)
    BY RowsAre DEF StatementOK
  <2>2. n \in Nat /\ 0 \in 0 .. n - 1 /\ n - 1 = Len(ledger)
    BY <2>1
  <2> QED
    BY <2>1, <2>2, RowsAre DEF StatementOK
<1>2. \A i \in DOMAIN ledger : ledger[i].key # KeyOf(ask)
  BY DEF Recorded, Ids
<1>3. Balance + r.points >= 0
  BY DEF AllowedEntry
<1>4. Years \subseteq 0 .. LastYear /\ Years \subseteq Int /\ 0 \in 0 .. LastYear /\ None \in ResStays \cup {None}
  BY PointsAssumption DEF Years
<1>5. \A z \in Years : LastValidYear(z) >= year => z \notin SettledYears
  <2>1. \A z \in SettledYears : LastValidYear(z) < year
    BY <1>1 DEF YearsOK
  <2>2. \A z \in Years : ~(LastValidYear(z) < year /\ LastValidYear(z) >= year)
    BY <1>4 DEF LastValidYear, ValidityYears
  <2> QED
    BY <2>1, <2>2
<1> HIDE DEF n
<1>6. CASE ask.op = "credit"
  <2>1. ask.year \in Years
    BY <1>6 DEF Asks
  <2>2. KeyOf(ask) = <<"annual", ask.year>>
    BY <1>6 DEF KeyOf
  <2>3. r = [type |-> "annual_credit", points |-> AnnualPoints, year |-> ask.year, stay |-> None,
             reverses |-> 0, key |-> <<"annual", ask.year>>]
    BY <1>6, <2>2 DEF EntryOf, Entry
  <2>4. <<"annual", ask.year>> \in Keys
    BY <2>1 DEF Keys
  <2> HIDE DEF r
  <2>10. AnnualPoints \in Int
    BY PointsAssumption
  <2>9. AnnualPoints \in Int /\ ask.year \in 0 .. LastYear
    BY <1>4, <2>1, <2>10
  <2>5. r \in Rows
    BY <1>4, <2>3, <2>4, <2>9 DEF Rows, Types
  <2>6. RowOK(r, n)
    BY <1>1, <2>1, <2>3, <2>5 DEF RowOK
  <2>7. LastValidYear(ask.year) >= year
    BY <1>6 DEF AllowedEntry
  <2>8. r.year \notin SettledYears
    BY <1>5, <2>1, <2>3, <2>7
  <2> QED
    BY <1>2, <1>3, <1>6, <2>2, <2>3, <2>6, <2>8 DEF r, n
<1>7. CASE ask.op = "usage"
  <2>1. ask.points \in Nat /\ ask.stay \in ResStays \cup {None} /\ ask.req \in Requests
    BY <1>7, PointsAssumption DEF Asks
  <2>2. KeyOf(ask) = <<"usage", ask.req>>
    BY <1>7 DEF KeyOf
  <2>3. r = [type |-> "usage", points |-> 0 - ask.points, year |-> 0, stay |-> ask.stay,
             reverses |-> 0, key |-> <<"usage", ask.req>>]
    BY <1>7, <2>2 DEF EntryOf, Entry
  <2>4. <<"usage", ask.req>> \in Keys
    BY <2>1 DEF Keys
  <2> HIDE DEF r
  <2>9. 0 - ask.points \in Int /\ 0 - ask.points <= 0
    BY <2>1
  <2>5. r \in Rows
    BY <1>4, <2>1, <2>3, <2>4, <2>9 DEF Rows, Types
  <2>6. RowOK(r, n)
    BY <1>1, <2>3, <2>5, <2>9 DEF RowOK
  <2>7. ask.stay = None \/ (ask.stay \notin stayGone /\ UsageOf(ask.stay) = {})
    BY <1>7 DEF AllowedEntry
  <2> QED
    BY <1>2, <1>3, <2>2, <2>3, <2>6, <2>7 DEF r, n
<1>8. CASE ask.op = "adjust"
  <2>1. ask.points \in Int /\ ask.req \in Requests
    <3>1. ask.points \in Amounts \cup {-m : m \in Amounts} /\ ask.req \in Requests
      BY <1>8 DEF Asks
    <3>2. \A m \in Amounts : m \in Int /\ -m \in Int
      BY PointsAssumption
    <3> QED
      BY <3>1, <3>2
  <2>2. KeyOf(ask) = <<"adjustment", ask.req>>
    BY <1>8 DEF KeyOf
  <2>3. r = [type |-> "adjustment", points |-> ask.points, year |-> 0, stay |-> None,
             reverses |-> 0, key |-> <<"adjustment", ask.req>>]
    BY <1>8, <2>2 DEF EntryOf, Entry
  <2>4. <<"adjustment", ask.req>> \in Keys
    BY <2>1 DEF Keys
  <2> HIDE DEF r
  <2>5. r \in Rows
    BY <1>4, <2>1, <2>3, <2>4 DEF Rows, Types
  <2>6. RowOK(r, n)
    BY <1>1, <2>3, <2>5 DEF RowOK
  <2> QED
    BY <1>2, <1>3, <2>2, <2>3, <2>6 DEF r, n
<1>9. CASE ask.op = "reverse"
  <2> DEFINE e == ask.entry
             of == ledger[e]
  <2>1. e \in DOMAIN ledger /\ e \in Nat /\ e > 0 /\ RowOK(of, e) /\ e \in 0 .. n - 1
    <3>1. e \in DOMAIN ledger
      BY <1>9 DEF Ids
    <3>2. e \in Nat /\ e > 0 /\ RowOK(of, e)
      BY <1>1, <3>1
    <3>3. e \in 0 .. n - 1
      BY <1>1, <3>1, <3>2
    <3> QED
      BY <3>1, <3>2, <3>3
  <2>2. KeyOf(ask) = <<"reversal", e>>
    BY <1>9 DEF KeyOf
  <2>3. r = [type |-> "reversal", points |-> 0 - of.points, year |-> of.year, stay |-> of.stay,
             reverses |-> e, key |-> <<"reversal", e>>]
    BY <1>9, <2>2 DEF EntryOf, Entry
  <2>4. <<"reversal", e>> \in Keys
    BY <2>1 DEF Keys
  <2>9. of.points \in Int /\ of.year \in 0 .. LastYear /\ of.stay \in ResStays \cup {None}
    BY <2>1 DEF RowOK, Rows
  <2>10. 0 - of.points \in Int
    BY <2>9
  <2>11. of.type = "annual_credit" => of.year \notin SettledYears
    <3>1. of.type = "annual_credit" => LastValidYear(of.year) >= year /\ of.year \in Years
      BY <1>9, <2>1 DEF AllowedEntry, RowOK
    <3> QED
      BY <1>5, <3>1
  <2>12. ~Reversed(e)
    <3>1. ASSUME NEW j \in DOMAIN ledger, ledger[j].reverses = e PROVE FALSE
      <4>1. ledger[j].type = "reversal"
        <5>1. ledger[j].type \in Types
          BY <1>1 DEF RowOK, Rows
        <5> QED
          BY <1>1, <2>1, <3>1, <5>1 DEF RowOK, Types
      <4>2. ledger[j].key = <<"reversal", e>>
        BY <1>1, <3>1, <4>1 DEF RowOK
      <4> QED
        BY <1>2, <2>2, <4>2
    <3> QED
      BY <3>1 DEF Reversed, Ids
  <2> HIDE DEF r, e, of
  <2>5. r \in Rows
    BY <2>1, <2>3, <2>4, <2>9, <2>10 DEF Rows, Types
  <2>6. RowOK(r, n)
    BY <2>1, <2>3, <2>5 DEF RowOK
  <2> QED
    BY <1>2, <1>3, <2>1, <2>2, <2>3, <2>6, <2>11, <2>12 DEF r, n, of
<1>10. ask.op \in {"credit", "usage", "adjust", "reverse"}
  BY DEF Asks
<1> QED
  BY <1>6, <1>7, <1>8, <1>9, <1>10

LEMMA EntryKeeps ==
  ASSUME StatementOK, year \in Years, NEW ask \in Asks, Recorded(ask) = {},
         ask.op = "reverse" => ask.entry \in Ids, AllowedEntry(ask),
         Room(IF ask.op = "credit" THEN 2 ELSE 1),
         ledger' = Append(ledger, EntryOf(ask)), year' = year, stayGone' = stayGone
  PROVE  /\ StatementOK' /\ SettledYears' = SettledYears /\ Len(ledger') = Len(ledger) + 1
         /\ DOMAIN ledger \subseteq DOMAIN ledger' /\ Len(ledger) + 1 \in DOMAIN ledger'
<1> DEFINE r == EntryOf(ask)
           n == Len(ledger) + 1
<1>1. /\ RowOK(r, n)
      /\ \A i \in DOMAIN ledger : ledger[i].key # r.key
      /\ Balance + r.points >= 0
      /\ r.type \in {"annual_credit", "usage", "adjustment", "reversal"}
      /\ r.type # "reversal" => r.reverses = 0
      /\ r.type = "annual_credit" => ask.op = "credit" /\ r.year \notin SettledYears
      /\ r.type = "usage" => r.stay = None \/ (r.stay \notin stayGone /\ UsageOf(r.stay) = {})
      /\ r.type = "reversal" =>
           /\ r.reverses \in DOMAIN ledger /\ ~Reversed(r.reverses)
           /\ r.points = 0 - ledger[r.reverses].points
           /\ ledger[r.reverses].type = "annual_credit" => ledger[r.reverses].year \notin SettledYears
  BY EntryIs
<1>2. ledger' = Append(ledger, r)
  OBVIOUS
<1> HIDE DEF r
<1>3. /\ RowsOK' /\ KeysApart' /\ Len(ledger') = n /\ n \notin DOMAIN ledger
      /\ \A i : i \in DOMAIN ledger' <=> i \in DOMAIN ledger \/ i = n
      /\ ledger'[n] = r /\ \A i \in DOMAIN ledger : ledger'[i] = ledger[i]
      /\ Balance' = Balance + r.points /\ r.points \in Int
  BY <1>1, <1>2, RowLeaves
<1>4. /\ \A t : \A i : i \in OfType(t)' <=> i \in OfType(t) \/ (i = n /\ r.type = t)
      /\ \A i : Reversed(i)' <=> Reversed(i) \/ i = r.reverses
  BY <1>1, <1>2, RowLeaves
<1>5. SettledYears' = SettledYears
  <2>1. r.type # "expiration"
    BY <1>1
  <2> QED
    BY <1>1, <1>2, <2>1, MembersLeft
<1>6. \A t : \A i \in OfType(t) : i \in DOMAIN ledger
  BY DEF OfType, Ids
<1>7. YearsOK /\ Covered /\ StaysHold /\ HasRoom /\ RowsOK
  BY DEF StatementOK
<1>8. YearsOK'
  <2>1. \A z \in SettledYears' : LastValidYear(z) < year'
    BY <1>5, <1>7 DEF YearsOK
  <2>2. ASSUME NEW i \in OfType("annual_credit")', NEW z \in SettledYears', ledger'[i].year <= z
        PROVE  ledger'[i].year \in SettledYears'
    <3>1. CASE i \in OfType("annual_credit")
      BY <1>3, <1>5, <1>6, <1>7, <2>2, <3>1 DEF YearsOK
    <3>2. CASE i = n /\ r.type = "annual_credit"
      <4>1. r.year \in Years /\ r.year <= z
        BY <1>1, <1>3, <2>2, <3>2 DEF RowOK
      <4>2. LastValidYear(z) < year /\ LastValidYear(r.year) >= year
        <5>1. r.year = ask.year
          BY <1>1, <3>2 DEF r, EntryOf, Entry
        <5>2. LastValidYear(ask.year) >= year
          BY <1>1, <3>2 DEF AllowedEntry
        <5>3. LastValidYear(z) < year
          BY <1>5, <1>7 DEF YearsOK
        <5> QED
          BY <5>1, <5>2, <5>3
      <4>3. z \in Int /\ Years \subseteq Int
        <5>1. \A j \in DOMAIN ledger : ledger[j].year \in Int
          BY <1>7, RowsAre DEF RowOK, Rows
        <5>2. SettledYears \subseteq Int
          BY <1>6, <5>1 DEF SettledYears
        <5> QED
          BY <1>5, <5>2 DEF Years
      <4> QED
        BY <4>1, <4>2, <4>3 DEF LastValidYear, ValidityYears, Years
    <3> QED
      BY <1>4, <3>1, <3>2
  <2> QED
    BY <2>1, <2>2 DEF YearsOK
<1>9. Covered'
  <2>1. /\ Balance \in Int /\ Cover \in Int /\ Balance <= Cover
    <3>1. Balance \in Int /\ NewestNonCredit \in Int /\ Credited(Years \ SettledYears) \in Int
      BY <1>7, AreNumbers
    <3> QED
      BY <1>7, <3>1 DEF Cover, Covered
  <2>2. CASE r.type # "reversal"
    <3>1. Cover' = Cover + IF r.points > 0 THEN r.points ELSE 0
      BY <1>1, <1>2, <2>2, CoverOfEntry
    <3>2. Balance' >= 0 /\ Balance' <= Cover'
      BY <1>1, <1>3, <2>1, <3>1
    <3> QED
      BY <3>2 DEF Covered, Cover
  <2>3. CASE r.type = "reversal"
    <3>1. Cover' = Cover + r.points
      BY <1>1, <1>2, <2>3, CoverOfReversal
    <3>2. Balance' >= 0 /\ Balance' <= Cover'
      BY <1>1, <1>3, <2>1, <3>1
    <3> QED
      BY <3>2 DEF Covered, Cover
  <2> QED
    BY <2>2, <2>3
<1>10. StaysHold'
  <2>1. ASSUME NEW s \in ResStays, NEW i \in UsageOf(s)'
        PROVE  \/ i \in UsageOf(s)
               \/ i = n /\ s \notin stayGone /\ UsageOf(s) = {}
    <3>1. i \in OfType("usage")' /\ ledger'[i].stay = s /\ ~Reversed(i)'
      BY <2>1 DEF UsageOf
    <3>2. CASE i \in OfType("usage")
      BY <1>3, <1>4, <1>6, <3>1, <3>2 DEF UsageOf
    <3>3. CASE i = n /\ r.type = "usage"
      <4>1. r.stay = s /\ s # None
        BY <1>3, <3>1, <3>3, PointsAssumption
      <4> QED
        BY <1>1, <3>3, <4>1
    <3> QED
      BY <1>4, <3>1, <3>2, <3>3
  <2>2. ASSUME NEW s \in ResStays
        PROVE  /\ s \in stayGone' => UsageOf(s)' = {}
               /\ \A i, j \in UsageOf(s)' : i = j
    <3>1. /\ s \in stayGone => UsageOf(s) = {}
          /\ \A i, j \in UsageOf(s) : i = j
      BY <1>7 DEF StaysHold
    <3> DEFINE V == UsageOf(s)'
    <3>2. \A i \in V : i \in UsageOf(s) \/ (i = n /\ s \notin stayGone /\ UsageOf(s) = {})
      BY <2>1
    <3> HIDE DEF V
    <3>3. s \in stayGone => V = {}
      BY <3>1, <3>2
    <3>4. \A i, j \in V : i = j
      BY <3>1, <3>2
    <3> QED
      BY <3>3, <3>4 DEF V
  <2> QED
    BY <2>2 DEF StaysHold
<1>11. HasRoom'
  <2> DEFINE X == CreditYears \ SettledYears
             Y == CreditYears' \ SettledYears'
             c == Cardinality(X)
             d == Cardinality(Y)
  <2>1. IsFiniteSet(X) /\ c \in Nat /\ Len(ledger) \in Nat
    BY <1>7, RowsAre
  <2>2. Len(ledger) + (IF ask.op = "credit" THEN 2 ELSE 1) + c <= MaxEntries
    BY DEF Room, CreditYears
  <2>3. ASSUME NEW y PROVE y \in CreditYears' <=> y \in CreditYears \/ (r.type = "annual_credit" /\ y = r.year)
    <3>1. y \in CreditYears' <=> \E i \in OfType("annual_credit")' : y = ledger'[i].year
      BY DEF CreditYears
    <3>2. y \in CreditYears <=> \E i \in OfType("annual_credit") : y = ledger[i].year
      BY DEF CreditYears
    <3> QED
      BY <1>3, <1>4, <1>6, <3>1, <3>2
  <2>4. CASE r.type = "annual_credit"
    <3>1. Y = X \cup {r.year}
      BY <1>1, <1>5, <2>3, <2>4
    <3>2. Cardinality(X \cup {r.year}) <= c + 1
      <4>1. Cardinality(X \cup {r.year}) = IF r.year \in X THEN c ELSE c + 1
        <5> HIDE DEF X
        <5> QED
          BY <2>1, FS_AddElement
      <4> HIDE DEF c, X
      <4> QED
        BY <2>1, <4>1
    <3>3. d <= c + 1 /\ d \in Nat
      <4>1. IsFiniteSet(Y)
        <5> HIDE DEF X, Y
        <5> QED
          BY <2>1, <3>1, FS_AddElement
      <4>2. d \in Nat
        BY <4>1, FS_CardinalityType
      <4> QED
        BY <3>1, <3>2, <4>2
    <3>4. Len(ledger) + 2 + c <= MaxEntries
      BY <1>1, <2>2, <2>4
    <3>5. Len(ledger') + d <= MaxEntries
      <4> HIDE DEF c, d
      <4> QED
        BY <1>3, <2>1, <3>3, <3>4, PointsAssumption
    <3> QED
      BY <3>5 DEF HasRoom
  <2>5. CASE r.type # "annual_credit"
    <3>1. Y = X
      BY <1>5, <2>3, <2>5
    <3>2. d = c
      BY <3>1
    <3>3. Len(ledger') + d <= MaxEntries
      <4> HIDE DEF c, d
      <4> QED
        BY <1>3, <2>1, <2>2, <3>2, PointsAssumption
    <3> QED
      BY <3>3 DEF HasRoom
  <2> QED
    BY <2>4, <2>5
<1> QED
  BY <1>3, <1>5, <1>8, <1>9, <1>10, <1>11 DEF StatementOK

-----------------------------------------------------------------------------
(* The statement with the calls around it.                                  *)

PointsInv ==
  /\ StatementOK
  /\ year \in Years /\ stayGone \subseteq ResStays /\ audited \subseteq DOMAIN ledger
  /\ call \in [Callers \cup {Job} -> Calls]
  /\ \A k \in Callers \cup {Job} : call[k].at = "entered" => call[k].row \in DOMAIN ledger
  /\ stops \in 0 .. MaxStops

LEMMA RoomForRows ==
  ASSUME StatementOK
  PROVE  /\ Len(ledger) <= MaxEntries /\ Len(ledger) \in Nat /\ MaxEntries \in Nat
         /\ DOMAIN ledger = 1 .. Len(ledger) /\ DOMAIN ledger \subseteq 1 .. MaxEntries
<1>1. /\ Len(ledger) \in Nat /\ DOMAIN ledger = 1 .. Len(ledger)
      /\ Cardinality(CreditYears \ SettledYears) \in Nat
  BY RowsAre DEF StatementOK
<1> DEFINE c == Cardinality(CreditYears \ SettledYears)
<1>2. Len(ledger) + c <= MaxEntries /\ MaxEntries \in Nat /\ c \in Nat
  BY <1>1, PointsAssumption DEF StatementOK, HasRoom
<1> HIDE DEF c
<1>3. Len(ledger) <= MaxEntries
  BY <1>1, <1>2
<1> QED
  BY <1>1, <1>2, <1>3

LEMMA PointsInvInit ==
  ASSUME PointsInit
  PROVE  PointsInv
<1>1. /\ ledger = <<>> /\ DOMAIN ledger = {} /\ ledger \in Seq(Rows) /\ Len(ledger) = 0
  BY EmptySeq DEF PointsInit
<1>2. /\ \A t : OfType(t) = {}
      /\ SettledYears = {} /\ CreditYears = {} /\ \A i : ~Reversed(i)
  BY <1>1 DEF OfType, SettledYears, CreditYears, Reversed, Ids
<1>3. \A ids : Total(ledger, ids) = 0
  <2>1. \A ids : Total(ledger, ids) = Total(ledger, {})
    BY <1>1, TotalSame
  <2>2. Total(ledger, {}) = 0
    BY <1>1, TotalOfNone
  <2> QED
    BY <2>1, <2>2
<1>4. Covered
  <2>1. Balance = 0 /\ NewestNonCredit = 0 /\ Credited(Years \ SettledYears) = 0
    BY <1>3, AsTotals
  <2> QED
    BY <2>1 DEF Covered
<1>5. RowsOK /\ KeysApart /\ YearsOK /\ StaysHold
  BY <1>1, <1>2 DEF RowsOK, KeysApart, YearsOK, StaysHold, UsageOf
<1>6. HasRoom
  <2>1. CreditYears \ SettledYears = {}
    BY <1>2
  <2>2. Cardinality(CreditYears \ SettledYears) = 0
    BY <2>1, FS_EmptySet
  <2> QED
    BY <1>1, <2>2, PointsAssumption DEF HasRoom
<1>7. year \in Years /\ stayGone \subseteq ResStays /\ audited \subseteq DOMAIN ledger /\ stops \in 0 .. MaxStops
  BY PointsAssumption DEF PointsInit, Years
<1>8. /\ call \in [Callers \cup {Job} -> Calls]
      /\ \A k \in Callers \cup {Job} : call[k].at # "entered"
  BY DEF PointsInit, Calls, Resting
<1> QED
  BY <1>4, <1>5, <1>6, <1>7, <1>8 DEF PointsInv, StatementOK

(* A step that leaves the rows, the year and the reservations.              *)
LEMMA StatementStays ==
  ASSUME StatementOK, UNCHANGED <<ledger, year, stayGone>>
  PROVE  StatementOK'
<1>1. ledger' = ledger /\ year' = year /\ stayGone' = stayGone
  OBVIOUS
<1>2. Balance' = Balance
  BY <1>1 DEF Balance, Points, Ids
<1>3. NewestNonCredit' = NewestNonCredit
  BY <1>1 DEF NewestNonCredit, Points, Ids, OfType, Reversed
<1>4. SettledYears' = SettledYears
  BY <1>1 DEF SettledYears, Ids, OfType
<1>5. Credited(Years \ SettledYears)' = Credited(Years \ SettledYears)
  BY <1>1 DEF Credited, Points, Ids, OfType, Reversed, SettledYears
<1>6. RowsOK' /\ KeysApart' /\ YearsOK'
  BY <1>1 DEF StatementOK, RowsOK, KeysApart, YearsOK, SettledYears, OfType, Ids
<1>7. Covered'
  BY <1>2, <1>3, <1>5 DEF StatementOK, Covered
<1>8. StaysHold'
  BY <1>1 DEF StatementOK, StaysHold, UsageOf, OfType, Ids, Reversed
<1>9. HasRoom'
  BY <1>1 DEF StatementOK, HasRoom, CreditYears, SettledYears, OfType, Ids
<1> QED
  BY <1>6, <1>7, <1>8, <1>9 DEF StatementOK

LEMMA PointsSettle ==
  ASSUME PointsInv, NEW k \in Callers \cup {Job}, call[k] = Resting, ledger' = Settled,
         call' = [call EXCEPT ![k].at = "settled"], UNCHANGED <<year, stayGone, audited, stops>>
  PROVE  PointsInv'
<1>1. StatementOK' /\ DOMAIN ledger \subseteq DOMAIN ledger'
  BY SettlementKeeps DEF PointsInv
<1>2. call'[k] = [at |-> "settled"] /\ \A j \in Callers \cup {Job} : j # k => call'[j] = call[j]
  BY DEF PointsInv, Resting
<1>3. DOMAIN call' = Callers \cup {Job} /\ call' = [j \in Callers \cup {Job} |-> call'[j]]
  BY DEF PointsInv
<1>4. \A j \in Callers \cup {Job} : call'[j] \in Calls
  BY <1>2 DEF PointsInv, Calls
<1>5. call' \in [Callers \cup {Job} -> Calls]
  BY <1>3, <1>4
<1>6. \A j \in Callers \cup {Job} : call'[j].at = "entered" => call'[j].row \in DOMAIN ledger'
  BY <1>1, <1>2 DEF PointsInv
<1>7. year' \in Years /\ stayGone' \subseteq ResStays /\ stops' \in 0 .. MaxStops /\ audited' \subseteq DOMAIN ledger'
  BY <1>1 DEF PointsInv
<1> QED
  BY <1>1, <1>5, <1>6, <1>7 DEF PointsInv

(* A step that only moves one call.                                         *)
LEMMA PointsCallMoves ==
  ASSUME PointsInv, NEW k \in Callers \cup {Job}, NEW to \in Calls,
         to.at = "entered" => to.row \in DOMAIN ledger,
         call' = [call EXCEPT ![k] = to], audited' \subseteq DOMAIN ledger,
         UNCHANGED <<ledger, year, stayGone, stops>>
  PROVE  PointsInv'
<1>1. StatementOK'
  BY StatementStays DEF PointsInv
<1>2. call' \in [Callers \cup {Job} -> Calls]
  BY DEF PointsInv
<1>3. \A j \in Callers \cup {Job} : call'[j].at = "entered" => call'[j].row \in DOMAIN ledger
  BY DEF PointsInv
<1> QED
  BY <1>1, <1>2, <1>3 DEF PointsInv

LEMMA PointsEnter ==
  ASSUME PointsInv, NEW k \in Callers, NEW ask \in Asks, Enter(k, ask)
  PROVE  PointsInv' /\ SettledYears' = SettledYears
<1>1. CASE /\ Recorded(ask) # {}
           /\ call' = [call EXCEPT ![k] = [at |-> "entered", row |-> CHOOSE i \in Recorded(ask) : TRUE]]
           /\ UNCHANGED ledger
  <2> DEFINE row == CHOOSE i \in Recorded(ask) : TRUE
             to == [at |-> "entered", row |-> row]
  <2>1. row \in DOMAIN ledger
    BY <1>1 DEF Recorded, Ids
  <2>2. row \in 1 .. MaxEntries
    BY <2>1, RoomForRows DEF PointsInv
  <2> HIDE DEF row
  <2>3. to \in Calls /\ to.row \in DOMAIN ledger
    BY <2>1, <2>2 DEF Calls
  <2>4. call' = [call EXCEPT ![k] = to] /\ UNCHANGED <<ledger, year, stayGone, stops>> /\ audited' \subseteq DOMAIN ledger
    BY <1>1 DEF Enter, row, PointsInv
  <2> HIDE DEF to
  <2>5. PointsInv'
    BY <2>3, <2>4, PointsCallMoves
  <2>6. SettledYears' = SettledYears
    BY <1>1 DEF SettledYears, OfType, Ids
  <2> QED
    BY <2>5, <2>6
<1>2. CASE /\ Recorded(ask) = {}
           /\ ask.op = "reverse" => ask.entry \in Ids
           /\ AllowedEntry(ask)
           /\ Room(IF ask.op = "credit" THEN 2 ELSE 1)
           /\ ledger' = Append(ledger, EntryOf(ask))
           /\ call' = [call EXCEPT ![k] = [at |-> "entered", row |-> Len(ledger) + 1]]
  <2> DEFINE to == [at |-> "entered", row |-> Len(ledger) + 1]
  <2>1. UNCHANGED <<year, stayGone, audited, stops>>
    BY DEF Enter
  <2>2. /\ StatementOK' /\ SettledYears' = SettledYears /\ Len(ledger') = Len(ledger) + 1
        /\ DOMAIN ledger \subseteq DOMAIN ledger' /\ Len(ledger) + 1 \in DOMAIN ledger'
    BY <1>2, <2>1, EntryKeeps DEF PointsInv
  <2>3. Len(ledger) + 1 \in 1 .. MaxEntries
    <3>1. (Len(ledger) <= MaxEntries)'
      BY <2>2, RoomForRows, PTL
    <3> QED
      BY <2>2, <3>1, RoomForRows DEF PointsInv
  <2>4. to \in Calls
    BY <2>3 DEF Calls
  <2>5. call' = [call EXCEPT ![k] = to]
    BY <1>2
  <2>6. to.row \in DOMAIN ledger'
    BY <2>2
  <2> HIDE DEF to
  <2>7. call' \in [Callers \cup {Job} -> Calls]
    BY <2>4, <2>5 DEF PointsInv
  <2>8. \A j \in Callers \cup {Job} : call'[j].at = "entered" => call'[j].row \in DOMAIN ledger'
    BY <2>2, <2>5, <2>6 DEF PointsInv
  <2>9. year' \in Years /\ stayGone' \subseteq ResStays /\ stops' \in 0 .. MaxStops /\ audited' \subseteq DOMAIN ledger'
    BY <2>1, <2>2 DEF PointsInv
  <2> QED
    BY <2>2, <2>7, <2>8, <2>9 DEF PointsInv
<1> QED
  BY <1>1, <1>2 DEF Enter

LEMMA PointsAudits ==
  ASSUME PointsInv, NEW k \in Callers \cup {Job}, AuditLapses(k) \/ AuditEntry(k) \/ Refuse(k)
  PROVE  PointsInv' /\ UNCHANGED ledger
<1>0. Resting \in Calls /\ Resting.at # "entered"
  BY DEF Calls, Resting
<1>1. CASE AuditLapses(k)
  <2> DEFINE to == [at |-> IF k = Job THEN "idle" ELSE "lapses_audited"]
  <2>1. call[k].at = "settled" /\ call[k] \in Calls
    BY <1>1 DEF AuditLapses, PointsInv
  <2>2. call[k] = [at |-> "settled"]
    <3> DEFINE c == call[k]
    <3>1. /\ c.at = "settled"
          /\ \/ c = [at |-> "idle"]
             \/ c \in [at : {"settled", "lapses_audited"}]
             \/ c \in [at : {"entered"}, row : 1 .. MaxEntries]
      BY <2>1 DEF Calls, Resting
    <3> HIDE DEF c
    <3>2. c # [at |-> "idle"]
      BY <3>1
    <3>3. c \in [at : {"settled", "lapses_audited"}]
      BY <3>1, <3>2
    <3>4. c = [at |-> c.at]
      BY <3>3
    <3>5. c = [at |-> "settled"]
      BY <3>1, <3>4
    <3> QED
      BY <3>5 DEF c
  <2>3. call' = [call EXCEPT ![k] = to]
    <3> DEFINE at == IF k = Job THEN "idle" ELSE "lapses_audited"
    <3>1. call' = [call EXCEPT ![k] = [call[k] EXCEPT !.at = at]]
      BY <1>1 DEF AuditLapses
    <3> HIDE DEF at
    <3>2. [call[k] EXCEPT !.at = at] = [at |-> at]
      BY <2>2
    <3> QED
      BY <3>1, <3>2 DEF at
  <2>4. to \in Calls /\ to.at # "entered"
    BY DEF Calls, Resting
  <2>5. audited' \subseteq DOMAIN ledger /\ UNCHANGED <<ledger, year, stayGone, stops>>
    BY <1>1 DEF AuditLapses, PointsInv, OfType, Ids
  <2> HIDE DEF to
  <2> QED
    BY <2>3, <2>4, <2>5, PointsCallMoves
<1>2. CASE AuditEntry(k)
  <2>1. audited' \subseteq DOMAIN ledger /\ UNCHANGED <<ledger, year, stayGone, stops>>
    BY <1>2 DEF AuditEntry, PointsInv
  <2>2. call' = [call EXCEPT ![k] = Resting]
    BY <1>2 DEF AuditEntry
  <2> QED
    BY <1>0, <2>1, <2>2, PointsCallMoves
<1>3. CASE Refuse(k)
  <2>1. audited' \subseteq DOMAIN ledger /\ UNCHANGED <<ledger, year, stayGone, stops>>
    BY <1>3 DEF Refuse, PointsInv
  <2>2. call' = [call EXCEPT ![k] = Resting]
    BY <1>3 DEF Refuse
  <2> QED
    BY <1>0, <2>1, <2>2, PointsCallMoves
<1> QED
  BY <1>1, <1>2, <1>3

LEMMA PointsAround ==
  ASSUME PointsInv, (\E s \in ResStays : CancelStay(s)) \/ YearTurns \/ Stop
  PROVE  PointsInv' /\ UNCHANGED ledger
<1> USE DEF PointsInv
<1>1. CASE \E s \in ResStays : CancelStay(s)
  <2>1. PICK s \in ResStays : CancelStay(s)
    BY <1>1
  <2>2. UNCHANGED <<ledger, year, audited, call, stops>> /\ stayGone' = stayGone \cup {s} /\ UsageOf(s) = {}
    BY <2>1 DEF CancelStay
  <2>3. \A x : UsageOf(x)' = UsageOf(x)
    BY <2>2 DEF UsageOf, OfType, Ids, Reversed
  <2>4. StaysHold'
    BY <2>2, <2>3 DEF StatementOK, StaysHold
  <2>5. StatementOK'
    <3>1. RowsOK' /\ KeysApart' /\ YearsOK'
      BY <2>2 DEF StatementOK, RowsOK, KeysApart, YearsOK, SettledYears, OfType, Ids
    <3>2. Covered'
      <4>1. Balance' = Balance
        BY <2>2 DEF Balance, Points, Ids
      <4>2. NewestNonCredit' = NewestNonCredit
        BY <2>2 DEF NewestNonCredit, Points, Ids, OfType, Reversed
      <4>3. Credited(Years \ SettledYears)' = Credited(Years \ SettledYears)
        BY <2>2 DEF Credited, Points, Ids, OfType, Reversed, SettledYears
      <4> QED
        BY <4>1, <4>2, <4>3 DEF StatementOK, Covered
    <3>3. HasRoom'
      BY <2>2 DEF StatementOK, HasRoom, CreditYears, SettledYears, OfType, Ids
    <3> QED
      BY <2>4, <3>1, <3>2, <3>3 DEF StatementOK
  <2> QED
    BY <2>2, <2>5
<1>2. CASE YearTurns
  <2>1. UNCHANGED <<ledger, stayGone, audited, call, stops>> /\ year' = year + 1 /\ year < LastYear
    BY <1>2 DEF YearTurns
  <2>2. year' \in Years
    BY <2>1, PointsAssumption DEF Years
  <2>3. YearsOK'
    <3>1. SettledYears' = SettledYears /\ OfType("annual_credit")' = OfType("annual_credit")
      BY <2>1 DEF SettledYears, OfType, Ids
    <3>2. ASSUME NEW z \in SettledYears PROVE LastValidYear(z) < year + 1
      <4>1. LastValidYear(z) < year
        BY DEF StatementOK, YearsOK
      <4>2. z \in Int
        BY RowsAre DEF StatementOK, RowOK, Rows, SettledYears, OfType, Ids
      <4> QED
        BY <4>1, <4>2 DEF LastValidYear, ValidityYears, Years
    <3> QED
      BY <2>1, <3>1, <3>2 DEF StatementOK, YearsOK
  <2>4. StatementOK'
    <3>1. RowsOK' /\ KeysApart'
      BY <2>1 DEF StatementOK, RowsOK, KeysApart
    <3>2. Covered'
      <4>1. Balance' = Balance
        BY <2>1 DEF Balance, Points, Ids
      <4>2. NewestNonCredit' = NewestNonCredit
        BY <2>1 DEF NewestNonCredit, Points, Ids, OfType, Reversed
      <4>3. Credited(Years \ SettledYears)' = Credited(Years \ SettledYears)
        BY <2>1 DEF Credited, Points, Ids, OfType, Reversed, SettledYears
      <4> QED
        BY <4>1, <4>2, <4>3 DEF StatementOK, Covered
    <3>3. HasRoom'
      BY <2>1 DEF StatementOK, HasRoom, CreditYears, SettledYears, OfType, Ids
    <3>4. StaysHold'
      BY <2>1 DEF StatementOK, StaysHold, UsageOf, OfType, Ids, Reversed
    <3> QED
      BY <2>3, <3>1, <3>2, <3>3, <3>4 DEF StatementOK
  <2> QED
    BY <2>1, <2>2, <2>4
<1>3. CASE Stop
  <2>1. UNCHANGED <<ledger, year, stayGone, audited>> /\ stops' = stops + 1 /\ stops < MaxStops
    BY <1>3 DEF Stop
  <2>2. call' = [k \in Callers \cup {Job} |-> Resting]
    BY <1>3 DEF Stop
  <2>3. /\ call' \in [Callers \cup {Job} -> Calls]
        /\ \A k \in Callers \cup {Job} : call'[k].at # "entered"
    BY <2>2 DEF Calls, Resting
  <2>4. stops' \in 0 .. MaxStops
    BY <2>1, PointsAssumption
  <2>5. StatementOK'
    BY <2>1, StatementStays
  <2> QED
    BY <2>1, <2>3, <2>4, <2>5
<1> QED
  BY <1>1, <1>2, <1>3

(* The settlement of a year takes what lapsed; no other step settles one.   *)
LEMMA PointsStep ==
  ASSUME PointsInv, [PointsNext]_pointsVars
  PROVE  /\ PointsInv'
         /\ SettledYears' # SettledYears =>
              Balance' = Min({Balance, Credited(Years \ (SettledYears \cup UnsettledExpiredYears)) + NewestNonCredit})
<1>1. CASE \E k \in Callers : Ask(k)
  <2>1. PICK k \in Callers : Ask(k)
    BY <1>1
  <2>2. PointsInv'
    BY <2>1, PointsSettle DEF Ask
  <2> QED
    BY <2>1, <2>2, SettlementKeeps DEF Ask, PointsInv
<1>2. CASE \E k \in Callers : \E ask \in Asks : Enter(k, ask)
  BY <1>2, PointsEnter
<1>3. CASE Sweep
  <2>1. PointsInv'
    BY <1>3, PointsSettle DEF Sweep
  <2> QED
    BY <1>3, <2>1, SettlementKeeps DEF Sweep, PointsInv
<1>4. CASE \E k \in Callers \cup {Job} : AuditLapses(k) \/ AuditEntry(k) \/ Refuse(k)
  <2>1. PointsInv' /\ UNCHANGED ledger
    BY <1>4, PointsAudits
  <2> QED
    BY <2>1 DEF SettledYears, OfType, Ids
<1>5. CASE (\E s \in ResStays : CancelStay(s)) \/ YearTurns \/ Stop
  <2>1. PointsInv' /\ UNCHANGED ledger
    BY <1>5, PointsAround
  <2> QED
    BY <2>1 DEF SettledYears, OfType, Ids
<1>6. CASE UNCHANGED pointsVars
  <2>1. UNCHANGED <<ledger, year, stayGone, audited, call, stops>>
    BY <1>6 DEF pointsVars
  <2>2. StatementOK'
    BY <2>1, StatementStays DEF PointsInv
  <2>3. PointsInv'
    BY <2>1, <2>2 DEF PointsInv
  <2> QED
    BY <2>1, <2>3 DEF SettledYears, OfType, Ids
<1> QED
  BY <1>1, <1>2, <1>3, <1>4, <1>5, <1>6 DEF PointsNext

LEMMA PointsInvHolds == PointsSpec => []PointsInv
<1>1. PointsInv /\ [PointsNext]_pointsVars => PointsInv'
  BY PointsStep
<1> QED
  BY <1>1, PointsInvInit, PTL DEF PointsSpec

LEMMA PointsInvTypes == PointsInv => PointsTypeOK
<1> SUFFICES ASSUME PointsInv PROVE PointsTypeOK
  OBVIOUS
<1>1. ASSUME NEW i \in DOMAIN ledger
      PROVE  /\ ledger[i].type \in Types /\ ledger[i].points \in Int /\ ledger[i].year \in 0 .. LastYear
             /\ ledger[i].stay \in ResStays \cup {None} /\ ledger[i].reverses \in 0 .. i - 1
  BY RowsAre DEF PointsInv, StatementOK, RowOK, Rows
<1>2. Len(ledger) <= MaxEntries
  BY RoomForRows DEF PointsInv
<1> QED
  BY <1>1, <1>2 DEF PointsTypeOK, PointsInv, StatementOK, KeysApart

(* The statement, its keys, and what calls and the job of the night hold    *)
(* keep their types, for any years, stays, requests and bounds.             *)
THEOREM PointsTypes == PointsSpec => []PointsTypeOK
<1> QED
  BY PointsInvTypes, PointsInvHolds, PTL

(* A balance is never negative and holds no point of a settled year, a      *)
(* cancelled reservation holds no points, and none holds them twice:        *)
(* however entries, reversals, settlements and the turn of the year follow  *)
(* each other (append, settleExpirations, pointsLedger.ts).                 *)
THEOREM BalancesAreCovered == PointsSpec => []BalanceIsCovered
<1>1. PointsInv => BalanceIsCovered
  <2> SUFFICES ASSUME PointsInv PROVE BalanceIsCovered
    OBVIOUS
  <2>1. ASSUME NEW s \in ResStays PROVE Cardinality(UsageOf(s)) <= IF s \in stayGone THEN 0 ELSE 1
    <3>1. /\ s \in stayGone => UsageOf(s) = {}
          /\ \A i, j \in UsageOf(s) : i = j
      BY DEF PointsInv, StatementOK, StaysHold
    <3>2. CASE UsageOf(s) = {}
      <4>1. Cardinality(UsageOf(s)) = 0
        BY <3>2, FS_EmptySet
      <4> QED
        BY <4>1
    <3>3. CASE UsageOf(s) # {}
      <4>1. PICK i \in UsageOf(s) : TRUE
        BY <3>3
      <4>2. UsageOf(s) = {i}
        BY <3>1, <4>1
      <4>3. Cardinality(UsageOf(s)) = 1
        BY <4>2, FS_Singleton
      <4> QED
        BY <3>1, <3>3, <4>3
    <3> QED
      BY <3>2, <3>3
  <2> QED
    BY <2>1 DEF BalanceIsCovered, PointsInv, StatementOK, Covered
<1> QED
  BY <1>1, PointsInvHolds, PTL

(* A settlement, of however many years, leaves the credits that did not     *)
(* expire and what came in otherwise, or the balance there was if it is     *)
(* less (settleExpirations, pointsLedger.ts).                               *)
THEOREM SettlementsTakeWhatLapsed == PointsSpec => SettlementTakesWhatLapsed
<1> DEFINE Takes == SettledYears' # SettledYears =>
                      Balance' = Min({Balance, Credited(Years \ (SettledYears \cup UnsettledExpiredYears)) + NewestNonCredit})
<1>1. PointsInv /\ [PointsNext]_pointsVars => [Takes]_pointsVars
  BY PointsStep
<1>2. SettlementTakesWhatLapsed <=> [][Takes]_pointsVars
  BY DEF SettlementTakesWhatLapsed
<1> HIDE DEF Takes
<1> QED
  BY <1>1, <1>2, PointsInvHolds, PTL DEF PointsSpec

-----------------------------------------------------------------------------
(* The commissions.                                                         *)

FeeRows == [inst : Slots \cup {ByHand}, role : Roles, rule : {"v1", "v2", "hand"}, amount : Nat,
            status : {"pending", "approved", "paid", "cancelled"},
            review : {"none", "pending", "resolved", "noted"}]

LEMMA RowsInOrder ==
  ASSUME NEW R, NEW n \in Nat, NEW f \in [1 .. n -> R]
  PROVE  f \in Seq(R) /\ Len(f) = n /\ DOMAIN f = 1 .. n
<1>1. f \in Seq(R)
  BY SeqDef
<1>2. Len(f) \in Nat /\ DOMAIN f = 1 .. Len(f)
  BY <1>1, LenProperties
<1>3. 1 .. Len(f) = 1 .. n
  BY <1>2
<1> DEFINE m == Len(f)
<1> HIDE DEF m
<1>4. m \in Nat /\ 1 .. m = 1 .. n => m = n
  <2>1. ASSUME m \in Nat, 1 .. m = 1 .. n PROVE m = n
    <3>1. m <= n
      <4>1. m > 0 => m \in 1 .. m
        BY <2>1
      <4> QED
        BY <2>1, <4>1
    <3>2. n <= m
      <4>1. n > 0 => n \in 1 .. n
        OBVIOUS
      <4> QED
        BY <2>1, <4>1
    <3> QED
      BY <2>1, <3>1, <3>2
  <2> QED
    BY <2>1
<1> QED
  BY <1>1, <1>2, <1>3, <1>4 DEF m

(* What a row counts for in the sum of role r.                              *)
Counted(l, r) == IF Automatic(l) /\ IsLive(l) /\ l.role = r THEN l.amount ELSE 0

(* The partial sums.                                                        *)
Earlier(ls, r, s) ==
  /\ s \in [0 .. Len(ls) -> Nat] /\ s[0] = 0
  /\ \A n \in 1 .. Len(ls) : s[n] = s[n - 1] + Counted(ls[n], r)

LEMMA LinesAre ==
  ASSUME NEW ls \in Seq(FeeRows)
  PROVE  /\ Len(ls) \in Nat /\ DOMAIN ls = 1 .. Len(ls)
         /\ \A n \in 1 .. Len(ls) : ls[n] \in FeeRows /\ \A r : Counted(ls[n], r) \in Nat
         /\ Live(ls) = {n \in 1 .. Len(ls) : Automatic(ls[n]) /\ IsLive(ls[n])}
<1>1. Len(ls) \in Nat /\ DOMAIN ls = 1 .. Len(ls) /\ \A n \in 1 .. Len(ls) : ls[n] \in FeeRows
  BY ElementOfSeq, LenProperties
<1>2. \A l \in FeeRows : \A r : Counted(l, r) \in Nat
  BY DEF FeeRows, Counted
<1> QED
  BY <1>1, <1>2 DEF Live

LEMMA EarlierExist ==
  ASSUME NEW ls \in Seq(FeeRows), NEW r
  PROVE  \E s : Earlier(ls, r, s) /\ Already(ls, r) = s[Len(ls)]
<1> DEFINE P(s) == s = [n \in 0 .. Len(ls) |->
                          IF n = 0 THEN 0
                          ELSE s[n - 1] + IF n \in Live(ls) /\ ls[n].role = r THEN ls[n].amount ELSE 0]
           step == [n \in 1 .. Len(ls) |-> [x \in Nat |-> x + Counted(ls[n], r)]]
           t == CHOOSE s : P(s)
<1>1. Len(ls) \in Nat /\ \A n \in 1 .. Len(ls) : Counted(ls[n], r) \in Nat
  BY LinesAre
<1>2. \A n \in 1 .. Len(ls) : (IF n \in Live(ls) /\ ls[n].role = r THEN ls[n].amount ELSE 0) = Counted(ls[n], r)
  BY LinesAre DEF Counted
<1>3. PICK g \in [0 .. Len(ls) -> Nat] :
        g[0] = 0 /\ \A n \in 1 .. Len(ls) : g[n] = step[n][g[n - 1]]
  <2> DEFINE N == Len(ls)
             D == Nat
             zero == 0
  <2>1. N \in Nat /\ zero \in D /\ step \in [1 .. N -> [D -> D]]
    BY <1>1
  <2>2. Recurs(N, D, zero, step)
    <3> HIDE DEF N, D, zero, step
    <3> QED
      BY <2>1, ByRecursion
  <2> QED
    BY <2>2 DEF Recurs
<1>4. ASSUME NEW n \in 1 .. Len(ls)
      PROVE  g[n] = g[n - 1] + Counted(ls[n], r)
  <2>1. n - 1 \in 0 .. Len(ls)
    BY <1>1
  <2>2. g[n - 1] \in Nat
    BY <2>1
  <2> QED
    BY <1>3, <2>2
<1>5. P(g)
  BY <1>2, <1>3, <1>4
<1>6. P(t)
  <2> HIDE DEF P
  <2> QED
    BY <1>5
<1>7. /\ t[0] = 0 /\ t = [n \in 0 .. Len(ls) |-> t[n]]
      /\ \A n \in 1 .. Len(ls) : t[n] = t[n - 1] + Counted(ls[n], r)
  <2> HIDE DEF t
  <2> QED
    BY <1>1, <1>2, <1>6
<1>8. Already(ls, r) = t[Len(ls)]
  BY DEF Already
<1> HIDE DEF t
<1>9. \A n \in 0 .. Len(ls) : t[n] \in Nat
  <2> DEFINE S == {n \in 0 .. Len(ls) : t[n] \in Nat}
  <2>1. 0 \in S
    BY <1>1, <1>7
  <2>2. ASSUME NEW n \in 1 .. Len(ls), n - 1 \in S PROVE n \in S
    <3>1. t[n - 1] \in Nat /\ n \in 0 .. Len(ls)
      BY <1>1, <2>2
    <3>2. t[n] = t[n - 1] + Counted(ls[n], r) /\ Counted(ls[n], r) \in Nat
      BY <1>1, <1>7
    <3>3. t[n] \in Nat
      BY <3>1, <3>2
    <3> QED
      BY <3>1, <3>3
  <2>3. 0 .. Len(ls) \subseteq S
    <3> HIDE DEF S
    <3> QED
      BY <1>1, <2>1, <2>2, CountingUp
  <2> QED
    BY <2>3
<1> QED
  BY <1>7, <1>8, <1>9 DEF Earlier

LEMMA AlreadyIs ==
  ASSUME NEW ls \in Seq(FeeRows), NEW r
  PROVE  Already(ls, r) \in Nat
<1>1. Len(ls) \in 0 .. Len(ls)
  BY LinesAre
<1> QED
  BY <1>1, EarlierExist DEF Earlier

(* ms is ls with l behind it.                                               *)
Behind(ls, l, ms) ==
  /\ ms \in Seq(FeeRows) /\ Len(ms) = Len(ls) + 1
  /\ \A n \in 1 .. Len(ls) : ms[n] = ls[n]
  /\ ms[Len(ls) + 1] = l

LEMMA AlreadyLonger ==
  ASSUME NEW ls \in Seq(FeeRows), NEW l \in FeeRows, NEW ms, Behind(ls, l, ms), NEW r
  PROVE  Already(ms, r) = Already(ls, r) + Counted(l, r)
<1> DEFINE N == Len(ls)
<1>1. /\ ms \in Seq(FeeRows) /\ Len(ms) = N + 1 /\ N \in Nat
      /\ \A n \in 1 .. N : ms[n] = ls[n]
      /\ ms[N + 1] = l
  BY LinesAre DEF Behind
<1>2. PICK s : Earlier(ls, r, s) /\ Already(ls, r) = s[N]
  BY EarlierExist
<1>3. PICK t : Earlier(ms, r, t) /\ Already(ms, r) = t[N + 1]
  BY <1>1, EarlierExist
<1>4. 0 .. N \subseteq {n \in 0 .. N : s[n] = t[n]}
  <2> DEFINE S == {n \in 0 .. N : s[n] = t[n]}
  <2>1. 0 \in S
    BY <1>1, <1>2, <1>3 DEF Earlier
  <2>2. ASSUME NEW n \in 1 .. N, n - 1 \in S PROVE n \in S
    <3>1. n \in 1 .. N + 1 /\ n \in 0 .. N
      BY <1>1
    <3>2. s[n] = s[n - 1] + Counted(ls[n], r)
      BY <1>2 DEF Earlier
    <3>3. t[n] = t[n - 1] + Counted(ms[n], r)
      BY <1>1, <1>3, <3>1 DEF Earlier
    <3> QED
      BY <1>1, <2>2, <3>1, <3>2, <3>3
  <2> HIDE DEF S
  <2>3. 0 .. N \subseteq S
    BY <1>1, <2>1, <2>2, CountingUp
  <2> QED
    BY <2>3 DEF S
<1>5. t[N + 1] = t[N] + Counted(l, r)
  <2>1. N + 1 \in 1 .. N + 1 /\ (N + 1) - 1 = N
    BY <1>1
  <2> QED
    BY <1>1, <1>3, <2>1 DEF Earlier
<1>6. s[N] = t[N]
  BY <1>1, <1>4
<1> QED
  BY <1>2, <1>3, <1>5, <1>6

(* Rows that count for less sum up to less.                                 *)
LEMMA AlreadyLess ==
  ASSUME NEW ls \in Seq(FeeRows), NEW ms \in Seq(FeeRows), Len(ms) = Len(ls), NEW r,
         \A n \in 1 .. Len(ls) : Counted(ms[n], r) <= Counted(ls[n], r)
  PROVE  Already(ms, r) <= Already(ls, r)
<1> DEFINE N == Len(ls)
<1>1. N \in Nat /\ \A n \in 1 .. N : Counted(ls[n], r) \in Nat /\ Counted(ms[n], r) \in Nat
  BY LinesAre
<1>2. PICK s : Earlier(ls, r, s) /\ Already(ls, r) = s[N]
  BY EarlierExist
<1>3. PICK t : Earlier(ms, r, t) /\ Already(ms, r) = t[N]
  BY EarlierExist
<1> DEFINE S == {n \in 0 .. N : t[n] <= s[n]}
<1>4. 0 \in S
  BY <1>1, <1>2, <1>3 DEF Earlier
<1>5. ASSUME NEW n \in 1 .. N, n - 1 \in S PROVE n \in S
  <2>1. n \in 0 .. N /\ n - 1 \in 0 .. N
    BY <1>1
  <2>2. s[n] = s[n - 1] + Counted(ls[n], r) /\ s[n - 1] \in Nat
    BY <1>2, <2>1 DEF Earlier
  <2>3. t[n] = t[n - 1] + Counted(ms[n], r) /\ t[n - 1] \in Nat
    BY <1>3, <2>1 DEF Earlier
  <2>4. Counted(ms[n], r) <= Counted(ls[n], r) /\ t[n - 1] <= s[n - 1]
    BY <1>5
  <2> QED
    BY <1>1, <2>1, <2>2, <2>3, <2>4
<1>6. 0 .. N \subseteq S
  <2> HIDE DEF S
  <2> QED
    BY <1>1, <1>4, <1>5, CountingUp
<1> QED
  BY <1>1, <1>2, <1>3, <1>6

LEMMA AlreadyNone ==
  ASSUME NEW ls \in Seq(FeeRows), NEW r, \A n \in 1 .. Len(ls) : Counted(ls[n], r) = 0
  PROVE  Already(ls, r) = 0
<1> DEFINE N == Len(ls)
<1>1. N \in Nat
  BY LinesAre
<1>2. PICK s : Earlier(ls, r, s) /\ Already(ls, r) = s[N]
  BY EarlierExist
<1> DEFINE S == {n \in 0 .. N : s[n] = 0}
<1>4. 0 \in S
  BY <1>1, <1>2 DEF Earlier
<1>5. ASSUME NEW n \in 1 .. N, n - 1 \in S PROVE n \in S
  <2>1. n \in 0 .. N
    BY <1>1
  <2>2. s[n] = s[n - 1] + Counted(ls[n], r)
    BY <1>2 DEF Earlier
  <2> QED
    BY <1>5, <2>1, <2>2
<1>6. 0 .. N \subseteq S
  <2> HIDE DEF S
  <2> QED
    BY <1>1, <1>4, <1>5, CountingUp
<1> QED
  BY <1>1, <1>2, <1>6

-----------------------------------------------------------------------------
(* The lines in force.                                                      *)

DueOf(rule) == IF rule = "v1" THEN V1Total ELSE V2Total

LinesOK(ls) ==
  /\ ls \in Seq(FeeRows)
  /\ \A n \in DOMAIN ls : Automatic(ls[n]) => ls[n].rule \in {"v1", "v2"}
  /\ \A n, m \in Live(ls) : ls[n].rule = ls[m].rule
  /\ \A n, m \in DOMAIN ls :
       n # m /\ Automatic(ls[n]) => <<ls[n].inst, ls[n].role>> # <<ls[m].inst, ls[m].role>>
  /\ \A r \in Roles, n \in Live(ls) : Already(ls, r) <= DueOf(ls[n].rule)

(* A line that keeps to the due of its rule is added.                       *)
LEMMA LineAdded ==
  ASSUME NEW ls, LinesOK(ls), NEW l \in FeeRows, Automatic(l), IsLive(l), l.rule \in {"v1", "v2"},
         \A n \in Live(ls) : ls[n].rule = l.rule,
         \A n \in DOMAIN ls : ~(ls[n].inst = l.inst /\ ls[n].role = l.role),
         Already(ls, l.role) + l.amount <= DueOf(l.rule),
         NEW ms, Behind(ls, l, ms)
  PROVE  /\ LinesOK(ms) /\ \A n \in Live(ms) : ms[n].rule = l.rule
         /\ \A r : r # l.role => Already(ms, r) = Already(ls, r)
<1> DEFINE N == Len(ls)
<1>0. ls \in Seq(FeeRows)
  BY DEF LinesOK
<1>1. /\ ms \in Seq(FeeRows) /\ Len(ms) = N + 1 /\ N \in Nat
      /\ DOMAIN ms = 1 .. N + 1 /\ DOMAIN ls = 1 .. N
      /\ \A n \in 1 .. N : ms[n] = ls[n]
      /\ ms[N + 1] = l
  BY <1>0, LinesAre DEF Behind
<1>2. /\ \A r : Already(ms, r) = Already(ls, r) + Counted(l, r)
      /\ \A r : Already(ls, r) \in Nat /\ Counted(l, r) \in Nat
  BY <1>0, AlreadyLonger, AlreadyIs DEF Counted, FeeRows
<1>3. \A n \in 1 .. N + 1 : n \in 1 .. N \/ n = N + 1
  BY <1>1
<1>31. \A n \in 1 .. N : n \in 1 .. N + 1 /\ n # N + 1
  BY <1>1
<1>4. \A n \in DOMAIN ms : Automatic(ms[n]) => ms[n].rule \in {"v1", "v2"}
  BY <1>1, <1>3 DEF LinesOK
<1>5. \A n \in Live(ms) : n \in Live(ls) \/ n = N + 1
  BY <1>1, <1>3 DEF Live
<1>6. \A n \in Live(ms) : ms[n].rule = l.rule
  <2>1. \A n \in Live(ls) : ms[n].rule = ls[n].rule
    BY <1>1 DEF Live
  <2> QED
    BY <1>1, <1>5, <2>1
<1>7. ASSUME NEW n \in DOMAIN ms, NEW m \in DOMAIN ms, n # m, Automatic(ms[n])
      PROVE  <<ms[n].inst, ms[n].role>> # <<ms[m].inst, ms[m].role>>
  <2>1. CASE n \in 1 .. N /\ m \in 1 .. N
    BY <1>1, <1>7, <2>1 DEF LinesOK
  <2>2. CASE n = N + 1 /\ m \in 1 .. N
    BY <1>1, <2>2
  <2>3. CASE n \in 1 .. N /\ m = N + 1
    BY <1>1, <2>3
  <2> QED
    BY <1>1, <1>3, <1>7, <2>1, <2>2, <2>3
<1>8. ASSUME NEW r \in Roles PROVE Already(ms, r) <= DueOf(l.rule)
  <2>0. DueOf(l.rule) \in Nat /\ l.amount \in Nat
    BY TotalsAreNat DEF DueOf, FeeRows
  <2>1. CASE r = l.role
    <3>1. Counted(l, r) = l.amount
      BY <2>1 DEF Counted
    <3> QED
      BY <1>2, <2>1, <3>1
  <2>2. CASE r # l.role
    <3>1. Counted(l, r) = 0
      BY <2>2 DEF Counted
    <3>2. Already(ms, r) = Already(ls, r)
      BY <1>2, <3>1
    <3>3. CASE Live(ls) = {}
      <4>1. \A n \in 1 .. N : Counted(ls[n], r) = 0
        BY <1>1, <3>3 DEF Live, Counted
      <4>2. Already(ls, r) = 0
        BY <1>0, <4>1, AlreadyNone
      <4> QED
        BY <2>0, <3>2, <4>2
    <3>4. CASE Live(ls) # {}
      <4>1. PICK n \in Live(ls) : TRUE
        BY <3>4
      <4>2. Already(ls, r) <= DueOf(ls[n].rule) /\ ls[n].rule = l.rule
        BY <4>1 DEF LinesOK
      <4> QED
        BY <3>2, <4>2
    <3> QED
      BY <3>3, <3>4
  <2> QED
    BY <2>1, <2>2
<1>9. /\ \A n, m \in Live(ms) : ms[n].rule = ms[m].rule
      /\ \A r \in Roles, n \in Live(ms) : Already(ms, r) <= DueOf(ms[n].rule)
  BY <1>6, <1>8
<1>10. \A n, m \in DOMAIN ms :
       n # m /\ Automatic(ms[n]) => <<ms[n].inst, ms[n].role>> # <<ms[m].inst, ms[m].role>>
  BY <1>7
<1>11. \A r : r # l.role => Already(ms, r) = Already(ls, r)
  BY <1>2 DEF Counted
<1> QED
  BY <1>1, <1>4, <1>6, <1>9, <1>10, <1>11 DEF LinesOK

(* Lines that end, or go on, change nothing else.                           *)
LEMMA LinesEnd ==
  ASSUME NEW ls, LinesOK(ls), NEW ms \in Seq(FeeRows), Len(ms) = Len(ls),
         \A n \in 1 .. Len(ls) :
           /\ ms[n].inst = ls[n].inst /\ ms[n].role = ls[n].role /\ ms[n].rule = ls[n].rule
           /\ ms[n].amount = ls[n].amount
           /\ IsLive(ms[n]) => IsLive(ls[n])
  PROVE  LinesOK(ms)
<1> DEFINE N == Len(ls)
<1>0. ls \in Seq(FeeRows)
  BY DEF LinesOK
<1>1. N \in Nat /\ DOMAIN ms = 1 .. N /\ DOMAIN ls = 1 .. N
      /\ \A n \in 1 .. N : ls[n] \in FeeRows /\ ms[n] \in FeeRows
  BY <1>0, LinesAre
<1>2. \A n \in Live(ms) : n \in Live(ls) /\ ms[n].rule = ls[n].rule
  BY <1>1 DEF Live, Automatic
<1>3. ASSUME NEW r PROVE Already(ms, r) <= Already(ls, r) /\ Already(ms, r) \in Nat /\ Already(ls, r) \in Nat
  <2>1. ASSUME NEW n \in 1 .. N PROVE Counted(ms[n], r) <= Counted(ls[n], r)
    <3>1. ls[n].amount \in Nat /\ ms[n].amount \in Nat
      BY <1>1 DEF FeeRows
    <3> QED
      BY <3>1 DEF Counted, Automatic
  <2> QED
    BY <1>0, <2>1, AlreadyLess, AlreadyIs
<1>4. ASSUME NEW r \in Roles, NEW n \in Live(ms) PROVE Already(ms, r) <= DueOf(ms[n].rule)
  <2>1. DueOf(ms[n].rule) \in Nat
    BY TotalsAreNat DEF DueOf
  <2>2. Already(ls, r) <= DueOf(ls[n].rule) /\ ms[n].rule = ls[n].rule
    BY <1>2 DEF LinesOK
  <2> QED
    BY <1>3, <2>1, <2>2
<1>5. /\ \A n \in DOMAIN ms : Automatic(ms[n]) => ms[n].rule \in {"v1", "v2"}
      /\ \A n, m \in DOMAIN ms :
           n # m /\ Automatic(ms[n]) => <<ms[n].inst, ms[n].role>> # <<ms[m].inst, ms[m].role>>
  BY <1>1 DEF LinesOK, Automatic
<1>6. \A n, m \in Live(ms) : ms[n].rule = ms[m].rule
  BY <1>2 DEF LinesOK
<1> QED
  BY <1>4, <1>5, <1>6 DEF LinesOK
-----------------------------------------------------------------------------
(* What an installment earns.                                               *)

(* New lines of installment i: one at most for each role.                   *)
NewOnes(new, i, rule, roles, amount) ==
  /\ new \in Seq(FeeRows)
  /\ \A n \in 1 .. Len(new) :
       /\ new[n].inst = i /\ new[n].rule = rule /\ new[n].role \in roles
       /\ new[n].amount = amount[new[n].role] /\ IsLive(new[n])
  /\ \A n, m \in 1 .. Len(new) : n # m => new[n].role # new[m].role

LEMMA NewLinesAre ==
  ASSUME NEW ls, NEW i \in Slots, NEW rule \in {"v1", "v2"}, NEW roles \in SUBSET Roles,
         NEW amount, \A r \in roles : amount[r] \in Nat
  PROVE  /\ NewOnes(NewLines(ls, i, rule, roles, amount), i, rule, Payable(ls, i, roles, amount), amount)
         /\ Len(NewLines(ls, i, rule, roles, amount)) = 0 => Payable(ls, i, roles, amount) = {}
<1> DEFINE P == Payable(ls, i, roles, amount)
           row(r) == [inst |-> i, role |-> r, rule |-> rule, amount |-> amount[r],
                      status |-> "pending", review |-> "none"]
           S == {row(r) : r \in P}
           f == [r \in P |-> row(r)]
           new == NewLines(ls, i, rule, roles, amount)
           C == Cardinality(S)
<1>1. P \subseteq roles /\ P \subseteq Roles /\ IsFiniteSet(P)
  BY FS_Subset, RolesAreFinite DEF Payable
<1>2. IsFiniteSet(S)
  <2>1. f \in Surjection(P, S)
    BY DEF Surjection
  <2> HIDE DEF f, S, P
  <2> QED
    BY <1>1, <2>1, FS_Surjection
<1>3. C \in Nat /\ \E g \in [1 .. C -> S] : IsInjective(g)
  <2> HIDE DEF S
  <2>1. C \in Nat /\ ExistsBijection(1 .. C, S)
    BY <1>2, FS_CardinalityType
  <2>2. PICK g \in Bijection(1 .. C, S) : TRUE
    BY <2>1 DEF ExistsBijection
  <2>3. g \in [1 .. C -> S] /\ IsInjective(g)
    BY <2>2 DEF Bijection, Injection, IsInjective
  <2> QED
    BY <2>1, <2>3
<1>4. new = SetToSeq(S)
  BY DEF NewLines
<1>5. new \in [1 .. C -> S] /\ IsInjective(new)
  <2> HIDE DEF S, new
  <2> QED
    BY <1>3, <1>4 DEF SetToSeq
<1>6. S \subseteq FeeRows
  BY <1>1 DEF FeeRows
<1>7. new \in Seq(FeeRows) /\ Len(new) = C
  <2> HIDE DEF S, new
  <2>1. new \in [1 .. C -> FeeRows]
    BY <1>5, <1>6
  <2> QED
    BY <1>3, <2>1, RowsInOrder
<1>8. \A n \in 1 .. C : \E r \in P : new[n] = row(r)
  BY <1>5
<1>9. \A n \in 1 .. C :
        /\ new[n].inst = i /\ new[n].rule = rule /\ new[n].role \in P
        /\ new[n].amount = amount[new[n].role] /\ IsLive(new[n])
        /\ new[n] = row(new[n].role)
  <2> SUFFICES ASSUME NEW n \in 1 .. C
               PROVE  /\ new[n].inst = i /\ new[n].rule = rule /\ new[n].role \in P
                      /\ new[n].amount = amount[new[n].role] /\ IsLive(new[n])
                      /\ new[n] = row(new[n].role)
    OBVIOUS
  <2>1. PICK r \in P : new[n] = row(r)
    BY <1>8
  <2> HIDE DEF new, P
  <2>2. new[n].role = r
    BY <2>1
  <2> QED
    BY <2>1, <2>2 DEF IsLive
<1>10. \A n, m \in 1 .. C : n # m => new[n].role # new[m].role
  <2> HIDE DEF new, row
  <2> QED
    BY <1>5, <1>9 DEF IsInjective
<1>11. C = 0 => P = {}
  <2>1. C = 0 => S = {}
    <3> HIDE DEF S
    <3> QED
      BY <1>2, FS_EmptySet
  <2>2. S = {} => P = {}
    OBVIOUS
  <2> QED
    BY <2>1, <2>2
<1> QED
  BY <1>7, <1>9, <1>10, <1>11 DEF NewOnes

(* What keeps to the due of its rule may be added.                          *)
LEMMA LinesAdded ==
  ASSUME NEW ls, LinesOK(ls), NEW i \in Slots, NEW rule \in {"v1", "v2"}, NEW roles, NEW amount,
         NEW new, NewOnes(new, i, rule, roles, amount),
         \A n \in Live(ls) : ls[n].rule = rule,
         \A r \in roles : /\ \A n \in DOMAIN ls : ~(ls[n].inst = i /\ ls[n].role = r)
                          /\ Already(ls, r) + amount[r] <= DueOf(rule)
  PROVE  LinesOK(ls \o new) /\ Len(ls \o new) = Len(ls) + Len(new)
<1> DEFINE N == Len(ls)
           K == Len(new)
           upTo(k) == [n \in 1 .. N + k |-> IF n <= N THEN ls[n] ELSE new[n - N]]
           S == {k \in 0 .. K :
                   /\ LinesOK(upTo(k)) /\ \A n \in Live(upTo(k)) : upTo(k)[n].rule = rule
                   /\ \A r : (\A n \in 1 .. k : new[n].role # r) => Already(upTo(k), r) = Already(ls, r)}
<1>1. /\ ls \in Seq(FeeRows) /\ N \in Nat /\ \A n \in 1 .. N : ls[n] \in FeeRows
      /\ DOMAIN ls = 1 .. N /\ ls = [n \in 1 .. N |-> ls[n]]
  <2>1. ls \in Seq(FeeRows)
    BY DEF LinesOK
  <2> QED
    BY <2>1, LinesAre, LenProperties
<1>2. /\ new \in Seq(FeeRows) /\ K \in Nat /\ \A n \in 1 .. K : new[n] \in FeeRows
      /\ \A n \in 1 .. K : new[n].inst = i /\ new[n].rule = rule /\ new[n].role \in roles
                           /\ new[n].amount = amount[new[n].role] /\ IsLive(new[n])
      /\ \A n, m \in 1 .. K : n # m => new[n].role # new[m].role
  <2>1. new \in Seq(FeeRows)
    BY DEF NewOnes
  <2> QED
    BY <2>1, LinesAre DEF NewOnes
<1>3. ASSUME NEW k \in 0 .. K
      PROVE  /\ upTo(k) \in Seq(FeeRows) /\ Len(upTo(k)) = N + k /\ DOMAIN upTo(k) = 1 .. N + k
             /\ \A n \in 1 .. N : upTo(k)[n] = ls[n]
             /\ \A n \in 1 .. k : upTo(k)[N + n] = new[n]
  <2>1. \A n \in 1 .. N + k : n <= N => n \in 1 .. N
    BY <1>1
  <2>2. \A n \in 1 .. N + k : ~(n <= N) => n - N \in 1 .. K
    BY <1>1, <1>2
  <2>3. upTo(k) \in [1 .. N + k -> FeeRows]
    BY <1>1, <1>2, <2>1, <2>2
  <2>4. N + k \in Nat
    BY <1>1
  <2>5. \A n \in 1 .. N : upTo(k)[n] = ls[n]
    BY <1>1
  <2>6. \A n \in 1 .. k : upTo(k)[N + n] = new[n]
    <3> SUFFICES ASSUME NEW n \in 1 .. k PROVE upTo(k)[N + n] = new[n]
      OBVIOUS
    <3>1. N + n \in 1 .. N + k /\ ~(N + n <= N) /\ (N + n) - N = n
      BY <1>1
    <3> QED
      BY <3>1
  <2> DEFINE u == upTo(k)
  <2>7. u \in Seq(FeeRows) /\ Len(u) = N + k /\ DOMAIN u = 1 .. N + k
    <3>1. u \in [1 .. N + k -> FeeRows]
      BY <2>3
    <3> HIDE DEF u
    <3> QED
      BY <2>4, <3>1, RowsInOrder
  <2> QED
    BY <2>5, <2>6, <2>7
<1>4. 0 \in S
  <2>1. upTo(0) = ls
    <3>1. N + 0 = N /\ \A n \in 1 .. N : n <= N
      BY <1>1
    <3> QED
      BY <1>1, <3>1
  <2> HIDE DEF upTo
  <2> QED
    BY <1>2, <2>1
<1>5. ASSUME NEW k \in 1 .. K, k - 1 \in S PROVE k \in S
  <2> DEFINE us == upTo(k - 1)
             vs == upTo(k)
             l == new[k]
  <2>1. k - 1 \in 0 .. K /\ k \in 0 .. K /\ N + (k - 1) + 1 = N + k
        /\ \A n \in 1 .. N + (k - 1) : n \in 1 .. N \/ \E m \in 1 .. k - 1 : n = N + m
    <3>1. k - 1 \in 0 .. K /\ k \in 0 .. K /\ N + (k - 1) + 1 = N + k
      BY <1>1, <1>2
    <3>2. ASSUME NEW n \in 1 .. N + (k - 1), n \notin 1 .. N PROVE \E m \in 1 .. k - 1 : n = N + m
      <4>1. n - N \in 1 .. k - 1 /\ n = N + (n - N)
        BY <1>1, <1>2, <3>2
      <4> QED
        BY <4>1
    <3> QED
      BY <3>1, <3>2
  <2>2. /\ LinesOK(us) /\ \A n \in Live(us) : us[n].rule = rule
        /\ \A r : (\A n \in 1 .. k - 1 : new[n].role # r) => Already(us, r) = Already(ls, r)
    BY <1>5
  <2>3. /\ us \in Seq(FeeRows) /\ Len(us) = N + (k - 1) /\ DOMAIN us = 1 .. N + (k - 1)
        /\ \A n \in 1 .. N : us[n] = ls[n]
        /\ \A n \in 1 .. k - 1 : us[N + n] = new[n]
    BY <1>3, <2>1
  <2>4. /\ vs \in Seq(FeeRows) /\ Len(vs) = N + k
        /\ \A n \in 1 .. N : vs[n] = ls[n]
        /\ \A n \in 1 .. k : vs[N + n] = new[n]
    BY <1>3, <2>1
  <2>5. /\ l \in FeeRows /\ l.inst = i /\ l.rule = rule /\ l.role \in roles
        /\ l.amount = amount[l.role] /\ IsLive(l)
    BY <1>2
  <2>6. \A n \in 1 .. k - 1 : new[n].role # l.role
    <3>1. \A n \in 1 .. k - 1 : n \in 1 .. K /\ n # k
      BY <1>2
    <3> QED
      BY <1>2, <3>1
  <2> HIDE DEF us, vs, l, upTo, S
  <2>7. Behind(us, l, vs)
    <3>1. \A n \in 1 .. N + (k - 1) : vs[n] = us[n]
      <4>1. \A m \in 1 .. k - 1 : m \in 1 .. k
        BY <1>2
      <4>2. \A m \in 1 .. k - 1 : vs[N + m] = us[N + m]
        BY <2>3, <2>4, <4>1
      <4>3. \A n \in 1 .. N : vs[n] = us[n]
        BY <2>3, <2>4
      <4> QED
        BY <2>1, <4>2, <4>3
    <3>2. vs[N + k] = l
      BY <2>4 DEF l
    <3> QED
      BY <2>1, <2>3, <2>4, <3>1, <3>2 DEF Behind
  <2>8. Automatic(l)
    BY <2>5 DEF Automatic, ByHand, Slots
  <2>9. Already(us, l.role) + l.amount <= DueOf(l.rule)
    BY <2>2, <2>5, <2>6
  <2>10. \A n \in DOMAIN us : ~(us[n].inst = l.inst /\ us[n].role = l.role)
    <3>1. \A n \in 1 .. N : ~(us[n].inst = l.inst /\ us[n].role = l.role)
      BY <1>1, <2>3, <2>5
    <3>2. \A m \in 1 .. k - 1 : ~(us[N + m].inst = l.inst /\ us[N + m].role = l.role)
      BY <2>3, <2>6
    <3>3. \A n \in 1 .. N + (k - 1) : ~(us[n].inst = l.inst /\ us[n].role = l.role)
      BY <2>1, <3>1, <3>2
    <3> QED
      BY <2>3, <3>3
  <2>11. \A n \in Live(us) : us[n].rule = l.rule
    BY <2>2, <2>5
  <2>12. /\ LinesOK(vs) /\ \A n \in Live(vs) : vs[n].rule = rule
         /\ \A r : r # l.role => Already(vs, r) = Already(us, r)
    BY <2>2, <2>5, <2>7, <2>8, <2>9, <2>10, <2>11, LineAdded
  <2>13. \A r : (\A n \in 1 .. k : new[n].role # r) => Already(vs, r) = Already(ls, r)
    <3>1. k \in 1 .. k /\ \A n \in 1 .. k - 1 : n \in 1 .. k
      BY <1>2
    <3> QED
      BY <2>2, <2>12, <3>1 DEF l
  <2> QED
    BY <2>1, <2>12, <2>13 DEF S, vs
<1>6. 0 .. K \subseteq S
  <2> HIDE DEF S
  <2> QED
    BY <1>2, <1>4, <1>5, CountingUp
<1>7. LinesOK(upTo(K))
  <2>1. K \in S
    <3> HIDE DEF S
    <3> QED
      BY <1>2, <1>6
  <2> HIDE DEF upTo
  <2> QED
    BY <2>1
<1>8. ls \o new = upTo(K)
  <2> DEFINE u == upTo(K)
             v == ls \o new
  <2>1. /\ v \in Seq(FeeRows) /\ Len(v) = N + K
        /\ \A n \in 1 .. N + K : v[n] = IF n <= N THEN ls[n] ELSE new[n - N]
    BY <1>1, <1>2, ConcatProperties
  <2>2. u \in Seq(FeeRows) /\ Len(u) = N + K
    BY <1>2, <1>3
  <2>3. \A n \in 1 .. N + K : v[n] = u[n]
    BY <2>1
  <2> HIDE DEF u, v
  <2>4. v = u
    BY <2>1, <2>2, <2>3, SeqEqual
  <2> QED
    BY <2>4 DEF u, v
<1>9. Len(ls \o new) = N + K
  BY <1>1, <1>2, ConcatProperties
<1> QED
  BY <1>7, <1>8, <1>9
LEMMA SharesFit ==
  ASSUME NEW total \in Nat, NEW already \in Nat
  PROVE  /\ Missing(total, already) \in Nat /\ Share(total, already) \in Nat
         /\ Share(total, already) <= Missing(total, already)
<1>1. Missing(total, already) \in Nat
  BY DEF Missing
<1>2. 2 * total + EntryTotal \in Nat /\ 2 * EntryTotal \in Nat /\ 2 * EntryTotal > 0
  BY EntryOfSchedule
<1>3. \A a, b \in Nat : b > 0 => a \div b \in Nat
  OBVIOUS
<1>4. (2 * total + EntryTotal) \div (2 * EntryTotal) \in Nat
  BY <1>2, <1>3
<1> QED
  BY <1>1, <1>4 DEF Share

LEMMA NothingAdded ==
  ASSUME NEW ls, LinesOK(ls)
  PROVE  ls \o <<>> = ls
<1>1. ls \in Seq(FeeRows)
  BY DEF LinesOK
<1> QED
  BY <1>1, ConcatEmptySeq

(* Lines of the rule of those in force, none of more than is missing.       *)
LEMMA RuleKept ==
  ASSUME NEW ls, LinesOK(ls), NEW i \in Slots, NEW rule \in {"v1", "v2"}, NEW roles \in SUBSET Roles,
         NEW amount, \A n \in Live(ls) : ls[n].rule = rule,
         \A r \in roles : amount[r] \in Nat /\ amount[r] <= Missing(DueOf(rule), Already(ls, r))
  PROVE  /\ LinesOK(ls \o NewLines(ls, i, rule, roles, amount))
         /\ Len(ls) <= Len(ls \o NewLines(ls, i, rule, roles, amount))
<1> DEFINE new == NewLines(ls, i, rule, roles, amount)
           P == Payable(ls, i, roles, amount)
<1>1. NewOnes(new, i, rule, P, amount)
  BY NewLinesAre
<1>2. ls \in Seq(FeeRows) /\ new \in Seq(FeeRows)
  BY <1>1 DEF LinesOK, NewOnes
<1>3. Len(ls) \in Nat /\ Len(new) \in Nat
  BY <1>2, LinesAre
<1>4. ASSUME NEW r \in P
      PROVE  /\ \A n \in DOMAIN ls : ~(ls[n].inst = i /\ ls[n].role = r)
             /\ Already(ls, r) + amount[r] <= DueOf(rule)
  <2>1. /\ r \in roles /\ \A n \in DOMAIN ls : ~(ls[n].inst = i /\ ls[n].role = r)
        /\ ~(amount[r] <= 0 /\ Already(ls, r) > 0)
    BY <1>4 DEF Payable
  <2>2. Already(ls, r) \in Nat /\ DueOf(rule) \in Nat
    BY <1>2, AlreadyIs, TotalsAreNat DEF DueOf
  <2>3. amount[r] \in Nat /\ amount[r] <= Missing(DueOf(rule), Already(ls, r))
    BY <2>1
  <2>4. \A a, d, m \in Nat : ~(m <= 0 /\ a > 0) /\ m <= Missing(d, a) => a + m <= d
    BY DEF Missing
  <2> QED
    BY <2>1, <2>2, <2>3, <2>4
<1> HIDE DEF new, P
<1>5. LinesOK(ls \o new) /\ Len(ls \o new) = Len(ls) + Len(new)
  BY <1>1, <1>4, LinesAdded
<1> QED
  BY <1>3, <1>5 DEF new

LEMMA RuleOf ==
  ASSUME NEW ls, LinesOK(ls)
  PROVE  \A n \in Live(ls) : ls[n].rule = IF SecondRules(ls) THEN "v2" ELSE "v1"
<1> SUFFICES ASSUME NEW n \in Live(ls) PROVE ls[n].rule = IF SecondRules(ls) THEN "v2" ELSE "v1"
  OBVIOUS
<1>1. ls \in Seq(FeeRows)
  BY DEF LinesOK
<1>2. Live(ls) \subseteq Nat /\ Live(ls) # {}
  BY <1>1, LinesAre
<1>3. \E x \in Live(ls) : \A y \in Live(ls) : x <= y
  BY <1>2, LeastExists
<1>4. Min(Live(ls)) \in Live(ls)
  BY <1>3 DEF Min
<1> DEFINE m == Min(Live(ls))
<1>5. ls[n].rule = ls[m].rule /\ ls[m].rule \in {"v1", "v2"}
  BY <1>4 DEF LinesOK, Live
<1>6. SecondRules(ls) <=> ls[m].rule = "v2"
  BY <1>2 DEF SecondRules
<1> QED
  BY <1>5, <1>6

LEMMA EarnedFits ==
  ASSUME NEW ls, LinesOK(ls), NEW s, NEW i \in Slots
  PROVE  /\ LinesOK(ls \o Earned(ls, s, i).lines) /\ Len(ls) <= Len(ls \o Earned(ls, s, i).lines)
         /\ Earned(ls, s, i).told \subseteq Reasons
<1> DEFINE e == Earned(ls, s, i)
<1>1. ls \in Seq(FeeRows)
  BY DEF LinesOK
<1>2. Len(ls) \in Nat /\ \A r : Already(ls, r) \in Nat
  BY <1>1, LinesAre, AlreadyIs
<1>3. \/ e.lines = <<>> /\ e.told \in {{}, {"skipped"}, {"held"}}
      \/ e.lines = FirstRules(ls, i) /\ e.told = {} /\ ~SecondRules(ls)
      \/ e.lines = SecondRulesLines(ls, i) /\ e.told = {} /\ SecondRules(ls)
  BY DEF Earned
<1>4. CASE e.lines = <<>> /\ e.told \in {{}, {"skipped"}, {"held"}}
  BY <1>2, <1>4, NothingAdded DEF Reasons
<1>5. CASE e.lines = FirstRules(ls, i) /\ e.told = {} /\ ~SecondRules(ls)
  <2> DEFINE amount == [r \in V1Roles |-> Share(V1Total, Already(ls, r))]
             roles == IF rated THEN V1Roles ELSE {}
  <2>1. \A n \in Live(ls) : ls[n].rule = "v1"
    BY <1>5, RuleOf
  <2>2. \A r \in roles : amount[r] \in Nat /\ amount[r] <= Missing(DueOf("v1"), Already(ls, r))
    BY <1>2, TotalsAreNat, SharesFit DEF DueOf
  <2>3. roles \in SUBSET Roles
    BY DEF Roles
  <2>4. FirstRules(ls, i) = NewLines(ls, i, "v1", roles, amount)
    BY DEF FirstRules
  <2> HIDE DEF amount, roles
  <2>5. LinesOK(ls \o FirstRules(ls, i)) /\ Len(ls) <= Len(ls \o FirstRules(ls, i))
    BY <2>1, <2>2, <2>3, <2>4, RuleKept
  <2> HIDE DEF e
  <2>6. LinesOK(ls \o e.lines) /\ Len(ls) <= Len(ls \o e.lines) /\ e.told \subseteq Reasons
    BY <1>5, <2>5
  <2> QED
    BY <2>6 DEF e
<1>6. CASE e.lines = SecondRulesLines(ls, i) /\ e.told = {} /\ SecondRules(ls)
  <2> DEFINE amount == [r \in V2Roles |-> IF payout = "per_installment"
                                          THEN Share(V2Total, Already(ls, r))
                                          ELSE Missing(V2Total, Already(ls, r))]
             roles == V2Roles
  <2>1. \A n \in Live(ls) : ls[n].rule = "v2"
    BY <1>6, RuleOf
  <2>2. \A r \in roles : amount[r] \in Nat /\ amount[r] <= Missing(DueOf("v2"), Already(ls, r))
    <3>1. DueOf("v2") = V2Total
      BY DEF DueOf
    <3>2. ASSUME NEW r \in roles
          PROVE  /\ Missing(V2Total, Already(ls, r)) \in Nat /\ Share(V2Total, Already(ls, r)) \in Nat
                 /\ Share(V2Total, Already(ls, r)) <= Missing(V2Total, Already(ls, r))
      BY <1>2, TotalsAreNat, SharesFit
    <3> QED
      BY <3>1, <3>2
  <2>3. roles \in SUBSET Roles
    BY DEF Roles
  <2>4. SecondRulesLines(ls, i) = NewLines(ls, i, "v2", roles, amount)
    BY DEF SecondRulesLines
  <2> HIDE DEF amount, roles
  <2>5. LinesOK(ls \o SecondRulesLines(ls, i)) /\ Len(ls) <= Len(ls \o SecondRulesLines(ls, i))
    BY <2>1, <2>2, <2>3, <2>4, RuleKept
  <2> HIDE DEF e
  <2>6. LinesOK(ls \o e.lines) /\ Len(ls) <= Len(ls \o e.lines) /\ e.told \subseteq Reasons
    BY <1>6, <2>5
  <2> QED
    BY <2>6 DEF e
<1> QED
  BY <1>3, <1>4, <1>5, <1>6
(* What is evaluated again, installment after installment.                  *)
LastSlot == Schedule + MaxAgreements

Runs(S, t) ==
  /\ t[0] = [lines |-> line, told |-> trace]
  /\ \A i \in 1 .. LastSlot :
       t[i] = IF i \notin S THEN t[i - 1]
              ELSE [lines |-> t[i - 1].lines \o Earned(t[i - 1].lines, AsOf(i), i).lines,
                    told |-> [t[i - 1].told EXCEPT ![i] = @ \cup Earned(t[i - 1].lines, AsOf(i), i).told]]
  /\ \A i \in 0 .. LastSlot :
       LinesOK(t[i].lines) /\ Len(line) <= Len(t[i].lines) /\ t[i].told \in [Slots -> SUBSET Reasons]

LEMMA ReevaluatedRuns ==
  ASSUME LinesOK(line), NEW S, trace \in [Slots -> SUBSET Reasons]
  PROVE  \E t : Runs(S, t) /\ Reevaluated(S) = t[LastSlot]
<1> DEFINE N == LastSlot
           next(x, i) == [lines |-> x.lines \o Earned(x.lines, AsOf(i), i).lines,
                          told |-> [x.told EXCEPT ![i] = @ \cup Earned(x.lines, AsOf(i), i).told]]
           zero == [lines |-> line, told |-> trace]
           P(f) == f = [i \in 0 .. N |-> IF i = 0 THEN zero
                                        ELSE IF i \notin S THEN f[i - 1] ELSE next(f[i - 1], i)]
           D == {x \in [lines : Seq(FeeRows), told : [Slots -> SUBSET Reasons]] :
                   LinesOK(x.lines) /\ Len(line) <= Len(x.lines)}
           step == [i \in 1 .. N |-> [x \in D |-> IF i \notin S THEN x ELSE next(x, i)]]
           t == CHOOSE f : P(f)
<1>0. N \in Nat /\ Slots = 1 .. N
  BY EntryOfSchedule, BoundsOfCommissions DEF Slots, LastSlot
<1>1. line \in Seq(FeeRows) /\ Len(line) \in Nat
  <2>1. line \in Seq(FeeRows)
    BY DEF LinesOK
  <2> QED
    BY <2>1, LinesAre
<1>2. zero \in D
  <2>1. Len(line) <= Len(line)
    BY <1>1
  <2> QED
    BY <1>1, <2>1
<1>3. ASSUME NEW i \in 1 .. N, NEW x \in D PROVE next(x, i) \in D
  <2> DEFINE e == Earned(x.lines, AsOf(i), i)
             ls == x.lines
             ms == ls \o e.lines
  <2>1. LinesOK(ls) /\ ls \in Seq(FeeRows) /\ Len(line) <= Len(ls)
    OBVIOUS
  <2>2. LinesOK(ms) /\ Len(ls) <= Len(ms) /\ e.told \subseteq Reasons
    BY <1>0, <2>1, EarnedFits
  <2>3. ms \in Seq(FeeRows)
    BY <2>2 DEF LinesOK
  <2>4. Len(line) <= Len(ms)
    <3>1. Len(line) \in Nat /\ Len(ls) \in Nat /\ Len(ms) \in Nat
      BY <1>1, <2>1, <2>3, LinesAre
    <3> QED
      BY <2>1, <2>2, <3>1
  <2>5. [x.told EXCEPT ![i] = @ \cup e.told] \in [Slots -> SUBSET Reasons]
    BY <1>0, <2>2
  <2> HIDE DEF e, ms
  <2>6. [lines |-> ms, told |-> [x.told EXCEPT ![i] = @ \cup e.told]] \in D
    BY <2>2, <2>3, <2>4, <2>5
  <2> QED
    BY <2>6 DEF e, ms
<1>4. PICK g \in [0 .. N -> D] : g[0] = zero /\ \A i \in 1 .. N : g[i] = step[i][g[i - 1]]
  <2>1. step \in [1 .. N -> [D -> D]]
    <3> HIDE DEF D, next
    <3> QED
      BY <1>3
  <2>2. Recurs(N, D, zero, step)
    <3> HIDE DEF D, zero, step, N
    <3> QED
      BY <1>0, <1>2, <2>1, ByRecursion
  <2> HIDE DEF D, zero, step, N
  <2> QED
    BY <2>2 DEF Recurs
<1>5. ASSUME NEW i \in 1 .. N
      PROVE  g[i] = IF i \notin S THEN g[i - 1] ELSE next(g[i - 1], i)
  <2>1. i - 1 \in 0 .. N
    BY <1>0
  <2>2. g[i - 1] \in D
    BY <2>1
  <2> HIDE DEF D, next
  <2> QED
    BY <1>4, <2>2
<1>6. P(g)
  <2> HIDE DEF D, next, zero, N
  <2>1. \A i \in 0 .. N : i = 0 \/ i \in 1 .. N
    BY <1>0
  <2>2. \A i \in 1 .. N : i # 0
    BY <1>0
  <2> QED
    BY <1>4, <1>5, <2>1, <2>2
<1>7. P(t)
  <2> HIDE DEF P
  <2> QED
    BY <1>6
<1>8. Reevaluated(S) = t[N]
  BY DEF Reevaluated, LastSlot
<1> HIDE DEF t
<1>9. /\ t[0] = zero
      /\ \A i \in 1 .. N : t[i] = IF i \notin S THEN t[i - 1] ELSE next(t[i - 1], i)
  <2> HIDE DEF next, zero, N
  <2>1. 0 \in 0 .. N /\ \A i \in 1 .. N : i # 0 /\ i \in 0 .. N
    BY <1>0
  <2> QED
    BY <1>7, <2>1
<1>10. \A i \in 0 .. N : t[i] \in D
  <2> DEFINE K == {i \in 0 .. N : t[i] \in D}
  <2>1. 0 \in K
    <3> HIDE DEF D, zero, N
    <3> QED
      BY <1>0, <1>2, <1>9
  <2>2. ASSUME NEW i \in 1 .. N, i - 1 \in K PROVE i \in K
    <3>1. t[i - 1] \in D /\ i \in 0 .. N
      BY <1>0, <2>2
    <3> HIDE DEF D, next
    <3>2. next(t[i - 1], i) \in D
      BY <1>3, <3>1
    <3>3. t[i] \in D
      BY <1>9, <3>1, <3>2
    <3> QED
      BY <3>1, <3>3
  <2>3. 0 .. N \subseteq K
    <3> HIDE DEF K, N
    <3> QED
      BY <1>0, <2>1, <2>2, CountingUp
  <2> HIDE DEF D, N
  <2> QED
    BY <2>3
<1>11. Runs(S, t)
  <2>1. \A i \in 0 .. N : LinesOK(t[i].lines) /\ Len(line) <= Len(t[i].lines)
                          /\ t[i].told \in [Slots -> SUBSET Reasons]
    BY <1>10
  <2> QED
    BY <1>9, <2>1 DEF Runs
<1> HIDE DEF N
<1> QED
  BY <1>8, <1>11 DEF N

LEMMA ReevaluatedFits ==
  ASSUME LinesOK(line), NEW S, trace \in [Slots -> SUBSET Reasons]
  PROVE  /\ LinesOK(Reevaluated(S).lines) /\ Len(line) <= Len(Reevaluated(S).lines)
         /\ Reevaluated(S).told \in [Slots -> SUBSET Reasons]
<1>1. PICK t : Runs(S, t) /\ Reevaluated(S) = t[LastSlot]
  BY ReevaluatedRuns
<1>2. LastSlot \in 0 .. LastSlot
  BY EntryOfSchedule, BoundsOfCommissions DEF LastSlot
<1> QED
  BY <1>1, <1>2 DEF Runs

-----------------------------------------------------------------------------
(* The invariant.                                                           *)

(* The agreements made so far are the installments of the schedule after it. *)
AgreementsOK ==
  /\ agreed \in Seq([original : Slots, due : Dates, by : Slots]) /\ Len(agreed) <= MaxAgreements
  /\ \A i \in Slots : /\ inst[i].status = "none" <=> i > Schedule + Len(agreed)
                      /\ inst[i].status \in {"none", "open"} => inst[i].paidAt = 0

(* A decision is of a line that was not decided when it was read.           *)
DecisionsOK ==
  /\ deciding \in [Clerks -> [row : Nat \cup {Nothing}, seen : {"pending", "approved"},
                              to : {"pending", "approved", "paid", "cancelled"}]]
  /\ \A k \in Clerks : deciding[k] # NoDecision => deciding[k].row \in DOMAIN line

FeesInv == FeesTypeOK /\ LinesOK(line) /\ AgreementsOK /\ DecisionsOK /\ CancelledOwesNothing

LEMMA FeesStart == FeesInit => FeesInv
<1> SUFFICES ASSUME FeesInit PROVE FeesInv
  OBVIOUS
<1> USE DEF FeesInit
<1>1. Schedule \in Nat /\ MaxAgreements \in Nat
  BY EntryOfSchedule, BoundsOfCommissions
<1>2. /\ \A i \in Slots : i \in Nat /\ i >= 1
      /\ <<>> \in Seq(FeeRows) /\ Len(<<>>) = 0 /\ DOMAIN <<>> = {}
      /\ <<>> \in Seq([original : Slots, due : Dates, by : Slots])
  BY <1>1 DEF Slots
<1>3. /\ inst \in [Slots -> [status : {"none", "open", "paid", "renegotiated", "cancelled"},
                             due : {0} \cup 1 .. Schedule \cup Dates, paidAt : 0 .. Schedule + MaxAgreements]]
      /\ \A i \in Slots : /\ inst[i].status = "none" <=> i > Schedule + 0
                          /\ inst[i].paidAt = 0
  <2>1. ASSUME NEW i \in Slots
        PROVE  /\ (IF i <= Schedule THEN OpenInst(i) ELSE NoInst) \in
                    [status : {"none", "open", "paid", "renegotiated", "cancelled"},
                     due : {0} \cup 1 .. Schedule \cup Dates, paidAt : 0 .. Schedule + MaxAgreements]
               /\ inst[i].status = "none" <=> i > Schedule + 0
               /\ inst[i].paidAt = 0
    <3>1. inst[i] = IF i <= Schedule THEN OpenInst(i) ELSE NoInst
      OBVIOUS
    <3>2. i <= Schedule => i \in 1 .. Schedule
      BY <1>1, <1>2
    <3>3. 0 \in 0 .. Schedule + MaxAgreements
      BY <1>1
    <3>4. /\ NoInst = [status |-> "none", due |-> 0, paidAt |-> 0]
          /\ OpenInst(i) = [status |-> "open", due |-> i, paidAt |-> 0]
      BY DEF OpenInst, NoInst
    <3>5. CASE i <= Schedule
      BY <1>1, <1>2, <3>1, <3>2, <3>3, <3>4, <3>5
    <3>6. CASE ~(i <= Schedule)
      BY <1>1, <1>2, <3>1, <3>3, <3>4, <3>6
    <3> QED
      BY <3>5, <3>6
  <2> QED
    BY <2>1
<1>4. FeesTypeOK
  BY <1>2, <1>3 DEF FeesTypeOK, Reasons
<1>5. LinesOK(line)
  BY <1>2 DEF LinesOK, Live
<1>6. AgreementsOK
  BY <1>1, <1>2, <1>3 DEF AgreementsOK
<1>7. DecisionsOK
  BY DEF DecisionsOK, NoDecision
<1>8. CancelledOwesNothing
  BY DEF CancelledOwesNothing
<1> QED
  BY <1>4, <1>5, <1>6, <1>7, <1>8 DEF FeesInv

(* Lines that come are not those of a cancelled contract, and leave those   *)
(* there were where they are.                                               *)
LEMMA LinesCome ==
  ASSUME FeesInv, LinesOK(line'), Len(line) <= Len(line'),
         UNCHANGED <<ruleVars, deciding>>, cstatus' # "cancelled",
         validated' \in BOOLEAN, cstatus' \in {"forming", "active", "overdue", "cancelled"},
         trace' \in [Slots -> SUBSET Reasons],
         inst' \in [Slots -> [status : {"none", "open", "paid", "renegotiated", "cancelled"},
                    due : {0} \cup 1 .. Schedule \cup Dates, paidAt : 0 .. Schedule + MaxAgreements]],
         AgreementsOK'
  PROVE  FeesInv'
<1>1. line \in Seq(FeeRows) /\ line' \in Seq(FeeRows)
  BY DEF LinesOK, FeesInv
<1>2. DOMAIN line \subseteq DOMAIN line' /\ \A n \in DOMAIN line' : line'[n] \in FeeRows
  <2>1. /\ Len(line) \in Nat /\ DOMAIN line = 1 .. Len(line)
        /\ Len(line') \in Nat /\ DOMAIN line' = 1 .. Len(line')
        /\ \A n \in 1 .. Len(line') : line'[n] \in FeeRows
    BY <1>1, LinesAre
  <2> QED
    BY <2>1
<1>3. DecisionsOK'
  BY <1>2 DEF FeesInv, DecisionsOK
<1>4. FeesTypeOK'
  BY <1>2 DEF FeesInv, FeesTypeOK, DecisionsOK, FeeRows, ruleVars
<1>5. CancelledOwesNothing'
  BY DEF CancelledOwesNothing
<1>6. (LinesOK(line))'
  OBVIOUS
<1> QED
  BY <1>3, <1>4, <1>5, <1>6 DEF FeesInv

Installment == [status : {"none", "open", "paid", "renegotiated", "cancelled"},
                due : {0} \cup 1 .. Schedule \cup Dates, paidAt : 0 .. Schedule + MaxAgreements]

LEMMA PayKeeps ==
  ASSUME FeesInv, NEW i \in Slots, Pay(i)
  PROVE  FeesInv'
<1> DEFINE Paid == {j \in Slots : inst[j].paidAt > 0}
           e == Earned(line, inst', i)
           at == 1 + Cardinality(Paid)
<1>1. /\ inst[i].status = "open"
      /\ inst' = [inst EXCEPT ![i].status = "paid", ![i].paidAt = at]
      /\ line' = IF GateOpen THEN line \o e.lines ELSE line
      /\ trace' = [trace EXCEPT ![i] = @ \cup IF GateOpen THEN e.told ELSE {Blocked}]
      /\ UNCHANGED <<cstatus, validated, agreed, ruleVars, deciding, turns>>
  BY DEF Pay
<1>2. /\ inst \in [Slots -> Installment] /\ trace \in [Slots -> SUBSET Reasons]
      /\ validated \in BOOLEAN /\ cstatus \in {"forming", "active", "overdue", "cancelled"}
      /\ LinesOK(line) /\ AgreementsOK
  BY DEF FeesInv, FeesTypeOK, Installment
<1>3. at \in 0 .. Schedule + MaxAgreements
  <2> DEFINE N == Schedule + MaxAgreements
             c == Cardinality(Paid)
             d == Cardinality(Slots \ {i})
  <2>1. N \in Nat /\ Slots = 1 .. N
    BY EntryOfSchedule, BoundsOfCommissions DEF Slots
  <2>2. IsFiniteSet(Slots) /\ Cardinality(Slots) = N
    BY <2>1, FS_Interval
  <2>3. IsFiniteSet(Slots \ {i}) /\ d = N - 1
    BY <2>2, FS_RemoveElement
  <2>4. inst[i].paidAt = 0
    BY <1>1, <1>2 DEF AgreementsOK
  <2>5. Paid \subseteq Slots \ {i}
    BY <2>4
  <2>6. c <= d /\ IsFiniteSet(Paid)
    <3> HIDE DEF Paid
    <3> QED
      BY <2>3, <2>5, FS_Subset
  <2>7. c \in Nat
    BY <2>6, FS_CardinalityType
  <2> HIDE DEF N, c, d
  <2>8. 1 + c \in 0 .. N
    BY <2>1, <2>3, <2>6, <2>7
  <2> QED
    BY <2>8 DEF N, c
<1> HIDE DEF at, e
<1>4. inst' \in [Slots -> Installment]
  <2> DEFINE half == [inst EXCEPT ![i].status = "paid"]
  <2>1. half \in [Slots -> Installment]
    BY <1>2 DEF Installment
  <2>2. inst' = [half EXCEPT ![i].paidAt = at]
    BY <1>1
  <2> HIDE DEF half
  <2> QED
    BY <1>3, <2>1, <2>2 DEF Installment
<1>5. AgreementsOK'
  <2>1. inst'[i].status = "paid"
    <3> DEFINE half == [inst EXCEPT ![i].status = "paid"]
    <3>1. half \in [Slots -> Installment] /\ half[i].status = "paid"
      BY <1>2 DEF Installment
    <3>2. inst' = [half EXCEPT ![i].paidAt = at]
      BY <1>1
    <3> HIDE DEF half
    <3> QED
      BY <3>1, <3>2 DEF Installment
  <2>2. \A j \in Slots : j # i => inst'[j] = inst[j]
    BY <1>1, <1>2
  <2> QED
    BY <1>1, <1>2, <2>1, <2>2 DEF AgreementsOK
<1>6. CASE GateOpen
  <2>1. LinesOK(line \o e.lines) /\ Len(line) <= Len(line \o e.lines) /\ e.told \subseteq Reasons
    BY <1>2, EarnedFits DEF e
  <2>2. line' = line \o e.lines /\ trace' = [trace EXCEPT ![i] = @ \cup e.told]
    BY <1>1, <1>6
  <2>3. trace' \in [Slots -> SUBSET Reasons]
    BY <1>2, <2>1, <2>2
  <2>4. LinesOK(line') /\ Len(line) <= Len(line')
    BY <2>1, <2>2
  <2>5. cstatus' # "cancelled" /\ validated' \in BOOLEAN /\ cstatus' \in {"forming", "active", "overdue", "cancelled"}
    BY <1>1, <1>2, <1>6 DEF GateOpen
  <2> QED
    BY <1>1, <1>4, <1>5, <2>3, <2>4, <2>5, LinesCome DEF Installment
<1>7. CASE ~GateOpen
  <2>1. line' = line /\ trace' = [trace EXCEPT ![i] = @ \cup {Blocked}]
    BY <1>1, <1>7
  <2>2. trace' \in [Slots -> SUBSET Reasons]
    BY <1>2, <2>1 DEF Blocked, Reasons
  <2>3. FeesTypeOK'
    BY <1>1, <1>4, <2>1, <2>2 DEF FeesInv, FeesTypeOK, Installment, ruleVars
  <2>4. DecisionsOK' /\ CancelledOwesNothing'
    BY <1>1, <2>1 DEF FeesInv, DecisionsOK, CancelledOwesNothing
  <2>5. LinesOK(line')
    BY <1>2, <2>1
  <2> QED
    BY <1>5, <2>3, <2>4, <2>5 DEF FeesInv
<1> QED
  BY <1>6, <1>7

(* The agreement takes the installment after every other.                   *)
Replaces(i, n, due) ==
  /\ n = Schedule + Len(agreed) + 1 /\ n \in Slots /\ i < n
  /\ inst[i].status = "open" /\ inst[n].status = "none"
  /\ agreed' = Append(agreed, [original |-> i, due |-> due, by |-> n])
  /\ inst'[i] = [inst[i] EXCEPT !.status = "renegotiated"]
  /\ inst'[n] = [status |-> "open", due |-> due, paidAt |-> 0]
  /\ \A j \in Slots : j # i /\ j # n => inst'[j] = inst[j]
  /\ DOMAIN inst' = Slots /\ inst' = [j \in Slots |-> inst'[j]]

LEMMA RenegotiateIs ==
  ASSUME FeesInv, NEW i \in Slots, Renegotiate(i)
  PROVE  \E due \in Dates : Replaces(i, Schedule + Len(agreed) + 1, due)
<1> DEFINE G == [original : Slots, due : Dates, by : Slots]
           n == Schedule + Len(agreed) + 1
<1>1. PICK due \in Dates :
        LET by == CHOOSE j \in Slots : inst[j].status = "none" /\ \A h \in 1 .. j - 1 : inst[h].status # "none"
        IN  /\ inst' = [inst EXCEPT ![i].status = "renegotiated", ![by] = OpenInst(due)]
            /\ agreed' = Append(agreed, [original |-> i, due |-> due, by |-> by])
  BY DEF Renegotiate
<1>2. /\ inst[i].status = "open" /\ Len(agreed) < MaxAgreements
      /\ UNCHANGED <<cstatus, validated, line, trace, ruleVars, deciding>>
  BY DEF Renegotiate
<1>3. /\ inst \in [Slots -> Installment] /\ AgreementsOK /\ agreed \in Seq(G) /\ Len(agreed) \in Nat
      /\ Schedule \in Nat /\ MaxAgreements \in Nat
  BY EntryOfSchedule, BoundsOfCommissions, LenProperties DEF FeesInv, FeesTypeOK, Installment, AgreementsOK
<1>4. /\ n \in Slots /\ inst[n].status = "none"
      /\ \A h \in 1 .. n - 1 : h \in Slots /\ inst[h].status # "none"
      /\ \A j \in Slots : j \in Nat /\ (j # n => \/ j < n
                                              \/ n \in 1 .. j - 1)
  <2>1. n \in Slots /\ \A j \in Slots : j \in Nat
    BY <1>2, <1>3 DEF Slots
  <2>2. \A h \in 1 .. n - 1 : h \in Slots /\ ~(h > Schedule + Len(agreed))
    BY <1>2, <1>3 DEF Slots
  <2>3. n > Schedule + Len(agreed)
    BY <1>3
  <2>4. \A j \in Slots : j # n => j < n \/ n \in 1 .. j - 1
    <3>1. n \in Nat /\ n >= 1
      BY <1>3
    <3> HIDE DEF n
    <3> QED
      BY <2>1, <3>1
  <2> QED
    BY <1>3, <2>1, <2>2, <2>3, <2>4 DEF AgreementsOK
<1> HIDE DEF n
<1>5. (CHOOSE j \in Slots : inst[j].status = "none" /\ \A h \in 1 .. j - 1 : inst[h].status # "none") = n
  <2> DEFINE Q(j) == inst[j].status = "none" /\ \A h \in 1 .. j - 1 : inst[h].status # "none"
  <2>1. n \in Slots /\ Q(n)
    BY <1>4
  <2>2. ASSUME NEW j \in Slots, Q(j) PROVE j = n
    <3>1. CASE j < n
      <4>1. j \in 1 .. n - 1
        BY <1>3, <1>4, <3>1 DEF Slots, n
      <4> QED
        BY <1>4, <2>2, <4>1
    <3>2. CASE n \in 1 .. j - 1
      BY <1>4, <2>2, <3>2
    <3> QED
      BY <1>4, <3>1, <3>2
  <2> HIDE DEF Q
  <2>3. (CHOOSE j \in Slots : Q(j)) = n
    BY <2>1, <2>2
  <2> QED
    BY <2>3 DEF Q
<1>6. /\ inst' = [inst EXCEPT ![i].status = "renegotiated", ![n] = OpenInst(due)]
      /\ agreed' = Append(agreed, [original |-> i, due |-> due, by |-> n])
  BY <1>1, <1>5
<1>7. i # n
  BY <1>2, <1>4
<1>8. /\ inst'[i] = [inst[i] EXCEPT !.status = "renegotiated"]
      /\ inst'[n] = [status |-> "open", due |-> due, paidAt |-> 0]
      /\ \A j \in Slots : j # i /\ j # n => inst'[j] = inst[j]
      /\ DOMAIN inst' = Slots /\ inst' = [j \in Slots |-> inst'[j]]
  <2>1. OpenInst(due) = [status |-> "open", due |-> due, paidAt |-> 0]
    BY DEF OpenInst
  <2> QED
    BY <1>3, <1>4, <1>6, <1>7, <2>1
<1>9. i < n
  BY <1>2, <1>3, <1>4 DEF AgreementsOK, n
<1> QED
  BY <1>2, <1>4, <1>6, <1>8, <1>9 DEF Replaces, n

LEMMA RenegotiateKeeps ==
  ASSUME FeesInv, NEW i \in Slots, Renegotiate(i)
  PROVE  FeesInv'
<1> DEFINE G == [original : Slots, due : Dates, by : Slots]
           n == Schedule + Len(agreed) + 1
<1>1. PICK due \in Dates : Replaces(i, n, due)
  BY RenegotiateIs
<1>2. /\ inst[i].status = "open" /\ Len(agreed) < MaxAgreements
      /\ UNCHANGED <<cstatus, validated, line, trace, ruleVars, deciding>>
  BY DEF Renegotiate
<1>3. /\ inst \in [Slots -> Installment] /\ AgreementsOK /\ agreed \in Seq(G) /\ Len(agreed) \in Nat
      /\ Schedule \in Nat /\ MaxAgreements \in Nat
  BY EntryOfSchedule, BoundsOfCommissions, LenProperties DEF FeesInv, FeesTypeOK, Installment, AgreementsOK
<1>4. n \in Slots /\ n = Schedule + Len(agreed) + 1 /\ \A j \in Slots : j \in Nat
  BY <1>1, <1>3 DEF Replaces, Slots
<1> HIDE DEF n
<1>6. agreed' = Append(agreed, [original |-> i, due |-> due, by |-> n])
  BY <1>1 DEF Replaces
<1>8. /\ inst'[i] = [inst[i] EXCEPT !.status = "renegotiated"]
      /\ inst'[n] = [status |-> "open", due |-> due, paidAt |-> 0]
      /\ \A j \in Slots : j # i /\ j # n => inst'[j] = inst[j]
      /\ DOMAIN inst' = Slots /\ inst' = [j \in Slots |-> inst'[j]]
      /\ i # n
  BY <1>1 DEF Replaces, Slots
<1>9. inst' \in [Slots -> Installment]
  <2>1. inst[i] \in Installment /\ 0 \in 0 .. Schedule + MaxAgreements
    BY <1>3
  <2>2. inst'[i] \in Installment /\ inst'[n] \in Installment
    BY <1>8, <2>1 DEF Installment
  <2>3. \A j \in Slots : inst'[j] \in Installment
    BY <1>3, <1>8, <2>2
  <2> QED
    BY <1>8, <2>3
<1>10. agreed' \in Seq(G) /\ Len(agreed') = Len(agreed) + 1
  <2>1. [original |-> i, due |-> due, by |-> n] \in G
    BY <1>4
  <2> QED
    BY <1>3, <1>6, <2>1, AppendProperties
<1>11. AgreementsOK'
  <2>1. ASSUME NEW j \in Slots
        PROVE  /\ inst'[j].status = "none" <=> j > Schedule + Len(agreed')
               /\ inst'[j].status \in {"none", "open"} => inst'[j].paidAt = 0
    <3>1. CASE j = i
      <4>1. inst'[j].status = "renegotiated"
        BY <1>3, <1>8, <3>1 DEF Installment
      <4>2. ~(j > Schedule + Len(agreed))
        BY <1>2, <1>3, <3>1 DEF AgreementsOK
      <4> QED
        BY <1>3, <1>4, <1>10, <4>1, <4>2
    <3>2. CASE j = n
      BY <1>3, <1>4, <1>8, <1>10, <3>2
    <3>3. CASE j # i /\ j # n
      <4>1. inst'[j] = inst[j]
        BY <1>8, <3>3
      <4>2. j > Schedule + Len(agreed) <=> j > Schedule + (Len(agreed) + 1)
        BY <1>3, <1>4, <3>3
      <4> QED
        BY <1>3, <1>10, <4>1, <4>2 DEF AgreementsOK
    <3> QED
      BY <3>1, <3>2, <3>3
  <2>2. Len(agreed') <= MaxAgreements
    BY <1>2, <1>3, <1>10
  <2> QED
    BY <1>10, <2>1, <2>2 DEF AgreementsOK
<1>12. FeesTypeOK' /\ LinesOK(line') /\ DecisionsOK' /\ CancelledOwesNothing'
  BY <1>2, <1>9 DEF FeesInv, FeesTypeOK, DecisionsOK, CancelledOwesNothing, ruleVars, Installment
<1> QED
  BY <1>11, <1>12 DEF FeesInv

LEMMA ValidateKeeps ==
  ASSUME FeesInv, ValidateSale
  PROVE  FeesInv'
<1>1. /\ LinesOK(line) /\ trace \in [Slots -> SUBSET Reasons]
      /\ inst \in [Slots -> Installment] /\ AgreementsOK
  BY DEF FeesInv, FeesTypeOK, Installment
<1>2. /\ cstatus' = "active" /\ validated' = TRUE
      /\ line' = Reevaluated(PaidInstallments).lines
      /\ trace' = Reevaluated(PaidInstallments).told
      /\ UNCHANGED <<inst, agreed, ruleVars, deciding, turns>>
  BY DEF ValidateSale
<1>3. LinesOK(line') /\ Len(line) <= Len(line') /\ trace' \in [Slots -> SUBSET Reasons]
  BY <1>1, <1>2, ReevaluatedFits
<1>4. AgreementsOK' /\ inst' \in [Slots -> Installment]
  BY <1>1, <1>2 DEF AgreementsOK
<1> QED
  BY <1>2, <1>3, <1>4, LinesCome DEF Installment

LEMMA ReprocessKeeps ==
  ASSUME FeesInv, Reprocess
  PROVE  FeesInv'
<1> DEFINE due == {i \in PaidInstallments : /\ "skipped" \in trace[i]
                                            /\ \A n \in DOMAIN line : line[n].inst # i}
<1>1. /\ LinesOK(line) /\ trace \in [Slots -> SUBSET Reasons]
      /\ inst \in [Slots -> Installment] /\ AgreementsOK
  BY DEF FeesInv, FeesTypeOK, Installment
<1>2. /\ GateOpen /\ line' = Reevaluated(due).lines /\ trace' = Reevaluated(due).told
      /\ UNCHANGED <<saleVars, ruleVars, deciding, turns>>
  BY DEF Reprocess
<1> HIDE DEF due
<1>3. LinesOK(line') /\ Len(line) <= Len(line') /\ trace' \in [Slots -> SUBSET Reasons]
  BY <1>1, <1>2, ReevaluatedFits
<1>4. AgreementsOK' /\ inst' \in [Slots -> Installment]
  BY <1>1, <1>2 DEF AgreementsOK, saleVars
<1>5. cstatus' = "active" /\ validated' = TRUE
  BY <1>2 DEF GateOpen, saleVars, FeesInv, FeesTypeOK
<1> QED
  BY <1>2, <1>3, <1>4, <1>5, LinesCome DEF Installment

LEMMA ChangeKeeps ==
  ASSUME FeesInv, ChangeContract
  PROVE  FeesInv'
<1>1. /\ cstatus' \in {"active", "overdue"}
      /\ UNCHANGED <<validated, inst, agreed, line, trace, ruleVars, deciding>>
  BY DEF ChangeContract
<1> QED
  BY <1>1 DEF FeesInv, FeesTypeOK, AgreementsOK, DecisionsOK, CancelledOwesNothing, ruleVars

(* Lines that end, or are noted, stay where they are.                       *)
AsBefore(ls, ms) ==
  /\ DOMAIN ms = DOMAIN ls
  /\ \A n \in DOMAIN ls :
       /\ ms[n].inst = ls[n].inst /\ ms[n].role = ls[n].role /\ ms[n].rule = ls[n].rule
       /\ ms[n].amount = ls[n].amount
       /\ IsLive(ms[n]) => IsLive(ls[n])

LEMMA LinesStay ==
  ASSUME LinesOK(line), NEW ms, DOMAIN ms = DOMAIN line, ms = [n \in DOMAIN line |-> ms[n]],
         \A n \in DOMAIN line :
           \E s \in {"pending", "approved", "paid", "cancelled"},
              v \in {"none", "pending", "resolved", "noted"} :
             ms[n] = [line[n] EXCEPT !.status = s, !.review = v] /\ (s # "cancelled" => IsLive(line[n]))
  PROVE  LinesOK(ms) /\ AsBefore(line, ms) /\ \A n \in DOMAIN line : ms[n] \in FeeRows
<1>1. /\ line \in Seq(FeeRows) /\ Len(line) \in Nat /\ DOMAIN line = 1 .. Len(line)
      /\ \A n \in DOMAIN line : line[n] \in FeeRows
  <2>1. line \in Seq(FeeRows)
    BY DEF LinesOK
  <2> QED
    BY <2>1, LinesAre
<1>2. ASSUME NEW n \in DOMAIN line
      PROVE  /\ ms[n] \in FeeRows
             /\ ms[n].inst = line[n].inst /\ ms[n].role = line[n].role /\ ms[n].rule = line[n].rule
             /\ ms[n].amount = line[n].amount
             /\ IsLive(ms[n]) => IsLive(line[n])
  <2>1. PICK s \in {"pending", "approved", "paid", "cancelled"},
             v \in {"none", "pending", "resolved", "noted"} :
          ms[n] = [line[n] EXCEPT !.status = s, !.review = v] /\ (s # "cancelled" => IsLive(line[n]))
    OBVIOUS
  <2> DEFINE half == [line[n] EXCEPT !.status = s]
  <2>2. /\ half \in FeeRows /\ half.status = s
        /\ half.inst = line[n].inst /\ half.role = line[n].role /\ half.rule = line[n].rule
        /\ half.amount = line[n].amount
    BY <1>1 DEF FeeRows
  <2>3. ms[n] = [half EXCEPT !.review = v]
    BY <2>1
  <2> HIDE DEF half
  <2>4. /\ ms[n] \in FeeRows /\ ms[n].status = s
        /\ ms[n].inst = half.inst /\ ms[n].role = half.role /\ ms[n].rule = half.rule
        /\ ms[n].amount = half.amount
    BY <2>2, <2>3 DEF FeeRows
  <2> QED
    BY <2>1, <2>2, <2>4 DEF IsLive
<1>3. ms \in Seq(FeeRows) /\ Len(ms) = Len(line)
  <2>1. ms \in [1 .. Len(line) -> FeeRows]
    BY <1>1, <1>2
  <2> QED
    BY <1>1, <2>1, RowsInOrder
<1>4. LinesOK(ms)
  BY <1>1, <1>2, <1>3, LinesEnd
<1> QED
  BY <1>2, <1>4 DEF AsBefore

LEMMA CancelKeeps ==
  ASSUME FeesInv, CancelContract
  PROVE  FeesInv' /\ AsBefore(line, line')
<1>1. PICK asked \in {"pending", "noted"} :
        line' = [n \in DOMAIN line |->
                   IF line[n].status = "paid" THEN [line[n] EXCEPT !.review = asked]
                   ELSE [line[n] EXCEPT !.status = "cancelled"]]
  BY DEF CancelContract
<1>2. /\ cstatus' = "cancelled"
      /\ inst' = [i \in Slots |-> IF inst[i].status \in {"open", "renegotiated"}
                                  THEN [inst[i] EXCEPT !.status = "cancelled"]
                                  ELSE inst[i]]
      /\ UNCHANGED <<validated, agreed, trace, ruleVars, deciding, turns>>
  BY DEF CancelContract
<1>3. /\ inst \in [Slots -> Installment] /\ AgreementsOK /\ LinesOK(line) /\ line \in Seq(FeeRows)
      /\ \A n \in DOMAIN line : line[n] \in FeeRows
  <2>1. inst \in [Slots -> Installment] /\ AgreementsOK /\ LinesOK(line) /\ line \in Seq(FeeRows)
    BY DEF FeesInv, FeesTypeOK, Installment, LinesOK
  <2> QED
    BY <2>1, LinesAre
<1>4. inst' \in [Slots -> Installment]
  <2>1. \A i \in Slots : [inst[i] EXCEPT !.status = "cancelled"] \in Installment
    BY <1>3 DEF Installment
  <2> QED
    BY <1>2, <1>3, <2>1
<1>5. AgreementsOK'
  <2>1. ASSUME NEW i \in Slots
        PROVE  /\ inst'[i].status = "none" <=> inst[i].status = "none"
               /\ inst'[i].status = "open" => inst[i].status = "open"
               /\ inst'[i].paidAt = inst[i].paidAt
    BY <1>2, <1>3 DEF Installment
  <2> QED
    BY <1>2, <1>3, <2>1 DEF AgreementsOK
<1>6. DOMAIN line' = DOMAIN line /\ line' = [n \in DOMAIN line |-> line'[n]]
  BY <1>1
<1>7. ASSUME NEW n \in DOMAIN line
      PROVE  /\ \E s \in {"pending", "approved", "paid", "cancelled"},
                   v \in {"none", "pending", "resolved", "noted"} :
                  line'[n] = [line[n] EXCEPT !.status = s, !.review = v] /\ (s # "cancelled" => IsLive(line[n]))
             /\ line'[n].status = "cancelled" \/ (line'[n].status = "paid" /\ line'[n].review # "none")
  <2>1. line[n] \in FeeRows
    BY <1>3
  <2>2. CASE line[n].status = "paid"
    <3>1. line'[n] = [line[n] EXCEPT !.review = asked]
      BY <1>1, <2>2
    <3>2. line[n] = [line[n] EXCEPT !.status = "paid"]
      BY <2>1, <2>2 DEF FeeRows
    <3>3. line'[n] = [line[n] EXCEPT !.status = "paid", !.review = asked]
      BY <3>1, <3>2
    <3>4. line'[n].status = "paid" /\ line'[n].review = asked
      BY <2>1, <2>2, <3>1 DEF FeeRows
    <3> QED
      BY <2>2, <3>3, <3>4 DEF IsLive
  <2>3. CASE line[n].status # "paid"
    <3> DEFINE half == [line[n] EXCEPT !.status = "cancelled"]
    <3>1. line'[n] = half
      BY <1>1, <2>3
    <3>2. half \in FeeRows /\ half.review = line[n].review /\ half.status = "cancelled"
      BY <2>1 DEF FeeRows
    <3>3. half = [half EXCEPT !.review = line[n].review]
      <4> HIDE DEF half
      <4> QED
        BY <3>2 DEF FeeRows
    <3>4. line'[n] = [line[n] EXCEPT !.status = "cancelled", !.review = line[n].review]
      BY <3>1, <3>3
    <3>5. line[n].review \in {"none", "pending", "resolved", "noted"}
      BY <2>1 DEF FeeRows
    <3>6. line'[n].status = "cancelled"
      BY <3>1, <3>2
    <3> QED
      BY <3>4, <3>5, <3>6
  <2> QED
    BY <2>2, <2>3
<1>8. LinesOK(line') /\ AsBefore(line, line') /\ \A n \in DOMAIN line' : line'[n] \in FeeRows
  BY <1>3, <1>6, <1>7, LinesStay
<1>9. CancelledOwesNothing'
  BY <1>6, <1>7 DEF CancelledOwesNothing
<1>10. DecisionsOK'
  BY <1>2, <1>6 DEF FeesInv, DecisionsOK
<1>11. FeesTypeOK'
  BY <1>2, <1>4, <1>6, <1>8 DEF FeesInv, FeesTypeOK, FeeRows, Installment, ruleVars
<1> QED
  BY <1>5, <1>8, <1>9, <1>10, <1>11 DEF FeesInv

LEMMA RecordKeeps ==
  ASSUME FeesInv, RecordByHand
  PROVE  FeesInv'
<1>1. PICK r \in Roles :
        line' = Append(line, [inst |-> ByHand, role |-> r, rule |-> "hand", amount |-> 1,
                              status |-> "pending", review |-> "none"])
  BY DEF RecordByHand
<1>2. cstatus # "cancelled" /\ UNCHANGED <<saleVars, trace, ruleVars, deciding>>
  BY DEF RecordByHand
<1> DEFINE l == [inst |-> ByHand, role |-> r, rule |-> "hand", amount |-> 1,
                 status |-> "pending", review |-> "none"]
           N == Len(line)
<1>3. /\ l \in FeeRows /\ ~Automatic(l) /\ line' = Append(line, l) /\ l.inst = ByHand
  BY <1>1 DEF FeeRows, Automatic
<1> HIDE DEF l
<1>4. LinesOK(line) /\ line \in Seq(FeeRows) /\ N \in Nat /\ DOMAIN line = 1 .. N
  <2>1. LinesOK(line) /\ line \in Seq(FeeRows)
    BY DEF FeesInv, LinesOK
  <2> QED
    BY <2>1, LinesAre
<1> DEFINE ms == line'
<1>5. /\ ms \in Seq(FeeRows) /\ Len(ms) = N + 1 /\ DOMAIN ms = 1 .. N + 1
      /\ \A n \in 1 .. N : ms[n] = line[n]
      /\ ms[N + 1] = l
  BY <1>3, <1>4, AppendProperties
<1>6. (\A n \in 1 .. N + 1 : n \in 1 .. N \/ n = N + 1) /\ (\A n \in 1 .. N : n \in 1 .. N + 1 /\ n # N + 1)
  BY <1>4
<1> HIDE DEF ms
<1>7. Behind(line, l, ms)
  BY <1>5 DEF Behind
<1>8. ASSUME NEW q PROVE Already(ms, q) = Already(line, q)
  <2>1. Counted(l, q) = 0
    BY <1>3 DEF Counted
  <2>2. Already(ms, q) = Already(line, q) + 0
    BY <1>3, <1>4, <1>7, <2>1, AlreadyLonger
  <2>3. Already(line, q) \in Nat
    BY <1>4, AlreadyIs
  <2> QED
    BY <2>2, <2>3
<1>9. \A n \in Live(ms) : n \in Live(line) /\ ms[n] = line[n]
  BY <1>3, <1>4, <1>5, <1>6 DEF Live
<1>10. \A n \in DOMAIN ms : Automatic(ms[n]) => ms[n].rule \in {"v1", "v2"}
  BY <1>3, <1>4, <1>5, <1>6 DEF LinesOK
<1>11. ASSUME NEW n \in DOMAIN ms, NEW m \in DOMAIN ms, n # m, Automatic(ms[n])
       PROVE  <<ms[n].inst, ms[n].role>> # <<ms[m].inst, ms[m].role>>
  <2>1. n \in 1 .. N /\ ms[n] = line[n]
    BY <1>3, <1>5, <1>6, <1>11
  <2>2. CASE m \in 1 .. N
    BY <1>4, <1>5, <1>11, <2>1, <2>2 DEF LinesOK
  <2>3. CASE m = N + 1
    BY <1>3, <1>5, <1>11, <2>3 DEF Automatic
  <2> QED
    BY <1>5, <1>6, <2>2, <2>3
<1>12. \A n, m \in Live(ms) : ms[n].rule = ms[m].rule
  BY <1>4, <1>9 DEF LinesOK
<1>13. ASSUME NEW q \in Roles, NEW n \in Live(ms) PROVE Already(ms, q) <= DueOf(ms[n].rule)
  BY <1>4, <1>8, <1>9 DEF LinesOK
<1>14. LinesOK(ms)
  BY <1>5, <1>10, <1>11, <1>12, <1>13 DEF LinesOK
<1>15. Len(line) <= Len(ms)
  BY <1>4, <1>5
<1>16. /\ trace' \in [Slots -> SUBSET Reasons] /\ inst' \in [Slots -> Installment]
       /\ validated' \in BOOLEAN /\ cstatus' \in {"forming", "active", "overdue", "cancelled"}
       /\ cstatus' # "cancelled" /\ AgreementsOK'
  BY <1>2 DEF FeesInv, FeesTypeOK, AgreementsOK, saleVars, Installment
<1> QED
  BY <1>2, <1>14, <1>15, <1>16, LinesCome DEF ms, Installment

LEMMA CheckKeeps ==
  ASSUME FeesInv, NEW k \in Clerks, NEW n \in DOMAIN line, NEW to \in {"approved", "paid", "cancelled"},
         CheckStatus(k, n, to)
  PROVE  FeesInv'
<1>1. /\ line[n].status \notin {to, "paid", "cancelled"}
      /\ deciding' = [deciding EXCEPT ![k] = [row |-> n, seen |-> line[n].status, to |-> to]]
      /\ UNCHANGED <<saleVars, line, trace, ruleVars>>
  BY DEF CheckStatus
<1>2. line[n].status \in {"pending", "approved"} /\ n \in Nat
  <2>1. line \in Seq(FeeRows)
    BY DEF FeesInv, LinesOK
  <2>2. line[n] \in FeeRows /\ n \in Nat
    BY <2>1, LinesAre
  <2> QED
    BY <1>1, <2>2 DEF FeeRows
<1>3. DecisionsOK'
  BY <1>1, <1>2 DEF FeesInv, DecisionsOK
<1>4. FeesTypeOK'
  BY <1>1, <1>3 DEF FeesInv, FeesTypeOK, DecisionsOK, saleVars, ruleVars
<1> QED
  BY <1>1, <1>3, <1>4 DEF FeesInv, AgreementsOK, CancelledOwesNothing, saleVars

LEMMA DecisionKeeps ==
  ASSUME FeesInv, NEW k \in Clerks, WriteStatus(k)
  PROVE  FeesInv' /\ AsBefore(line, line')
<1> DEFINE d == deciding[k]
           x == d.row
<1>1. /\ d # NoDecision
      /\ line' = IF line[x].status = d.seen THEN [line EXCEPT ![x].status = d.to] ELSE line
      /\ deciding' = [deciding EXCEPT ![k] = NoDecision]
      /\ UNCHANGED <<saleVars, trace, ruleVars, turns>>
  BY DEF WriteStatus
<1>2. /\ x \in DOMAIN line /\ d.seen \in {"pending", "approved"}
      /\ d.to \in {"pending", "approved", "paid", "cancelled"}
  BY <1>1 DEF FeesInv, DecisionsOK
<1>3. LinesOK(line) /\ line \in Seq(FeeRows) /\ \A n \in DOMAIN line : line[n] \in FeeRows
  <2>1. LinesOK(line) /\ line \in Seq(FeeRows)
    BY DEF FeesInv, LinesOK
  <2> QED
    BY <2>1, LinesAre
<1>4. DOMAIN line' = DOMAIN line
  BY <1>1
<1>5. LinesOK(line') /\ AsBefore(line, line') /\ \A n \in DOMAIN line' : line'[n] \in FeeRows
  <2>1. CASE line[x].status = d.seen
    <3> HIDE DEF d
    <3>1. line' = [line EXCEPT ![x] = [line[x] EXCEPT !.status = d.to]]
      BY <1>1, <2>1
    <3>2. line' = [n \in DOMAIN line |-> line'[n]]
      BY <3>1
    <3>3. ASSUME NEW n \in DOMAIN line
          PROVE  \E s \in {"pending", "approved", "paid", "cancelled"},
                    v \in {"none", "pending", "resolved", "noted"} :
                   line'[n] = [line[n] EXCEPT !.status = s, !.review = v] /\ (s # "cancelled" => IsLive(line[n]))
      <4> DEFINE s == IF n = x THEN d.to ELSE line[n].status
                 v == line[n].review
                 half == [line[n] EXCEPT !.status = s]
      <4>1. line[n] \in FeeRows
        BY <1>3
      <4>2. /\ s \in {"pending", "approved", "paid", "cancelled"}
            /\ v \in {"none", "pending", "resolved", "noted"}
        BY <1>2, <4>1 DEF FeeRows
      <4>3. line'[n] = half
        <5>1. CASE n = x
          BY <3>1, <5>1
        <5>2. CASE n # x
          <6>1. line'[n] = line[n]
            BY <3>1, <5>2
          <6> QED
            BY <4>1, <5>2, <6>1 DEF FeeRows
        <5> QED
          BY <5>1, <5>2
      <4>4. half \in FeeRows /\ half.review = v
        BY <4>1, <4>2 DEF FeeRows
      <4>5. half = [half EXCEPT !.review = v]
        <5> HIDE DEF half, v
        <5> QED
          BY <4>4 DEF FeeRows
      <4>6. s # "cancelled" => IsLive(line[n])
        BY <1>2, <2>1 DEF IsLive
      <4>7. line'[n] = [line[n] EXCEPT !.status = s, !.review = v]
        BY <4>3, <4>5
      <4> HIDE DEF s, v
      <4> QED
        BY <4>2, <4>6, <4>7
    <3> QED
      BY <1>3, <1>4, <3>2, <3>3, LinesStay
  <2>2. CASE line[x].status # d.seen
    BY <1>1, <1>3, <2>2 DEF AsBefore
  <2> QED
    BY <2>1, <2>2
<1>6. CancelledOwesNothing'
  <2>1. ASSUME cstatus' = "cancelled" PROVE line' = line
    <3>1. line[x].status \in {"cancelled", "paid"}
      BY <1>1, <1>2, <2>1 DEF FeesInv, CancelledOwesNothing, saleVars
    <3>2. line[x].status # d.seen
      BY <1>2, <3>1
    <3> QED
      BY <1>1, <3>2
  <2> QED
    BY <1>1, <2>1 DEF FeesInv, CancelledOwesNothing, saleVars
<1> HIDE DEF d
<1>7. DecisionsOK'
  <2>1. \A j \in Clerks : j # k => deciding'[j] = deciding[j]
    BY <1>1
  <2>2. deciding'[k] = NoDecision
    BY <1>1 DEF FeesInv, DecisionsOK
  <2>3. deciding' \in [Clerks -> [row : Nat \cup {Nothing}, seen : {"pending", "approved"},
                                  to : {"pending", "approved", "paid", "cancelled"}]]
    BY <1>1 DEF FeesInv, DecisionsOK, NoDecision
  <2> QED
    BY <1>4, <2>1, <2>2, <2>3 DEF FeesInv, DecisionsOK
<1>8. FeesTypeOK'
  BY <1>1, <1>4, <1>5, <1>7 DEF FeesInv, FeesTypeOK, FeeRows, DecisionsOK, saleVars, ruleVars
<1> QED
  BY <1>1, <1>5, <1>6, <1>7, <1>8 DEF FeesInv, AgreementsOK, saleVars

LEMMA ResolveKeeps ==
  ASSUME FeesInv, NEW x \in DOMAIN line, ResolveReview(x)
  PROVE  FeesInv' /\ AsBefore(line, line')
<1>1. /\ line[x].review = "pending"
      /\ line' = [line EXCEPT ![x] = [line[x] EXCEPT !.review = "resolved"]]
      /\ UNCHANGED <<saleVars, trace, ruleVars, deciding, turns>>
  BY DEF ResolveReview
<1>2. LinesOK(line) /\ line \in Seq(FeeRows) /\ \A n \in DOMAIN line : line[n] \in FeeRows
  <2>1. LinesOK(line) /\ line \in Seq(FeeRows)
    BY DEF FeesInv, LinesOK
  <2> QED
    BY <2>1, LinesAre
<1>3. DOMAIN line' = DOMAIN line /\ line' = [n \in DOMAIN line |-> line'[n]]
  BY <1>1
<1>4. ASSUME NEW n \in DOMAIN line
      PROVE  /\ line'[n].status = line[n].status
             /\ line[n].review # "none" => line'[n].review # "none"
             /\ \E s \in {"pending", "approved", "paid", "cancelled"},
                   v \in {"none", "pending", "resolved", "noted"} :
                  line'[n] = [line[n] EXCEPT !.status = s, !.review = v] /\ (s # "cancelled" => IsLive(line[n]))
  <2> DEFINE v == IF n = x THEN "resolved" ELSE line[n].review
             s == line[n].status
  <2>1. line[n] \in FeeRows
    BY <1>2
  <2>2. /\ s \in {"pending", "approved", "paid", "cancelled"}
        /\ v \in {"none", "pending", "resolved", "noted"}
    BY <2>1 DEF FeeRows
  <2>3. line[n] = [line[n] EXCEPT !.status = s]
    BY <2>1 DEF FeeRows
  <2>4. line'[n] = [line[n] EXCEPT !.review = v]
    <3>1. CASE n = x
      BY <1>1, <3>1
    <3>2. CASE n # x
      BY <1>1, <2>1, <3>2 DEF FeeRows
    <3> QED
      BY <3>1, <3>2
  <2>5. line'[n] = [line[n] EXCEPT !.status = s, !.review = v]
    BY <2>3, <2>4
  <2>6. line'[n].status = s /\ line'[n].review = v
    BY <2>1, <2>4 DEF FeeRows
  <2>7. s # "cancelled" => IsLive(line[n])
    BY DEF IsLive
  <2>8. line[n].review # "none" => v # "none"
    OBVIOUS
  <2> QED
    BY <2>2, <2>5, <2>6, <2>7, <2>8
<1>5. LinesOK(line') /\ AsBefore(line, line') /\ \A n \in DOMAIN line' : line'[n] \in FeeRows
  BY <1>2, <1>3, <1>4, LinesStay
<1>6. CancelledOwesNothing'
  BY <1>1, <1>3, <1>4 DEF FeesInv, CancelledOwesNothing, saleVars
<1>7. DecisionsOK'
  BY <1>1, <1>3 DEF FeesInv, DecisionsOK
<1>8. FeesTypeOK'
  BY <1>1, <1>3, <1>5 DEF FeesInv, FeesTypeOK, FeeRows, saleVars, ruleVars
<1> QED
  BY <1>1, <1>5, <1>6, <1>7, <1>8 DEF FeesInv, AgreementsOK, saleVars

LEMMA EditKeeps ==
  ASSUME FeesInv, EditPolicy
  PROVE  FeesInv'
<1>1. /\ rated' \in BOOLEAN /\ released' \in BOOLEAN
      /\ UNCHANGED <<saleVars, line, trace, payout, deciding>>
  BY DEF EditPolicy, FeesInv, FeesTypeOK
<1> QED
  BY <1>1 DEF FeesInv, FeesTypeOK, AgreementsOK, DecisionsOK, CancelledOwesNothing, saleVars

LEMMA FeesStep == FeesInv /\ [FeesNext]_feeVars => FeesInv'
<1> SUFFICES ASSUME FeesInv, [FeesNext]_feeVars PROVE FeesInv'
  OBVIOUS
<1>1. CASE FeesNext
  BY <1>1, PayKeeps, RenegotiateKeeps, ValidateKeeps, ReprocessKeeps, ChangeKeeps, CancelKeeps,
     RecordKeeps, CheckKeeps, DecisionKeeps, ResolveKeeps, EditKeeps DEF FeesNext
<1>2. CASE UNCHANGED feeVars
  BY <1>2 DEF FeesInv, FeesTypeOK, AgreementsOK, DecisionsOK, CancelledOwesNothing,
              feeVars, saleVars, ruleVars
<1> QED
  BY <1>1, <1>2

LEMMA FeesInvariant == FeesSpec => []FeesInv
<1> QED
  BY FeesStart, FeesStep, PTL DEF FeesSpec

(* The contract, its installments and agreements, the commissions and what  *)
(* the clerks have read keep their types, for any schedule, entry, roles,   *)
(* rates and clerks.                                                        *)
THEOREM FeesTypes == FeesSpec => []FeesTypeOK
<1>1. FeesInv => FeesTypeOK
  BY DEF FeesInv
<1> QED
  BY <1>1, FeesInvariant, PTL

(* However rates, rules and payout change, installments are paid early,     *)
(* evaluated again or replaced, and decisions cross the cancellation: the   *)
(* commissions in force of a role sum up to the due of one rule at most, an *)
(* installment has one for a role, and a cancelled contract owes none       *)
(* (insertInstallmentCommissions, buildInstallmentCommissionsV2, setStatus, *)
(* executeCancellation).                                                    *)
THEOREM CommissionsNeverExceedTheDue == FeesSpec => []CommissionsAreDue
<1>1. FeesInv => CommissionsAreDue
  <2>1. LinesOK(line) => WithinDue
    BY DEF LinesOK, WithinDue, DueOf
  <2> QED
    BY <2>1 DEF FeesInv, CommissionsAreDue
<1> QED
  BY <1>1, FeesInvariant, PTL

-----------------------------------------------------------------------------
(* No payment goes by.                                                      *)

(* What the part of one installment rounds to.                              *)
PartOf(total) == (2 * total + EntryTotal) \div (2 * EntryTotal)

(* Lines paid by parts are of no more than a part.                          *)
InParts(l) ==
  /\ l.rule = "v1" => l.amount <= PartOf(V1Total)
  /\ l.rule = "v2" /\ payout = "per_installment" => l.amount <= PartOf(V2Total)
PartsOK(ls) == \A n \in Live(ls) : InParts(ls[n])

LEMMA ShareIs ==
  ASSUME NEW total \in Nat, NEW already \in Nat
  PROVE  /\ Share(total, already) = IF PartOf(total) < Missing(total, already)
                                    THEN PartOf(total) ELSE Missing(total, already)
         /\ PartOf(total) \in Nat /\ Share(total, already) <= PartOf(total)
<1>1. Missing(total, already) \in Nat
  BY DEF Missing
<1>2. 2 * total + EntryTotal \in Nat /\ 2 * EntryTotal \in Nat /\ 2 * EntryTotal > 0
  BY EntryOfSchedule
<1>3. \A a, b \in Nat : b > 0 => a \div b \in Nat
  OBVIOUS
<1>4. PartOf(total) \in Nat
  BY <1>2, <1>3 DEF PartOf
<1>5. Share(total, already) = IF PartOf(total) < Missing(total, already)
                              THEN PartOf(total) ELSE Missing(total, already)
  BY DEF Share, PartOf
<1> QED
  BY <1>1, <1>4, <1>5

(* Lines go on where those before them end.                                 *)
LEMMA AlreadyGrows ==
  ASSUME NEW ls \in Seq(FeeRows), NEW ms \in Seq(FeeRows), Len(ls) <= Len(ms),
         \A n \in 1 .. Len(ls) : ms[n] = ls[n], NEW r
  PROVE  Already(ls, r) <= Already(ms, r)
<1> DEFINE N == Len(ls)
           M == Len(ms)
<1>1. N \in Nat /\ M \in Nat /\ \A n \in 1 .. M : Counted(ms[n], r) \in Nat
  BY LinesAre
<1>2. PICK s : Earlier(ls, r, s) /\ Already(ls, r) = s[N]
  BY EarlierExist
<1>3. PICK t : Earlier(ms, r, t) /\ Already(ms, r) = t[M]
  BY EarlierExist
<1> DEFINE S == {n \in 0 .. M : IF n <= N THEN s[n] = t[n] ELSE s[N] <= t[n]}
<1>4. 0 \in S
  BY <1>1, <1>2, <1>3 DEF Earlier
<1>5. ASSUME NEW n \in 1 .. M, n - 1 \in S PROVE n \in S
  <2>1. n \in 0 .. M /\ n - 1 \in 0 .. M
    BY <1>1
  <2>2. t[n] = t[n - 1] + Counted(ms[n], r) /\ t[n - 1] \in Nat
    BY <1>3, <2>1 DEF Earlier
  <2>3. CASE n <= N
    <3>1. n \in 1 .. N /\ n - 1 <= N
      BY <1>1, <2>3
    <3>2. s[n] = s[n - 1] + Counted(ls[n], r) /\ ls[n] = ms[n]
      BY <1>2, <3>1 DEF Earlier
    <3>3. s[n - 1] = t[n - 1]
      BY <1>5, <3>1
    <3> QED
      BY <2>1, <2>2, <2>3, <3>2, <3>3
  <2>4. CASE ~(n <= N)
    <3>1. s[N] <= t[n - 1]
      <4>1. CASE n - 1 <= N
        <5>1. n - 1 = N
          BY <1>1, <2>4, <4>1
        <5> QED
          BY <1>5, <2>2, <5>1
      <4>2. CASE ~(n - 1 <= N)
        BY <1>5, <4>2
      <4> QED
        BY <4>1, <4>2
    <3>2. s[N] \in Nat /\ Counted(ms[n], r) \in Nat
      BY <1>1, <1>2 DEF Earlier
    <3> QED
      BY <2>1, <2>2, <2>4, <3>1, <3>2
  <2> QED
    BY <2>3, <2>4
<1>6. 0 .. M \subseteq S
  <2> HIDE DEF S
  <2> QED
    BY <1>1, <1>4, <1>5, CountingUp
<1>7. M \in S
  <2> HIDE DEF S
  <2> QED
    BY <1>1, <1>6
<1>8. s[N] \in Nat
  BY <1>1, <1>2 DEF Earlier
<1>9. s[N] <= t[M]
  <2>1. CASE M <= N
    <3>1. M = N
      BY <1>1, <2>1
    <3> QED
      BY <1>7, <1>8, <3>1
  <2>2. CASE ~(M <= N)
    BY <1>7, <2>2
  <2> QED
    BY <2>1, <2>2
<1> QED
  BY <1>2, <1>3, <1>9

(* The lines ms are ls and, behind them, lines of installment i by the rule *)
(* that ls has or gets.                                                     *)
Grown(ls, ms, i) ==
  /\ Len(ls) <= Len(ms) /\ \A n \in 1 .. Len(ls) : ms[n] = ls[n]
  /\ \A n \in 1 .. Len(ms) : n > Len(ls) =>
       /\ ms[n].inst = i /\ InParts(ms[n])
       /\ ms[n].rule = IF SecondRules(ls) THEN "v2" ELSE "v1"

(* What the reads of a paid installment leave; O are those the second rules *)
(* owe for.                                                                 *)
SeenIn(ls, told, O, i) ==
  \/ \E n \in DOMAIN ls : ls[n].inst = i
  \/ "skipped" \in told
  \/ IF SecondRules(ls) THEN i \notin O \/ \A r \in V2Roles : Already(ls, r) >= V2Total
     ELSE \A r \in V1Roles : Already(ls, r) >= V1Total
BetweenRules(ls) == ~rated /\ released /\ ~SecondRules(ls)

(* A role that is owed no part and was owed before has all.                 *)
LEMMA NothingLeft ==
  ASSUME NEW ls, LinesOK(ls), PartsOK(ls), NEW total \in Nat, NEW r, NEW rule \in {"v1", "v2"},
         rule = IF SecondRules(ls) THEN "v2" ELSE "v1", total = DueOf(rule),
         NEW amount, Already(ls, r) > 0, amount <= 0,
         \/ amount = Missing(total, Already(ls, r))
         \/ /\ amount = Share(total, Already(ls, r))
            /\ rule = "v1" \/ payout = "per_installment"
  PROVE  Already(ls, r) >= total
<1> DEFINE a == Already(ls, r)
<1>1. ls \in Seq(FeeRows) /\ a \in Nat
  <2>1. ls \in Seq(FeeRows)
    BY DEF LinesOK
  <2> QED
    BY <2>1, AlreadyIs
<1>2. Missing(total, a) \in Nat /\ (Missing(total, a) = 0 => a >= total)
  BY <1>1 DEF Missing
<1>3. CASE amount = Missing(total, a)
  BY <1>2, <1>3
<1>4. CASE /\ amount = Share(total, a)
           /\ rule = "v1" \/ payout = "per_installment"
  <2> SUFFICES ASSUME ~(a >= total) PROVE FALSE
    OBVIOUS
  <2>1. PartOf(total) = 0
    BY <1>1, <1>2, <1>4, ShareIs
  <2>2. ASSUME NEW n \in 1 .. Len(ls) PROVE Counted(ls[n], r) = 0
    <3>1. ls[n] \in FeeRows /\ (n \in Live(ls) <=> Automatic(ls[n]) /\ IsLive(ls[n]))
      BY <1>1, LinesAre
    <3>2. CASE n \in Live(ls)
      <4>1. ls[n].rule = rule
        BY <3>2, RuleOf
      <4>2. ls[n].amount <= 0
        BY <1>4, <2>1, <3>2, <4>1 DEF PartsOK, InParts, DueOf
      <4>3. ls[n].amount = 0
        BY <3>1, <4>2 DEF FeeRows
      <4> QED
        BY <4>3 DEF Counted
    <3>3. CASE n \notin Live(ls)
      BY <3>1, <3>3 DEF Counted
    <3> QED
      BY <3>2, <3>3
  <2>3. a = 0
    BY <1>1, <2>2, AlreadyNone
  <2> QED
    BY <2>3
<1> QED
  BY <1>3, <1>4

(* What a role is owed, and what lines put behind ls leave.                 *)
Owes(ls, rule, r, amount) ==
  /\ amount \in Nat
  /\ \/ amount = Missing(DueOf(rule), Already(ls, r)) /\ rule = "v2" /\ payout # "per_installment"
     \/ /\ amount = Share(DueOf(rule), Already(ls, r))
        /\ rule = "v1" \/ payout = "per_installment"
Put(ls, new, i, rule, roles) ==
  /\ Grown(ls, ls \o new, i)
  /\ \/ \E n \in 1 .. Len(ls \o new) : (ls \o new)[n].inst = i
     \/ ls \o new = ls /\ \A r \in roles : Already(ls, r) >= DueOf(rule)

(* Lines of the rule, put behind.                                           *)
LEMMA NewLinesGrow ==
  ASSUME NEW ls, LinesOK(ls), PartsOK(ls), NEW i \in Slots, NEW rule \in {"v1", "v2"},
         rule = IF SecondRules(ls) THEN "v2" ELSE "v1",
         NEW roles \in SUBSET Roles, NEW amount,
         \A r \in roles : Owes(ls, rule, r, amount[r])
  PROVE  Put(ls, NewLines(ls, i, rule, roles, amount), i, rule, roles)
<1> DEFINE new == NewLines(ls, i, rule, roles, amount)
           P == Payable(ls, i, roles, amount)
           ms == ls \o new
           N == Len(ls)
           K == Len(new)
<1>1. NewOnes(new, i, rule, P, amount) /\ (K = 0 => P = {})
  <2>1. \A r \in roles : amount[r] \in Nat
    BY DEF Owes
  <2> QED
    BY <2>1, NewLinesAre
<1>2. ls \in Seq(FeeRows) /\ new \in Seq(FeeRows)
  BY <1>1 DEF LinesOK, NewOnes
<1>3. N \in Nat /\ K \in Nat /\ DOMAIN ls = 1 .. N
  BY <1>2, LinesAre
<1>4. P \subseteq roles
  BY DEF Payable
<1>5. /\ Len(ms) = N + K /\ \A n \in 1 .. N : ms[n] = ls[n]
      /\ \A n \in 1 .. N + K : n > N => n - N \in 1 .. K /\ ms[n] = new[n - N]
  <2>1. /\ Len(ms) = N + K
        /\ \A n \in 1 .. N + K : ms[n] = IF n <= N THEN ls[n] ELSE new[n - N]
    BY <1>2, ConcatProperties
  <2> HIDE DEF ms, new
  <2>2. \A n \in 1 .. N : n \in 1 .. N + K /\ n <= N
    BY <1>3
  <2>3. \A n \in 1 .. N + K : n > N => n - N \in 1 .. K /\ ~(n <= N)
    BY <1>3
  <2> QED
    BY <2>1, <2>2, <2>3
<1>6. \A r \in roles : Already(ls, r) \in Nat
  BY <1>2, AlreadyIs
<1>7. DueOf(rule) \in Nat /\ DueOf("v1") = V1Total /\ DueOf("v2") = V2Total
  BY TotalsAreNat DEF DueOf
<1>8. ASSUME NEW n \in 1 .. K
      PROVE  new[n].inst = i /\ new[n].rule = rule /\ InParts(new[n])
  <2>1. /\ new[n].inst = i /\ new[n].rule = rule /\ new[n].role \in P
        /\ new[n].amount = amount[new[n].role]
    BY <1>1 DEF NewOnes
  <2> DEFINE r == new[n].role
             l == new[n]
  <2>2. r \in roles
    BY <1>4, <2>1
  <2> HIDE DEF new, P, r, l
  <2>3. rule = "v1" \/ payout = "per_installment" => amount[r] <= PartOf(DueOf(rule))
    <3>1. Already(ls, r) \in Nat
      BY <1>6, <2>2
    <3> QED
      BY <1>7, <2>2, <3>1, ShareIs DEF Owes
  <2>4. l.rule = rule /\ l.amount = amount[r]
    BY <2>1 DEF l, r
  <2>5. InParts(l)
    BY <1>7, <2>3, <2>4 DEF InParts
  <2> QED
    BY <2>1, <2>5 DEF l
<1>9. Grown(ls, ms, i)
  <2> HIDE DEF ms, new, P
  <2>1. N <= N + K
    BY <1>3
  <2> QED
    BY <1>5, <1>8, <2>1 DEF Grown
<1>10. CASE \E n \in 1 .. Len(ms) : ms[n].inst = i
  BY <1>9, <1>10 DEF Put
<1>11. CASE \A n \in 1 .. Len(ms) : ms[n].inst # i
  <2>1. K = 0
    <3> SUFFICES ASSUME K # 0 PROVE FALSE
      OBVIOUS
    <3> HIDE DEF ms, new, P
    <3>1. N + 1 \in 1 .. N + K /\ N + 1 > N
      BY <1>3
    <3>2. ms[N + 1].inst = i
      BY <1>5, <1>8, <3>1
    <3> QED
      BY <1>5, <1>11, <3>1, <3>2
  <2>2. ms = ls
    <3>1. new = <<>>
      <4> HIDE DEF new
      <4> QED
        BY <1>2, <2>1, EmptySeq
    <3> QED
      BY <3>1, NothingAdded
  <2>3. ASSUME NEW r \in roles PROVE Already(ls, r) >= DueOf(rule)
    <3>1. r \notin P
      BY <1>1, <2>1
    <3>2. \A n \in DOMAIN ls : ~(ls[n].inst = i /\ ls[n].role = r)
      <4> HIDE DEF ms, new
      <4> QED
        BY <1>3, <1>11, <2>2
    <3>3. amount[r] <= 0 /\ Already(ls, r) > 0
      BY <3>1, <3>2 DEF Payable
    <3> DEFINE a == amount[r]
               total == DueOf(rule)
    <3>4. \/ a = Missing(total, Already(ls, r))
          \/ /\ a = Share(total, Already(ls, r))
             /\ rule = "v1" \/ payout = "per_installment"
      BY DEF Owes
    <3>5. a <= 0 /\ total \in Nat /\ total = DueOf(rule)
      BY <1>7, <3>3
    <3> HIDE DEF a, total
    <3>6. Already(ls, r) >= total
      BY <3>3, <3>4, <3>5, NothingLeft
    <3> QED
      BY <3>6 DEF total
  <2> QED
    BY <1>9, <2>2, <2>3 DEF Put
<1> QED
  BY <1>10, <1>11

(* What an installment earns grows behind the lines, and is noticed.        *)
LEMMA EarnedGrows ==
  ASSUME NEW ls, LinesOK(ls), PartsOK(ls), NEW s, NEW i \in Slots, NEW told,
         NEW O, Held(s, i) => i \notin O
  PROVE  LET e == Earned(ls, s, i)
             ms == ls \o e.lines
         IN  /\ Grown(ls, ms, i)
             /\ (SecondRules(ms) <=> SecondRules(ls)) =>
                  SeenIn(ms, told \cup e.told, O, i) \/ BetweenRules(ms)
<1> DEFINE e == Earned(ls, s, i)
           ms == ls \o e.lines
<1>1. ls \in Seq(FeeRows) /\ ls \o <<>> = ls
  BY NothingAdded DEF LinesOK
<1>2. Len(ls) \in Nat /\ DOMAIN ls = 1 .. Len(ls) /\ \A r : Already(ls, r) \in Nat
  BY <1>1, LinesAre, AlreadyIs
<1>3. \/ e.lines = <<>> /\ (e.told = {"skipped"} \/ (e.told = {"held"} /\ SecondRules(ls) /\ Held(s, i)))
      \/ e.lines = FirstRules(ls, i) /\ ~SecondRules(ls) /\ (rated \/ released)
      \/ e.lines = SecondRulesLines(ls, i) /\ SecondRules(ls)
  <2>1. CASE ~rated /\ ~released
    BY <2>1 DEF Earned
  <2>2. CASE (rated \/ released) /\ ~SecondRules(ls)
    BY <2>2 DEF Earned
  <2>3. CASE (rated \/ released) /\ SecondRules(ls) /\ ~released
    BY <2>3 DEF Earned
  <2>4. CASE SecondRules(ls) /\ released /\ Held(s, i)
    BY <2>4 DEF Earned
  <2>5. CASE SecondRules(ls) /\ released /\ ~Held(s, i)
    BY <2>5 DEF Earned
  <2> QED
    BY <2>1, <2>2, <2>3, <2>4, <2>5
<1>4. CASE e.lines = <<>> /\ (e.told = {"skipped"} \/ (e.told = {"held"} /\ SecondRules(ls) /\ Held(s, i)))
  <2>1. ms = ls
    BY <1>1, <1>4
  <2>2. Grown(ls, ls, i)
    BY <1>2 DEF Grown
  <2>3. SeenIn(ls, told \cup e.told, O, i)
    <3>1. CASE e.told = {"skipped"}
      <4>1. "skipped" \in e.told
        BY <3>1
      <4> HIDE DEF e
      <4> QED
        BY <4>1 DEF SeenIn
    <3>2. CASE SecondRules(ls) /\ Held(s, i)
      BY <3>2 DEF SeenIn
    <3> QED
      BY <1>4, <3>1, <3>2
  <2> HIDE DEF e, ms
  <2>4. Grown(ls, ms, i) /\ SeenIn(ms, told \cup e.told, O, i)
    BY <2>1, <2>2, <2>3
  <2> QED
    BY <2>4 DEF e, ms
<1>5. CASE e.lines = FirstRules(ls, i) /\ ~SecondRules(ls) /\ (rated \/ released)
  <2> DEFINE amount == [r \in V1Roles |-> Share(V1Total, Already(ls, r))]
             roles == IF rated THEN V1Roles ELSE {}
             new == NewLines(ls, i, "v1", roles, amount)
  <2>1. \A r \in roles : amount[r] \in Nat /\ amount[r] = Share(DueOf("v1"), Already(ls, r))
    BY <1>2, TotalsAreNat, SharesFit DEF DueOf
  <2>2. roles \in SUBSET Roles /\ roles = IF rated THEN V1Roles ELSE {}
    BY DEF Roles
  <2>3. e.lines = new
    BY <1>5 DEF FirstRules
  <2> HIDE DEF amount, roles
  <2>9. Put(ls, new, i, "v1", roles)
    <3>1. "v1" = IF SecondRules(ls) THEN "v2" ELSE "v1"
      BY <1>5
    <3>2. \A r \in roles : Owes(ls, "v1", r, amount[r])
      BY <2>1 DEF Owes
    <3> QED
      BY <2>2, <3>1, <3>2, NewLinesGrow
  <2>4. /\ Grown(ls, ls \o new, i)
        /\ \/ \E n \in 1 .. Len(ls \o new) : (ls \o new)[n].inst = i
           \/ ls \o new = ls /\ \A r \in roles : Already(ls, r) >= DueOf("v1")
    BY <2>9 DEF Put
  <2>5. ms = ls \o new
    BY <2>3
  <2>6. ASSUME \E n \in 1 .. Len(ms) : ms[n].inst = i
        PROVE  SeenIn(ms, told \cup e.told, O, i)
    <3>1. DOMAIN ms = 1 .. Len(ms)
      <4>1. LinesOK(ms)
        BY EarnedFits
      <4>2. ms \in Seq(FeeRows)
        BY <4>1 DEF LinesOK
      <4> HIDE DEF ms
      <4> QED
        BY <4>2, LinesAre
    <3> HIDE DEF ms, e
    <3> QED
      BY <2>6, <3>1 DEF SeenIn
  <2> HIDE DEF e, new
  <2>7. ASSUME ms = ls, \A r \in roles : Already(ls, r) >= DueOf("v1"), SecondRules(ms) <=> SecondRules(ls)
        PROVE  SeenIn(ms, told \cup e.told, O, i) \/ BetweenRules(ms)
    <3> HIDE DEF ms
    <3>1. CASE rated
      BY <1>5, <2>2, <2>7, <3>1 DEF SeenIn, DueOf
    <3>2. CASE ~rated
      BY <1>5, <2>7, <3>2 DEF BetweenRules
    <3> QED
      BY <3>1, <3>2
  <2> HIDE DEF ms
  <2>8. /\ Grown(ls, ms, i)
        /\ (SecondRules(ms) <=> SecondRules(ls)) =>
             SeenIn(ms, told \cup e.told, O, i) \/ BetweenRules(ms)
    BY <2>4, <2>5, <2>6, <2>7
  <2> QED
    BY <2>8 DEF e, ms
<1>6. CASE e.lines = SecondRulesLines(ls, i) /\ SecondRules(ls)
  <2> DEFINE amount == [r \in V2Roles |-> IF payout = "per_installment"
                                          THEN Share(V2Total, Already(ls, r))
                                          ELSE Missing(V2Total, Already(ls, r))]
             roles == V2Roles
             new == NewLines(ls, i, "v2", roles, amount)
  <2>1. ASSUME NEW r \in roles
        PROVE  /\ amount[r] \in Nat
               /\ \/ amount[r] = Missing(DueOf("v2"), Already(ls, r)) /\ payout # "per_installment"
                  \/ amount[r] = Share(DueOf("v2"), Already(ls, r)) /\ payout = "per_installment"
    <3>1. DueOf("v2") = V2Total
      BY DEF DueOf
    <3>2. Missing(V2Total, Already(ls, r)) \in Nat /\ Share(V2Total, Already(ls, r)) \in Nat
      BY <1>2, TotalsAreNat, SharesFit
    <3> QED
      BY <3>1, <3>2
  <2>2. roles \in SUBSET Roles /\ roles = V2Roles
    BY DEF Roles
  <2>3. e.lines = new
    BY <1>6 DEF SecondRulesLines
  <2> HIDE DEF amount, roles
  <2>9. Put(ls, new, i, "v2", roles)
    <3>1. "v2" = IF SecondRules(ls) THEN "v2" ELSE "v1"
      BY <1>6
    <3>2. \A r \in roles : Owes(ls, "v2", r, amount[r])
      BY <2>1 DEF Owes
    <3> QED
      BY <2>2, <3>1, <3>2, NewLinesGrow
  <2>4. /\ Grown(ls, ls \o new, i)
        /\ \/ \E n \in 1 .. Len(ls \o new) : (ls \o new)[n].inst = i
           \/ ls \o new = ls /\ \A r \in roles : Already(ls, r) >= DueOf("v2")
    BY <2>9 DEF Put
  <2>5. ms = ls \o new
    BY <2>3
  <2>6. ASSUME \E n \in 1 .. Len(ms) : ms[n].inst = i
        PROVE  SeenIn(ms, told \cup e.told, O, i)
    <3>1. DOMAIN ms = 1 .. Len(ms)
      <4>1. LinesOK(ms)
        BY EarnedFits
      <4>2. ms \in Seq(FeeRows)
        BY <4>1 DEF LinesOK
      <4> HIDE DEF ms
      <4> QED
        BY <4>2, LinesAre
    <3> HIDE DEF ms, e
    <3> QED
      BY <2>6, <3>1 DEF SeenIn
  <2> HIDE DEF e, new
  <2>7. ASSUME ms = ls, \A r \in roles : Already(ls, r) >= DueOf("v2"), SecondRules(ms) <=> SecondRules(ls)
        PROVE  SeenIn(ms, told \cup e.told, O, i)
    <3> HIDE DEF ms
    <3> QED
      BY <1>6, <2>2, <2>7 DEF SeenIn, DueOf
  <2> HIDE DEF ms
  <2>8. /\ Grown(ls, ms, i)
        /\ (SecondRules(ms) <=> SecondRules(ls)) =>
             SeenIn(ms, told \cup e.told, O, i) \/ BetweenRules(ms)
    BY <2>4, <2>5, <2>6, <2>7
  <2> QED
    BY <2>8 DEF e, ms
<1> QED
  BY <1>3, <1>4, <1>5, <1>6

LEMMA LinesGrow ==
  ASSUME NEW ls, LinesOK(ls), PartsOK(ls), NEW s, NEW i \in Slots
  PROVE  Grown(ls, ls \o Earned(ls, s, i).lines, i)
<1> DEFINE none == {}
<1>1. Held(s, i) => i \notin none
  OBVIOUS
<1> HIDE DEF none
<1> QED
  BY <1>1, EarnedGrows

(* What grows keeps its rule and its parts, and what was noticed.           *)
LEMMA GrownKeeps ==
  ASSUME NEW ls, LinesOK(ls), PartsOK(ls), NEW ms, LinesOK(ms), NEW i, Grown(ls, ms, i)
  PROVE  /\ PartsOK(ms) /\ (SecondRules(ms) <=> SecondRules(ls))
         /\ \A told, more, O, j : SeenIn(ls, told, O, j) => SeenIn(ms, told \cup more, O, j)
<1> DEFINE N == Len(ls)
           M == Len(ms)
<1>1. ls \in Seq(FeeRows) /\ ms \in Seq(FeeRows)
  BY DEF LinesOK
<1>2. /\ N \in Nat /\ M \in Nat /\ DOMAIN ls = 1 .. N /\ DOMAIN ms = 1 .. M
      /\ Live(ls) = {n \in 1 .. N : Automatic(ls[n]) /\ IsLive(ls[n])}
      /\ Live(ms) = {n \in 1 .. M : Automatic(ms[n]) /\ IsLive(ms[n])}
  BY <1>1, LinesAre
<1>3. /\ N <= M /\ \A n \in 1 .. N : ms[n] = ls[n] /\ n \in 1 .. M
      /\ \A n \in 1 .. M : n \in 1 .. N \/ n > N
  BY <1>2 DEF Grown
<1>4. \A n \in Live(ms) : (n \in Live(ls) /\ ms[n] = ls[n]) \/ n > N
  BY <1>2, <1>3
<1>5. \A n \in Live(ls) : n \in Live(ms) /\ ms[n] = ls[n]
  BY <1>2, <1>3
<1>6. PartsOK(ms)
  <2>1. \A n \in Live(ms) : n > N => InParts(ms[n])
    BY <1>2 DEF Grown
  <2> QED
    BY <1>4, <2>1 DEF PartsOK
<1>7. SecondRules(ms) <=> SecondRules(ls)
  <2>1. \A n \in Live(ls) : ls[n].rule = IF SecondRules(ls) THEN "v2" ELSE "v1"
    BY RuleOf
  <2>2. \A n \in Live(ms) : ms[n].rule = IF SecondRules(ms) THEN "v2" ELSE "v1"
    BY RuleOf
  <2>4. CASE Live(ms) = {}
    <3>1. Live(ls) = {}
      BY <1>5, <2>4
    <3> QED
      BY <2>4, <3>1 DEF SecondRules
  <2>5. CASE Live(ms) # {}
    <3>1. PICK n \in Live(ms) : TRUE
      BY <2>5
    <3>2. ms[n].rule = IF SecondRules(ls) THEN "v2" ELSE "v1"
      BY <1>2, <1>4, <2>1, <3>1 DEF Grown
    <3>3. SecondRules(ms) <=> SecondRules(ls)
      BY <2>2, <3>1, <3>2
    <3> QED
      BY <3>3
  <2> QED
    BY <2>4, <2>5
<1>8. \A r : Already(ls, r) <= Already(ms, r) /\ Already(ls, r) \in Nat /\ Already(ms, r) \in Nat
  BY <1>1, <1>3, AlreadyGrows, AlreadyIs
<1>9. ASSUME NEW told, NEW more, NEW O, NEW j, SeenIn(ls, told, O, j)
      PROVE  SeenIn(ms, told \cup more, O, j)
  <2>1. CASE \E n \in DOMAIN ls : ls[n].inst = j
    BY <1>2, <1>3, <2>1 DEF SeenIn
  <2>2. CASE "skipped" \in told
    BY <2>2 DEF SeenIn
  <2>3. CASE IF SecondRules(ls) THEN j \notin O \/ \A r \in V2Roles : Already(ls, r) >= V2Total
             ELSE \A r \in V1Roles : Already(ls, r) >= V1Total
    <3>1. \A r, total : total \in Nat /\ Already(ls, r) >= total => Already(ms, r) >= total
      <4> SUFFICES ASSUME NEW r, NEW total, total \in Nat, Already(ls, r) >= total
                   PROVE  Already(ms, r) >= total
        OBVIOUS
      <4> QED
        BY <1>8
    <3> QED
      BY <1>7, <2>3, <3>1, TotalsAreNat DEF SeenIn
  <2> QED
    BY <1>9, <2>1, <2>2, <2>3 DEF SeenIn
<1> QED
  BY <1>6, <1>7, <1>9

(* What is evaluated again keeps the rule and is noticed.                   *)
LEMMA RunsNotice ==
  ASSUME LinesOK(line), PartsOK(line), NEW S, NEW t, Runs(S, t),
         NEW O, \A j \in Slots : j \in S /\ Held(AsOf(j), j) => j \notin O
  PROVE  /\ PartsOK(t[LastSlot].lines)
         /\ \A j \in Slots : j \in S =>
              \/ SeenIn(t[LastSlot].lines, t[LastSlot].told[j], O, j)
              \/ BetweenRules(t[LastSlot].lines)
<1> DEFINE N == LastSlot
           K == {i \in 0 .. N :
                   /\ PartsOK(t[i].lines) /\ (SecondRules(t[i].lines) <=> SecondRules(line))
                   /\ \A j \in Slots : j \in S /\ j <= i =>
                        SeenIn(t[i].lines, t[i].told[j], O, j) \/ BetweenRules(t[i].lines)}
<1>1. N \in Nat /\ Slots = 1 .. N
  BY EntryOfSchedule, BoundsOfCommissions DEF LastSlot, Slots
<1>2. \A i \in 0 .. N : LinesOK(t[i].lines) /\ t[i].told \in [Slots -> SUBSET Reasons]
  BY DEF Runs
<1>3. 0 \in K
  <2>1. t[0].lines = line
    BY DEF Runs
  <2>2. \A j \in Slots : ~(j <= 0)
    BY <1>1
  <2> QED
    BY <1>1, <2>1, <2>2
<1>4. ASSUME NEW i \in 1 .. N, i - 1 \in K PROVE i \in K
  <2>1. i \in Slots /\ i \in 0 .. N /\ i - 1 \in 0 .. N /\ \A j \in Slots : j <= i => j = i \/ j <= i - 1
    BY <1>1
  <2> DEFINE ls == t[i - 1].lines
             told == t[i - 1].told
             e == Earned(ls, AsOf(i), i)
  <2>2. LinesOK(ls) /\ PartsOK(ls) /\ (SecondRules(ls) <=> SecondRules(line))
    BY <1>2, <1>4, <2>1
  <2>3. CASE i \notin S
    <3>1. t[i] = t[i - 1]
      BY <1>1, <2>3 DEF Runs
    <3> QED
      BY <1>4, <2>1, <2>2, <2>3, <3>1
  <2>4. CASE i \in S
    <3>1. /\ t[i].lines = ls \o e.lines
          /\ t[i].told = [told EXCEPT ![i] = @ \cup e.told]
      <4>1. t[i] = [lines |-> ls \o e.lines, told |-> [told EXCEPT ![i] = @ \cup e.told]]
        BY <1>1, <2>4 DEF Runs
      <4> HIDE DEF ls, e, told
      <4> QED
        BY <4>1
    <3>2. /\ t[i].told[i] = told[i] \cup e.told
          /\ \A j \in Slots : j # i => t[i].told[j] = told[j] \cup {}
      <4>1. told \in [Slots -> SUBSET Reasons]
        BY <1>2, <2>1
      <4> HIDE DEF told, e
      <4> QED
        BY <2>1, <3>1, <4>1
    <3> DEFINE ms == t[i].lines
               tt == t[i].told
               tp == told[i]
    <3>3. /\ Grown(ls, ms, i)
          /\ (SecondRules(ms) <=> SecondRules(ls)) =>
               SeenIn(ms, tp \cup e.told, O, i) \/ BetweenRules(ms)
      <4> DEFINE ns == ls \o e.lines
      <4>1. /\ Grown(ls, ns, i)
            /\ (SecondRules(ns) <=> SecondRules(ls)) =>
                 SeenIn(ns, tp \cup e.told, O, i) \/ BetweenRules(ns)
        <5> DEFINE s == AsOf(i)
        <5>1. Held(s, i) => i \notin O
          BY <2>1, <2>4
        <5> HIDE DEF tp, ls, s
        <5>2. LET ea == Earned(ls, s, i)
                  na == ls \o ea.lines
              IN  /\ Grown(ls, na, i)
                  /\ (SecondRules(na) <=> SecondRules(ls)) =>
                       SeenIn(na, tp \cup ea.told, O, i) \/ BetweenRules(na)
          BY <2>1, <2>2, <5>1, EarnedGrows
        <5> QED
          BY <5>2 DEF s
      <4>2. ms = ns
        BY <3>1
      <4> HIDE DEF ms, ns, ls, e, tp
      <4> QED
        BY <4>1, <4>2
    <3>4. LinesOK(ms)
      BY <1>2, <2>1
    <3>5. \A j \in Slots : j \in S /\ j <= i - 1 => SeenIn(ls, told[j], O, j) \/ BetweenRules(ls)
      BY <1>4
    <3>6. tt[i] = tp \cup e.told /\ \A j \in Slots : j # i => tt[j] = told[j] \cup {}
      BY <3>2
    <3>7. ms = t[i].lines /\ tt = t[i].told
      OBVIOUS
    <3> HIDE DEF ms, ls, e, told, tt, tp
    <3>8. /\ PartsOK(ms) /\ (SecondRules(ms) <=> SecondRules(ls))
          /\ \A h, more, j : SeenIn(ls, h, O, j) => SeenIn(ms, h \cup more, O, j)
      BY <2>2, <3>3, <3>4, GrownKeeps
    <3>9. BetweenRules(ls) => BetweenRules(ms)
      BY <3>8 DEF BetweenRules
    <3>10. ASSUME NEW j \in Slots, j \in S, j <= i
           PROVE  SeenIn(ms, tt[j], O, j) \/ BetweenRules(ms)
      <4>1. CASE j = i
        BY <3>3, <3>6, <3>8, <4>1
      <4>2. CASE j # i
        <5>1. SeenIn(ls, told[j], O, j) \/ BetweenRules(ls)
          BY <2>1, <3>5, <3>10, <4>2
        <5> QED
          BY <3>6, <3>8, <3>9, <4>2, <5>1
      <4> QED
        BY <4>1, <4>2
    <3> QED
      BY <2>1, <2>2, <3>7, <3>8, <3>10
  <2> QED
    BY <2>3, <2>4
<1>5. N \in K
  <2>1. 0 .. N \subseteq K
    <3> HIDE DEF K
    <3> QED
      BY <1>1, <1>3, <1>4, CountingUp
  <2> QED
    BY <1>1, <2>1
<1> QED
  BY <1>1, <1>5

(* A payment, as its lines go.                                              *)
LEMMA PayNotices ==
  ASSUME FeesInv, PartsOK(line), NEW i \in Slots, Pay(i), NEW O, Held(inst', i) => i \notin O
  PROVE  /\ PartsOK(line')
         /\ GateOpen => SeenIn(line', trace'[i], O, i) \/ BetweenRules(line')
<1> DEFINE e == Earned(line, inst', i)
           ms == line \o e.lines
           told == trace[i]
<1>1. /\ line' = IF GateOpen THEN ms ELSE line
      /\ trace' = [trace EXCEPT ![i] = @ \cup IF GateOpen THEN e.told ELSE {Blocked}]
  BY DEF Pay
<1>2. LinesOK(line) /\ LinesOK(ms) /\ trace \in [Slots -> SUBSET Reasons]
  BY EarnedFits DEF FeesInv, FeesTypeOK
<1>3. /\ Grown(line, ms, i)
      /\ (SecondRules(ms) <=> SecondRules(line)) =>
           SeenIn(ms, told \cup e.told, O, i) \/ BetweenRules(ms)
  <2> HIDE DEF told
  <2> DEFINE s == inst'
  <2>1. Held(s, i) => i \notin O
    OBVIOUS
  <2> HIDE DEF s
  <2>2. LET ea == Earned(line, s, i)
            na == line \o ea.lines
        IN  /\ Grown(line, na, i)
            /\ (SecondRules(na) <=> SecondRules(line)) =>
                 SeenIn(na, told \cup ea.told, O, i) \/ BetweenRules(na)
    BY <1>2, <2>1, EarnedGrows
  <2> QED
    BY <2>2 DEF s
<1> HIDE DEF e, ms
<1>4. PartsOK(ms) /\ (SecondRules(ms) <=> SecondRules(line))
  BY <1>2, <1>3, GrownKeeps
<1>5. GateOpen => trace'[i] = told \cup e.told
  BY <1>1, <1>2
<1> QED
  BY <1>1, <1>3, <1>4, <1>5

(* Lines that end keep their parts.                                         *)
LEMMA PartsStay ==
  ASSUME PartsOK(line), NEW ms, AsBefore(line, ms)
  PROVE  PartsOK(ms)
BY DEF PartsOK, InParts, AsBefore, Live, Automatic

LEMMA PartsByHand ==
  ASSUME FeesInv, PartsOK(line), RecordByHand
  PROVE  PartsOK(line')
<1>1. PICK r \in Roles :
        line' = Append(line, [inst |-> ByHand, role |-> r, rule |-> "hand", amount |-> 1,
                              status |-> "pending", review |-> "none"])
  BY DEF RecordByHand
<1> DEFINE l == [inst |-> ByHand, role |-> r, rule |-> "hand", amount |-> 1,
                 status |-> "pending", review |-> "none"]
           N == Len(line)
<1>2. l \in FeeRows /\ ~Automatic(l) /\ line' = Append(line, l)
  BY <1>1 DEF FeeRows, Automatic
<1> HIDE DEF l
<1>3. line \in Seq(FeeRows)
  BY DEF FeesInv, LinesOK
<1>4. DOMAIN line = 1 .. N /\ N \in Nat
  BY <1>3, LinesAre
<1>5. /\ DOMAIN line' = 1 .. N + 1 /\ line'[N + 1] = l
      /\ \A n \in 1 .. N : line'[n] = line[n]
  BY <1>2, <1>3, AppendProperties
<1>6. \A n \in 1 .. N + 1 : n \in 1 .. N \/ n = N + 1
  BY <1>4
<1>7. \A n \in Live(line') : n \in Live(line) /\ line'[n] = line[n]
  BY <1>2, <1>4, <1>5, <1>6 DEF Live
<1> QED
  BY <1>7 DEF PartsOK

(* The payments of a sale that is valid are noticed.                        *)
PayInv == FeesInv /\ PartsOK(line)

LEMMA PayStep ==
  ASSUME PayInv, [FeesNext]_feeVars
  PROVE  PartsOK(line)'
<1>1. FeesInv /\ PartsOK(line) /\ LinesOK(line) /\ trace \in [Slots -> SUBSET Reasons]
  BY DEF PayInv, FeesInv, FeesTypeOK
<1>2. UNCHANGED payout
  BY DEF feeVars, ruleVars, FeesNext, Pay, Renegotiate, ValidateSale, Reprocess, ChangeContract,
         CancelContract, RecordByHand, CheckStatus, WriteStatus, ResolveReview, EditPolicy
<1>3. PartsOK(line') => PartsOK(line)'
  BY <1>2 DEF PartsOK, InParts
<1>4. ASSUME NEW j \in Slots, Pay(j) PROVE PartsOK(line)'
  <2> DEFINE none == {}
  <2>2. Held(inst', j) => j \notin none
    OBVIOUS
  <2> HIDE DEF none
  <2>1. PartsOK(line')
    BY <1>1, <1>4, <2>2, PayNotices
  <2> QED
    BY <1>3, <2>1
<1>5. ASSUME NEW S, line' = Reevaluated(S).lines PROVE PartsOK(line)'
  <2>1. PICK t : Runs(S, t) /\ Reevaluated(S) = t[LastSlot]
    BY <1>1, ReevaluatedRuns
  <2> DEFINE none == {}
  <2>2. \A j \in Slots : j \in S /\ Held(AsOf(j), j) => j \notin none
    OBVIOUS
  <2> HIDE DEF none
  <2>3. PartsOK(line')
    BY <1>1, <1>5, <2>1, <2>2, RunsNotice
  <2> QED
    BY <1>3, <2>3
<1>6. ASSUME ValidateSale \/ Reprocess PROVE PartsOK(line)'
  BY <1>5, <1>6 DEF ValidateSale, Reprocess
<1>7. ASSUME UNCHANGED line PROVE PartsOK(line)'
  BY <1>1, <1>3, <1>7
<1>8. ASSUME CancelContract PROVE PartsOK(line)'
  BY <1>1, <1>3, <1>8, CancelKeeps, PartsStay
<1>9. RecordByHand => PartsOK(line)'
  BY <1>1, <1>3, PartsByHand
<1>10. ASSUME NEW k \in Clerks, WriteStatus(k) PROVE PartsOK(line)'
  BY <1>1, <1>3, <1>10, DecisionKeeps, PartsStay
<1>11. ASSUME NEW n \in DOMAIN line, ResolveReview(n) PROVE PartsOK(line)'
  BY <1>1, <1>3, <1>11, ResolveKeeps, PartsStay
<1>12. (\E i \in Slots : Renegotiate(i)) \/ ChangeContract \/ EditPolicy => UNCHANGED line
  BY DEF Renegotiate, ChangeContract, EditPolicy
<1>13. \A k \in Clerks, n \in DOMAIN line, to \in {"approved", "paid", "cancelled"} :
         CheckStatus(k, n, to) => UNCHANGED line
  BY DEF CheckStatus
<1>14. UNCHANGED feeVars => UNCHANGED line
  BY DEF feeVars
<1> QED
  BY <1>4, <1>6, <1>7, <1>8, <1>9, <1>10, <1>11, <1>12, <1>13, <1>14 DEF FeesNext

LEMMA PayInvariant == FeesSpec => []PayInv
<1>1. FeesInit => PayInv
  <2>1. FeesInit => PartsOK(line)
    BY DEF FeesInit, PartsOK, Live
  <2> QED
    BY <2>1, FeesStart DEF PayInv
<1>2. PayInv /\ [FeesNext]_feeVars => PayInv'
  BY FeesStep, PayStep DEF PayInv
<1> QED
  BY <1>1, <1>2, PTL DEF FeesSpec

-----------------------------------------------------------------------------
(* The entry earns the commission.                                          *)

(* Each agreement takes the place after the one before it, and is the only  *)
(* one of its installment.                                                  *)
AgreedInOrder ==
  \A k \in 1 .. Len(agreed) :
    /\ agreed[k].by = Schedule + k /\ agreed[k].original < agreed[k].by
    /\ \A m \in 1 .. Len(agreed) : agreed[m].original = agreed[k].original => m = k

(* What is replaced, while the contract is not cancelled.                   *)
ReplacedOnce ==
  cstatus # "cancelled" =>
    \A i \in Slots :
      /\ inst[i].status # "cancelled"
      /\ inst[i].status = "renegotiated" <=> \E k \in 1 .. Len(agreed) : agreed[k].original = i

(* An installment keeps the day it was made for.                            *)
DuesOK ==
  /\ \A i \in 1 .. Schedule : inst[i].due = i
  /\ \A k \in 1 .. Len(agreed) : inst[Schedule + k].due = agreed[k].due

(* Payments are counted as they come.                                       *)
Payments == {j \in Slots : inst[j].paidAt > 0}
PaymentsInOrder ==
  \A i \in Slots : /\ inst[i].paidAt <= Cardinality(Payments)
                   /\ inst[i].status # "paid" => inst[i].paidAt = 0

(* e takes an installment to the last of the agreements that replaced it.   *)
Ends(e) ==
  /\ e \in [Slots -> Slots]
  /\ \A k \in 1 .. Len(agreed) : e[agreed[k].original] = e[agreed[k].by]
  /\ \A i \in Slots : (\A k \in 1 .. Len(agreed) : agreed[k].original # i) => e[i] = i
  /\ \A i \in Slots : \A k \in 1 .. Len(agreed) : agreed[k].original # e[i]
  /\ \A i \in 1 .. Schedule : e[i] <= Schedule + Len(agreed)
  /\ \A i, j \in 1 .. Schedule : e[i] = e[j] => i = j

(* i is of the entry, and what the payout asks of it is there.              *)
OfEntry(e, i) == \E h \in 1 .. EntryTotal : e[h] = i
Whole(s, e, i) ==
  /\ OfEntry(e, i)
  /\ payout = "entry_total" \/ i \notin Ineligible
  /\ payout = "entry_total" => \A h \in 1 .. EntryTotal : s[e[h]].status = "paid"

(* The same of a payment, with those no later.                              *)
OwedIn(s, e, i) ==
  /\ OfEntry(e, i) /\ s[i].status = "paid"
  /\ payout = "entry_total" \/ i \notin Ineligible
  /\ payout = "entry_total" =>
       \A h \in 1 .. EntryTotal : s[e[h]].status = "paid" /\ s[e[h]].paidAt <= s[i].paidAt
Earns(e, ls) ==
  \A n \in DOMAIN ls : ls[n].rule = "v2" => ls[n].inst \in Slots /\ OwedIn(inst, e, ls[n].inst)
WholeEntry == \E e : Ends(e) /\ (AgreementsApart => Earns(e, line))

EntryInv == AgreedInOrder /\ ReplacedOnce /\ DuesOK /\ PaymentsInOrder /\ WholeEntry

LEMMA SlotsAre ==
  /\ Schedule \in Nat /\ LastSlot \in Nat /\ Slots = 1 .. LastSlot /\ EntryTotal \in 1 .. Schedule
  /\ MaxAgreements \in Nat /\ LastSlot = Schedule + MaxAgreements
  /\ \A i \in 1 .. Schedule : i \in Slots
  /\ \A i \in 1 .. EntryTotal : i \in 1 .. Schedule
BY EntryOfSchedule, BoundsOfCommissions DEF LastSlot, Slots

(* What is agreed, of what there is.                                        *)
LEMMA AgreedIs ==
  ASSUME FeesInv, AgreedInOrder
  PROVE  /\ Len(agreed) \in 0 .. MaxAgreements /\ DOMAIN agreed = 1 .. Len(agreed)
         /\ \A k \in 1 .. Len(agreed) :
              /\ agreed[k].original \in Slots /\ agreed[k].due \in Dates
              /\ agreed[k].by \in Slots /\ agreed[k].by = Schedule + k /\ agreed[k].by \in Nat
              /\ agreed[k].original \in Nat /\ agreed[k].original < agreed[k].by
<1> DEFINE G == [original : Slots, due : Dates, by : Slots]
<1>1. agreed \in Seq(G) /\ Len(agreed) <= MaxAgreements
  BY DEF FeesInv, AgreementsOK
<1>2. Len(agreed) \in Nat /\ DOMAIN agreed = 1 .. Len(agreed) /\ \A k \in 1 .. Len(agreed) : agreed[k] \in G
  BY <1>1, ElementOfSeq, LenProperties
<1>3. Len(agreed) \in 0 .. MaxAgreements
  BY <1>1, <1>2, SlotsAre
<1>4. \A i \in Slots : i \in Nat
  BY SlotsAre
<1> QED
  BY <1>2, <1>3, <1>4 DEF AgreedInOrder

(* There is one way to follow the agreements.                               *)
LEMMA OneEnd ==
  ASSUME FeesInv, AgreedInOrder, NEW e, Ends(e), NEW f,
         \A k \in 1 .. Len(agreed) : f[agreed[k].original] = f[agreed[k].by],
         \A i \in Slots : (\A k \in 1 .. Len(agreed) : agreed[k].original # i) => f[i] = i
  PROVE  \A i \in Slots : f[i] = e[i]
<1> DEFINE N == LastSlot
           K == {m \in 0 .. N : \A i \in Slots : i > N - m => f[i] = e[i]}
<1>1. N \in Nat /\ Slots = 1 .. N
  BY SlotsAre
<1>2. 0 \in K
  BY <1>1
<1>3. ASSUME NEW m \in 1 .. N, m - 1 \in K PROVE m \in K
  <2>1. m \in 0 .. N /\ m \in Nat
    BY <1>1
  <2>2. \A i \in Slots : i > N - (m - 1) => f[i] = e[i]
    BY <1>3
  <2>3. ASSUME NEW i \in Slots, i > N - m PROVE f[i] = e[i]
    <3>1. \A j \in Slots : j > i => j > N - (m - 1)
      BY <1>1, <2>1, <2>3
    <3>2. CASE \E k \in 1 .. Len(agreed) : agreed[k].original = i
      <4>1. PICK k \in 1 .. Len(agreed) : agreed[k].original = i
        BY <3>2
      <4>2. agreed[k].by \in Slots /\ agreed[k].by > i
        BY <1>1, <4>1, AgreedIs
      <4>3. f[agreed[k].by] = e[agreed[k].by]
        BY <2>2, <3>1, <4>2
      <4> QED
        BY <4>1, <4>3 DEF Ends
    <3>3. CASE \A k \in 1 .. Len(agreed) : agreed[k].original # i
      BY <3>3 DEF Ends
    <3> QED
      BY <3>2, <3>3
  <2> QED
    BY <2>1, <2>3
<1>4. 0 .. N \subseteq K
  <2> HIDE DEF K
  <2> QED
    BY <1>1, <1>2, <1>3, CountingUp
<1>5. N \in K
  BY <1>1, <1>4
<1>6. \A i \in Slots : i > N - N
  <2> HIDE DEF N
  <2> QED
    BY <1>1
<1> QED
  BY <1>5, <1>6

(* What was agreed, as resolveEntry claims it: the first n agreements.      *)
Matches(succ, n) ==
  /\ succ \in [Slots -> {0} \cup Slots]
  /\ \A k \in 1 .. n : succ[agreed[k].original] = agreed[k].by
  /\ \A o \in Slots : succ[o] # 0 => \E k \in 1 .. n : agreed[k].original = o

(* A schedule with the days and the agreements of the one there is.         *)
Like(s) ==
  /\ s \in [Slots -> Installment]
  /\ \A j \in Slots : /\ s[j].due = inst[j].due
                      /\ \A x \in {"none", "renegotiated", "cancelled"} : s[j].status = x <=> inst[j].status = x

FitsAgreement(s, succ, n) ==
  {j \in Slots : /\ j > agreed[n].original /\ s[j].due = agreed[n].due
                 /\ s[j].status \notin {"none", "cancelled"}
                 /\ \A o \in Slots : succ[o] # j}
Claims(s, succ, n) ==
  IF succ[agreed[n].original] # 0 \/ FitsAgreement(s, succ, n) = {} THEN succ
  ELSE [succ EXCEPT ![agreed[n].original] = Min(FitsAgreement(s, succ, n))]

LEMMA FitsOne ==
  ASSUME FeesInv, AgreedInOrder, ReplacedOnce, DuesOK, AgreementsApart, cstatus # "cancelled",
         NEW s, Like(s), NEW n \in 1 .. Len(agreed), NEW succ, Matches(succ, n - 1)
  PROVE  Matches(Claims(s, succ, n), n)
<1> DEFINE g == agreed[n]
           F == FitsAgreement(s, succ, n)
           b == Schedule + n
<1>1. /\ Len(agreed) \in 0 .. MaxAgreements /\ n \in Nat /\ n \in 1 .. MaxAgreements
      /\ g.original \in Slots /\ g.due \in Dates /\ g.by = b /\ b \in Slots /\ g.original < b
  BY AgreedIs, SlotsAre
<1>2. \A k \in 1 .. n - 1 : k \in 1 .. Len(agreed) /\ k \in 1 .. n /\ k # n
  BY <1>1
<1>3. \A k \in 1 .. n : k \in 1 .. n - 1 \/ k = n
  BY <1>1
<1>4. succ[g.original] = 0
  <2> SUFFICES ASSUME succ[g.original] # 0 PROVE FALSE
    OBVIOUS
  <2>1. PICK k \in 1 .. n - 1 : agreed[k].original = g.original
    BY <1>1 DEF Matches
  <2> QED
    BY <1>2, <2>1 DEF AgreedInOrder
<1>5. b \in F
  <2>1. s[b].due = g.due
    BY <1>1 DEF Like, DuesOK
  <2>2. s[b].status \notin {"none", "cancelled"}
    <3>1. ~(b > Schedule + Len(agreed))
      BY <1>1, SlotsAre
    <3>2. inst[b].status # "none" /\ inst[b].status # "cancelled"
      BY <1>1, <3>1 DEF FeesInv, AgreementsOK, ReplacedOnce
    <3> QED
      BY <1>1, <3>2 DEF Like
  <2>3. ASSUME NEW o \in Slots PROVE succ[o] # b
    <3> SUFFICES ASSUME succ[o] = b PROVE FALSE
      OBVIOUS
    <3>1. b # 0
      BY <1>1, SlotsAre
    <3>2. PICK k \in 1 .. n - 1 : agreed[k].original = o
      BY <3>1 DEF Matches
    <3>3. succ[o] = Schedule + k /\ k \in Nat
      BY <1>2, <3>2, AgreedIs DEF Matches
    <3>4. k = n
      BY <1>1, <3>3, SlotsAre
    <3> QED
      BY <1>2, <3>4
  <2> QED
    BY <1>1, <2>1, <2>2, <2>3 DEF FitsAgreement
<1>6. ASSUME NEW j \in F PROVE b <= j
  <2>1. /\ j \in Slots /\ s[j].due = g.due /\ s[j].status # "none"
        /\ \A o \in Slots : succ[o] # j
    BY DEF FitsAgreement
  <2>2. inst[j].due = g.due /\ inst[j].status # "none"
    BY <2>1 DEF Like
  <2>3. j \in Nat /\ j >= 1 /\ ~(j > Schedule + Len(agreed))
    BY <2>1, <2>2, SlotsAre DEF FeesInv, AgreementsOK
  <2>4. ~(j <= Schedule)
    <3> SUFFICES ASSUME j <= Schedule PROVE FALSE
      OBVIOUS
    <3>1. j \in 1 .. Schedule
      BY <2>3, SlotsAre
    <3>2. g.due = j
      BY <2>2, <3>1 DEF DuesOK
    <3>3. g.due \notin 1 .. Schedule
      BY AgreedIs DEF AgreementsApart
    <3> QED
      BY <3>1, <3>2, <3>3
  <2>5. ~(j < b)
    <3> SUFFICES ASSUME j < b PROVE FALSE
      OBVIOUS
    <3> DEFINE k == j - Schedule
    <3>1. k \in 1 .. n - 1 /\ j = Schedule + k
      BY <1>1, <2>3, <2>4, SlotsAre
    <3>2. agreed[k].by = j /\ agreed[k].original \in Slots
      BY <1>2, <3>1, AgreedIs
    <3> HIDE DEF k
    <3>3. succ[agreed[k].original] = j
      BY <3>1, <3>2 DEF Matches
    <3> QED
      BY <2>1, <3>2, <3>3
  <2> QED
    BY <1>1, <2>3, <2>5, SlotsAre
<1>7. Min(F) = b
  <2>1. \A x, y \in F : x \in Nat /\ y \in Nat
    BY SlotsAre DEF FitsAgreement
  <2> HIDE DEF F, b
  <2>2. \A x \in F : (\A y \in F : x =< y) => x = b
    BY <1>5, <1>6, <2>1
  <2> QED
    BY <1>5, <1>6, <2>2 DEF Min
<1>8. Claims(s, succ, n) = [succ EXCEPT ![g.original] = b]
  BY <1>4, <1>5, <1>7 DEF Claims
<1> DEFINE next == [succ EXCEPT ![g.original] = b]
<1>9. next \in [Slots -> {0} \cup Slots]
  BY <1>1 DEF Matches
<1>10. /\ next[g.original] = b
       /\ \A o \in Slots : o # g.original => next[o] = succ[o]
  BY <1>1 DEF Matches
<1> HIDE DEF next, b
<1>11. ASSUME NEW k \in 1 .. n PROVE next[agreed[k].original] = agreed[k].by
  <2>1. CASE k = n
    BY <1>1, <1>10, <2>1
  <2>2. CASE k \in 1 .. n - 1
    <3>1. agreed[k].original # g.original /\ agreed[k].original \in Slots
      BY <1>2, <2>2, AgreedIs DEF AgreedInOrder
    <3> QED
      BY <1>10, <2>2, <3>1 DEF Matches
  <2> QED
    BY <1>3, <2>1, <2>2
<1>12. ASSUME NEW o \in Slots, next[o] # 0 PROVE \E k \in 1 .. n : agreed[k].original = o
  <2>1. CASE o = g.original
    <3>1. n \in 1 .. n
      BY <1>1
    <3> QED
      BY <2>1, <3>1
  <2>2. CASE o # g.original
    BY <1>2, <1>10, <1>12, <2>2 DEF Matches
  <2> QED
    BY <2>1, <2>2
<1>13. Matches(next, n)
  BY <1>9, <1>11, <1>12 DEF Matches
<1> QED
  BY <1>8, <1>13 DEF next, b

LEMMA ClaimsAre ==
  ASSUME FeesInv, AgreedInOrder, NEW s, NEW n \in 1 .. Len(agreed), NEW succ \in [Slots -> {0} \cup Slots]
  PROVE  Claims(s, succ, n) \in [Slots -> {0} \cup Slots]
<1> DEFINE F == FitsAgreement(s, succ, n)
<1>1. agreed[n].original \in Slots
  BY AgreedIs
<1>2. ASSUME F # {} PROVE Min(F) \in Slots
  <2>1. F \subseteq Slots /\ F \subseteq Nat
    BY SlotsAre DEF FitsAgreement
  <2> HIDE DEF F
  <2>2. \E x \in F : \A y \in F : x <= y
    BY <1>2, <2>1, LeastExists
  <2> QED
    BY <2>1, <2>2 DEF Min
<1> HIDE DEF F
<1>3. Claims(s, succ, n) = IF succ[agreed[n].original] # 0 \/ F = {} THEN succ
                           ELSE [succ EXCEPT ![agreed[n].original] = Min(F)]
  BY DEF Claims, F
<1> QED
  BY <1>1, <1>2, <1>3

(* resolveEntry finds the installment each agreement created.               *)
LEMMA SuccessorsMatch ==
  ASSUME FeesInv, AgreedInOrder, ReplacedOnce, DuesOK, AgreementsApart, cstatus # "cancelled",
         NEW s, Like(s)
  PROVE  Matches(Successors(s), Len(agreed))
<1> DEFINE N == Len(agreed)
           D == [Slots -> {0} \cup Slots]
           zero == [o \in Slots |-> 0]
           step == [n \in 1 .. N |-> [succ \in D |-> Claims(s, succ, n)]]
           P(f) == f = [n \in 0 .. N |-> IF n = 0 THEN zero ELSE Claims(s, f[n - 1], n)]
           t == CHOOSE f : P(f)
<1>1. N \in Nat
  BY AgreedIs, SlotsAre
<1>2. zero \in D
  OBVIOUS
<1>3. \A n \in 1 .. N : \A succ \in D : Claims(s, succ, n) \in D
  BY ClaimsAre
<1>4. PICK g \in [0 .. N -> D] : g[0] = zero /\ \A n \in 1 .. N : g[n] = step[n][g[n - 1]]
  <2>1. step \in [1 .. N -> [D -> D]]
    <3> HIDE DEF D
    <3> QED
      BY <1>3
  <2>2. Recurs(N, D, zero, step)
    <3> HIDE DEF D, zero, step, N
    <3> QED
      BY <1>1, <1>2, <2>1, ByRecursion
  <2> HIDE DEF D, zero, step, N
  <2> QED
    BY <2>2 DEF Recurs
<1>5. ASSUME NEW n \in 1 .. N PROVE g[n] = Claims(s, g[n - 1], n)
  <2>1. n - 1 \in 0 .. N
    BY <1>1
  <2>2. g[n - 1] \in D
    BY <2>1
  <2> HIDE DEF D
  <2> QED
    BY <1>4, <2>2
<1>6. P(g)
  <2> HIDE DEF D, zero, N
  <2>1. \A n \in 0 .. N : n = 0 \/ n \in 1 .. N
    BY <1>1
  <2>2. \A n \in 1 .. N : n # 0
    BY <1>1
  <2> QED
    BY <1>4, <1>5, <2>1, <2>2
<1>7. P(t)
  <2> HIDE DEF P
  <2> QED
    BY <1>6
<1>8. Successors(s) = t[N]
  BY DEF Successors, Claims, FitsAgreement
<1> HIDE DEF t
<1>9. /\ t[0] = zero
      /\ \A n \in 1 .. N : t[n] = Claims(s, t[n - 1], n)
  <2> HIDE DEF zero, N
  <2>1. 0 \in 0 .. N /\ \A n \in 1 .. N : n # 0 /\ n \in 0 .. N
    BY <1>1
  <2> QED
    BY <1>7, <2>1
<1> DEFINE K == {n \in 0 .. N : Matches(t[n], n)}
<1>10. 0 \in K
  <2>1. Matches(zero, 0)
    BY <1>2 DEF Matches
  <2> HIDE DEF zero
  <2> QED
    BY <1>1, <1>9, <2>1
<1>11. ASSUME NEW n \in 1 .. N, n - 1 \in K PROVE n \in K
  <2>1. Matches(t[n - 1], n - 1)
    BY <1>11
  <2>2. Matches(Claims(s, t[n - 1], n), n)
    BY <2>1, FitsOne
  <2>3. Matches(t[n], n) /\ n \in 0 .. N
    BY <1>1, <1>9, <2>2
  <2> QED
    BY <2>3
<1>12. 0 .. N \subseteq K
  <2> HIDE DEF K, N
  <2> QED
    BY <1>1, <1>10, <1>11, CountingUp
<1>13. N \in K
  BY <1>1, <1>12
<1> QED
  BY <1>8, <1>13

(* The installments of the entry are the last of their agreements.          *)
EndedOf(s, succ) ==
  LET last[i \in Slots] == IF s[i].status = "renegotiated" /\ succ[i] # 0 THEN last[succ[i]] ELSE i
  IN  last

LEMMA EndedAre ==
  ASSUME FeesInv, AgreedInOrder, ReplacedOnce, cstatus # "cancelled",
         NEW s, Like(s), NEW succ, Matches(succ, Len(agreed)), NEW e, Ends(e)
  PROVE  \A i \in Slots : EndedOf(s, succ)[i] = e[i]
<1> DEFINE P(f) == f = [i \in Slots |-> IF s[i].status = "renegotiated" /\ succ[i] # 0 THEN f[succ[i]] ELSE i]
           t == CHOOSE f : P(f)
<1>1. \A k \in 1 .. Len(agreed) :
        /\ agreed[k].original \in Slots /\ agreed[k].by # 0
        /\ succ[agreed[k].original] = agreed[k].by
        /\ s[agreed[k].original].status = "renegotiated"
  <2> SUFFICES ASSUME NEW k \in 1 .. Len(agreed)
               PROVE  /\ agreed[k].original \in Slots /\ agreed[k].by # 0
                      /\ succ[agreed[k].original] = agreed[k].by
                      /\ s[agreed[k].original].status = "renegotiated"
    OBVIOUS
  <2>1. agreed[k].original \in Slots /\ agreed[k].by # 0
    BY AgreedIs, SlotsAre
  <2>2. inst[agreed[k].original].status = "renegotiated"
    BY <2>1 DEF ReplacedOnce
  <2> QED
    BY <2>1, <2>2 DEF Like, Matches
<1>2. \A i \in Slots : s[i].status = "renegotiated" /\ succ[i] # 0 <=>
                         \E k \in 1 .. Len(agreed) : agreed[k].original = i
  BY <1>1 DEF Matches
<1>3. P(e)
  <2>1. ASSUME NEW i \in Slots
        PROVE  e[i] = IF s[i].status = "renegotiated" /\ succ[i] # 0 THEN e[succ[i]] ELSE i
    <3>1. CASE \E k \in 1 .. Len(agreed) : agreed[k].original = i
      BY <1>1, <1>2, <3>1 DEF Ends
    <3>2. CASE \A k \in 1 .. Len(agreed) : agreed[k].original # i
      BY <1>2, <3>2 DEF Ends
    <3> QED
      BY <3>1, <3>2
  <2>2. e = [i \in Slots |-> e[i]]
    BY DEF Ends
  <2> QED
    BY <2>1, <2>2
<1>4. P(t)
  <2> HIDE DEF P
  <2> QED
    BY <1>3
<1>5. EndedOf(s, succ) = t
  BY DEF EndedOf
<1> HIDE DEF t
<1>6. \A i \in Slots : t[i] = IF s[i].status = "renegotiated" /\ succ[i] # 0 THEN t[succ[i]] ELSE i
  BY <1>4
<1>7. \A k \in 1 .. Len(agreed) : t[agreed[k].original] = t[agreed[k].by]
  BY <1>1, <1>6
<1>8. \A i \in Slots : (\A k \in 1 .. Len(agreed) : agreed[k].original # i) => t[i] = i
  BY <1>2, <1>6
<1>9. \A i \in Slots : t[i] = e[i]
  BY <1>7, <1>8, OneEnd
<1> QED
  BY <1>5, <1>9

LEMMA EntryInstallmentsAre ==
  ASSUME FeesInv, AgreedInOrder, ReplacedOnce, cstatus # "cancelled",
         NEW s, Like(s), NEW succ, Matches(succ, Len(agreed)), NEW e, Ends(e)
  PROVE  EntryInstallments(s, succ) = {e[i] : i \in 1 .. EntryTotal}
<1> DEFINE claimed == {succ[o] : o \in Slots}
           counted == {i \in Slots : /\ s[i].status \notin {"none", "cancelled"}
                                     /\ i \notin claimed
                                     /\ s[i].status = "renegotiated" => succ[i] # 0}
           within == {i \in counted : Cardinality({j \in counted : j <= i}) <= EntryTotal}
           last == EndedOf(s, succ)
<1>1. EntryInstallments(s, succ) =
        {last[i] : i \in within} \ {i \in Slots : s[i].status \in {"renegotiated", "cancelled"}}
  BY DEF EntryInstallments, EndedOf
<1>2. \A x \in claimed : x = 0 \/ x > Schedule
  <2> SUFFICES ASSUME NEW o \in Slots, succ[o] # 0 PROVE succ[o] > Schedule
    OBVIOUS
  <2>1. PICK k \in 1 .. Len(agreed) : agreed[k].original = o
    BY DEF Matches
  <2>2. succ[o] = Schedule + k /\ k \in Nat /\ k >= 1
    BY <2>1, AgreedIs, SlotsAre DEF Matches
  <2> QED
    BY <2>2, SlotsAre
<1>3. \A i \in Slots : i > Schedule /\ i <= Schedule + Len(agreed) => i \in claimed
  <2> SUFFICES ASSUME NEW i \in Slots, i > Schedule, i <= Schedule + Len(agreed) PROVE i \in claimed
    OBVIOUS
  <2> DEFINE k == i - Schedule
  <2>1. k \in 1 .. Len(agreed) /\ i = Schedule + k
    BY AgreedIs, SlotsAre
  <2> HIDE DEF k
  <2>2. agreed[k].original \in Slots /\ succ[agreed[k].original] = i
    BY <2>1, AgreedIs DEF Matches
  <2> QED
    BY <2>2
<1> HIDE DEF claimed
<1>4. \A i \in Slots : /\ s[i].status = "none" <=> i > Schedule + Len(agreed)
                       /\ s[i].status # "cancelled"
                       /\ s[i].status = "renegotiated" => succ[i] # 0
  <2> SUFFICES ASSUME NEW i \in Slots
               PROVE  /\ s[i].status = "none" <=> i > Schedule + Len(agreed)
                      /\ s[i].status # "cancelled"
                      /\ s[i].status = "renegotiated" => succ[i] # 0
    OBVIOUS
  <2>1. /\ s[i].status = "none" <=> inst[i].status = "none"
        /\ s[i].status = "cancelled" <=> inst[i].status = "cancelled"
        /\ s[i].status = "renegotiated" <=> inst[i].status = "renegotiated"
    BY DEF Like
  <2>2. inst[i].status = "none" <=> i > Schedule + Len(agreed)
    BY DEF FeesInv, AgreementsOK
  <2>3. /\ inst[i].status # "cancelled"
        /\ inst[i].status = "renegotiated" <=> \E k \in 1 .. Len(agreed) : agreed[k].original = i
    BY DEF ReplacedOnce
  <2>4. \A k \in 1 .. Len(agreed) : agreed[k].original = i => succ[i] # 0
    BY AgreedIs, SlotsAre DEF Matches
  <2> QED
    BY <2>1, <2>2, <2>3, <2>4
<1>5. counted = 1 .. Schedule
  <2>1. \A i \in 1 .. Schedule : i \in Slots /\ i # 0 /\ ~(i > Schedule) /\ ~(i > Schedule + Len(agreed))
    BY AgreedIs, SlotsAre
  <2>2. \A i \in 1 .. Schedule : i \in counted
    BY <1>2, <1>4, <2>1
  <2>3. ASSUME NEW i \in counted PROVE i \in 1 .. Schedule
    <3>1. i \in Slots /\ ~(i > Schedule + Len(agreed)) /\ i \notin claimed
      BY <1>4
    <3>2. ~(i > Schedule)
      BY <1>3, <3>1, AgreedIs, SlotsAre
    <3> QED
      BY <3>1, <3>2, SlotsAre
  <2> HIDE DEF counted
  <2> QED
    BY <2>2, <2>3
<1>6. ASSUME NEW i \in counted PROVE i \in within <=> i \in 1 .. EntryTotal
  <2>1. i \in within <=> Cardinality({j \in counted : j <= i}) <= EntryTotal
    OBVIOUS
  <2> HIDE DEF within, counted
  <2>2. {j \in counted : j <= i} = 1 .. i /\ i \in Nat /\ i >= 1
    BY <1>5, SlotsAre
  <2>3. Cardinality(1 .. i) = i
    <3>1. 1 \in Int /\ i \in Int /\ ~(1 > i) /\ i - 1 + 1 = i
      BY <2>2
    <3>2. Cardinality(1 .. i) = IF 1 > i THEN 0 ELSE i - 1 + 1
      BY <3>1, FS_Interval
    <3> QED
      BY <3>1, <3>2
  <2>4. i \in within <=> i <= EntryTotal
    BY <2>1, <2>2, <2>3
  <2> QED
    BY <2>2, <2>4, SlotsAre
<1>7. \A i \in 1 .. EntryTotal : last[i] = e[i] /\ i \in counted
  BY <1>5, EndedAre, SlotsAre
<1>8. \A i \in within : i \in counted
  OBVIOUS
<1> HIDE DEF within, last, counted
<1>9. {last[i] : i \in within} = {e[i] : i \in 1 .. EntryTotal}
  BY <1>6, <1>7, <1>8
<1>10. ASSUME NEW i \in 1 .. EntryTotal
       PROVE  e[i] \notin {j \in Slots : s[j].status \in {"renegotiated", "cancelled"}}
  <2>1. i \in Slots /\ e[i] \in Slots
    BY SlotsAre DEF Ends
  <2>3. \A k \in 1 .. Len(agreed) : agreed[k].original # e[i]
    BY <2>1 DEF Ends
  <2>2. inst[e[i]].status # "renegotiated" /\ inst[e[i]].status # "cancelled"
    BY <2>1, <2>3 DEF ReplacedOnce
  <2> QED
    BY <2>1, <2>2 DEF Like
<1> QED
  BY <1>1, <1>9, <1>10

(* What is held is what the entry does not owe yet.                         *)
LEMMA HeldIs ==
  ASSUME FeesInv, AgreedInOrder, ReplacedOnce, DuesOK, AgreementsApart, cstatus # "cancelled",
         NEW s, Like(s), NEW e, Ends(e), NEW i \in Slots
  PROVE  Held(s, i) <=> ~Whole(s, e, i)
<1> DEFINE succ == Successors(s)
           X == {e[h] : h \in 1 .. EntryTotal}
           Y == {x \in EntryInstallments(s, succ) : s[x].status = "paid"}
           f == [h \in 1 .. EntryTotal |-> e[h]]
           cx == Cardinality(X)
           cy == Cardinality(Y)
<1>1. Matches(succ, Len(agreed))
  BY SuccessorsMatch
<1>2. EntryInstallments(s, succ) = X
  <2> HIDE DEF succ
  <2> QED
    BY <1>1, EntryInstallmentsAre
<1>3. Held(s, i) <=> \/ payout # "entry_total" /\ i \in Ineligible
                     \/ i \notin X
                     \/ payout = "entry_total" /\ ~(cy >= EntryTotal)
  <2>1. FullyPaid(s, succ) <=> cy >= EntryTotal
    BY DEF FullyPaid
  <2>2. Held(s, i) <=> \/ payout # "entry_total" /\ i \in Ineligible
                       \/ i \notin EntryInstallments(s, succ)
                       \/ payout = "entry_total" /\ ~FullyPaid(s, succ)
    BY DEF Held
  <2> HIDE DEF succ, X, cy
  <2> QED
    BY <1>2, <2>1, <2>2
<1>4. IsFiniteSet(1 .. EntryTotal) /\ Cardinality(1 .. EntryTotal) = EntryTotal
  <2>1. 1 \in Int /\ EntryTotal \in Int /\ ~(1 > EntryTotal) /\ EntryTotal - 1 + 1 = EntryTotal
    BY SlotsAre
  <2>2. Cardinality(1 .. EntryTotal) = IF 1 > EntryTotal THEN 0 ELSE EntryTotal - 1 + 1
    BY <2>1, FS_Interval
  <2> QED
    BY <2>1, <2>2, FS_Interval
<1>5. f \in Surjection(1 .. EntryTotal, X) /\ f \in Injection(1 .. EntryTotal, X)
  <2>1. \A h, j \in 1 .. EntryTotal : e[h] = e[j] => h = j
    BY SlotsAre DEF Ends
  <2>2. f \in Surjection(1 .. EntryTotal, X)
    BY DEF Surjection
  <2> QED
    BY <2>1, <2>2 DEF Injection, IsInjective, Surjection
<1>6. IsFiniteSet(X) /\ cx = EntryTotal
  <2> HIDE DEF X, f
  <2> QED
    BY <1>4, <1>5, FS_Surjection
<1>7. Y = {x \in X : s[x].status = "paid"}
  BY <1>2
<1>8. cy <= cx /\ (cx = cy => X = Y) /\ cx \in Nat /\ cy \in Nat
  <2>1. Y \subseteq X
    BY <1>7
  <2> HIDE DEF X, Y
  <2>2. cy <= cx /\ (cx = cy => X = Y) /\ IsFiniteSet(Y)
    BY <1>6, <2>1, FS_Subset
  <2> QED
    BY <1>6, <2>2, FS_CardinalityType
<1>9. cy >= EntryTotal <=> X = Y
  <2>1. X = Y => cx = cy
    OBVIOUS
  <2> HIDE DEF X, Y, cx, cy
  <2> QED
    BY <1>6, <1>8, <2>1, SlotsAre
<1>10. X = Y <=> \A h \in 1 .. EntryTotal : s[e[h]].status = "paid"
  BY <1>7
<1>11. i \in X <=> OfEntry(e, i)
  BY DEF OfEntry
<1> HIDE DEF X, Y, cy
<1> QED
  BY <1>3, <1>9, <1>10, <1>11 DEF Whole

(* A line of the second rules comes when the entry is whole.                *)
LEMMA EarnedWhole ==
  ASSUME FeesInv, AgreedInOrder, ReplacedOnce, DuesOK, AgreementsApart, cstatus # "cancelled",
         NEW ls, LinesOK(ls), PartsOK(ls), NEW s, Like(s), NEW e, Ends(e), NEW i \in Slots
  PROVE  LET ms == ls \o Earned(ls, s, i).lines
         IN  \A n \in 1 .. Len(ms) : n > Len(ls) /\ ms[n].rule = "v2" => Whole(s, e, i)
<1> DEFINE ea == Earned(ls, s, i)
           ms == ls \o ea.lines
<1> SUFFICES ASSUME NEW n \in 1 .. Len(ms), n > Len(ls), ms[n].rule = "v2"
             PROVE  Whole(s, e, i)
  OBVIOUS
<1>1. Grown(ls, ms, i)
  BY LinesGrow
<1>2. SecondRules(ls)
  BY <1>1 DEF Grown
<1>3. ea.lines # <<>>
  <2> SUFFICES ASSUME ea.lines = <<>> PROVE FALSE
    OBVIOUS
  <2>1. ls \in Seq(FeeRows)
    BY DEF LinesOK
  <2>2. ms = ls
    BY <2>1, NothingAdded
  <2>3. Len(ls) \in Nat
    BY <2>1, LinesAre
  <2> HIDE DEF ms
  <2> QED
    BY <2>2, <2>3
<1>4. ~Held(s, i)
  BY <1>2, <1>3 DEF Earned
<1> QED
  BY <1>4, HeldIs

(* Lines that come when the entry is whole.                                 *)
LEMMA EarnsMore ==
  ASSUME NEW ls, LinesOK(ls), NEW ms, LinesOK(ms), NEW i \in Slots, Grown(ls, ms, i), NEW e, Earns(e, ls),
         \A n \in 1 .. Len(ms) : n > Len(ls) /\ ms[n].rule = "v2" => OwedIn(inst, e, i)
  PROVE  Earns(e, ms)
<1>1. ls \in Seq(FeeRows) /\ ms \in Seq(FeeRows)
  BY DEF LinesOK
<1>2. DOMAIN ls = 1 .. Len(ls) /\ DOMAIN ms = 1 .. Len(ms) /\ Len(ls) \in Nat /\ Len(ms) \in Nat
  BY <1>1, LinesAre
<1>3. ASSUME NEW n \in 1 .. Len(ms), ms[n].rule = "v2"
      PROVE  ms[n].inst \in Slots /\ OwedIn(inst, e, ms[n].inst)
  <2>1. CASE n > Len(ls)
    <3>1. ms[n].inst = i
      BY <2>1 DEF Grown
    <3> QED
      BY <1>3, <2>1, <3>1
  <2>2. CASE ~(n > Len(ls))
    <3>1. n \in DOMAIN ls /\ n \in 1 .. Len(ls)
      BY <1>2, <2>2
    <3>2. ms[n] = ls[n]
      BY <3>1 DEF Grown
    <3> QED
      BY <1>3, <3>1, <3>2 DEF Earns
  <2> QED
    BY <2>1, <2>2
<1> QED
  BY <1>2, <1>3 DEF Earns

LEMMA LikeAsOf ==
  ASSUME FeesInv, PaymentsInOrder, NEW i \in Slots
  PROVE  /\ Like(AsOf(i))
         /\ \A j \in Slots : AsOf(i)[j].status = "paid" <=>
              inst[j].status = "paid" /\ inst[j].paidAt <= inst[i].paidAt
<1>1. inst \in [Slots -> Installment] /\ LastSlot \in Nat
  BY SlotsAre DEF FeesInv, FeesTypeOK, Installment
<1>2. ASSUME NEW j \in Slots
      PROVE  /\ AsOf(i)[j] \in Installment /\ AsOf(i)[j].due = inst[j].due
             /\ \A x \in {"none", "renegotiated", "cancelled"} : AsOf(i)[j].status = x <=> inst[j].status = x
             /\ AsOf(i)[j].status = "paid" <=> inst[j].status = "paid" /\ inst[j].paidAt <= inst[i].paidAt
  <2>1. AsOf(i)[j] = IF inst[j].paidAt > inst[i].paidAt THEN [inst[j] EXCEPT !.status = "open"] ELSE inst[j]
    BY DEF AsOf
  <2>2. inst[j] \in Installment /\ inst[i].paidAt \in Nat /\ inst[j].paidAt \in Nat
    BY <1>1 DEF Installment
  <2>3. CASE inst[j].paidAt > inst[i].paidAt
    <3>1. inst[j].paidAt # 0
      BY <2>2, <2>3
    <3>2. inst[j].status = "paid"
      BY <3>1 DEF PaymentsInOrder
    <3>3. AsOf(i)[j] = [inst[j] EXCEPT !.status = "open"]
      BY <2>1, <2>3
    <3>4. AsOf(i)[j].status = "open" /\ AsOf(i)[j].due = inst[j].due /\ AsOf(i)[j] \in Installment
      BY <2>2, <3>3 DEF Installment
    <3>5. ~(inst[j].paidAt <= inst[i].paidAt)
      BY <2>2, <2>3
    <3> QED
      BY <3>2, <3>4, <3>5
  <2>4. CASE ~(inst[j].paidAt > inst[i].paidAt)
    BY <2>1, <2>2, <2>4
  <2> QED
    BY <2>3, <2>4
<1>3. AsOf(i) \in [Slots -> Installment]
  <2>1. AsOf(i) = [j \in Slots |-> AsOf(i)[j]]
    BY DEF AsOf
  <2> QED
    BY <1>2, <2>1
<1> QED
  BY <1>2, <1>3 DEF Like

LEMMA WholeAsOf ==
  ASSUME FeesInv, PaymentsInOrder, NEW i \in Slots, inst[i].status = "paid", NEW e, Ends(e)
  PROVE  Whole(AsOf(i), e, i) <=> OwedIn(inst, e, i)
<1>1. \A j \in Slots : AsOf(i)[j].status = "paid" <=>
        inst[j].status = "paid" /\ inst[j].paidAt <= inst[i].paidAt
  BY LikeAsOf
<1>2. \A h \in 1 .. EntryTotal : e[h] \in Slots
  BY SlotsAre DEF Ends
<1>3. \A h \in 1 .. EntryTotal : AsOf(i)[e[h]].status = "paid" <=>
        inst[e[h]].status = "paid" /\ inst[e[h]].paidAt <= inst[i].paidAt
  BY <1>1, <1>2
<1> QED
  BY <1>3 DEF Whole, OwedIn

(* What is evaluated again earns by the schedule of each payment.           *)
LEMMA RunsEarn ==
  ASSUME FeesInv, PartsOK(line), AgreedInOrder, ReplacedOnce, DuesOK, AgreementsApart, PaymentsInOrder,
         cstatus # "cancelled", NEW S, S \subseteq PaidInstallments, NEW t, Runs(S, t),
         NEW e, Ends(e), Earns(e, line)
  PROVE  Earns(e, t[LastSlot].lines)
<1> DEFINE N == LastSlot
           K == {i \in 0 .. N : PartsOK(t[i].lines) /\ Earns(e, t[i].lines)}
<1>1. N \in Nat /\ Slots = 1 .. N
  BY SlotsAre
<1>2. \A i \in 0 .. N : LinesOK(t[i].lines)
  BY DEF Runs
<1>3. 0 \in K
  <2>1. t[0].lines = line
    BY DEF Runs
  <2> QED
    BY <1>1, <2>1
<1>4. ASSUME NEW i \in 1 .. N, i - 1 \in K PROVE i \in K
  <2>1. i \in Slots /\ i \in 0 .. N /\ i - 1 \in 0 .. N
    BY <1>1
  <2> DEFINE ls == t[i - 1].lines
             s == AsOf(i)
             ea == Earned(ls, s, i)
             ms == ls \o ea.lines
  <2>2. LinesOK(ls) /\ PartsOK(ls) /\ Earns(e, ls)
    BY <1>2, <1>4, <2>1
  <2>3. CASE i \notin S
    <3>1. t[i] = t[i - 1]
      BY <1>1, <2>3 DEF Runs
    <3> QED
      BY <2>1, <2>2, <3>1
  <2>4. CASE i \in S
    <3>1. t[i].lines = ms
      <4> DEFINE told == [t[i - 1].told EXCEPT ![i] = @ \cup ea.told]
      <4>1. t[i] = [lines |-> ms, told |-> told]
        BY <1>1, <2>4 DEF Runs
      <4> HIDE DEF ms, told
      <4> QED
        BY <4>1
    <3>2. Like(s) /\ (Whole(s, e, i) => OwedIn(inst, e, i))
      <4>1. inst[i].status = "paid"
        BY <2>4 DEF PaidInstallments
      <4> QED
        BY <2>1, <4>1, LikeAsOf, WholeAsOf
    <3>3. Grown(ls, ms, i)
      <4> HIDE DEF ls, s
      <4> QED
        BY <2>1, <2>2, LinesGrow
    <3>4. \A n \in 1 .. Len(ms) : n > Len(ls) /\ ms[n].rule = "v2" => Whole(s, e, i)
      <4> HIDE DEF ls, s
      <4> QED
        BY <2>1, <2>2, <3>2, EarnedWhole
    <3>5. LinesOK(ms)
      BY <1>2, <2>1, <3>1
    <3> HIDE DEF ls, s, ea, ms
    <3>7. \A n \in 1 .. Len(ms) : n > Len(ls) /\ ms[n].rule = "v2" => OwedIn(inst, e, i)
      BY <3>2, <3>4
    <3>8. Earns(e, ms)
      BY <2>1, <2>2, <3>3, <3>5, <3>7, EarnsMore
    <3>9. PartsOK(ms)
      BY <2>2, <3>3, <3>5, GrownKeeps
    <3> QED
      BY <2>1, <3>1, <3>8, <3>9
  <2> QED
    BY <2>3, <2>4
<1>5. 0 .. N \subseteq K
  <2> HIDE DEF K
  <2> QED
    BY <1>1, <1>3, <1>4, CountingUp
<1>6. N \in K
  BY <1>1, <1>5
<1> QED
  BY <1>6

(* What a payment does to the schedule.                                     *)
LEMMA PayIs ==
  ASSUME FeesInv, NEW i \in Slots, Pay(i)
  PROVE  /\ inst \in [Slots -> Installment] /\ inst' \in [Slots -> Installment]
         /\ inst[i].status = "open" /\ inst[i].paidAt = 0
         /\ inst'[i].status = "paid" /\ inst'[i].due = inst[i].due
         /\ inst'[i].paidAt = 1 + Cardinality(Payments)
         /\ \A j \in Slots : j # i => inst'[j] = inst[j]
<1> DEFINE at == 1 + Cardinality(Payments)
           half == [inst EXCEPT ![i].status = "paid"]
<1>1. inst \in [Slots -> Installment] /\ inst[i].status = "open" /\ inst[i].paidAt = 0
  <2>1. inst \in [Slots -> Installment]
    BY DEF FeesInv, FeesTypeOK, Installment
  <2>2. inst[i].status = "open"
    BY DEF Pay
  <2> QED
    BY <2>1, <2>2 DEF FeesInv, AgreementsOK
<1>2. inst' = [inst EXCEPT ![i].status = "paid", ![i].paidAt = at]
  BY DEF Pay, Payments
<1> HIDE DEF at
<1>3. inst' = [half EXCEPT ![i].paidAt = at]
  BY <1>2
<1>4. half \in [Slots -> Installment] /\ half[i].status = "paid" /\ half[i].due = inst[i].due
  BY <1>1 DEF Installment
<1> HIDE DEF half
<1>5. inst'[i].status = "paid" /\ inst'[i].due = inst[i].due /\ inst'[i].paidAt = at
  BY <1>3, <1>4 DEF Installment
<1>6. \A j \in Slots : j # i => inst'[j] = inst[j]
  BY <1>1, <1>2
<1>7. FeesInv'
  BY PayKeeps
<1>8. inst' \in [Slots -> Installment]
  BY <1>7 DEF FeesInv, FeesTypeOK, Installment
<1> QED
  BY <1>1, <1>5, <1>6, <1>8 DEF at

(* The last payment is the latest.                                          *)
LEMMA PayOrders ==
  ASSUME FeesInv, PaymentsInOrder, NEW i \in Slots, Pay(i)
  PROVE  /\ Cardinality(Payments') = inst'[i].paidAt
         /\ \A j \in Slots : inst'[j].paidAt <= inst'[i].paidAt
<1> DEFINE at == 1 + Cardinality(Payments)
           c == Cardinality(Payments)
<1>1. /\ inst \in [Slots -> Installment] /\ inst[i].paidAt = 0 /\ inst'[i].paidAt = at
      /\ \A j \in Slots : j # i => inst'[j] = inst[j]
  BY PayIs
<1>2. /\ \A j \in Slots : inst[j].paidAt \in Nat /\ inst[j].paidAt <= c
      /\ IsFiniteSet(Payments) /\ c \in Nat /\ i \notin Payments
  <2>1. \A j \in Slots : inst[j].paidAt \in Nat
    BY <1>1, SlotsAre DEF Installment
  <2>2. IsFiniteSet(Slots)
    BY SlotsAre, FS_Interval
  <2>3. IsFiniteSet(Payments) /\ i \notin Payments
    BY <1>1, <2>2, FS_Subset DEF Payments
  <2> QED
    BY <2>1, <2>3, FS_CardinalityType DEF PaymentsInOrder
<1>3. Payments' = Payments \cup {i}
  BY <1>1, <1>2 DEF Payments
<1>4. Cardinality(Payments') = at
  <2> DEFINE P == Payments
             d == Cardinality(P \cup {i})
  <2>1. IsFiniteSet(P) /\ i \notin P
    BY <1>2
  <2> HIDE DEF P
  <2>2. Cardinality(P \cup {i}) = Cardinality(P) + 1
    BY <2>1, FS_AddElement
  <2>3. d = c + 1 /\ c \in Nat /\ at = 1 + c
    BY <1>2, <2>2 DEF P
  <2>4. d = Cardinality(Payments')
    BY <1>3 DEF P
  <2> HIDE DEF d, c, at
  <2>5. d = at
    BY <2>3
  <2> QED
    BY <2>4, <2>5
<1> HIDE DEF c
<1>5. at \in Nat /\ \A x \in Nat : x <= c => x <= at
  BY <1>2 DEF c
<1> HIDE DEF at
<1>6. \A j \in Slots : inst'[j].paidAt <= at
  BY <1>1, <1>2, <1>5
<1> QED
  BY <1>1, <1>4, <1>6

(* The schedule a payment is evaluated on.                                  *)
LEMMA WholeNow ==
  ASSUME FeesInv, PaymentsInOrder, NEW i \in Slots, Pay(i), NEW e, Ends(e)
  PROVE  Like(inst') /\ (Whole(inst', e, i) <=> OwedIn(inst', e, i))
<1>1. /\ inst \in [Slots -> Installment] /\ inst' \in [Slots -> Installment]
      /\ inst[i].status = "open" /\ inst'[i].status = "paid" /\ inst'[i].due = inst[i].due
      /\ \A j \in Slots : j # i => inst'[j] = inst[j]
  BY PayIs
<1>2. Like(inst')
  <2>1. ASSUME NEW j \in Slots
        PROVE  /\ inst'[j].due = inst[j].due
               /\ \A x \in {"none", "renegotiated", "cancelled"} : inst'[j].status = x <=> inst[j].status = x
    BY <1>1
  <2> QED
    BY <1>1, <2>1 DEF Like
<1>3. \A h \in 1 .. EntryTotal : e[h] \in Slots
  BY SlotsAre DEF Ends
<1>4. \A j \in Slots : inst'[j].paidAt <= inst'[i].paidAt
  BY PayOrders
<1> QED
  BY <1>1, <1>2, <1>3, <1>4 DEF Whole, OwedIn

LEMMA PayKeepsEntry ==
  ASSUME PayInv, EntryInv, NEW i \in Slots, Pay(i)
  PROVE  EntryInv'
<1> DEFINE s == inst'
           ms == line \o Earned(line, s, i).lines
<1>1. /\ inst \in [Slots -> Installment] /\ inst[i].status = "open"
      /\ inst'[i].status = "paid" /\ inst'[i].due = inst[i].due
      /\ \A j \in Slots : j # i => inst'[j] = inst[j]
  BY PayIs DEF PayInv
<1>2. /\ FeesInv /\ LinesOK(line) /\ PartsOK(line)
      /\ AgreedInOrder /\ ReplacedOnce /\ DuesOK /\ PaymentsInOrder
  BY DEF PayInv, FeesInv, EntryInv
<1>3. /\ UNCHANGED <<cstatus, validated, agreed, payout>>
      /\ line' = IF GateOpen THEN ms ELSE line
  BY DEF Pay, ruleVars
<1>4. AgreedInOrder'
  BY <1>2, <1>3 DEF AgreedInOrder
<1>5. ReplacedOnce'
  <2>1. \A j \in Slots : /\ inst'[j].status = "cancelled" <=> inst[j].status = "cancelled"
                         /\ inst'[j].status = "renegotiated" <=> inst[j].status = "renegotiated"
    BY <1>1
  <2> QED
    BY <1>2, <1>3, <2>1 DEF ReplacedOnce
<1>6. \A j \in Slots : inst'[j].due = inst[j].due
  BY <1>1
<1>7. DuesOK'
  <2>1. \A k \in 1 .. Len(agreed) : Schedule + k \in Slots
    BY <1>2, AgreedIs
  <2> QED
    BY <1>2, <1>3, <1>6, <2>1, SlotsAre DEF DuesOK
<1>8. PaymentsInOrder'
  <2>1. \A j \in Slots : inst'[j].status # "paid" => inst'[j].paidAt = 0
    BY <1>1, <1>2 DEF PaymentsInOrder
  <2>2. /\ Cardinality(Payments') = inst'[i].paidAt
        /\ \A j \in Slots : inst'[j].paidAt <= inst'[i].paidAt
    BY <1>2, PayOrders
  <2>3. \A j \in Slots : inst'[j].paidAt <= Cardinality(Payments')
    BY <2>2
  <2> QED
    BY <2>1, <2>3 DEF PaymentsInOrder
<1>9. WholeEntry'
  <2>1. PICK e : Ends(e) /\ (AgreementsApart => Earns(e, line))
    BY DEF EntryInv, WholeEntry
  <2>2. Ends(e)'
    BY <1>3, <2>1 DEF Ends
  <2>3. \A h \in 1 .. EntryTotal : e[h] \in Slots
    BY <2>1, SlotsAre DEF Ends
  <2>4. ASSUME NEW x \in Slots, OwedIn(inst, e, x) PROVE OwedIn(inst', e, x)
    <3>1. x # i /\ inst'[x] = inst[x]
      BY <1>1, <2>4 DEF OwedIn
    <3>2. \A h \in 1 .. EntryTotal : inst[e[h]].status = "paid" => inst'[e[h]] = inst[e[h]]
      BY <1>1, <2>3
    <3> QED
      BY <2>4, <3>1, <3>2 DEF OwedIn
  <2>5. AgreementsApart' => AgreementsApart
    BY <1>3 DEF AgreementsApart
  <2>6. ASSUME AgreementsApart, ~GateOpen PROVE Earns(e, line)'
    BY <1>3, <2>1, <2>4, <2>6 DEF Earns, OwedIn
  <2>7. ASSUME AgreementsApart, GateOpen PROVE Earns(e, line)'
    <3>1. line' = ms /\ cstatus # "cancelled" /\ Earns(e, line)
      BY <1>3, <2>1, <2>7 DEF GateOpen
    <3>2. Like(s) /\ (Whole(s, e, i) <=> OwedIn(s, e, i))
      BY <1>2, <2>1, WholeNow
    <3> HIDE DEF s
    <3>3. LinesOK(ms) /\ Grown(line, ms, i)
      BY <1>2, EarnedFits, LinesGrow
    <3>4. \A n \in 1 .. Len(ms) : n > Len(line) /\ ms[n].rule = "v2" => OwedIn(s, e, i)
      BY <1>2, <2>1, <2>7, <3>1, <3>2, EarnedWhole
    <3> HIDE DEF ms
    <3>5. Len(line) \in Nat /\ DOMAIN line = 1 .. Len(line) /\ DOMAIN ms = 1 .. Len(ms) /\ Len(ms) \in Nat
      <4>1. line \in Seq(FeeRows) /\ ms \in Seq(FeeRows)
        BY <1>2, <3>3 DEF LinesOK
      <4> QED
        BY <4>1, LinesAre
    <3>6. ASSUME NEW n \in 1 .. Len(ms), ms[n].rule = "v2"
          PROVE  ms[n].inst \in Slots /\ OwedIn(s, e, ms[n].inst)
      <4>1. CASE n > Len(line)
        BY <3>3, <3>4, <3>6, <4>1 DEF Grown
      <4>2. CASE ~(n > Len(line))
        <5>1. n \in DOMAIN line /\ n \in 1 .. Len(line)
          BY <3>5, <4>2
        <5>2. ms[n] = line[n]
          BY <3>3, <5>1 DEF Grown
        <5>3. line[n].inst \in Slots /\ OwedIn(inst, e, line[n].inst)
          BY <3>1, <3>6, <5>1, <5>2 DEF Earns
        <5> QED
          BY <2>4, <5>2, <5>3 DEF s
      <4> QED
        BY <4>1, <4>2
    <3> QED
      BY <1>3, <3>1, <3>5, <3>6 DEF Earns, OwedIn, s
  <2>8. AgreementsApart' => Earns(e, line)'
    BY <2>5, <2>6, <2>7
  <2> QED
    BY <2>2, <2>8 DEF WholeEntry
<1> QED
  BY <1>4, <1>5, <1>7, <1>8, <1>9 DEF EntryInv

(* What only the lines see.                                                 *)
LEMMA LinesKeepEntry ==
  ASSUME EntryInv, UNCHANGED <<inst, agreed, payout>>,
         cstatus' # "cancelled" => cstatus # "cancelled",
         AgreementsApart => \A e : Ends(e) /\ Earns(e, line) => Earns(e, line')
  PROVE  EntryInv'
<1>1. AgreedInOrder' /\ DuesOK' /\ PaymentsInOrder' /\ ReplacedOnce'
  BY DEF EntryInv, AgreedInOrder, DuesOK, PaymentsInOrder, ReplacedOnce, Payments
<1>2. PICK e : Ends(e) /\ (AgreementsApart => Earns(e, line))
  BY DEF EntryInv, WholeEntry
<1>3. AgreementsApart' => AgreementsApart /\ Earns(e, line')
  BY <1>2 DEF AgreementsApart
<1>4. Ends(e)' /\ (AgreementsApart' => Earns(e, line)')
  BY <1>2, <1>3 DEF Ends, Earns, OwedIn
<1>5. WholeEntry'
  BY <1>4 DEF WholeEntry
<1> QED
  BY <1>1, <1>5 DEF EntryInv

LEMMA StayEarns ==
  ASSUME NEW ms, AsBefore(line, ms), NEW e, Earns(e, line)
  PROVE  Earns(e, ms)
BY DEF AsBefore, Earns

LEMMA RenegotiateKeepsEntry ==
  ASSUME FeesInv, EntryInv, NEW i \in Slots, Renegotiate(i)
  PROVE  EntryInv'
<1> DEFINE n == Schedule + Len(agreed) + 1
           L == Len(agreed)
           G == [original : Slots, due : Dates, by : Slots]
<1>1. PICK due \in Dates : Replaces(i, n, due)
  BY RenegotiateIs
<1>2. /\ inst[i].status = "open" /\ cstatus # "cancelled"
      /\ UNCHANGED <<cstatus, line, payout>>
  BY DEF Renegotiate, ruleVars
<1>3. AgreedInOrder /\ ReplacedOnce /\ DuesOK /\ PaymentsInOrder /\ inst \in [Slots -> Installment]
  BY DEF EntryInv, FeesInv, FeesTypeOK, Installment
<1>4. L \in Nat /\ n = Schedule + (L + 1) /\ \A k \in 1 .. L : k \in 1 .. L + 1 /\ k # L + 1
  BY <1>3, AgreedIs, SlotsAre
<1>5. /\ n \in Slots /\ i < n /\ inst[n].status = "none" /\ i # n
      /\ agreed' = Append(agreed, [original |-> i, due |-> due, by |-> n])
      /\ inst'[i] = [inst[i] EXCEPT !.status = "renegotiated"]
      /\ inst'[n] = [status |-> "open", due |-> due, paidAt |-> 0]
      /\ \A j \in Slots : j # i /\ j # n => inst'[j] = inst[j]
  BY <1>1, SlotsAre DEF Replaces
<1>6. /\ Len(agreed') = L + 1
      /\ \A k \in 1 .. L : agreed'[k] = agreed[k]
      /\ agreed'[L + 1] = [original |-> i, due |-> due, by |-> n]
  <2>1. agreed \in Seq(G)
    BY DEF FeesInv, AgreementsOK
  <2> DEFINE g == [original |-> i, due |-> due, by |-> n]
  <2>2. g \in G
    BY <1>5
  <2> HIDE DEF g, G
  <2>3. agreed' = Append(agreed, g)
    BY <1>5 DEF g
  <2>4. /\ Len(agreed') = L + 1
        /\ \A k \in 1 .. L : agreed'[k] = agreed[k]
        /\ agreed'[L + 1] = g
    BY <2>1, <2>2, <2>3, AppendProperties
  <2> QED
    BY <2>4 DEF g
<1> DEFINE M == L + 1
<1>7. \A k \in 1 .. M : k \in 1 .. L \/ k = M
  BY <1>4
<1>8. M \in 1 .. M /\ \A k \in 1 .. L : k \in 1 .. M /\ k # M
  BY <1>4
<1>9. /\ inst'[i].status = "renegotiated" /\ inst'[i].due = inst[i].due /\ inst'[i].paidAt = inst[i].paidAt
      /\ inst'[n].status = "open" /\ inst'[n].due = due /\ inst'[n].paidAt = 0
      /\ inst[n].paidAt = 0 /\ inst[i].paidAt = 0
  BY <1>2, <1>3, <1>5 DEF Installment, PaymentsInOrder
<1>10. \A k \in 1 .. L : agreed[k].original # i /\ agreed[k].original # n
  <2>1. \A k \in 1 .. L : agreed[k].original \in Slots /\ inst[agreed[k].original].status = "renegotiated"
    BY <1>2, <1>3, AgreedIs DEF ReplacedOnce
  <2> QED
    BY <1>2, <1>5, <2>1
<1>11. /\ agreed'[M].original = i /\ agreed'[M].by = n /\ agreed'[M].due = due
       /\ Len(agreed') = M /\ \A k \in 1 .. L : agreed'[k] = agreed[k]
  BY <1>6
<1>12. \A k \in 1 .. L : /\ agreed[k].by = Schedule + k /\ agreed[k].original < agreed[k].by
                         /\ \A m \in 1 .. L : agreed[m].original = agreed[k].original => m = k
  BY <1>3 DEF AgreedInOrder
<1>13. n = Schedule + M
  BY <1>4
<1> HIDE DEF n, L, M
<1>14. AgreedInOrder'
  <2>1. ASSUME NEW k \in 1 .. M
        PROVE  /\ agreed'[k].by = Schedule + k /\ agreed'[k].original < agreed'[k].by
               /\ \A m \in 1 .. M : agreed'[m].original = agreed'[k].original => m = k
    <3>1. CASE k = M
      BY <1>5, <1>7, <1>10, <1>11, <1>13, <3>1
    <3>2. CASE k \in 1 .. L
      BY <1>7, <1>10, <1>11, <1>12, <3>2
    <3> QED
      BY <1>7, <3>1, <3>2
  <2> QED
    BY <1>11, <2>1 DEF AgreedInOrder
<1>15. ReplacedOnce'
  <2>1. ASSUME NEW j \in Slots
        PROVE  /\ inst'[j].status # "cancelled"
               /\ inst'[j].status = "renegotiated" <=> \E k \in 1 .. M : agreed'[k].original = j
    <3>1. CASE j = i
      BY <1>8, <1>9, <1>11, <3>1
    <3>2. CASE j = n
      <4>1. \A k \in 1 .. M : agreed'[k].original # n
        BY <1>5, <1>7, <1>10, <1>11
      <4> QED
        BY <1>9, <3>2, <4>1
    <3>3. CASE j # i /\ j # n
      <4>1. inst'[j] = inst[j]
        BY <1>5, <3>3
      <4>2. /\ inst[j].status # "cancelled"
            /\ inst[j].status = "renegotiated" <=> \E k \in 1 .. L : agreed[k].original = j
        BY <1>2, <1>3 DEF ReplacedOnce, L
      <4>3. (\E k \in 1 .. M : agreed'[k].original = j) <=> \E k \in 1 .. L : agreed[k].original = j
        BY <1>7, <1>8, <1>11, <3>3
      <4> QED
        BY <4>1, <4>2, <4>3
    <3> QED
      BY <3>1, <3>2, <3>3
  <2> QED
    BY <1>11, <2>1 DEF ReplacedOnce
<1>16. DuesOK'
  <2>1. \A j \in 1 .. Schedule : j \in Slots /\ j # n
    BY <1>7, <1>4, <1>13, SlotsAre DEF M
  <2>2. \A j \in 1 .. Schedule : inst'[j].due = j
    BY <1>3, <1>5, <1>9, <2>1 DEF DuesOK
  <2>3. ASSUME NEW k \in 1 .. M PROVE inst'[Schedule + k].due = agreed'[k].due
    <3>1. CASE k = M
      BY <1>9, <1>11, <1>13, <3>1
    <3>2. CASE k \in 1 .. L
      <4>1. Schedule + k \in Slots /\ Schedule + k # n
        BY <1>3, <1>4, <1>13, <3>2, AgreedIs, SlotsAre DEF L, M
      <4>2. inst[Schedule + k].due = agreed[k].due
        BY <1>3, <3>2 DEF DuesOK, L
      <4> QED
        BY <1>5, <1>9, <1>11, <3>2, <4>1, <4>2
    <3> QED
      BY <1>7, <3>1, <3>2
  <2> QED
    BY <1>11, <2>2, <2>3 DEF DuesOK
<1>17. \A j \in Slots : inst'[j].paidAt = inst[j].paidAt
  BY <1>5, <1>9
<1>18. PaymentsInOrder'
  <2>1. Payments' = Payments
    BY <1>17 DEF Payments
  <2>2. \A j \in Slots : inst'[j].status # "paid" => inst'[j].paidAt = 0
    BY <1>3, <1>5, <1>9 DEF PaymentsInOrder
  <2> QED
    BY <1>3, <1>17, <2>1, <2>2 DEF PaymentsInOrder
<1>19. WholeEntry'
  <2>1. PICK e : Ends(e) /\ (AgreementsApart => Earns(e, line))
    BY DEF EntryInv, WholeEntry
  <2>20. PICK f : f = [j \in Slots |-> IF e[j] = i THEN n ELSE e[j]]
    OBVIOUS
  <2>2. /\ e \in [Slots -> Slots]
        /\ \A k \in 1 .. L : e[agreed[k].original] = e[agreed[k].by]
        /\ \A j \in Slots : (\A k \in 1 .. L : agreed[k].original # j) => e[j] = j
        /\ \A j \in Slots : \A k \in 1 .. L : agreed[k].original # e[j]
        /\ \A j \in 1 .. Schedule : e[j] <= Schedule + L
        /\ \A j, h \in 1 .. Schedule : e[j] = e[h] => j = h
    BY <2>1 DEF Ends, L
  <2>3. e[i] = i /\ e[n] = n
    BY <1>5, <1>10, <2>2
  <2>4. f \in [Slots -> Slots]
    BY <1>5, <2>2, <2>20
  <2>5. f[i] = n /\ f[n] = n
    BY <1>5, <2>3, <2>20
  <2>6. ASSUME NEW k \in 1 .. M PROVE f[agreed'[k].original] = f[agreed'[k].by]
    <3>1. CASE k = M
      BY <1>11, <2>5, <3>1
    <3>2. CASE k \in 1 .. L
      <4>1. agreed[k].original \in Slots /\ agreed[k].by \in Slots /\ agreed'[k] = agreed[k]
        BY <1>3, <1>11, <3>2, AgreedIs DEF L
      <4> QED
        BY <2>2, <2>20, <3>2, <4>1
    <3> QED
      BY <1>7, <3>1, <3>2
  <2>7. ASSUME NEW j \in Slots, \A k \in 1 .. M : agreed'[k].original # j PROVE f[j] = j
    <3>1. j # i /\ \A k \in 1 .. L : agreed[k].original # j
      BY <1>8, <1>11, <2>7
    <3> QED
      BY <2>2, <2>20, <3>1
  <2>11. \A j \in 1 .. Schedule : j \in Slots /\ e[j] # n
    <3> SUFFICES ASSUME NEW j \in 1 .. Schedule PROVE j \in Slots /\ e[j] # n
      OBVIOUS
    <3>1. j \in Slots /\ e[j] \in Slots /\ e[j] <= Schedule + L
      BY <2>2, SlotsAre
    <3> QED
      BY <1>4, <3>1, SlotsAre DEF n
  <2>12. ASSUME NEW j \in Slots, NEW k \in 1 .. M PROVE agreed'[k].original # f[j]
    <3>1. e[j] \in Slots
      BY <2>2
    <3> QED
      BY <1>5, <1>7, <1>10, <1>11, <2>2, <2>20, <3>1
  <2>13. ASSUME NEW j \in 1 .. Schedule PROVE f[j] <= Schedule + M
    <3>1. f[j] = n \/ f[j] = e[j]
      BY <2>11, <2>20
    <3>2. e[j] <= Schedule + L /\ e[j] \in Slots
      BY <2>2, <2>11
    <3> QED
      BY <1>4, <3>1, <3>2, SlotsAre DEF M, n
  <2>14. ASSUME NEW j \in 1 .. Schedule, NEW h \in 1 .. Schedule, f[j] = f[h] PROVE j = h
    BY <2>2, <2>11, <2>14, <2>20
  <2>8. Ends(f)'
    <3>1. \A j, h \in 1 .. Schedule : f[j] = f[h] => j = h
      BY <2>14
    <3> QED
      BY <1>11, <2>4, <2>6, <2>7, <2>12, <2>13, <3>1 DEF Ends
  <2>9. ASSUME NEW x \in Slots, OwedIn(inst, e, x) PROVE OwedIn(inst', f, x)
    <3>1. inst[x].status = "paid" /\ x # i /\ x # n /\ inst'[x] = inst[x]
      BY <1>2, <1>5, <2>9 DEF OwedIn
    <3>2. ASSUME NEW h \in 1 .. EntryTotal, inst[e[h]].status = "paid"
          PROVE  f[h] = e[h] /\ inst'[e[h]] = inst[e[h]]
      <4>1. h \in Slots /\ e[h] \in Slots
        BY <2>2, SlotsAre
      <4>2. e[h] # i /\ e[h] # n
        BY <1>2, <1>5, <3>2
      <4> QED
        BY <1>5, <2>20, <4>1, <4>2
    <3>3. OfEntry(f, x)
      <4>1. PICK h \in 1 .. EntryTotal : e[h] = x
        BY <2>9 DEF OwedIn, OfEntry
      <4>2. f[h] = x
        BY <3>1, <3>2, <4>1
      <4> QED
        BY <4>2 DEF OfEntry
    <3> QED
      BY <2>9, <3>1, <3>2, <3>3 DEF OwedIn
  <2>10. AgreementsApart' => AgreementsApart
    <3> SUFFICES ASSUME AgreementsApart', NEW k \in DOMAIN agreed PROVE agreed[k].due \notin 1 .. Schedule
      BY DEF AgreementsApart
    <3>1. k \in 1 .. L
      BY <1>3, AgreedIs DEF L
    <3>2. k \in DOMAIN agreed'
      <4>1. agreed' \in Seq(G)
        BY RenegotiateKeeps DEF FeesInv, AgreementsOK
      <4> HIDE DEF G
      <4> QED
        BY <1>8, <1>11, <3>1, <4>1, LenProperties
    <3> QED
      BY <1>11, <3>1, <3>2 DEF AgreementsApart
  <2>15. AgreementsApart' => Earns(f, line)'
    BY <1>2, <2>1, <2>9, <2>10 DEF Earns, OwedIn
  <2> QED
    BY <2>8, <2>15 DEF WholeEntry
<1> QED
  BY <1>14, <1>15, <1>16, <1>18, <1>19 DEF EntryInv

LEMMA CancelKeepsEntry ==
  ASSUME FeesInv, EntryInv, CancelContract
  PROVE  EntryInv'
<1>1. AgreedInOrder /\ DuesOK /\ PaymentsInOrder /\ inst \in [Slots -> Installment]
  BY DEF EntryInv, FeesInv, FeesTypeOK, Installment
<1>2. cstatus' = "cancelled" /\ UNCHANGED <<agreed, payout>>
  BY DEF CancelContract, ruleVars
<1>3. ASSUME NEW j \in Slots
      PROVE  /\ inst'[j].due = inst[j].due /\ inst'[j].paidAt = inst[j].paidAt
             /\ inst'[j].status = "paid" <=> inst[j].status = "paid"
  <2>1. inst'[j] = IF inst[j].status \in {"open", "renegotiated"}
                   THEN [inst[j] EXCEPT !.status = "cancelled"] ELSE inst[j]
    BY DEF CancelContract
  <2> QED
    BY <1>1, <2>1 DEF Installment
<1>4. AgreedInOrder' /\ ReplacedOnce'
  BY <1>1, <1>2 DEF AgreedInOrder, ReplacedOnce
<1>5. DuesOK'
  <2>1. \A k \in 1 .. Len(agreed) : Schedule + k \in Slots
    BY <1>1, AgreedIs
  <2> QED
    BY <1>1, <1>2, <1>3, <2>1, SlotsAre DEF DuesOK
<1>6. PaymentsInOrder'
  <2>1. Payments' = Payments
    BY <1>3 DEF Payments
  <2> QED
    BY <1>1, <1>3, <2>1 DEF PaymentsInOrder
<1>7. PICK e : Ends(e) /\ (AgreementsApart => Earns(e, line))
  BY DEF EntryInv, WholeEntry
<1>8. AgreementsApart' => Earns(e, line')
  <2>1. AgreementsApart' => AgreementsApart
    BY <1>2 DEF AgreementsApart
  <2> QED
    BY <1>7, <2>1, CancelKeeps, StayEarns
<1>9. \A h \in 1 .. EntryTotal : e[h] \in Slots
  BY <1>7, SlotsAre DEF Ends
<1>10. ASSUME NEW x \in Slots, OwedIn(inst, e, x) PROVE OwedIn(inst', e, x)
  BY <1>3, <1>9, <1>10 DEF OwedIn
<1>11. Ends(e)'
  BY <1>2, <1>7 DEF Ends
<1>12. AgreementsApart' => Earns(e, line)'
  BY <1>2, <1>8, <1>10 DEF Earns, OwedIn
<1>13. WholeEntry'
  BY <1>11, <1>12 DEF WholeEntry
<1> QED
  BY <1>4, <1>5, <1>6, <1>13 DEF EntryInv

LEMMA ValidateKeepsEntry ==
  ASSUME PayInv, EntryInv, ValidateSale
  PROVE  EntryInv'
<1>1. /\ FeesInv /\ PartsOK(line) /\ LinesOK(line) /\ trace \in [Slots -> SUBSET Reasons]
      /\ AgreedInOrder /\ ReplacedOnce /\ DuesOK /\ PaymentsInOrder
  BY DEF PayInv, FeesInv, FeesTypeOK, EntryInv
<1>2. PICK t : Runs(PaidInstallments, t) /\ Reevaluated(PaidInstallments) = t[LastSlot]
  BY <1>1, ReevaluatedRuns
<1>3. /\ cstatus # "cancelled" /\ line' = t[LastSlot].lines /\ UNCHANGED <<inst, agreed, payout>>
  BY <1>2 DEF ValidateSale, ruleVars
<1>4. AgreementsApart => \A e : Ends(e) /\ Earns(e, line) => Earns(e, line')
  BY <1>1, <1>2, <1>3, RunsEarn
<1> QED
  BY <1>3, <1>4, LinesKeepEntry

LEMMA ReprocessKeepsEntry ==
  ASSUME PayInv, EntryInv, Reprocess
  PROVE  EntryInv'
<1> DEFINE due == {i \in PaidInstallments : /\ "skipped" \in trace[i]
                                            /\ \A n \in DOMAIN line : line[n].inst # i}
<1>1. /\ FeesInv /\ PartsOK(line) /\ LinesOK(line) /\ trace \in [Slots -> SUBSET Reasons]
      /\ AgreedInOrder /\ ReplacedOnce /\ DuesOK /\ PaymentsInOrder
  BY DEF PayInv, FeesInv, FeesTypeOK, EntryInv
<1>2. /\ cstatus # "cancelled" /\ line' = Reevaluated(due).lines
      /\ UNCHANGED <<cstatus, inst, agreed, payout>>
  BY DEF Reprocess, GateOpen, saleVars, ruleVars
<1>5. due \subseteq PaidInstallments
  OBVIOUS
<1> HIDE DEF due
<1>3. PICK t : Runs(due, t) /\ Reevaluated(due) = t[LastSlot]
  BY <1>1, ReevaluatedRuns
<1>4. AgreementsApart => \A e : Ends(e) /\ Earns(e, line) => Earns(e, line')
  BY <1>1, <1>2, <1>3, <1>5, RunsEarn
<1> QED
  BY <1>2, <1>4, LinesKeepEntry

LEMMA RecordKeepsEntry ==
  ASSUME FeesInv, EntryInv, RecordByHand
  PROVE  EntryInv'
<1>1. PICK r \in Roles :
        line' = Append(line, [inst |-> ByHand, role |-> r, rule |-> "hand", amount |-> 1,
                              status |-> "pending", review |-> "none"])
  BY DEF RecordByHand
<1> DEFINE l == [inst |-> ByHand, role |-> r, rule |-> "hand", amount |-> 1,
                 status |-> "pending", review |-> "none"]
           N == Len(line)
<1>2. l \in FeeRows /\ l.rule = "hand" /\ line' = Append(line, l)
  BY <1>1 DEF FeeRows
<1> HIDE DEF l
<1>3. line \in Seq(FeeRows)
  BY DEF FeesInv, LinesOK
<1>4. DOMAIN line = 1 .. N /\ N \in Nat
  BY <1>3, LinesAre
<1>5. /\ DOMAIN line' = 1 .. N + 1 /\ line'[N + 1] = l
      /\ \A n \in 1 .. N : line'[n] = line[n]
  BY <1>2, <1>3, AppendProperties
<1>6. \A n \in 1 .. N + 1 : n \in 1 .. N \/ n = N + 1
  BY <1>4
<1>7. \A n \in DOMAIN line' : line'[n].rule = "v2" => n \in DOMAIN line /\ line'[n] = line[n]
  BY <1>2, <1>4, <1>5, <1>6
<1>8. \A e : Ends(e) /\ Earns(e, line) => Earns(e, line')
  BY <1>7 DEF Earns
<1>9. UNCHANGED <<cstatus, inst, agreed, payout>>
  BY DEF RecordByHand, saleVars, ruleVars
<1> QED
  BY <1>8, <1>9, LinesKeepEntry

LEMMA EntryStep ==
  ASSUME PayInv, EntryInv, [FeesNext]_feeVars
  PROVE  EntryInv'
<1>1. FeesInv
  BY DEF PayInv
<1>2. ASSUME UNCHANGED <<cstatus, inst, agreed, payout>>, line' = line \/ AsBefore(line, line')
      PROVE  EntryInv'
  <2>1. \A e : Ends(e) /\ Earns(e, line) => Earns(e, line')
    BY <1>2, StayEarns
  <2> QED
    BY <1>2, <2>1, LinesKeepEntry
<1>3. \A i \in Slots : Pay(i) => EntryInv'
  BY PayKeepsEntry
<1>4. \A i \in Slots : Renegotiate(i) => EntryInv'
  BY <1>1, RenegotiateKeepsEntry
<1>5. ASSUME ChangeContract PROVE EntryInv'
  <2>1. /\ UNCHANGED <<inst, agreed, payout, line>>
        /\ cstatus # "cancelled"
    BY <1>5 DEF ChangeContract, ruleVars
  <2>2. \A e : Ends(e) /\ Earns(e, line) => Earns(e, line')
    BY <2>1
  <2> QED
    BY <2>1, <2>2, LinesKeepEntry
<1>6. ASSUME NEW k \in Clerks, NEW n \in DOMAIN line, NEW to \in {"approved", "paid", "cancelled"},
             CheckStatus(k, n, to)
      PROVE  EntryInv'
  BY <1>2, <1>6 DEF CheckStatus, saleVars, ruleVars
<1>7. ASSUME NEW k \in Clerks, WriteStatus(k) PROVE EntryInv'
  <2>1. AsBefore(line, line')
    BY <1>1, <1>7, DecisionKeeps
  <2>2. UNCHANGED <<cstatus, inst, agreed, payout>>
    BY <1>7 DEF WriteStatus, saleVars, ruleVars
  <2> QED
    BY <1>2, <2>1, <2>2
<1>8. ASSUME NEW n \in DOMAIN line, ResolveReview(n) PROVE EntryInv'
  <2>1. AsBefore(line, line')
    BY <1>1, <1>8, ResolveKeeps
  <2>2. UNCHANGED <<cstatus, inst, agreed, payout>>
    BY <1>8 DEF ResolveReview, saleVars, ruleVars
  <2> QED
    BY <1>2, <2>1, <2>2
<1>9. EditPolicy => EntryInv'
  BY <1>2 DEF EditPolicy, saleVars
<1>10. UNCHANGED feeVars => EntryInv'
  BY <1>2 DEF feeVars, saleVars, ruleVars
<1>11. ValidateSale \/ Reprocess \/ CancelContract \/ RecordByHand => EntryInv'
  BY <1>1, ValidateKeepsEntry, ReprocessKeepsEntry, CancelKeepsEntry, RecordKeepsEntry
<1> QED
  BY <1>3, <1>4, <1>5, <1>6, <1>7, <1>8, <1>9, <1>10, <1>11 DEF FeesNext

LEMMA EntryStart == FeesInit => EntryInv
<1> SUFFICES ASSUME FeesInit PROVE EntryInv
  OBVIOUS
<1>1. /\ agreed = <<>> /\ line = <<>> /\ Len(agreed) = 0 /\ DOMAIN line = {}
      /\ \A k \in 1 .. Len(agreed) : FALSE
  BY DEF FeesInit
<1>2. \A i \in Slots : inst[i] = IF i <= Schedule THEN [status |-> "open", due |-> i, paidAt |-> 0]
                                 ELSE [status |-> "none", due |-> 0, paidAt |-> 0]
  BY DEF FeesInit, OpenInst, NoInst
<1>3. ASSUME NEW i \in Slots
      PROVE  /\ inst[i].status \in {"open", "none"} /\ inst[i].paidAt = 0
             /\ i <= Schedule => inst[i].due = i
  <2>1. CASE i <= Schedule
    <3>1. inst[i] = [status |-> "open", due |-> i, paidAt |-> 0]
      BY <1>2, <2>1
    <3> QED
      BY <3>1
  <2>2. CASE ~(i <= Schedule)
    <3>1. inst[i] = [status |-> "none", due |-> 0, paidAt |-> 0]
      BY <1>2, <2>2
    <3> QED
      BY <2>2, <3>1
  <2> QED
    BY <2>1, <2>2
<1>4. AgreedInOrder /\ ReplacedOnce
  BY <1>1, <1>3 DEF AgreedInOrder, ReplacedOnce
<1>5. DuesOK
  <2>1. \A i \in 1 .. Schedule : i \in Slots /\ i <= Schedule
    BY SlotsAre
  <2> QED
    BY <1>1, <1>3, <2>1 DEF DuesOK
<1>6. PaymentsInOrder
  <2>1. Payments = {}
    BY <1>3 DEF Payments
  <2>2. Cardinality(Payments) = 0
    BY <2>1, FS_EmptySet
  <2> QED
    BY <1>3, <2>2 DEF PaymentsInOrder
<1>7. WholeEntry
  <2>1. PICK e : e = [i \in Slots |-> i]
    OBVIOUS
  <2>2. Ends(e)
    <3>1. \A i \in 1 .. Schedule : i \in Slots /\ i <= Schedule + Len(agreed)
      BY <1>1, SlotsAre
    <3>2. e \in [Slots -> Slots] /\ \A i \in Slots : e[i] = i
      BY <2>1
    <3> QED
      BY <1>1, <3>1, <3>2 DEF Ends
  <2>3. Earns(e, line)
    BY <1>1 DEF Earns
  <2> QED
    BY <2>2, <2>3 DEF WholeEntry
<1> QED
  BY <1>4, <1>5, <1>6, <1>7 DEF EntryInv

(* The property follows the agreements as e does.                           *)
OwingIs ==
  \A e, i : Ends(e) /\ i \in Slots => (EntryOwes(i) <=> OwedIn(inst, e, i))

LEMMA EntryMeans ==
  ASSUME FeesInv, EntryInv
  PROVE  OwingIs
<1> SUFFICES ASSUME NEW e, Ends(e), NEW i \in Slots
             PROVE  EntryOwes(i) <=> OwedIn(inst, e, i)
  BY DEF OwingIs
<1>1. AgreedInOrder
  BY DEF EntryInv
<1>3. DOMAIN agreed = 1 .. Len(agreed)
  BY <1>1, AgreedIs
<1>4. DOMAIN Created = {agreed[n].original : n \in 1 .. Len(agreed)}
  BY <1>3 DEF Created
<1>5. ASSUME NEW k \in 1 .. Len(agreed) PROVE Created[agreed[k].original] = agreed[k].by
  <2> DEFINE o == agreed[k].original
             g == CHOOSE x \in ToSet(agreed) : x.original = o
  <2>1. ToSet(agreed) = {agreed[n] : n \in 1 .. Len(agreed)}
    BY <1>3 DEF ToSet
  <2>2. agreed[k] \in ToSet(agreed)
    BY <2>1
  <2>3. g \in ToSet(agreed) /\ g.original = o
    BY <2>2
  <2>4. PICK m \in 1 .. Len(agreed) : g = agreed[m]
    BY <2>1, <2>3
  <2>5. m = k
    BY <1>1, <2>3, <2>4 DEF AgreedInOrder
  <2>6. Created[o] = g.by
    BY <1>3 DEF Created
  <2> QED
    BY <2>4, <2>5, <2>6
<1> DEFINE P(f) == f = [j \in Slots |-> IF j \in DOMAIN Created THEN f[Created[j]] ELSE j]
           t == CHOOSE f : P(f)
           entry == {t[h] : h \in 1 .. EntryTotal}
<1>6. \A j \in Slots : j \in DOMAIN Created <=> \E k \in 1 .. Len(agreed) : agreed[k].original = j
  BY <1>4
<1>7. P(e)
  <2>1. ASSUME NEW j \in Slots PROVE e[j] = IF j \in DOMAIN Created THEN e[Created[j]] ELSE j
    <3>1. CASE \E k \in 1 .. Len(agreed) : agreed[k].original = j
      BY <1>5, <1>6, <3>1 DEF Ends
    <3>2. CASE \A k \in 1 .. Len(agreed) : agreed[k].original # j
      BY <1>6, <3>2 DEF Ends
    <3> QED
      BY <3>1, <3>2
  <2>2. e = [j \in Slots |-> e[j]]
    BY DEF Ends
  <2> QED
    BY <2>1, <2>2
<1>8. P(t)
  <2> HIDE DEF P
  <2> QED
    BY <1>7
<1>9. EntryOwes(i) <=>
        /\ i \in entry /\ inst[i].status = "paid"
        /\ IF payout = "entry_total"
           THEN \A j \in entry : inst[j].status = "paid" /\ inst[j].paidAt <= inst[i].paidAt
           ELSE i \notin Ineligible
  BY DEF EntryOwes
<1> HIDE DEF t
<1>10. \A j \in Slots : t[j] = IF j \in DOMAIN Created THEN t[Created[j]] ELSE j
  BY <1>8
<1>11. /\ \A k \in 1 .. Len(agreed) : t[agreed[k].original] = t[agreed[k].by]
       /\ \A j \in Slots : (\A k \in 1 .. Len(agreed) : agreed[k].original # j) => t[j] = j
  BY <1>1, <1>5, <1>6, <1>10, AgreedIs
<1>12. \A j \in Slots : t[j] = e[j]
  BY <1>1, <1>11, OneEnd
<1>13. entry = {e[h] : h \in 1 .. EntryTotal}
  BY <1>12, SlotsAre
<1>14. i \in entry <=> OfEntry(e, i)
  BY <1>13 DEF OfEntry
<1>15. (\A j \in entry : inst[j].status = "paid" /\ inst[j].paidAt <= inst[i].paidAt) <=>
         \A h \in 1 .. EntryTotal : inst[e[h]].status = "paid" /\ inst[e[h]].paidAt <= inst[i].paidAt
  BY <1>13
<1> HIDE DEF entry
<1> QED
  BY <1>9, <1>14, <1>15 DEF OwedIn

LEMMA EntryInvariant == FeesSpec => [](PayInv /\ EntryInv /\ OwingIs)
<1>1. FeesInit => PayInv /\ EntryInv
  <2>1. FeesInit => PartsOK(line)
    BY DEF FeesInit, PartsOK, Live
  <2> QED
    BY <2>1, FeesStart, EntryStart DEF PayInv
<1>2. PayInv /\ EntryInv /\ [FeesNext]_feeVars => PayInv' /\ EntryInv'
  BY FeesStep, PayStep, EntryStep DEF PayInv
<1>3. PayInv /\ EntryInv => OwingIs
  BY EntryMeans DEF PayInv
<1> QED
  BY <1>1, <1>2, <1>3, PTL DEF FeesSpec

LEMMA EntryIsWholeWhenItPays == FeesSpec => []EntryEarnsTheCommission
<1>1. PayInv /\ EntryInv /\ OwingIs => EntryEarnsTheCommission
  <2> SUFFICES ASSUME EntryInv, OwingIs, AgreementsApart PROVE WholeEntryEarns
    BY DEF EntryEarnsTheCommission
  <2>1. PICK e : Ends(e) /\ Earns(e, line)
    BY DEF EntryInv, WholeEntry
  <2> QED
    BY <2>1 DEF WholeEntryEarns, Earns, OwingIs
<1> QED
  BY <1>1, EntryInvariant, PTL

(* What was seen is noticed.                                                *)
LEMMA SeenIsNoticed ==
  ASSUME NEW i \in Slots, NEW O, AgreementsApart' /\ EntryOwes(i)' => i \in O,
         UNCHANGED ruleVars, SeenIn(line', trace'[i], O, i) \/ BetweenRules(line')
  PROVE  Noticed(i)' \/ LeftBetweenRules'
<1>1. (SecondRules(line)' <=> SecondRules(line')) /\ (rated' <=> rated) /\ (released' <=> released)
  BY DEF ruleVars, SecondRules
<1>2. \A r : Already(line, r)' = Already(line', r)
  BY DEF Already, Live
<1> QED
  BY <1>1, <1>2 DEF Noticed, LeftBetweenRules, SeenIn, BetweenRules

LEMMA NoticeStep ==
  ASSUME PayInv, EntryInv, OwingIs', [FeesNext]_feeVars,
         NEW i \in Slots, inst'[i].status = "paid", GateOpen', inst[i].status # "paid" \/ ~validated
  PROVE  Noticed(i)' \/ LeftBetweenRules'
<1>1. /\ FeesInv /\ PartsOK(line) /\ LinesOK(line) /\ inst \in [Slots -> Installment]
      /\ AgreedInOrder /\ ReplacedOnce /\ DuesOK /\ PaymentsInOrder /\ trace \in [Slots -> SUBSET Reasons]
  BY DEF PayInv, FeesInv, FeesTypeOK, EntryInv, Installment
<1>2. PICK e : Ends(e)
  BY DEF EntryInv, WholeEntry
<1> DEFINE O == {j \in Slots : AgreementsApart' /\ EntryOwes(j)'}
<1>3. CASE \E j \in Slots : Pay(j)
  <2>1. PICK j \in Slots : Pay(j)
    BY <1>3
  <2>20. UNCHANGED <<cstatus, validated, agreed, ruleVars, payout>>
    BY <2>1 DEF Pay, ruleVars
  <2>21. \A h \in Slots : h # j => inst'[h] = inst[h]
    BY <1>1, <2>1, PayIs
  <2>2. /\ UNCHANGED <<cstatus, validated, agreed, ruleVars, payout>>
        /\ \A h \in Slots : h # j => inst'[h] = inst[h]
    BY <2>20, <2>21
  <2>3. i = j /\ GateOpen
    BY <2>2 DEF GateOpen
  <2>4. Held(inst', i) => i \notin O
    <3> SUFFICES ASSUME Held(inst', i), AgreementsApart', EntryOwes(i)' PROVE FALSE
      OBVIOUS
    <3>1. AgreementsApart /\ cstatus # "cancelled"
      BY <2>2, <2>3 DEF AgreementsApart, GateOpen
    <3> DEFINE s == inst'
    <3>2. Like(s) /\ (Whole(s, e, i) <=> OwedIn(s, e, i))
      BY <1>1, <1>2, <2>1, <2>3, WholeNow
    <3>3. Ends(e)'
      BY <1>2, <2>2 DEF Ends
    <3>4. OwedIn(inst, e, i)'
      BY <3>3 DEF OwingIs
    <3>5. OwedIn(s, e, i)
      BY <2>2, <3>4 DEF OwedIn
    <3>6. Held(s, i)
      OBVIOUS
    <3> HIDE DEF s
    <3> QED
      BY <1>1, <1>2, <3>1, <3>2, <3>5, <3>6, HeldIs
  <2>5. AgreementsApart' /\ EntryOwes(i)' => i \in O
    OBVIOUS
  <2> HIDE DEF O
  <2>6. SeenIn(line', trace'[i], O, i) \/ BetweenRules(line')
    BY <1>1, <2>1, <2>3, <2>4, PayNotices
  <2> QED
    BY <2>2, <2>5, <2>6, SeenIsNoticed
<1>4. CASE ValidateSale
  <2>1. PICK t : Runs(PaidInstallments, t) /\ Reevaluated(PaidInstallments) = t[LastSlot]
    BY <1>1, ReevaluatedRuns
  <2>2. /\ line' = t[LastSlot].lines /\ trace' = t[LastSlot].told /\ cstatus # "cancelled"
        /\ UNCHANGED <<inst, agreed, ruleVars, payout>>
    BY <1>4, <2>1 DEF ValidateSale, ruleVars
  <2>3. ASSUME NEW j \in Slots, j \in PaidInstallments, Held(AsOf(j), j), AgreementsApart', EntryOwes(j)'
        PROVE  FALSE
    <3>1. AgreementsApart /\ inst[j].status = "paid"
      BY <2>2, <2>3 DEF AgreementsApart, PaidInstallments
    <3> DEFINE s == AsOf(j)
    <3>2. Like(s) /\ (Whole(s, e, j) <=> OwedIn(inst, e, j)) /\ Held(s, j)
      BY <1>1, <1>2, <2>3, <3>1, LikeAsOf, WholeAsOf
    <3>3. Ends(e)'
      BY <1>2, <2>2 DEF Ends
    <3>4. OwedIn(inst, e, j)'
      BY <2>3, <3>3 DEF OwingIs
    <3>5. OwedIn(inst, e, j)
      BY <2>2, <3>4 DEF OwedIn
    <3> HIDE DEF s
    <3> QED
      BY <1>1, <1>2, <2>2, <3>1, <3>2, <3>5, HeldIs
  <2>4. \A j \in Slots : j \in PaidInstallments /\ Held(AsOf(j), j) => j \notin O
    BY <2>3
  <2>5. AgreementsApart' /\ EntryOwes(i)' => i \in O
    OBVIOUS
  <2>6. i \in PaidInstallments
    BY <2>2 DEF PaidInstallments
  <2> HIDE DEF O
  <2>7. SeenIn(line', trace'[i], O, i) \/ BetweenRules(line')
    BY <1>1, <2>1, <2>2, <2>4, <2>6, RunsNotice
  <2> QED
    BY <2>2, <2>5, <2>7, SeenIsNoticed
<1>5. CASE \E j \in Slots : Renegotiate(j)
  <2>1. PICK j \in Slots : Renegotiate(j)
    BY <1>5
  <2>2. PICK due \in Dates : Replaces(j, Schedule + Len(agreed) + 1, due)
    BY <1>1, <2>1, RenegotiateIs
  <2>3. UNCHANGED validated
    BY <2>1 DEF Renegotiate
  <2> DEFINE n == Schedule + Len(agreed) + 1
  <2>4. /\ inst'[j] = [inst[j] EXCEPT !.status = "renegotiated"] /\ inst'[n].status = "open"
        /\ \A h \in Slots : h # j /\ h # n => inst'[h] = inst[h]
    BY <2>2 DEF Replaces
  <2> HIDE DEF n
  <2>5. inst'[j].status = "renegotiated"
    BY <1>1, <2>4 DEF Installment
  <2>6. inst[i].status = "paid"
    BY <2>4, <2>5
  <2> QED
    BY <2>3, <2>6 DEF GateOpen
<1>6. CASE CancelContract
  BY <1>6 DEF CancelContract, GateOpen
<1>7. CASE UNCHANGED <<inst, validated>>
  BY <1>7 DEF GateOpen
<1>8. Reprocess \/ ChangeContract \/ RecordByHand \/ EditPolicy \/ UNCHANGED feeVars => UNCHANGED <<inst, validated>>
  BY DEF Reprocess, ChangeContract, RecordByHand, EditPolicy, feeVars, saleVars
<1>9. \A k \in Clerks, n \in DOMAIN line, to \in {"approved", "paid", "cancelled"} :
        CheckStatus(k, n, to) => UNCHANGED <<inst, validated>>
  BY DEF CheckStatus, saleVars
<1>10. \A k \in Clerks : WriteStatus(k) => UNCHANGED <<inst, validated>>
  BY DEF WriteStatus, saleVars
<1>11. \A n \in DOMAIN line : ResolveReview(n) => UNCHANGED <<inst, validated>>
  BY DEF ResolveReview, saleVars
<1> HIDE DEF O
<1> QED
  BY <1>3, <1>4, <1>5, <1>6, <1>7, <1>8, <1>9, <1>10, <1>11 DEF FeesNext

(* Of a valid sale in force no payment goes by without a commission, the    *)
(* trace that the reprocess selects, or nothing owed by the rule of the     *)
(* contract, for any schedule, agreements, roles, rates, payouts and runs   *)
(* of the reprocess; the cases that do go by are LeftBetweenRules and a     *)
(* payment while the contract is not active (insertInstallmentCommissions,  *)
(* releaseCommissionsForValidatedContract).                                 *)
THEOREM PaymentsAreNoticed == FeesSpec => NoPaymentGoesBy
<1> DEFINE A == \A i \in Slots :
                  /\ inst'[i].status = "paid" /\ GateOpen'
                  /\ inst[i].status # "paid" \/ ~validated
                  => Noticed(i)' \/ LeftBetweenRules'
           I == PayInv /\ EntryInv /\ OwingIs
<1>1. I /\ I' /\ [FeesNext]_feeVars => A
  BY NoticeStep
<1>2. I /\ I' /\ [FeesNext]_feeVars => [A]_feeVars
  BY <1>1
<1>3. FeesSpec => []I
  BY EntryInvariant
<1>4. FeesSpec => [][A]_feeVars
  <2> HIDE DEF A, I
  <2> QED
    BY <1>2, <1>3, PTL DEF FeesSpec
<1> QED
  BY <1>4 DEF NoPaymentGoesBy

(* Nor does a line of the second rules come for an installment that is not  *)
(* of the entry or the last of the agreements that replaced one, or, where  *)
(* the whole entry pays, before each of the others was paid: for any        *)
(* schedule, agreements of agreements, and order of payments, unless an     *)
(* agreement is due on a day of the schedule (entryInstallmentIds,          *)
(* isEntryFullyPaid, resolveEntry, commissionAutomation.ts).                *)
THEOREM PaymentsEarn == FeesSpec => PaymentsEarnTheirCommission
<1>1. FeesSpec => NoPaymentGoesBy
  BY PaymentsAreNoticed
<1>2. FeesSpec => []EntryEarnsTheCommission
  BY EntryIsWholeWhenItPays
<1> QED
  BY <1>1, <1>2 DEF PaymentsEarnTheirCommission

-----------------------------------------------------------------------------
(* Each office moves its own variables only, so all keep their types in any *)
(* behaviour of the five (MCHouse).                                         *)
THEOREM HouseTypesKept == HouseSpec => []HouseTypeOK
<1> DEFINE All == RoomInv /\ StaysInv /\ PointsInv /\ SignInv /\ FeesInv
<1>1. HouseInit => All
  BY RoomStarts, StaysStart, PointsInvInit, SignStart, FeesStart DEF HouseInit
<1>2. All /\ [HouseNext]_houseVars => All'
  <2> SUFFICES ASSUME RoomInv, StaysInv, PointsInv, SignInv, FeesInv, [HouseNext]_houseVars
               PROVE  RoomInv' /\ StaysInv' /\ PointsInv' /\ SignInv' /\ FeesInv'
    OBVIOUS
  <2>1. /\ [RoomNext]_roomVars /\ [StaysNext]_staysVars /\ [PointsNext]_pointsVars
        /\ [SignNext]_signVars /\ [FeesNext]_feeVars
    BY DEF HouseNext, houseVars
  <2>2. SignInv'
    BY <2>1, SetupKeeps, ReadingsKeep, ReceiveKeeps DEF SignNext
  <2> QED
    BY <2>1, <2>2, RoomStep, StaysStep, PointsStep, FeesStep
<1>3. All => HouseTypeOK
  BY PointsInvTypes DEF HouseTypeOK, RoomInv, StaysInv, SignInv, FeesInv
<1> QED
  BY <1>1, <1>2, <1>3, PTL DEF HouseSpec
=============================================================================
