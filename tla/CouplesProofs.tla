--------------------------- MODULE CouplesProofs ----------------------------
(***************************************************************************)
(* What a couple that did not buy is told to Recovery, for any numbers.    *)
(*                                                                         *)
(* Delivery, with any number of couples, workers, transitions, attempts    *)
(* and faults: a row leaves the queue once (LeftForGood), so a delivery a  *)
(* worker has seen stays delivered while it posts the revocation; and what *)
(* is in the book as delivered was accepted, because the answer a worker   *)
(* carries was given after that.                                           *)
(*                                                                         *)
(* Eligibility, with any number of transactions: what a transaction is     *)
(* going to write is the next number of a row it has the lock of, and what *)
(* it decides from is as new as that lock.                                 *)
(***************************************************************************)
EXTENDS MCCouples, ErasureProofs, TLAPS

(* The delivery.                                                            *)

Books == [Captures -> [Seqs -> Rows]]

\* What the row of a capture may turn into in one write of a worker.
BookWritten(w, new) ==
  /\ row' \in Books
  /\ \A c \in Captures, s \in Seqs :
       \/ row'[c][s] = row[c][s]
       \/ /\ row[c][s].status = "pending" /\ row'[c][s].status \in new
          /\ c = Cur(w).c /\ s = Cur(w).s

LEMMA LeftIsRow ==
  ASSUME NEW status \in Statuses
  PROVE  Left(status) \in Rows /\ Left(status).status = status
  BY BoundsAreCounts DEF Left, Rows

LEMMA QueuedIsRow ==
  ASSUME NEW r \in Rows, NEW tries \in 0..MaxAttempts
  PROVE  /\ [r EXCEPT !.holder = Nobody, !.due = FALSE] \in Rows
         /\ [r EXCEPT !.holder = Nobody, !.due = FALSE].status = r.status
         /\ [r EXCEPT !.attempts = tries, !.holder = Nobody, !.due = FALSE] \in Rows
         /\ [r EXCEPT !.attempts = tries, !.holder = Nobody, !.due = FALSE].status = r.status
  BY DEF Rows

LEMMA SettleWrites ==
  ASSUME TypeOK, NEW w \in Workers, worker[w].on \in Candidates,
         NEW status \in Statuses, Settle(w, status)
  PROVE  BookWritten(w, {status})
  <1> DEFINE k == Cur(w)
  <1>1. k.c \in Captures /\ k.s \in Seqs
    BY DEF Cur, Candidates
  <1>2. row \in Books
    BY DEF TypeOK, Books
  <1>3. CASE Owned(w, k.c, k.s)
    <2>1. row' = [row EXCEPT ![k.c][k.s] = Left(status)]
      BY <1>3 DEF Settle
    <2>2. Left(status) \in Rows /\ Left(status).status = status
      BY LeftIsRow
    <2> HIDE DEF k
    <2> QED BY <1>1, <1>2, <1>3, <2>1, <2>2 DEF BookWritten, Books, Owned, k
  <1>4. CASE ~Owned(w, k.c, k.s)
    BY <1>2, <1>4 DEF Settle, BookWritten
  <1> QED BY <1>3, <1>4

LEMMA ReleaseWrites ==
  ASSUME TypeOK, NEW w \in Workers, worker[w].on \in Candidates, Release(w)
  PROVE  BookWritten(w, {"pending"})
  <1> DEFINE k == Cur(w)
             back == [row[k.c][k.s] EXCEPT !.holder = Nobody, !.due = FALSE]
  <1>1. k.c \in Captures /\ k.s \in Seqs
    BY DEF Cur, Candidates
  <1>2. row \in Books
    BY DEF TypeOK, Books
  <1>3. CASE Owned(w, k.c, k.s)
    <2>1. row' = [row EXCEPT ![k.c][k.s] = back]
      <3>1. row' = [row EXCEPT ![k.c][k.s].holder = Nobody, ![k.c][k.s].due = FALSE]
        BY <1>3 DEF Release
      <3>2. row[k.c][k.s] \in Rows
        BY <1>1, <1>2 DEF Books
      <3>3. [row EXCEPT ![k.c][k.s].holder = Nobody, ![k.c][k.s].due = FALSE]
              = [row EXCEPT ![k.c][k.s] = back]
        <4> HIDE DEF k
        <4> QED BY <1>1, <1>2, <3>2 DEF Books, Rows
      <3> QED BY <3>1, <3>3
    <2>2. back \in Rows /\ back.status = row[k.c][k.s].status
      <3>1. row[k.c][k.s] \in Rows
        BY <1>1, <1>2 DEF Books
      <3>2. 0 \in 0..MaxAttempts
        BY BoundsAreCounts
      <3> HIDE DEF k
      <3> QED BY <3>1, <3>2, QueuedIsRow
    <2> HIDE DEF k, back
    <2> QED BY <1>1, <1>2, <1>3, <2>1, <2>2 DEF BookWritten, Books, Owned, k
  <1>4. CASE ~Owned(w, k.c, k.s)
    BY <1>2, <1>4 DEF Release, BookWritten
  <1> QED BY <1>3, <1>4

LEMMA RetryWrites ==
  ASSUME TypeOK, NEW w \in Workers, worker[w].on \in Candidates, Retry(w)
  PROVE  BookWritten(w, {"pending", "dead"})
  <1> DEFINE k == Cur(w)
             tries == IF k.attempts < MaxAttempts THEN k.attempts + 1 ELSE MaxAttempts
             back == [row[k.c][k.s] EXCEPT !.attempts = tries, !.holder = Nobody, !.due = FALSE]
  <1>1. k.c \in Captures /\ k.s \in Seqs /\ k.attempts \in 0..MaxAttempts
    BY DEF Cur, Candidates
  <1>2. row \in Books
    BY DEF TypeOK, Books
  <1>3. tries \in 0..MaxAttempts
    BY <1>1, BoundsAreCounts
  <1>4. CASE ~Owned(w, k.c, k.s)
    BY <1>2, <1>4 DEF Retry, BookWritten
  <1>5. CASE Owned(w, k.c, k.s) /\ tries = MaxAttempts /\ Kind(k.s) = "eligible"
    <2>1. row' = [row EXCEPT ![k.c][k.s] = Left("dead")]
      BY <1>5 DEF Retry
    <2>2. Left("dead") \in Rows /\ Left("dead").status = "dead"
      BY LeftIsRow DEF Statuses
    <2> HIDE DEF k, tries
    <2> QED BY <1>1, <1>2, <1>5, <2>1, <2>2 DEF BookWritten, Books, Owned, k
  <1>6. CASE Owned(w, k.c, k.s) /\ ~(tries = MaxAttempts /\ Kind(k.s) = "eligible")
    <2>1. row' = [row EXCEPT ![k.c][k.s] = back]
      BY <1>6 DEF Retry
    <2>2. back \in Rows /\ back.status = row[k.c][k.s].status
      <3>1. row[k.c][k.s] \in Rows
        BY <1>1, <1>2 DEF Books
      <3> HIDE DEF k, tries
      <3> QED BY <1>3, <3>1, QueuedIsRow
    <2> HIDE DEF k, tries, back
    <2> QED BY <1>1, <1>2, <1>6, <2>1, <2>2 DEF BookWritten, Books, Owned, k
  <1> QED BY <1>4, <1>5, <1>6

-----------------------------------------------------------------------------
(* What every step does to the book, and types.                            *)

LEMMA WorkerHasRow ==
  ASSUME TypeOK, NEW w \in Workers, worker[w].at # "idle"
  PROVE  /\ worker[w].on \in Candidates
         /\ Cur(w).c \in Captures /\ Cur(w).s \in Seqs
  BY DEF TypeOK, Cur, Candidates

\* The memory of the workers is well typed.
Memory ==
  /\ worker \in [Workers -> [at : Stages, on : Candidates \cup {Nothing}]]
  /\ \A w \in Workers : worker[w].at # "idle" => worker[w].on \in Candidates

\* A worker that goes on, or is done, keeps its memory well typed.
LEMMA GotoTyped ==
  ASSUME TypeOK, NEW w \in Workers, NEW stage \in Stages,
         worker[w].at # "idle", Goto(w, stage)
  PROVE  /\ Memory'
         /\ \A v \in Workers : v # w => worker'[v] = worker[v]
         /\ worker'[w].at = stage /\ worker'[w].on = worker[w].on
  <1>1. worker \in [Workers -> [at : Stages, on : Candidates \cup {Nothing}]]
    BY DEF TypeOK
  <1>2. worker[w].on \in Candidates
    BY WorkerHasRow
  <1> DEFINE new == [worker[w] EXCEPT !.at = stage]
  <1>3. worker' = [worker EXCEPT ![w] = new]
    BY DEF Goto
  <1>4. worker[w] \in [at : Stages, on : Candidates \cup {Nothing}]
    BY <1>1
  <1>5. new \in [at : Stages, on : Candidates \cup {Nothing}] /\ new.at = stage /\ new.on = worker[w].on
    BY <1>4
  <1> HIDE DEF new
  <1> QED BY <1>1, <1>2, <1>3, <1>5 DEF TypeOK, Memory

LEMMA DoneTyped ==
  ASSUME TypeOK, NEW w \in Workers, Done(w)
  PROVE  /\ Memory'
         /\ \A v \in Workers : v # w => worker'[v] = worker[v]
         /\ worker'[w].at = "idle"
  BY DEF TypeOK, Done, Idle, Stages, Memory

\* A row of the book changes only while it waits in it.
LeftStays(c, s) == row[c][s].status \notin {"none", "pending"} => row'[c][s] = row[c][s]

\* What a step of the book may do, whoever takes it.
BookStep == row' \in Books /\ \A c \in Captures, s \in Seqs : LeftStays(c, s)

\* A row that becomes delivered was accepted.
NewlyDelivered ==
  \A c \in Captures, s \in Seqs :
    row'[c][s].status = "delivered" => row[c][s].status = "delivered" \/ s \in accepted[c]

LEMMA WrittenIsBookStep ==
  ASSUME TypeOK, NEW w \in Workers, NEW new, BookWritten(w, new),
         "delivered" \in new => Cur(w).s \in accepted[Cur(w).c]
  PROVE  BookStep /\ NewlyDelivered
  BY DEF BookWritten, BookStep, LeftStays, NewlyDelivered

LEMMA SameIsBookStep ==
  ASSUME TypeOK, UNCHANGED row
  PROVE  BookStep /\ NewlyDelivered
  BY DEF TypeOK, BookStep, LeftStays, NewlyDelivered, Books

-----------------------------------------------------------------------------
(* The inductive invariant.                                                *)

\* What is eligible can still be revoked within the bound.
RoomToRevoke == \A c \in Captures : proj[c].eligible => proj[c].seq < MaxSeq

\* A worker about to write a delivery has the answer of Recovery.
AnswerWasAccepted(w) == worker[w].at = "ok" => Cur(w).s \in accepted[Cur(w).c]

\* A worker about to post a revocation has seen a delivery before it.
PostFollowsDelivery(w) ==
  worker[w].at = "checked" /\ Kind(Cur(w).s) = "revoked" =>
    Earlier(Cur(w).c, Cur(w).s, "delivered") # {}

IInv ==
  /\ TypeOK
  /\ RoomToRevoke
  /\ RevokedAfterEligible
  /\ DeliveredWasAccepted
  /\ \A w \in Workers : AnswerWasAccepted(w) /\ PostFollowsDelivery(w)

Projections == [Captures -> [eligible : BOOLEAN, seq : 0..MaxSeq]]

LEMMA ReevaluateTyped ==
  ASSUME IInv, NEW c \in Captures, NEW seen, Reevaluate(c, seen)
  PROVE  proj' \in Projections /\ RoomToRevoke'
  <1> DEFINE e == (seen = {})
  <1>1. proj \in Projections /\ proj[c] \in [eligible : BOOLEAN, seq : 0..MaxSeq]
    BY DEF IInv, TypeOK, Projections
  <1>2. CASE UNCHANGED proj
    BY <1>1, <1>2 DEF IInv, RoomToRevoke
  <1>3. CASE e # proj[c].eligible /\ ~(e /\ proj[c].seq + 2 > MaxSeq)
    <2> DEFINE new == [eligible |-> e, seq |-> proj[c].seq + 1]
    <2>1. proj' = [proj EXCEPT ![c] = new]
      BY <1>1, <1>3 DEF Reevaluate
    <2>2. e \in BOOLEAN
      OBVIOUS
    <2> HIDE DEF e
    <2>3. proj[c].seq + 1 \in 0..MaxSeq /\ (e => proj[c].seq + 1 < MaxSeq)
      BY <1>1, <1>3, <2>2, BoundsAreCounts DEF IInv, RoomToRevoke
    <2>4. new \in [eligible : BOOLEAN, seq : 0..MaxSeq] /\ (new.eligible => new.seq < MaxSeq)
      BY <2>2, <2>3
    <2> HIDE DEF new
    <2> QED BY <1>1, <2>1, <2>4 DEF IInv, RoomToRevoke, Projections
  <1> QED BY <1>2, <1>3 DEF Reevaluate

\* The invariant survives a step of the book that accepts nothing and takes
\* no worker to where it carries something to show.
LEMMA QuietStep ==
  ASSUME IInv, BookStep, NewlyDelivered, UNCHANGED accepted,
         facts' \in [Captures -> SUBSET Reasons], faults' \in 0..MaxFaults,
         proj' \in Projections, RoomToRevoke', Memory',
         \A w \in Workers : \/ worker'[w] = worker[w]
                            \/ worker'[w].at \notin {"ok", "checked"}
                            \/ AnswerWasAccepted(w)' /\ PostFollowsDelivery(w)'
  PROVE  IInv'
  <1>1. TypeOK'
    BY DEF IInv, TypeOK, BookStep, Books, Projections, Memory
  <1>2. RevokedAfterEligible'
    BY DEF IInv, RevokedAfterEligible, Kind
  <1>3. DeliveredWasAccepted'
    BY DEF IInv, DeliveredWasAccepted, NewlyDelivered
  <1>4. ASSUME NEW w \in Workers
        PROVE  AnswerWasAccepted(w)' /\ PostFollowsDelivery(w)'
    <2>1. CASE worker'[w] = worker[w]
      <3>1. Cur(w)' = Cur(w)
        BY <2>1 DEF Cur
      <3>2. AnswerWasAccepted(w) /\ PostFollowsDelivery(w) /\ TypeOK
        BY DEF IInv
      <3>3. AnswerWasAccepted(w)'
        BY <2>1, <3>1, <3>2 DEF AnswerWasAccepted
      <3>4. PostFollowsDelivery(w)'
        <4> SUFFICES ASSUME worker[w].at = "checked", Kind(Cur(w).s) = "revoked"
                     PROVE  Earlier(Cur(w).c, Cur(w).s, "delivered")' # {}
          BY <2>1, <3>1 DEF PostFollowsDelivery, Earlier, Kind
        <4>1. Cur(w).c \in Captures /\ Cur(w).s \in Seqs
          BY <3>2, WorkerHasRow
        <4>2. Earlier(Cur(w).c, Cur(w).s, "delivered") # {}
          BY <3>2 DEF PostFollowsDelivery
        <4>3. Earlier(Cur(w).c, Cur(w).s, "delivered")' = {t \in Seqs : t < Cur(w).s /\ Kind(t) = "eligible" /\ row'[Cur(w).c][t].status = "delivered"}
          BY <3>1 DEF Earlier, Kind
        <4> QED BY <4>1, <4>2, <4>3 DEF BookStep, LeftStays, Earlier
      <3> QED BY <3>3, <3>4
    <2>2. CASE worker'[w].at \notin {"ok", "checked"}
      BY <2>2 DEF AnswerWasAccepted, PostFollowsDelivery
    <2> QED BY <2>1, <2>2
  <1> QED BY <1>1, <1>2, <1>3, <1>4 DEF IInv

LEMMA InitEstablishes == Init => IInv
  <1> SUFFICES ASSUME Init PROVE IInv
    OBVIOUS
  <1>1. TypeOK
    BY BoundsAreCounts, NobodyIsNoWorker DEF Init, TypeOK, Idle, Rows, Statuses, Stages, Seqs
  <1>2. RoomToRevoke /\ RevokedAfterEligible
    BY DEF Init, RoomToRevoke, RevokedAfterEligible
  <1>3. DeliveredWasAccepted
    BY DEF Init, DeliveredWasAccepted
  <1>4. \A w \in Workers : AnswerWasAccepted(w) /\ PostFollowsDelivery(w)
    BY DEF Init, AnswerWasAccepted, PostFollowsDelivery, Idle
  <1> QED BY <1>1, <1>2, <1>3, <1>4 DEF IInv

-----------------------------------------------------------------------------
(* The steps.                                                              *)

LEMMA StillTyped ==
  ASSUME IInv
  PROVE  /\ facts \in [Captures -> SUBSET Reasons] /\ faults \in 0..MaxFaults
         /\ proj \in Projections /\ RoomToRevoke /\ Memory
  BY DEF IInv, TypeOK, Projections, Memory

LEMMA FaultTyped ==
  ASSUME IInv, faults < MaxFaults, faults' = faults + 1
  PROVE  faults' \in 0..MaxFaults
  BY BoundsAreCounts DEF IInv, TypeOK

\* A step outside the desk touches only facts and projection.
LEMMA OutsideStep ==
  ASSUME IInv, Desk, facts' \in [Captures -> SUBSET Reasons], proj' \in Projections, RoomToRevoke'
  PROVE  IInv' /\ BookStep
  <1>1. BookStep /\ NewlyDelivered
    BY SameIsBookStep DEF Desk, IInv
  <1>2. Memory' /\ faults' \in 0..MaxFaults
    BY StillTyped DEF Desk, Memory
  <1> QED BY <1>1, <1>2, QuietStep DEF Desk

LEMMA FactsStep ==
  ASSUME IInv, NEW c \in Captures, NEW r \in Reasons, Bar(c, r) \/ Unbar(c) \/ Reconcile(c)
  PROVE  IInv' /\ BookStep
  <1>1. Desk
    BY DEF Bar, Unbar, Reconcile
  <1>2. facts' \in [Captures -> SUBSET Reasons]
    BY StillTyped DEF Bar, Unbar, Reconcile
  <1>3. proj' \in Projections /\ RoomToRevoke'
    <2>1. CASE UNCHANGED proj
      BY <2>1, StillTyped DEF RoomToRevoke
    <2>2. CASE \E seen : Reevaluate(c, seen)
      BY <2>2, ReevaluateTyped
    <2> QED BY <2>1, <2>2 DEF Bar, Unbar, Reconcile
  <1> QED BY <1>1, <1>2, <1>3, OutsideStep

\* A worker moves and at most its row is written.
LEMMA MoveStep ==
  ASSUME IInv, NEW w \in Workers, BookStep, NewlyDelivered,
         UNCHANGED <<facts, accepted>>, faults' \in 0..MaxFaults,
         proj' \in Projections, RoomToRevoke', Memory',
         \A v \in Workers : v # w => worker'[v] = worker[v],
         \/ worker'[w].at \notin {"ok", "checked"}
         \/ AnswerWasAccepted(w)' /\ PostFollowsDelivery(w)'
  PROVE  IInv'
  BY StillTyped, QuietStep

LEMMA StartRunStep ==
  ASSUME IInv, NEW w \in Workers, StartRun(w)
  PROVE  IInv' /\ BookStep
  <1>1. TypeOK
    BY DEF IInv
  <1>2. BookStep /\ NewlyDelivered
    <2>1. \A c \in Captures, s \in Seqs : row[c][s] \in Rows
      BY <1>1 DEF TypeOK
    <2>2. \A c \in Captures, s \in Seqs :
            /\ [row[c][s] EXCEPT !.status = "pending"] \in Rows
            /\ [row[c][s] EXCEPT !.status = "pending"].status = "pending"
      BY <2>1 DEF Rows, Statuses
    <2>3. \A c \in Captures, s \in Seqs :
            \/ row'[c][s] = row[c][s]
            \/ row[c][s].status = "none" /\ row'[c][s] = [row[c][s] EXCEPT !.status = "pending"]
      BY DEF StartRun, Discovered
    <2>4. row' = [c \in Captures |-> [s \in Seqs |-> row'[c][s]]]
      BY DEF StartRun, Discovered
    <2>5. ASSUME NEW c \in Captures, NEW s \in Seqs PROVE row'[c][s] \in Rows
      <3>1. CASE row'[c][s] = row[c][s]
        BY <2>1, <3>1
      <3>2. CASE row'[c][s] = [row[c][s] EXCEPT !.status = "pending"]
        BY <2>2, <3>2
      <3> QED BY <2>3, <3>1, <3>2
    <2>6. row' \in Books
      BY <2>4, <2>5 DEF Books
    <2> QED BY <2>2, <2>3, <2>6 DEF BookStep, LeftStays, NewlyDelivered
  <1>3. PICK c \in Captures, s \in Seqs :
          worker' = [worker EXCEPT ![w] = [at |-> "next", on |-> [c |-> c, s |-> s, attempts |-> row[c][s].attempts]]]
    BY DEF StartRun
  <1>4. [c |-> c, s |-> s, attempts |-> row[c][s].attempts] \in Candidates
    BY <1>1 DEF TypeOK, Rows, Candidates
  <1>5. /\ Memory' /\ worker'[w].at = "next"
        /\ \A v \in Workers : v # w => worker'[v] = worker[v]
    BY <1>1, <1>3, <1>4 DEF TypeOK, Memory, Stages
  <1> QED BY <1>2, <1>5, MoveStep, StillTyped DEF StartRun, RoomToRevoke

LEMMA ClaimStep ==
  ASSUME IInv, NEW w \in Workers, Claim(w)
  PROVE  IInv' /\ BookStep
  <1>1. TypeOK /\ worker[w].at # "idle"
    BY DEF IInv, Claim
  <1>2. Cur(w).c \in Captures /\ Cur(w).s \in Seqs
    BY <1>1, WorkerHasRow
  <1>3. /\ Memory' /\ worker'[w].at \in {"claimed", "idle"}
        /\ \A v \in Workers : v # w => worker'[v] = worker[v]
    <2>1. Goto(w, "claimed") \/ Done(w)
      BY DEF Claim
    <2> QED BY <1>1, <2>1, GotoTyped, DoneTyped DEF Stages
  <1>4. BookStep /\ NewlyDelivered
    <2>1. CASE UNCHANGED row
      BY <1>1, <2>1, SameIsBookStep
    <2>2. CASE /\ IsDue(row[Cur(w).c][Cur(w).s])
               /\ row' = [row EXCEPT ![Cur(w).c][Cur(w).s].holder = w, ![Cur(w).c][Cur(w).s].due = FALSE]
      <3> DEFINE c == Cur(w).c
                 s == Cur(w).s
                 new == [row[c][s] EXCEPT !.holder = w, !.due = FALSE]
      <3>1. c \in Captures /\ s \in Seqs /\ row \in Books /\ row[c][s] \in Rows
        BY <1>1, <1>2 DEF TypeOK, Books
      <3>2. row[c][s].status = "pending"
        BY <2>2 DEF IsDue
      <3>3. row' = [row EXCEPT ![c][s].holder = w, ![c][s].due = FALSE]
        BY <2>2
      <3>4. new \in Rows /\ new.status = "pending"
        BY <3>1, <3>2 DEF Rows
      <3> HIDE DEF c, s
      <3>5. row' = [row EXCEPT ![c][s] = new]
        BY <3>1, <3>3 DEF Books, Rows
      <3> HIDE DEF new
      <3> QED BY <3>1, <3>2, <3>4, <3>5 DEF BookStep, LeftStays, NewlyDelivered, Books
    <2> QED BY <2>1, <2>2 DEF Claim
  <1> QED BY <1>3, <1>4, MoveStep, StillTyped DEF Claim, RoomToRevoke

LEMMA ReadStateStep ==
  ASSUME IInv, NEW w \in Workers, ReadState(w)
  PROVE  IInv' /\ BookStep
  <1>1. TypeOK /\ worker[w].at # "idle" /\ worker[w].on \in Candidates
    BY WorkerHasRow DEF IInv, ReadState
  <1>2. BookStep /\ NewlyDelivered
    <2>1. Settle(w, "superseded") \/ UNCHANGED row
      BY DEF ReadState
    <2> QED BY <1>1, <2>1, SettleWrites, WrittenIsBookStep, SameIsBookStep DEF Statuses
  <1>3. /\ Memory' /\ worker'[w].at \in {"current", "idle"}
        /\ \A v \in Workers : v # w => worker'[v] = worker[v]
    <2>1. Goto(w, "current") \/ Done(w)
      BY DEF ReadState
    <2> QED BY <1>1, <2>1, GotoTyped, DoneTyped DEF Stages
  <1> QED BY <1>2, <1>3, MoveStep, StillTyped DEF ReadState, RoomToRevoke

LEMMA CheckRevokedStep ==
  ASSUME IInv, NEW w \in Workers, CheckRevoked(w)
  PROVE  IInv' /\ BookStep
  <1>1. TypeOK /\ worker[w].at # "idle" /\ worker[w].on \in Candidates
    BY WorkerHasRow DEF IInv, CheckRevoked
  <1>2. CASE Done(w) /\ (Release(w) \/ Settle(w, "suppressed"))
    <2>1. BookStep /\ NewlyDelivered
      BY <1>1, <1>2, ReleaseWrites, SettleWrites, WrittenIsBookStep DEF Statuses
    <2> QED BY <1>1, <1>2, <2>1, DoneTyped, MoveStep, StillTyped DEF CheckRevoked, RoomToRevoke
  <1>3. CASE Goto(w, "checked") /\ UNCHANGED row /\ Earlier(Cur(w).c, Cur(w).s, "delivered") # {}
    <2>1. BookStep /\ NewlyDelivered
      BY <1>1, <1>3, SameIsBookStep
    <2>2. /\ Memory' /\ worker'[w].at = "checked" /\ Cur(w)' = Cur(w)
          /\ \A v \in Workers : v # w => worker'[v] = worker[v]
      BY <1>1, <1>3, GotoTyped DEF Stages, Cur
    <2>3. AnswerWasAccepted(w)' /\ PostFollowsDelivery(w)'
      BY <1>3, <2>2 DEF AnswerWasAccepted, PostFollowsDelivery, Earlier, Kind
    <2> QED BY <2>1, <2>2, <2>3, MoveStep, StillTyped DEF CheckRevoked, RoomToRevoke
  <1> QED BY <1>2, <1>3 DEF CheckRevoked

LEMMA RevalidateStep ==
  ASSUME IInv, NEW w \in Workers, Revalidate(w)
  PROVE  IInv' /\ BookStep
  <1>1. TypeOK /\ worker[w].at # "idle" /\ worker[w].on \in Candidates
    BY WorkerHasRow DEF IInv, Revalidate
  <1>2. BookStep /\ NewlyDelivered
    <2>1. Settle(w, "suppressed") \/ UNCHANGED row
      BY DEF Revalidate
    <2> QED BY <1>1, <2>1, SettleWrites, WrittenIsBookStep, SameIsBookStep DEF Statuses
  <1>3. /\ Memory' /\ worker'[w].at \in {"checked", "stale"} /\ worker'[w].on = worker[w].on
        /\ \A v \in Workers : v # w => worker'[v] = worker[v]
    <2>1. Goto(w, "checked") \/ Goto(w, "stale")
      BY DEF Revalidate
    <2> QED BY <1>1, <2>1, GotoTyped DEF Stages
  <1>4. worker'[w].at = "checked" => AnswerWasAccepted(w)' /\ PostFollowsDelivery(w)'
    BY <1>3 DEF AnswerWasAccepted, PostFollowsDelivery, Revalidate, Cur, Kind
  <1> QED BY <1>2, <1>3, <1>4, MoveStep, StillTyped DEF Revalidate, RoomToRevoke

LEMMA ReevaluateStaleStep ==
  ASSUME IInv, NEW w \in Workers, ReevaluateStale(w)
  PROVE  IInv' /\ BookStep
  <1>1. TypeOK /\ worker[w].at # "idle" /\ Cur(w).c \in Captures
    BY WorkerHasRow DEF IInv, ReevaluateStale
  <1>2. BookStep /\ NewlyDelivered
    BY <1>1, SameIsBookStep DEF ReevaluateStale
  <1>3. proj' \in Projections /\ RoomToRevoke'
    BY <1>1, StillTyped, ReevaluateTyped DEF ReevaluateStale, RoomToRevoke
  <1>4. faults' \in 0..MaxFaults
    BY StillTyped, FaultTyped DEF ReevaluateStale
  <1> QED BY <1>1, <1>2, <1>3, <1>4, DoneTyped, MoveStep DEF ReevaluateStale

LEMMA PostStep ==
  ASSUME IInv, NEW w \in Workers, Post(w)
  PROVE  IInv' /\ BookStep
  <1> DEFINE c == Cur(w).c
             s == Cur(w).s
  <1>1. TypeOK /\ worker[w].at = "checked" /\ c \in Captures /\ s \in Seqs
    BY WorkerHasRow DEF IInv, Post
  <1>2. PICK answer \in Answers :
          /\ accepted' = IF answer \in {"ok", "lost"} THEN [accepted EXCEPT ![c] = @ \cup {s}] ELSE accepted
          /\ IF answer = "ok" THEN UNCHANGED faults ELSE faults < MaxFaults /\ faults' = faults + 1
          /\ Goto(w, answer)
    BY DEF Post
  <1>3. UNCHANGED <<facts, proj, row>>
    BY DEF Post
  <1>4. BookStep /\ NewlyDelivered
    BY <1>1, <1>3, SameIsBookStep
  <1>5. /\ Memory' /\ worker'[w].at = answer /\ Cur(w)' = Cur(w)
        /\ \A v \in Workers : v # w => worker'[v] = worker[v]
    BY <1>1, <1>2, GotoTyped DEF Stages, Answers, Cur
  <1>6. faults' \in 0..MaxFaults
    BY <1>2, StillTyped, FaultTyped
  <1> HIDE DEF c, s
  <1>7. /\ accepted' \in [Captures -> SUBSET Seqs]
        /\ \A d \in Captures : accepted[d] \subseteq accepted'[d]
        /\ \A d \in Captures : \A t \in accepted'[d] : t \in accepted[d] \/ (d = c /\ t = s)
        /\ answer = "ok" => s \in accepted'[c]
    BY <1>1, <1>2 DEF TypeOK
  <1>8. TypeOK' /\ RoomToRevoke'
    BY <1>3, <1>5, <1>6, <1>7 DEF IInv, TypeOK, Memory, RoomToRevoke
  <1>9. DeliveredWasAccepted'
    BY <1>3, <1>7 DEF IInv, DeliveredWasAccepted
  <1>10. RevokedAfterEligible'
    <2> SUFFICES ASSUME NEW d \in Captures, NEW t \in accepted'[d], Kind(t) = "revoked"
                 PROVE  \E u \in accepted'[d] : u < t /\ Kind(u) = "eligible"
      BY DEF RevokedAfterEligible, Kind
    <2>1. CASE t \in accepted[d]
      BY <1>7, <2>1 DEF IInv, RevokedAfterEligible
    <2>2. CASE d = c /\ t = s
      <3>1. PostFollowsDelivery(w)
        BY DEF IInv
      <3>2. Earlier(c, s, "delivered") # {}
        BY <1>1, <2>2, <3>1 DEF PostFollowsDelivery, c, s
      <3>3. PICK u \in Seqs : u < s /\ Kind(u) = "eligible" /\ row[c][u].status = "delivered"
        BY <3>2 DEF Earlier
      <3>4. u \in accepted[c]
        BY <1>1, <3>3 DEF IInv, DeliveredWasAccepted
      <3> QED BY <1>1, <1>7, <2>2, <3>3, <3>4
    <2> QED BY <1>7, <2>1, <2>2
  <1>11. ASSUME NEW v \in Workers
         PROVE  AnswerWasAccepted(v)' /\ PostFollowsDelivery(v)'
    <2>1. AnswerWasAccepted(v) /\ PostFollowsDelivery(v) /\ (worker[v].at # "idle" => Cur(v).c \in Captures)
      BY <1>1, WorkerHasRow DEF IInv
    <2>2. CASE v = w
      BY <1>5, <1>7, <2>2 DEF AnswerWasAccepted, PostFollowsDelivery, Answers, c, s
    <2>3. CASE v # w
      <3>1. worker'[v] = worker[v] /\ Cur(v)' = Cur(v)
        BY <1>5, <2>3 DEF Cur
      <3>2. AnswerWasAccepted(v)'
        BY <1>7, <2>1, <3>1 DEF AnswerWasAccepted
      <3>3. PostFollowsDelivery(v)'
        BY <1>3, <2>1, <3>1 DEF PostFollowsDelivery, Earlier, Kind
      <3> QED BY <3>2, <3>3
    <2> QED BY <2>2, <2>3
  <1> QED BY <1>4, <1>8, <1>9, <1>10, <1>11 DEF IInv

LEMMA RecordAnswerStep ==
  ASSUME IInv, NEW w \in Workers, RecordAnswer(w)
  PROVE  IInv' /\ BookStep
  <1>1. TypeOK /\ worker[w].at # "idle" /\ worker[w].on \in Candidates
    BY WorkerHasRow DEF IInv, RecordAnswer, Answers
  <1>2. \/ worker[w].at = "ok" /\ Settle(w, "delivered")
        \/ Settle(w, "rejected")
        \/ Retry(w)
    BY DEF RecordAnswer
  <1>3. worker[w].at = "ok" => Cur(w).s \in accepted[Cur(w).c]
    BY DEF IInv, AnswerWasAccepted
  <1>4. BookStep /\ NewlyDelivered
    <2>1. CASE worker[w].at = "ok" /\ Settle(w, "delivered")
      BY <1>1, <1>3, <2>1, SettleWrites, WrittenIsBookStep DEF Statuses
    <2>2. CASE Settle(w, "rejected")
      BY <1>1, <2>2, SettleWrites, WrittenIsBookStep DEF Statuses
    <2>3. CASE Retry(w)
      BY <1>1, <2>3, RetryWrites, WrittenIsBookStep
    <2> QED BY <1>2, <2>1, <2>2, <2>3
  <1> QED BY <1>1, <1>4, DoneTyped, MoveStep, StillTyped DEF RecordAnswer, RoomToRevoke

LEMMA StopStep ==
  ASSUME IInv, NEW w \in Workers, InternalError(w) \/ Crash(w)
  PROVE  IInv' /\ BookStep
  <1>1. TypeOK /\ worker[w].at # "idle" /\ worker[w].on \in Candidates
    BY WorkerHasRow DEF IInv, InternalError, Crash
  <1>2. BookStep /\ NewlyDelivered
    <2>1. Retry(w) \/ UNCHANGED row
      BY DEF InternalError, Crash
    <2> QED BY <1>1, <2>1, RetryWrites, WrittenIsBookStep, SameIsBookStep
  <1>3. faults' \in 0..MaxFaults /\ Done(w) /\ UNCHANGED <<facts, proj, accepted>>
    BY FaultTyped DEF InternalError, Crash
  <1> QED BY <1>1, <1>2, <1>3, DoneTyped, MoveStep, StillTyped DEF RoomToRevoke

LEMMA ClockStep ==
  ASSUME IInv, NEW c \in Captures, NEW s \in Seqs, Elapse(c, s) \/ Overrun(c, s)
  PROVE  IInv' /\ BookStep
  <1>1. row[c][s] \in Rows /\ row \in Books /\ row[c][s].status = "pending"
    BY DEF IInv, TypeOK, Books, Elapse, Overrun
  <1> DEFINE new == [row[c][s] EXCEPT !.due = TRUE]
  <1>2. new \in Rows /\ new.status = "pending"
    BY <1>1 DEF Rows
  <1>3. row' = [row EXCEPT ![c][s] = new]
    BY <1>1 DEF Elapse, Overrun, Books, Rows
  <1> HIDE DEF new
  <1>4. BookStep /\ NewlyDelivered
    BY <1>1, <1>2, <1>3 DEF BookStep, LeftStays, NewlyDelivered, Books
  <1>5. faults' \in 0..MaxFaults /\ UNCHANGED <<facts, proj, accepted, worker>>
    BY FaultTyped, StillTyped DEF Elapse, Overrun
  <1>6. Memory' /\ RoomToRevoke' /\ proj' \in Projections /\ facts' \in [Captures -> SUBSET Reasons]
    BY <1>5, StillTyped DEF Memory, RoomToRevoke
  <1> QED BY <1>4, <1>5, <1>6, QuietStep

\* Every step preserves the invariant and leaves what has left the queue.
LEMMA StepPreserves ==
  ASSUME IInv, [Next]_vars
  PROVE  IInv' /\ BookStep
  <1>1. CASE Next
    <2>1. CASE \E c \in Captures : Unbar(c) \/ Reconcile(c)
      BY <2>1, FactsStep DEF Reasons
    <2>2. CASE \E c \in Captures, r \in Reasons : Bar(c, r)
      BY <2>2, FactsStep
    <2>3. CASE \E w \in Workers : Work(w) \/ InternalError(w) \/ Crash(w)
      BY <2>3, StartRunStep, ClaimStep, ReadStateStep, CheckRevokedStep, RevalidateStep,
         ReevaluateStaleStep, PostStep, RecordAnswerStep, StopStep DEF Work
    <2>4. CASE \E c \in Captures, s \in Seqs : Elapse(c, s) \/ Overrun(c, s)
      BY <2>4, ClockStep
    <2> QED BY <1>1, <2>1, <2>2, <2>3, <2>4 DEF Next
  <1>2. CASE UNCHANGED vars
    <2>1. Desk /\ UNCHANGED <<facts, proj>>
      BY <1>2 DEF vars, Desk
    <2> QED BY <2>1, OutsideStep, StillTyped DEF RoomToRevoke
  <1> QED BY <1>1, <1>2

-----------------------------------------------------------------------------
(* The theorems.                                                           *)

LEMMA DeliveryInvariant == Spec => []IInv
  <1>1. IInv /\ [Next]_vars => IInv'
    BY StepPreserves
  <1> QED BY InitEstablishes, <1>1, PTL DEF Spec

\* The variables have their types: bounds of the book, leases and attempts.
THEOREM TypeCorrect == Spec => []TypeOK
  <1>1. IInv => TypeOK
    BY DEF IInv
  <1> QED BY DeliveryInvariant, <1>1, PTL

\* Recovery never gets a revocation before something eligible of the couple.
THEOREM RevocationsFollow == Spec => []RevokedAfterEligible
  <1>1. IInv => RevokedAfterEligible
    BY DEF IInv
  <1> QED BY DeliveryInvariant, <1>1, PTL

\* What the book calls delivered was accepted, whoever held the lease.
THEOREM DeliveriesAreTrue == Spec => []DeliveredWasAccepted
  <1>1. IInv => DeliveredWasAccepted
    BY DEF IInv
  <1> QED BY DeliveryInvariant, <1>1, PTL

\* A row that has left the queue never changes again.
THEOREM RowsLeaveForGood == Spec => LeftForGood
  <1>1. IInv /\ [Next]_vars =>
          [\A c \in Captures, s \in Seqs :
             row[c][s].status \notin {"none", "pending"} => row'[c][s] = row[c][s]]_vars
    BY StepPreserves DEF BookStep, LeftStays
  <1> QED BY DeliveryInvariant, <1>1, PTL DEF Spec, LeftForGood

-----------------------------------------------------------------------------
(* The projection of who is eligible.                                       *)

(* The capture a transaction is at. *)
AtCard(r, c) == c \in r.todo /\ \A d \in r.todo : c <= d

(* What a transaction is going to write is the next number of the row, of which *)
(* it has the lock.                                                             *)
HoldsWhatItWrites(t, r) ==
  \A c \in Cards :
    /\ r.writes[c] # NoWrite =>
         /\ lock[c] = t
         /\ r.writes[c].seq = projection[c].seq + 1
         /\ r.writes[c].eligible = ~projection[c].eligible
    /\ r.at = "read" /\ AtCard(r, c) => lock[c] = t

(* An opt-out is not undone, and is among what was read once all is read. *)
ReadsTheOptOut(t, r) ==
  /\ r.change.fact = OptOut => r.change.on = TRUE
  /\ OptOut \in r.atLock => OptOut \in truth
  /\ r.at = "read" /\ r.n = 3 /\ OptOut \in r.atLock => OptOut \in r.seen
  /\ t # Deliverer => r.reads # "snapshot"

TxOK(t, r) == r \in Transactions /\ HoldsWhatItWrites(t, r) /\ ReadsTheOptOut(t, r)

EligInv ==
  /\ EligibilityTypeOK
  /\ EventsTellTheProjection
  /\ \A t \in Txs : TxOK(t, tx[t])

(* What OptOutIsSeen says of a step. *)
OptOutCounts ==
  \A t \in Txs \ {Deliverer}, c \in Cards :
    tx'[t].writes[c].eligible /\ ~tx[t].writes[c].eligible => OptOut \notin tx[t].atLock

LEMMA TransactionsOfNobody ==
  ASSUME NEW t \in Txs
  PROVE  t # NoTx
BY EligibilityAssumption DEF Txs

LEMMA KindsDiffer ==
  /\ Block("none") # OptOut /\ OptOut \in Truths /\ OptOut \notin Visits
  /\ \A c \in Cards : Attended(c) # OptOut /\ Attended(c) \in Truths
BY DEF Block, OptOut, Attended, Visits, Truths, Blocks, Kinds

LEMMA NotBegunIsOK ==
  ASSUME NEW t \in Txs
  PROVE  TxOK(t, NotBegun)
<1>1. NotBegun \in Transactions
  BY DEF NotBegun, Transactions, States, NoWrite
<1>2. HoldsWhatItWrites(t, NotBegun)
  BY DEF HoldsWhatItWrites, NotBegun
<1>3. ReadsTheOptOut(t, NotBegun)
  BY KindsDiffer DEF ReadsTheOptOut, NotBegun, NoChange
<1> QED
  BY <1>1, <1>2, <1>3 DEF TxOK

\* A transaction is left as it is when its rows are, and the opt-out.
LEMMA OthersStay ==
  ASSUME NEW u \in Txs, NEW r, TxOK(u, r),
         OptOut \in truth => OptOut \in truth',
         \A c \in Cards : lock[c] = u => lock'[c] = u /\ projection'[c] = projection[c]
  PROVE  TxOK(u, r)'
<1>1. HoldsWhatItWrites(u, r)'
  BY DEF TxOK, HoldsWhatItWrites
<1>2. ReadsTheOptOut(u, r)'
  BY DEF TxOK, ReadsTheOptOut
<1> QED
  BY <1>1, <1>2 DEF TxOK

\* A step of one transaction that leaves the projection alone and no opt-out behind.
LEMMA TxKeeps ==
  ASSUME EligInv, NEW t \in Txs, NEW r, TxOK(t, r)',
         tx' = [tx EXCEPT ![t] = r],
         truth' \subseteq Truths, OptOut \in truth => OptOut \in truth',
         UNCHANGED <<projection, flips>>,
         lock' \in [Cards -> Txs \cup {NoTx}],
         \A c \in Cards : lock'[c] # lock[c] => lock[c] \in {t, NoTx},
         changes' \in 0..MaxChanges, failures' \in 0..MaxFailures,
         \A c \in Cards : r.writes[c].eligible /\ ~tx[t].writes[c].eligible =>
                            t = Deliverer \/ OptOut \notin tx[t].atLock
  PROVE  EligInv' /\ OptOutCounts
<1>1. r \in Transactions
  BY DEF TxOK
<1>2. tx' \in [Txs -> Transactions] /\ \A u \in Txs : tx'[u] = IF u = t THEN r ELSE tx[u]
  BY <1>1 DEF EligInv, EligibilityTypeOK
<1>3. EligibilityTypeOK'
  BY <1>2 DEF EligInv, EligibilityTypeOK
<1>4. EventsTellTheProjection'
  BY DEF EligInv, EventsTellTheProjection
<1>5. (\A u \in Txs : TxOK(u, tx[u]))'
  <2> SUFFICES ASSUME NEW u \in Txs
               PROVE  TxOK(u, tx[u])'
    OBVIOUS
  <2>1. CASE u = t
    BY <1>2, <2>1 DEF TxOK, HoldsWhatItWrites, ReadsTheOptOut
  <2>2. CASE u # t
    <3>1. TxOK(u, tx[u]) /\ tx'[u] = tx[u]
      BY <1>2, <2>2 DEF EligInv
    <3>2. \A c \in Cards : lock[c] = u => lock'[c] = u /\ projection'[c] = projection[c]
      BY <2>2, TransactionsOfNobody
    <3> DEFINE x == tx[u]
    <3>3. TxOK(u, x)'
      BY <3>1, <3>2, OthersStay DEF TxOK, HoldsWhatItWrites, ReadsTheOptOut
    <3> QED
      BY <3>3
  <2> QED
    BY <2>1, <2>2
<1>6. OptOutCounts
  <2> SUFFICES ASSUME NEW u \in Txs \ {Deliverer}, NEW c \in Cards,
                      tx'[u].writes[c].eligible, ~tx[u].writes[c].eligible
               PROVE  OptOut \notin tx[u].atLock
    BY DEF OptOutCounts
  <2> QED
    BY <1>2
<1> QED
  BY <1>3, <1>4, <1>5, <1>6 DEF EligInv

LEMMA ApplyTruths ==
  ASSUME NEW r \in Transactions, NEW known \in SUBSET Truths, r.change.fact = OptOut => r.change.on = TRUE
  PROVE  /\ Apply(r.change, known) \in SUBSET Truths
         /\ OptOut \in known => OptOut \in Apply(r.change, known)
<1>1. r.change = NoChange \/ (r.change.fact \in Truths /\ r.change.on \in BOOLEAN)
  BY DEF Transactions
<1> QED
  BY <1>1 DEF Apply

\* A transaction that begins has nothing to write yet.
LEMMA Beginning ==
  ASSUME EligInv, NEW t \in Txs, NEW r \in Transactions, tx' = [tx EXCEPT ![t] = r],
         r.at \in {"lock", "open"}, r.writes = NotBegun.writes, r.atLock = {},
         r.change.fact = OptOut => r.change.on = TRUE,
         t # Deliverer => r.reads # "snapshot",
         truth' \subseteq Truths, OptOut \in truth => OptOut \in truth',
         changes' \in 0..MaxChanges, UNCHANGED <<projection, flips, lock, failures>>
  PROVE  EligInv' /\ OptOutCounts
<1>1. \A c \in Cards : r.writes[c] = NoWrite /\ ~NoWrite.eligible
  BY DEF NotBegun, NoWrite
<1>2. HoldsWhatItWrites(t, r)'
  BY <1>1 DEF HoldsWhatItWrites
<1>3. ReadsTheOptOut(t, r)'
  BY DEF ReadsTheOptOut
<1>4. TxOK(t, r)'
  BY <1>2, <1>3 DEF TxOK
<1>5. lock' \in [Cards -> Txs \cup {NoTx}] /\ failures' \in 0..MaxFailures
  BY DEF EligInv, EligibilityTypeOK
<1>6. \A c \in Cards : ~r.writes[c].eligible /\ lock'[c] = lock[c]
  BY <1>1
<1> QED
  BY <1>4, <1>5, <1>6, TxKeeps

LEMMA WriteFactKeeps ==
  ASSUME EligInv, NEW w \in Writers, NEW fact \in Truths, NEW on \in BOOLEAN, WriteFact(w, fact, on)
  PROVE  EligInv' /\ OptOutCounts
<1> DEFINE change == [fact |-> fact, on |-> on]
           todo == IF fact \in Visits THEN {fact.card} ELSE Cards
           own == Apply(change, truth)
           r == [NotBegun EXCEPT !.at = "lock", !.change = change, !.own = own, !.todo = todo]
<1>1. /\ tx' = [tx EXCEPT ![w] = r] /\ w \in Txs
      /\ UNCHANGED <<truth, projection, flips, lock, failures>>
  BY DEF WriteFact, Begins, Txs
<1>2. truth \in SUBSET Truths /\ changes' \in 0..MaxChanges
  BY EligibilityAssumption DEF EligInv, EligibilityTypeOK, WriteFact, MayChange
<1>3. fact = OptOut => on = TRUE
  <2>1. fact.what \in Undoable \/ on = TRUE
    BY DEF WriteFact, MayChange
  <2>2. OptOut.what = "opt_out" /\ "opt_out" \notin Undoable
    BY EligibilityAssumption DEF OptOut, Block
  <2> QED
    BY <2>1, <2>2
<1>4. todo \subseteq Cards /\ own \in SUBSET Truths /\ change \in [fact : Truths, on : BOOLEAN]
  <2>1. fact \in Visits => fact.card \in Cards
    BY DEF Visits, Attended
  <2>2. own \in SUBSET Truths
    BY <1>2 DEF Apply
  <2> QED
    BY <2>1, <2>2
<1> HIDE DEF own, todo
<1>5. /\ r \in Transactions /\ r.at = "lock" /\ r.writes = NotBegun.writes /\ r.atLock = {}
      /\ r.change = change /\ r.reads = "fresh"
  <2>1. NotBegun \in Transactions
    BY NotBegunIsOK, <1>1 DEF TxOK
  <2> QED
    BY <1>4, <2>1 DEF NotBegun, Transactions
<1>6. r.change.fact = OptOut => r.change.on = TRUE
  BY <1>3, <1>5
<1> HIDE DEF r
<1> QED
  BY <1>1, <1>2, <1>5, <1>6, Beginning

LEMMA EndPresentationKeeps ==
  ASSUME EligInv, NEW w \in Writers, NEW c \in Cards, EndPresentation(w, c)
  PROVE  EligInv' /\ OptOutCounts
<1> DEFINE r == [NotBegun EXCEPT !.at = "open", !.todo = {c}]
<1>1. /\ tx' = [tx EXCEPT ![w] = r] /\ w \in Txs /\ truth' = truth \cup {Attended(c)}
      /\ UNCHANGED <<projection, flips, lock, failures>>
  BY DEF EndPresentation, Begins, Txs
<1>2. truth' \subseteq Truths /\ changes' \in 0..MaxChanges
  BY <1>1, KindsDiffer, EligibilityAssumption DEF EligInv, EligibilityTypeOK, EndPresentation, MayChange
<1>3. NotBegun \in Transactions
  BY NotBegunIsOK, <1>1 DEF TxOK
<1>4. /\ r \in Transactions /\ r.at = "open" /\ r.writes = NotBegun.writes /\ r.atLock = {}
      /\ r.change = NoChange /\ r.reads = "fresh"
  BY <1>3 DEF NotBegun, Transactions
<1>5. r.change.fact # OptOut
  BY <1>4, KindsDiffer DEF NoChange
<1> HIDE DEF r
<1> QED
  BY <1>1, <1>2, <1>4, <1>5, Beginning

LEMMA JobKeeps ==
  ASSUME EligInv, NEW c \in Cards, ScanCapture(c) \/ DeliveryReevaluates(c)
  PROVE  EligInv' /\ OptOutCounts
<1> DEFINE r == [NotBegun EXCEPT !.at = "lock", !.reads = "committed", !.todo = {c}]
           q == [NotBegun EXCEPT !.at = "open", !.reads = "snapshot", !.todo = {c}]
<1>1. Reconciler \in Txs /\ Deliverer \in Txs
  BY DEF Txs
<1>2. NotBegun \in Transactions
  BY NotBegunIsOK, <1>1 DEF TxOK
<1>3. /\ r \in Transactions /\ r.at = "lock" /\ r.writes = NotBegun.writes /\ r.atLock = {}
      /\ r.change = NoChange /\ r.reads = "committed"
  BY <1>2 DEF NotBegun, Transactions
<1>4. /\ q \in Transactions /\ q.at = "open" /\ q.writes = NotBegun.writes /\ q.atLock = {}
      /\ q.change = NoChange /\ q.reads = "snapshot"
  BY <1>2 DEF NotBegun, Transactions
<1>5. NoChange.fact # OptOut
  BY KindsDiffer DEF NoChange
<1>6. /\ \/ tx' = [tx EXCEPT ![Reconciler] = r]
         \/ tx' = [tx EXCEPT ![Deliverer] = q]
      /\ UNCHANGED <<truth, projection, flips, lock, changes, failures>>
  BY DEF ScanCapture, DeliveryReevaluates, Begins
<1>7. truth' \subseteq Truths /\ changes' \in 0..MaxChanges
  BY <1>6 DEF EligInv, EligibilityTypeOK
<1> HIDE DEF r, q
<1>8. CASE tx' = [tx EXCEPT ![Reconciler] = r]
  BY <1>1, <1>3, <1>5, <1>6, <1>7, <1>8, Beginning
<1>9. CASE tx' = [tx EXCEPT ![Deliverer] = q]
  BY <1>1, <1>4, <1>5, <1>6, <1>7, <1>9, Beginning
<1> QED
  BY <1>6, <1>8, <1>9

\* A step of a transaction that changes nothing but what it knows.
LEMMA Reading ==
  ASSUME EligInv, NEW t \in Txs, NEW r, TxOK(t, r), tx' = [tx EXCEPT ![t] = r],
         \A c \in Cards : r.writes[c].eligible /\ ~tx[t].writes[c].eligible =>
                            t = Deliverer \/ OptOut \notin tx[t].atLock,
         UNCHANGED <<truth, projection, flips, lock, changes, failures>>
  PROVE  EligInv' /\ OptOutCounts
<1>1. TxOK(t, r)'
  BY OthersStay
<1>2. /\ truth' \subseteq Truths /\ changes' \in 0..MaxChanges /\ failures' \in 0..MaxFailures
      /\ lock' \in [Cards -> Txs \cup {NoTx}]
  BY DEF EligInv, EligibilityTypeOK
<1> QED
  BY <1>1, <1>2, TxKeeps

LEMMA OpenSnapshotKeeps ==
  ASSUME EligInv, NEW t \in Txs, OpenSnapshot(t)
  PROVE  EligInv' /\ OptOutCounts
<1> DEFINE v == tx[t]
           r == [v EXCEPT !.at = "lock", !.own = truth]
<1>1. TxOK(t, v) /\ v \in Transactions /\ truth \in SUBSET Truths
  BY DEF EligInv, TxOK, EligibilityTypeOK
<1>2. tx' = [tx EXCEPT ![t] = r] /\ UNCHANGED <<truth, projection, flips, lock, changes, failures>>
  BY <1>1 DEF OpenSnapshot, EligInv, EligibilityTypeOK
<1>3. /\ r \in Transactions /\ r.at = "lock" /\ r.writes = v.writes /\ r.change = v.change
      /\ r.atLock = v.atLock /\ r.reads = v.reads
  BY <1>1 DEF Transactions
<1> HIDE DEF r
<1>4. TxOK(t, r)
  BY <1>1, <1>3 DEF TxOK, HoldsWhatItWrites, ReadsTheOptOut
<1> QED
  BY <1>2, <1>3, <1>4, Reading

LEMMA LockStateKeeps ==
  ASSUME EligInv, NEW t \in Txs, NEW c \in Cards, LockState(t, c)
  PROVE  EligInv' /\ OptOutCounts
<1> DEFINE v == tx[t]
           began == [v EXCEPT !.at = "read", !.n = 0, !.seen = {}, !.atLock = truth]
<1>1. TxOK(t, v) /\ v \in Transactions /\ truth \in SUBSET Truths
  BY DEF EligInv, TxOK, EligibilityTypeOK
<1>2. /\ tx' = [tx EXCEPT ![t] = began] /\ UNCHANGED <<truth, projection, flips, changes, failures>>
      /\ lock' = [lock EXCEPT ![c] = t] /\ lock[c] \in {NoTx, t} /\ AtCard(v, c)
  BY <1>1 DEF LockState, EligInv, EligibilityTypeOK, IsNext, AtCard
<1>3. PICK r : /\ r = began /\ r \in Transactions /\ r.at = "read" /\ r.writes = v.writes
               /\ r.change = v.change /\ r.atLock = truth /\ r.reads = v.reads /\ r.n = 0 /\ r.todo = v.todo
  <2> DEFINE none == {} \* nothing read yet
             zero == 0
             next == [v EXCEPT !.at = "read", !.n = zero, !.seen = none, !.atLock = truth]
  <2>1. zero \in 0..3 /\ none \in SUBSET Truths
    OBVIOUS
  <2>2. zero = 0 /\ next = began
    OBVIOUS
  <2> HIDE DEF zero, none
  <2>3. /\ next \in Transactions /\ next.at = "read" /\ next.writes = v.writes /\ next.n = zero
        /\ next.change = v.change /\ next.atLock = truth /\ next.reads = v.reads /\ next.todo = v.todo
    BY <1>1, <2>1 DEF Transactions
  <2> HIDE DEF next
  <2> QED
    BY <2>2, <2>3
<1> HIDE DEF began
<1>4. /\ \A d \in Cards : lock'[d] = IF d = c THEN t ELSE lock[d]
      /\ lock' \in [Cards -> Txs \cup {NoTx}]
  BY <1>2 DEF EligInv, EligibilityTypeOK
<1>5. \A d \in Cards : AtCard(r, d) => d = c
  <2>1. v.todo \subseteq Cards /\ \A d \in Cards : d \in Nat
    BY <1>1, EligibilityAssumption DEF Transactions
  <2> QED
    BY <1>2, <1>3, <2>1 DEF AtCard
<1>6. HoldsWhatItWrites(t, r)'
  BY <1>1, <1>2, <1>3, <1>4, <1>5 DEF TxOK, HoldsWhatItWrites
<1>7. ReadsTheOptOut(t, r)'
  BY <1>1, <1>2, <1>3 DEF TxOK, ReadsTheOptOut
<1>8. TxOK(t, r)'
  BY <1>3, <1>6, <1>7 DEF TxOK
<1>9. changes' \in 0..MaxChanges /\ failures' \in 0..MaxFailures
  BY <1>2 DEF EligInv, EligibilityTypeOK
<1>10. \A d \in Cards : lock'[d] # lock[d] => lock[d] \in {t, NoTx}
  BY <1>2, <1>4
<1>11. \A d \in Cards : r.writes[d].eligible /\ ~tx[t].writes[d].eligible =>
                            t = Deliverer \/ OptOut \notin tx[t].atLock
  BY <1>3
<1>12. /\ tx' = [tx EXCEPT ![t] = r] /\ truth' \subseteq Truths /\ (OptOut \in truth => OptOut \in truth')
       /\ UNCHANGED <<projection, flips>> /\ lock' \in [Cards -> Txs \cup {NoTx}]
  BY <1>1, <1>2, <1>3, <1>4
<1> HIDE DEF v
<1> QED
  BY <1>8, <1>9, <1>10, <1>11, <1>12, TxKeeps

LEMMA ReadFactsKeeps ==
  ASSUME EligInv, NEW t \in Txs, ReadFacts(t)
  PROVE  EligInv' /\ OptOutCounts
<1> DEFINE v == tx[t]
           read == {Block(ReadOrder[v.n + 1])} \cup (IF v.n = 0 THEN Visits ELSE {})
           m == v.n + 1
           seen == v.seen \cup (truth \cap read)
           r == [v EXCEPT !.n = m, !.seen = seen]
<1>1. TxOK(t, v) /\ v \in Transactions /\ truth \in SUBSET Truths /\ v.n \in 0..3 /\ v.seen \in SUBSET Truths
  BY DEF EligInv, TxOK, EligibilityTypeOK, Transactions
<1>2. /\ tx' = [tx EXCEPT ![t] = r] /\ UNCHANGED <<truth, projection, flips, lock, changes, failures>>
      /\ v.n < 3
  BY <1>1 DEF ReadFacts, EligInv, EligibilityTypeOK
<1>3. m \in 0..3 /\ seen \in SUBSET Truths
  BY <1>1, <1>2
<1>4. m = 3 /\ OptOut \in truth => OptOut \in seen
  BY <1>1 DEF ReadOrder, OptOut
<1> HIDE DEF m, seen
<1>5. /\ r \in Transactions /\ r.at = v.at /\ r.writes = v.writes /\ r.change = v.change
      /\ r.atLock = v.atLock /\ r.reads = v.reads /\ r.n = m /\ r.todo = v.todo /\ r.seen = seen
  BY <1>1, <1>3 DEF Transactions
<1> HIDE DEF r
<1>6. TxOK(t, r)
  <2>1. HoldsWhatItWrites(t, r)
    BY <1>1, <1>5 DEF TxOK, HoldsWhatItWrites, AtCard
  <2>2. ReadsTheOptOut(t, r)
    BY <1>1, <1>4, <1>5 DEF TxOK, ReadsTheOptOut
  <2> QED
    BY <1>5, <2>1, <2>2 DEF TxOK
<1> QED
  BY <1>2, <1>5, <1>6, Reading

LEMMA DecideKeeps ==
  ASSUME EligInv, NEW t \in Txs, NEW c \in Cards, Decide(t, c)
  PROVE  EligInv' /\ OptOutCounts
<1> DEFINE v == tx[t]
           eligible == Eligible(c, Known(t))
           w == IF eligible = projection[c].eligible THEN v.writes[c]
                ELSE [eligible |-> eligible, seq |-> projection[c].seq + 1]
           ws == [v.writes EXCEPT ![c] = w]
           rest == v.todo \ {c}
           next == IF rest = {} THEN "commit" ELSE "lock"
           r == [v EXCEPT !.writes = ws, !.todo = rest, !.at = next]
<1>1. TxOK(t, v) /\ v \in Transactions /\ v.writes \in [Cards -> States] /\ v.todo \in SUBSET Cards
  BY DEF EligInv, TxOK, Transactions
<1>2. projection[c] \in States /\ projection[c].seq \in Nat /\ projection[c].eligible \in BOOLEAN
  BY DEF EligInv, EligibilityTypeOK, States
<1>3. eligible \in BOOLEAN
  BY DEF Eligible
<1>4. w \in States
  BY <1>1, <1>2, <1>3 DEF States
<1>5. v.at = "read" /\ AtCard(v, c) /\ (v.n = 3 \/ v.reads = "snapshot")
  BY DEF Decide, IsNext, AtCard
<1>6. tx' = [tx EXCEPT ![t] = r] /\ UNCHANGED <<truth, projection, flips, lock, changes, failures>>
  <2>1. r = [v EXCEPT !.writes[c] = w, !.todo = rest, !.at = next]
    BY <1>1 DEF Transactions
  <2>2. tx' = [tx EXCEPT ![t].writes[c] = w, ![t].todo = rest, ![t].at = next]
    BY DEF Decide
  <2>3. tx' = [tx EXCEPT ![t] = [v EXCEPT !.writes[c] = w, !.todo = rest, !.at = next]]
    BY <2>2 DEF EligInv, EligibilityTypeOK
  <2> QED
    BY <2>1, <2>3 DEF Decide
<1>7. eligible /\ t # Deliverer => OptOut \notin v.atLock
  <2> SUFFICES ASSUME eligible, t # Deliverer
               PROVE  OptOut \notin v.atLock
    OBVIOUS
  <2>1. v.reads \in {"fresh", "committed"} /\ v.n = 3
    BY <1>1, <1>5 DEF TxOK, ReadsTheOptOut, Transactions
  <2>2. OptOut \in Blocks
    BY DEF OptOut, Blocks, Kinds
  <2>3. OptOut \notin Known(t)
    BY <2>2 DEF Eligible
  <2>4. OptOut \notin v.seen
    BY <2>1, <2>2, <2>3 DEF Known, Merged
  <2> QED
    BY <1>1, <1>5, <2>1, <2>4 DEF TxOK, ReadsTheOptOut
<1>8. w # NoWrite => /\ lock[c] = t /\ w.seq = projection[c].seq + 1 /\ w.eligible = ~projection[c].eligible
  <2>1. lock[c] = t
    BY <1>1, <1>5 DEF TxOK, HoldsWhatItWrites
  <2>2. CASE eligible = projection[c].eligible
    BY <1>1, <2>2 DEF TxOK, HoldsWhatItWrites
  <2>3. CASE eligible # projection[c].eligible
    BY <1>2, <1>3, <2>1, <2>3
  <2> QED
    BY <2>2, <2>3
<1>9. w.eligible /\ ~v.writes[c].eligible => t = Deliverer \/ OptOut \notin v.atLock
  BY <1>7
<1> HIDE DEF w, eligible
<1>10. ws \in [Cards -> States] /\ \A d \in Cards : ws[d] = IF d = c THEN w ELSE v.writes[d]
  BY <1>1, <1>4
<1>11. rest \in SUBSET Cards /\ next \in {"commit", "lock"}
  BY <1>1
<1> HIDE DEF ws, rest, next
<1>12. /\ r \in Transactions /\ r.at = next /\ r.writes = ws /\ r.change = v.change
       /\ r.atLock = v.atLock /\ r.reads = v.reads
  BY <1>1, <1>10, <1>11 DEF Transactions
<1> HIDE DEF r
<1>13. TxOK(t, r)
  <2>1. HoldsWhatItWrites(t, r)
    BY <1>1, <1>8, <1>10, <1>11, <1>12 DEF TxOK, HoldsWhatItWrites
  <2>2. ReadsTheOptOut(t, r)
    BY <1>1, <1>11, <1>12 DEF TxOK, ReadsTheOptOut
  <2> QED
    BY <1>12, <2>1, <2>2 DEF TxOK
<1>14. \A d \in Cards : r.writes[d].eligible /\ ~v.writes[d].eligible =>
                           t = Deliverer \/ OptOut \notin v.atLock
  BY <1>9, <1>10, <1>12
<1> QED
  BY <1>6, <1>13, <1>14, Reading

LEMMA UnlockedRows ==
  ASSUME EligInv, NEW t \in Txs, lock' = Unlocked(t)
  PROVE  /\ lock' \in [Cards -> Txs \cup {NoTx}]
         /\ \A c \in Cards : lock'[c] = IF lock[c] = t THEN NoTx ELSE lock[c]
BY DEF EligInv, EligibilityTypeOK, Unlocked

LEMMA RollbackKeeps ==
  ASSUME EligInv, NEW t \in Txs, Rollback(t)
  PROVE  EligInv' /\ OptOutCounts
<1>1. /\ tx' = [tx EXCEPT ![t] = NotBegun] /\ lock' = Unlocked(t)
      /\ UNCHANGED <<truth, projection, flips, changes>>
  BY DEF Rollback
<1>2. failures' \in 0..MaxFailures /\ changes' \in 0..MaxChanges /\ truth' \subseteq Truths
  BY EligibilityAssumption DEF Rollback, EligInv, EligibilityTypeOK
<1>3. TxOK(t, NotBegun)'
  <2>1. TxOK(t, NotBegun)
    BY NotBegunIsOK
  <2>2. HoldsWhatItWrites(t, NotBegun)'
    BY DEF HoldsWhatItWrites, NotBegun
  <2>3. ReadsTheOptOut(t, NotBegun)'
    BY <1>1, <2>1 DEF TxOK, ReadsTheOptOut
  <2> QED
    BY <2>1, <2>2, <2>3 DEF TxOK
<1>4. /\ lock' \in [Cards -> Txs \cup {NoTx}]
      /\ \A c \in Cards : lock'[c] # lock[c] => lock[c] \in {t, NoTx}
  BY <1>1, UnlockedRows
<1>5. \A c \in Cards : ~NotBegun.writes[c].eligible
  BY DEF NotBegun, NoWrite
<1>6. /\ (OptOut \in truth => OptOut \in truth') /\ UNCHANGED <<projection, flips>>
      /\ tx' = [tx EXCEPT ![t] = NotBegun]
      /\ \A c \in Cards : NotBegun.writes[c].eligible /\ ~tx[t].writes[c].eligible =>
                            t = Deliverer \/ OptOut \notin tx[t].atLock
  BY <1>1, <1>5
<1> QED
  BY <1>2, <1>3, <1>4, <1>6, TxKeeps

LEMMA HookFailsKeeps ==
  ASSUME EligInv, NEW t \in Txs, HookFails(t)
  PROVE  EligInv' /\ OptOutCounts
<1> DEFINE v == tx[t]
           ws == NotBegun.writes
           r == [v EXCEPT !.at = "commit", !.writes = ws]
<1>1. TxOK(t, v) /\ v \in Transactions
  BY DEF EligInv, TxOK
<1>2. tx' = [tx EXCEPT ![t] = r] /\ UNCHANGED <<truth, projection, flips, lock, changes>>
  BY <1>1 DEF HookFails, EligInv, EligibilityTypeOK
<1>3. failures' \in 0..MaxFailures /\ changes' \in 0..MaxChanges /\ truth' \subseteq Truths
  BY <1>2, EligibilityAssumption DEF HookFails, EligInv, EligibilityTypeOK
<1>4. ws \in [Cards -> States] /\ \A c \in Cards : ws[c] = NoWrite /\ ~NoWrite.eligible
  BY DEF NotBegun, NoWrite, States
<1> HIDE DEF ws
<1>5. PICK x : /\ x = r /\ x \in Transactions /\ x.at = "commit" /\ x.writes = ws
               /\ x.change = v.change /\ x.atLock = v.atLock /\ x.reads = v.reads
  <2>1. /\ r \in Transactions /\ r.at = "commit" /\ r.writes = ws
        /\ r.change = v.change /\ r.atLock = v.atLock /\ r.reads = v.reads
    BY <1>1, <1>4 DEF Transactions
  <2> HIDE DEF r
  <2> QED
    BY <2>1
<1>6. \A c \in Cards : x.writes[c] = NoWrite
  BY <1>4, <1>5
<1>7. HoldsWhatItWrites(t, x)'
  BY <1>5, <1>6 DEF HoldsWhatItWrites
<1>8. ReadsTheOptOut(t, x)'
  BY <1>1, <1>2, <1>5 DEF TxOK, ReadsTheOptOut
<1>9. TxOK(t, x)'
  BY <1>5, <1>7, <1>8 DEF TxOK
<1>10. \A c \in Cards : ~x.writes[c].eligible /\ lock'[c] = lock[c]
  BY <1>2, <1>4, <1>6
<1>11. tx' = [tx EXCEPT ![t] = x] /\ lock' \in [Cards -> Txs \cup {NoTx}]
  BY <1>2, <1>5 DEF EligInv, EligibilityTypeOK
<1>12. /\ (OptOut \in truth => OptOut \in truth') /\ UNCHANGED <<projection, flips>>
       /\ \A c \in Cards : lock'[c] # lock[c] => lock[c] \in {t, NoTx}
       /\ \A c \in Cards : x.writes[c].eligible /\ ~tx[t].writes[c].eligible =>
                             t = Deliverer \/ OptOut \notin tx[t].atLock
  BY <1>2, <1>10
<1> HIDE DEF v, r
<1> QED
  BY <1>3, <1>9, <1>11, <1>12, TxKeeps

\* The events of one more change of the row.
LEMMA OneMoreFlip ==
  ASSUME NEW n \in Nat
  PROVE  /\ {[eligible |-> s % 2 = 1, seq |-> s] : s \in 1..(n + 1)} =
              {[eligible |-> s % 2 = 1, seq |-> s] : s \in 1..n} \cup {[eligible |-> (n + 1) % 2 = 1, seq |-> n + 1]}
         /\ ((n + 1) % 2 = 1) = ~(n % 2 = 1)
<1>1. 1..(n + 1) = 1..n \cup {n + 1}
  OBVIOUS
<1>2. ((n + 1) % 2 = 1) = ~(n % 2 = 1)
  OBVIOUS
<1> QED
  BY <1>1, <1>2

LEMMA CommitKeeps ==
  ASSUME EligInv, NEW t \in Txs, Commit(t)
  PROVE  EligInv' /\ OptOutCounts
<1> DEFINE v == tx[t]
           Writes(c) == v.writes[c] # NoWrite
<1>1. TxOK(t, v) /\ v \in Transactions /\ v.writes \in [Cards -> States] /\ truth \in SUBSET Truths
  BY DEF EligInv, TxOK, Transactions, EligibilityTypeOK
<1>2. /\ tx' = [tx EXCEPT ![t] = NotBegun] /\ lock' = Unlocked(t) /\ truth' = Apply(v.change, truth)
      /\ projection' = [c \in Cards |-> IF Writes(c) THEN v.writes[c] ELSE projection[c]]
      /\ flips' = [c \in Cards |-> flips[c] \cup (IF Writes(c) THEN {v.writes[c]} ELSE {})]
      /\ UNCHANGED <<changes, failures>>
  BY DEF Commit, Written
<1>3. truth' \subseteq Truths /\ (OptOut \in truth => OptOut \in truth')
  BY <1>1, <1>2, ApplyTruths DEF TxOK, ReadsTheOptOut
<1>4. /\ lock' \in [Cards -> Txs \cup {NoTx}]
      /\ \A c \in Cards : lock'[c] = IF lock[c] = t THEN NoTx ELSE lock[c]
  BY <1>2, UnlockedRows
<1>5. \A c \in Cards : Writes(c) =>
        /\ lock[c] = t /\ v.writes[c].seq = projection[c].seq + 1
        /\ v.writes[c].eligible = ~projection[c].eligible
  BY <1>1 DEF TxOK, HoldsWhatItWrites
<1>6. NotBegun \in Transactions
  BY NotBegunIsOK DEF TxOK
<1>7. EligibilityTypeOK'
  <2>1. projection' \in [Cards -> States]
    BY <1>1, <1>2 DEF EligInv, EligibilityTypeOK
  <2>2. \A c \in Cards : flips'[c] \subseteq States
    BY <1>1, <1>2 DEF EligInv, EligibilityTypeOK
  <2>3. tx' \in [Txs -> Transactions]
    BY <1>2, <1>6 DEF EligInv, EligibilityTypeOK
  <2>4. changes' \in 0..MaxChanges /\ failures' \in 0..MaxFailures
    BY <1>2 DEF EligInv, EligibilityTypeOK
  <2> QED
    BY <1>3, <1>4, <2>1, <2>2, <2>3, <2>4 DEF EligibilityTypeOK
<1>8. EventsTellTheProjection'
  <2> SUFFICES ASSUME NEW c \in Cards
               PROVE  /\ flips'[c] = {[eligible |-> s % 2 = 1, seq |-> s] : s \in 1..projection'[c].seq}
                      /\ projection'[c].eligible = (projection'[c].seq % 2 = 1)
    BY DEF EventsTellTheProjection
  <2>1. /\ flips[c] = {[eligible |-> s % 2 = 1, seq |-> s] : s \in 1..projection[c].seq}
        /\ projection[c].eligible = (projection[c].seq % 2 = 1)
        /\ projection[c].seq \in Nat
    BY DEF EligInv, EventsTellTheProjection, EligibilityTypeOK, States
  <2>2. CASE ~Writes(c)
    <3>1. projection'[c] = projection[c] /\ flips'[c] = flips[c]
      BY <1>2, <2>2
    <3> QED
      BY <2>1, <3>1
  <2>3. CASE Writes(c)
    <3> DEFINE n == projection[c].seq
               w == v.writes[c]
    <3>1. projection'[c] = w /\ flips'[c] = flips[c] \cup {w}
      BY <1>2, <2>3
    <3>2. w \in States /\ w.seq = n + 1 /\ w.eligible = ~projection[c].eligible
      BY <1>1, <1>5, <2>3
    <3>3. w.eligible = ((n + 1) % 2 = 1)
      BY <2>1, <3>2, OneMoreFlip
    <3>4. w = [eligible |-> (n + 1) % 2 = 1, seq |-> n + 1]
      BY <3>2, <3>3 DEF States
    <3>5. {[eligible |-> s % 2 = 1, seq |-> s] : s \in 1..(n + 1)} =
            {[eligible |-> s % 2 = 1, seq |-> s] : s \in 1..n} \cup {w}
      BY <2>1, <3>4, OneMoreFlip
    <3>6. flips'[c] = {[eligible |-> s % 2 = 1, seq |-> s] : s \in 1..(n + 1)}
      BY <2>1, <3>1, <3>5
    <3>7. projection'[c].seq = n + 1 /\ projection'[c].eligible = ((n + 1) % 2 = 1)
      BY <3>1, <3>2, <3>3
    <3> QED
      BY <3>6, <3>7
  <2> QED
    BY <2>2, <2>3
<1>9. \A u \in Txs : tx'[u] = IF u = t THEN NotBegun ELSE tx[u]
  BY <1>2 DEF EligInv, EligibilityTypeOK
<1>10. (\A u \in Txs : TxOK(u, tx[u]))'
  <2> SUFFICES ASSUME NEW u \in Txs
               PROVE  TxOK(u, tx[u])'
    OBVIOUS
  <2>1. CASE u = t
    <3>1. HoldsWhatItWrites(u, NotBegun)'
      BY DEF HoldsWhatItWrites, NotBegun
    <3>2. ReadsTheOptOut(u, NotBegun)'
      BY KindsDiffer DEF ReadsTheOptOut, NotBegun, NoChange
    <3> QED
      BY <1>6, <1>9, <2>1, <3>1, <3>2 DEF TxOK, HoldsWhatItWrites, ReadsTheOptOut
  <2>2. CASE u # t
    <3>1. TxOK(u, tx[u]) /\ tx'[u] = tx[u]
      BY <1>9, <2>2 DEF EligInv
    <3>2. PICK x : x = tx[u]
      OBVIOUS
    <3>3. \A c \in Cards : lock[c] = u => lock'[c] = u /\ projection'[c] = projection[c]
      <4>1. \A c \in Cards : lock[c] = u => ~Writes(c)
        BY <1>5, <2>2
      <4> QED
        BY <1>2, <1>4, <2>2, <4>1
    <3>4. TxOK(u, x)'
      BY <1>3, <3>1, <3>2, <3>3, OthersStay
    <3> QED
      BY <3>1, <3>2, <3>4 DEF TxOK, HoldsWhatItWrites, ReadsTheOptOut
  <2> QED
    BY <2>1, <2>2
<1>11. OptOutCounts
  <2>1. \A c \in Cards : ~NotBegun.writes[c].eligible
    BY DEF NotBegun, NoWrite
  <2> QED
    BY <1>9, <2>1 DEF OptOutCounts
<1> QED
  BY <1>7, <1>8, <1>10, <1>11 DEF EligInv

LEMMA EligibilityStarts ==
  ASSUME EligibilityInit
  PROVE  EligInv
<1>1. EligibilityTypeOK
  <2>1. \A t \in Txs : NotBegun \in Transactions
    BY NotBegunIsOK DEF TxOK
  <2>2. tx \in [Txs -> Transactions]
    BY <2>1 DEF EligibilityInit
  <2>3. projection \in [Cards -> States] /\ lock \in [Cards -> Txs \cup {NoTx}]
    BY DEF EligibilityInit, NoWrite, States
  <2>4. truth \subseteq Truths /\ \A c \in Cards : flips[c] \subseteq States
    BY DEF EligibilityInit
  <2>5. changes \in 0..MaxChanges /\ failures \in 0..MaxFailures
    BY EligibilityAssumption DEF EligibilityInit
  <2> QED
    BY <2>2, <2>3, <2>4, <2>5 DEF EligibilityTypeOK
<1>2. EventsTellTheProjection
  <2>1. 1..0 = {} /\ ~(0 % 2 = 1)
    OBVIOUS
  <2>2. \A c \in Cards : flips[c] = {} /\ projection[c].seq = 0 /\ projection[c].eligible = FALSE
    BY DEF EligibilityInit, NoWrite
  <2>3. {[eligible |-> s % 2 = 1, seq |-> s] : s \in 1..0} = {}
    BY <2>1
  <2> QED
    BY <2>1, <2>2, <2>3 DEF EventsTellTheProjection
<1>3. \A t \in Txs : tx[t] = NotBegun
  BY DEF EligibilityInit
<1> QED
  BY <1>1, <1>2, <1>3, NotBegunIsOK DEF EligInv

LEMMA EligibilityStep ==
  ASSUME EligInv, [EligibilityNext]_eligibilityVars
  PROVE  EligInv' /\ OptOutCounts
<1>1. CASE UNCHANGED eligibilityVars
  <2>1. EligInv'
    BY <1>1 DEF eligibilityVars, EligInv, EligibilityTypeOK, EventsTellTheProjection, TxOK,
                HoldsWhatItWrites, ReadsTheOptOut
  <2> QED
    BY <1>1, <2>1 DEF eligibilityVars, OptOutCounts
<1>2. ASSUME NEW w \in Writers, NEW fact \in Truths, NEW on \in BOOLEAN, WriteFact(w, fact, on)
      PROVE  EligInv' /\ OptOutCounts
  BY <1>2, WriteFactKeeps
<1>3. ASSUME NEW w \in Writers, NEW c \in Cards, EndPresentation(w, c)
      PROVE  EligInv' /\ OptOutCounts
  BY <1>3, EndPresentationKeeps
<1>4. ASSUME NEW c \in Cards, ScanCapture(c) \/ DeliveryReevaluates(c)
      PROVE  EligInv' /\ OptOutCounts
  BY <1>4, JobKeeps
<1>5. ASSUME NEW t \in Txs, NEW c \in Cards, LockState(t, c) \/ Decide(t, c)
      PROVE  EligInv' /\ OptOutCounts
  BY <1>5, LockStateKeeps, DecideKeeps
<1>6. ASSUME NEW t \in Txs, OpenSnapshot(t) \/ ReadFacts(t) \/ Commit(t) \/ HookFails(t) \/ Rollback(t)
      PROVE  EligInv' /\ OptOutCounts
  BY <1>6, OpenSnapshotKeeps, ReadFactsKeeps, CommitKeeps, HookFailsKeeps, RollbackKeeps
<1> QED
  BY <1>1, <1>2, <1>3, <1>4, <1>5, <1>6 DEF EligibilityNext, Proceed

(* Transactions, locks, snapshots and rows keep their types, for any        *)
(* captures, any number of transactions and any bounds.                     *)
THEOREM EligibilityTypeCorrect == EligibilitySpec => []EligibilityTypeOK
<1>1. EligInv => EligibilityTypeOK
  BY DEF EligInv
<1> QED
  BY <1>1, EligibilityStarts, EligibilityStep, PTL DEF EligibilitySpec

(* What the events of a capture tell in their order is what the projection  *)
(* says of it, numbered without a gap, whatever transactions wait, fail and *)
(* roll back (reevaluateCapture, nonBuyerEligibilityService.ts).            *)
THEOREM EventsTell == EligibilitySpec => []EventsTellTheProjection
<1>1. EligInv => EventsTellTheProjection
  BY DEF EligInv
<1> QED
  BY <1>1, EligibilityStarts, EligibilityStep, PTL DEF EligibilitySpec

(* No transaction makes a couple eligible over an opt-out it could have     *)
(* seen (nonBuyerFreshReader.ts reads outside the snapshot).                *)
THEOREM NobodyEligibleOverAnOptOut == EligibilitySpec => OptOutIsSeen
<1>1. EligibilityInit => EligInv
  BY EligibilityStarts
<1>2. EligInv /\ [EligibilityNext]_eligibilityVars => EligInv' /\ OptOutCounts
  BY EligibilityStep
<1> QED
  BY <1>1, <1>2, PTL DEF EligibilitySpec, OptOutIsSeen, OptOutCounts

-----------------------------------------------------------------------------
(* Each office moves its own variables only, so all keep their types in any *)
(* behaviour of the three (MCCouples); the office of the imports has steps  *)
(* of the erasure.                                                          *)
THEOREM CouplesTypesKept == CouplesSpec => []CouplesTypeOK
<1> DEFINE All == EligInv /\ IInv /\ ErasureInv /\ FeedInv
<1>1. CouplesInit => All
  BY EligibilityStarts, InitEstablishes, ErasureTypes DEF CouplesInit
<1>2. All /\ [CouplesNext]_couplesVars => All'
  <2> SUFFICES ASSUME EligInv, IInv, ErasureInv, FeedInv, [CouplesNext]_couplesVars
               PROVE  EligInv' /\ IInv' /\ ErasureInv' /\ FeedInv'
    OBVIOUS
  <2>1. [EligibilityNext]_eligibilityVars /\ [Next]_vars /\ [ErasureNext]_erasureVars
    BY DEF CouplesNext, couplesVars, ErasureNext
  <2> QED
    BY <2>1, EligibilityStep, StepPreserves, ErasureTypes
<1>3. All => CouplesTypeOK
  BY ErasureTypes DEF EligInv, IInv, CouplesTypeOK
<1> QED
  BY <1>1, <1>2, <1>3, PTL DEF CouplesSpec
=============================================================================
