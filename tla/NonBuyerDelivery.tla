-------------------------- MODULE NonBuyerDelivery --------------------------
(***************************************************************************)
(* The delivery to Recovery of the couples that did not buy: the events    *)
(* the eligibility projection wrote, the book of deliveries, the workers   *)
(* that claim its rows by a lease and post them, and what Recovery has     *)
(* accepted.                                                               *)
(*                                                                         *)
(* One step of a worker is one awaited call of runNonBuyerDelivery: a row  *)
(* it reads may change before the next.  A reevaluation of the projection  *)
(* is one step here (NonBuyerEligibility opens it).  Time is only whether  *)
(* the nextAttemptAt of a row has passed: a lease lasts two minutes and a  *)
(* post ten seconds, so a lease that elapses under a worker is a process   *)
(* that was paused.                                                        *)
(***************************************************************************)
EXTENDS Integers

CONSTANTS
  Captures,     \* capture sheets; each is a couple at Recovery
  Workers,      \* processes that run the delivery job
  MaxSeq,       \* bound on the transitions of a projection
  MaxAttempts,  \* NON_BUYER_DELIVERY_MAX_ATTEMPTS
  MaxFaults,    \* bound on failed or lost posts, errors, pauses, crashes
  Nobody,       \* the row is held by no worker
  Nothing       \* the worker holds no row

Seqs == 1..MaxSeq

\* A row as the run read it.
Candidates == [c : Captures, s : Seqs, attempts : 0..MaxAttempts]

ASSUME BoundsAreCounts == MaxSeq \in Nat /\ MaxAttempts \in Nat \ {0} /\ MaxFaults \in Nat
ASSUME NobodyIsNoWorker == Nobody \notin Workers /\ Nothing \notin Candidates

VARIABLES
  facts,     \* the committed facts that bar a couple
  proj,      \* non_buyer_eligibility_state
  row,       \* non_buyer_deliveries, by capture and sequence number
  accepted,  \* sequence numbers of the events Recovery has accepted
  worker,    \* where each worker is (memory)
  faults     \* how often something outside the code has failed

vars == <<facts, proj, row, accepted, worker, faults>>

Reasons == {"opt_out", "sale_in_progress"}

Statuses == {"none", "pending", "delivered", "superseded", "suppressed", "rejected", "dead"}

\* holder: whose lease nextAttemptAt is; due: nextAttemptAt is null or past.
Rows == [status : Statuses, attempts : 0..MaxAttempts, holder : Workers \cup {Nobody}, due : BOOLEAN]

Answers == {"ok", "lost", "failed", "refused", "unconfigured"}

Stages == {"idle", "next", "claimed", "current", "checked", "stale"} \cup Answers

Idle == [at |-> "idle", on |-> Nothing]

TypeOK ==
  /\ facts \in [Captures -> SUBSET Reasons]
  /\ proj \in [Captures -> [eligible : BOOLEAN, seq : 0..MaxSeq]]
  /\ row \in [Captures -> [Seqs -> Rows]]
  /\ accepted \in [Captures -> SUBSET Seqs]
  /\ worker \in [Workers -> [at : Stages, on : Candidates \cup {Nothing}]]
  /\ \A w \in Workers : worker[w].at # "idle" => worker[w].on \in Candidates
  /\ faults \in 0..MaxFaults

Init ==
  /\ facts = [c \in Captures |-> {}]
  /\ proj = [c \in Captures |-> [eligible |-> FALSE, seq |-> 0]]
  /\ row = [c \in Captures |-> [s \in Seqs |->
              [status |-> "none", attempts |-> 0, holder |-> Nobody, due |-> TRUE]]]
  /\ accepted = [c \in Captures |-> {}]
  /\ worker = [w \in Workers |-> Idle]
  /\ faults = 0

-----------------------------------------------------------------------------
(* The projection.                                                         *)

\* The projection starts not eligible and each event flips it.
Kind(s) == IF s % 2 = 1 THEN "eligible" ELSE "revoked"

\* Reevaluates c on the facts seen; an event is written only for a change.
\* The bound MaxSeq leaves room to revoke what was made eligible.
Reevaluate(c, seen) ==
  LET eligible == seen = {}
  IN  IF eligible = proj[c].eligible \/ (eligible /\ proj[c].seq + 2 > MaxSeq)
      THEN UNCHANGED proj
      ELSE proj' = [proj EXCEPT ![c] = [eligible |-> eligible, seq |-> @.seq + 1]]

Desk == UNCHANGED <<row, accepted, worker, faults>>

\* A sale begins or an opt-out arrives; its hook reevaluates, or fails and is
\* swallowed.
Bar(c, r) ==
  /\ r \notin facts[c]
  /\ facts' = [facts EXCEPT ![c] = @ \cup {r}]
  /\ Reevaluate(c, facts[c] \cup {r}) \/ UNCHANGED proj
  /\ Desk

\* A sale is undone.  The hook adds to its own view what other connections
\* still read, so it sees the facts from before the change.
Unbar(c) ==
  /\ "sale_in_progress" \in facts[c]
  /\ facts' = [facts EXCEPT ![c] = @ \ {"sale_in_progress"}]
  /\ Reevaluate(c, facts[c]) \/ UNCHANGED proj
  /\ Desk

\* The reconciliation job.
Reconcile(c) ==
  /\ proj[c].eligible # (facts[c] = {})
  /\ Reevaluate(c, facts[c])
  /\ UNCHANGED facts
  /\ Desk

-----------------------------------------------------------------------------
(* The workers.                                                            *)

\* The row the worker works on.
Cur(w) == worker[w].on

\* Mutant: moves on without the row.
GotoWithoutRow(w, stage) == worker' = [worker EXCEPT ![w] = [at |-> stage, on |-> Nothing]]

Goto(w, stage) == worker' = [worker EXCEPT ![w].at = stage]

Done(w) == worker' = [worker EXCEPT ![w] = Idle]

Owned(w, c, s) == row[c][s].status = "pending" /\ row[c][s].holder = w

\* A row that has left the queue.  Nothing reads its attempts any more.
Left(status) == [status |-> status, attempts |-> 0, holder |-> Nobody, due |-> TRUE]

\* settle: the row leaves the queue if it is still the worker's.
Settle(w, status) ==
  LET k == Cur(w) IN
  row' = IF Owned(w, k.c, k.s)
         THEN [row EXCEPT ![k.c][k.s] = Left(status)]
         ELSE row

\* release: back to the queue, no attempt spent.
Release(w) ==
  LET k == Cur(w) IN
  row' = IF Owned(w, k.c, k.s)
         THEN [row EXCEPT ![k.c][k.s].holder = Nobody, ![k.c][k.s].due = FALSE]
         ELSE row

\* retry: only an eligible event dies at the cap.  Attempts of a revocation
\* past the cap are counted as the cap.
Retry(w) ==
  LET k == Cur(w)
      tries == IF k.attempts < MaxAttempts THEN k.attempts + 1 ELSE MaxAttempts
  IN  row' = IF ~Owned(w, k.c, k.s) THEN row
             ELSE IF tries = MaxAttempts /\ Kind(k.s) = "eligible"
             THEN [row EXCEPT ![k.c][k.s] = Left("dead")]
             ELSE [row EXCEPT ![k.c][k.s] = [@ EXCEPT !.attempts = tries, !.holder = Nobody, !.due = FALSE]]

\* The book once every event without a row has got one.
Discovered ==
  [c \in Captures |-> [s \in Seqs |->
    IF s <= proj[c].seq /\ row[c][s].status = "none"
    THEN [row[c][s] EXCEPT !.status = "pending"] ELSE row[c][s]]]

IsDue(r) == r.status = "pending" /\ r.due

\* A run discovers the events and takes the first due row of a capture: a
\* batch of one row, config.batch = 1.
StartRun(w) ==
  /\ worker[w].at = "idle"
  /\ row' = Discovered
  /\ \E c \in Captures, s \in Seqs :
       /\ IsDue(Discovered[c][s])
       /\ \A t \in Seqs : IsDue(Discovered[c][t]) => s <= t
       /\ worker' = [worker EXCEPT ![w] =
            [at |-> "next", on |-> [c |-> c, s |-> s, attempts |-> row[c][s].attempts]]]
  /\ UNCHANGED <<facts, proj, accepted, faults>>

\* claim: compare-and-set on status, attempts and nextAttemptAt.
Claim(w) ==
  /\ worker[w].at = "next"
  /\ LET k == Cur(w)
         r == row[k.c][k.s]
     IN  IF IsDue(r) /\ r.attempts = k.attempts
         THEN /\ row' = [row EXCEPT ![k.c][k.s].holder = w, ![k.c][k.s].due = FALSE]
              /\ Goto(w, "claimed")
         ELSE /\ Done(w)
              /\ UNCHANGED row
  /\ UNCHANGED <<facts, proj, accepted, faults>>

\* An event older than the projection is not sent.
ReadState(w) ==
  /\ worker[w].at = "claimed"
  /\ LET k == Cur(w)
     IN  IF k.s < proj[k.c].seq
         THEN Settle(w, "superseded") /\ Done(w)
         ELSE Goto(w, "current") /\ UNCHANGED row
  /\ UNCHANGED <<facts, proj, accepted, faults>>

\* The eligible events of c before s in the book with this status.
Earlier(c, s, status) == {t \in Seqs : t < s /\ Kind(t) = "eligible" /\ row[c][t].status = status}

\* Mutant: a revocation goes out whether or not anything was delivered.
CheckRevokedBlindly(w) ==
  /\ worker[w].at = "current"
  /\ Kind(Cur(w).s) = "revoked"
  /\ Goto(w, "checked") /\ UNCHANGED row
  /\ UNCHANGED <<facts, proj, accepted, faults>>

\* Mutant: does not wait for an eligible event another worker is posting.
CheckRevokedNoWait(w) ==
  /\ worker[w].at = "current"
  /\ Kind(Cur(w).s) = "revoked"
  /\ LET k == Cur(w)
     IN  \/ /\ Earlier(k.c, k.s, "delivered") = {}
            /\ Settle(w, "suppressed") /\ Done(w)
         \/ /\ Earlier(k.c, k.s, "delivered") # {}
            /\ Goto(w, "checked") /\ UNCHANGED row
  /\ UNCHANGED <<facts, proj, accepted, faults>>

\* A revocation waits for an earlier eligible event that is still queued, and
\* goes out only if one was delivered.
CheckRevoked(w) ==
  /\ worker[w].at = "current"
  /\ Kind(Cur(w).s) = "revoked"
  /\ LET k == Cur(w)
     IN  \/ /\ Earlier(k.c, k.s, "pending") # {}
            /\ Release(w) /\ Done(w)
         \/ /\ Earlier(k.c, k.s, "pending") = {} /\ Earlier(k.c, k.s, "delivered") = {}
            /\ Settle(w, "suppressed") /\ Done(w)
         \/ /\ Earlier(k.c, k.s, "pending") = {} /\ Earlier(k.c, k.s, "delivered") # {}
            /\ Goto(w, "checked") /\ UNCHANGED row
  /\ UNCHANGED <<facts, proj, accepted, faults>>

\* Before an eligible event goes out the facts are read again.
Revalidate(w) ==
  /\ worker[w].at = "current"
  /\ Kind(Cur(w).s) = "eligible"
  /\ IF facts[Cur(w).c] = {}
     THEN Goto(w, "checked") /\ UNCHANGED row
     ELSE Settle(w, "suppressed") /\ Goto(w, "stale")
  /\ UNCHANGED <<facts, proj, accepted, faults>>

\* The couple that failed it is reevaluated; an error of this is swallowed.
ReevaluateStale(w) ==
  /\ worker[w].at = "stale"
  /\ \/ Reevaluate(Cur(w).c, facts[Cur(w).c]) /\ UNCHANGED faults
     \/ UNCHANGED proj /\ faults < MaxFaults /\ faults' = faults + 1
  /\ Done(w)
  /\ UNCHANGED <<facts, row, accepted>>

\* The post.  Recovery accepts it and answers; accepts it and the answer is
\* lost; or never sees it, or fails.  A coded 4xx refuses it for good.  An
\* eligible couple without a code or a project is not posted.
Post(w) ==
  /\ worker[w].at = "checked"
  /\ \E answer \in Answers :
       /\ answer = "unconfigured" => Kind(Cur(w).s) = "eligible"
       /\ accepted' = IF answer \in {"ok", "lost"}
                      THEN [accepted EXCEPT ![Cur(w).c] = @ \cup {Cur(w).s}] ELSE accepted
       /\ IF answer = "ok" THEN UNCHANGED faults
          ELSE faults < MaxFaults /\ faults' = faults + 1
       /\ Goto(w, answer)
  /\ UNCHANGED <<facts, proj, row>>

\* The answer, or its absence, is written to the book.
RecordAnswer(w) ==
  /\ worker[w].at \in Answers
  /\ CASE worker[w].at = "ok"      -> Settle(w, "delivered")
       [] worker[w].at = "refused" -> Settle(w, "rejected")
       [] OTHER                    -> Retry(w)
  /\ Done(w)
  /\ UNCHANGED <<facts, proj, accepted, faults>>

\* An error while the worker holds a row counts as an attempt.
InternalError(w) ==
  /\ worker[w].at \in {"claimed", "current", "checked"}
  /\ faults < MaxFaults /\ faults' = faults + 1
  /\ Retry(w) /\ Done(w)
  /\ UNCHANGED <<facts, proj, accepted>>

Crash(w) ==
  /\ worker[w].at # "idle"
  /\ faults < MaxFaults /\ faults' = faults + 1
  /\ Done(w)
  /\ UNCHANGED <<facts, proj, row, accepted>>

\* A worker has the row in its hands.
Working(c, s) ==
  /\ row[c][s].holder # Nobody
  /\ LET w == worker[row[c][s].holder]
     IN  w.at \notin {"idle", "next"} /\ w.on.c = c /\ w.on.s = s

\* A backoff elapses, or the lease of a worker that has crashed.
Elapse(c, s) ==
  /\ row[c][s].status = "pending" /\ ~row[c][s].due /\ ~Working(c, s)
  /\ row' = [row EXCEPT ![c][s].due = TRUE]
  /\ UNCHANGED <<facts, proj, accepted, worker, faults>>

\* A worker is paused for longer than its lease.
Overrun(c, s) ==
  /\ row[c][s].status = "pending" /\ ~row[c][s].due /\ Working(c, s)
  /\ faults < MaxFaults /\ faults' = faults + 1
  /\ row' = [row EXCEPT ![c][s].due = TRUE]
  /\ UNCHANGED <<facts, proj, accepted, worker>>

-----------------------------------------------------------------------------

Work(w) ==
  \/ StartRun(w) \/ Claim(w) \/ ReadState(w) \/ CheckRevoked(w) \/ Revalidate(w)
  \/ ReevaluateStale(w) \/ Post(w) \/ RecordAnswer(w)

Next ==
  \/ \E c \in Captures : Unbar(c) \/ Reconcile(c)
  \/ \E c \in Captures, r \in Reasons : Bar(c, r)
  \/ \E w \in Workers : Work(w) \/ InternalError(w) \/ Crash(w)
  \/ \E c \in Captures, s \in Seqs : Elapse(c, s) \/ Overrun(c, s)

Spec == Init /\ [][Next]_vars

\* The job runs on a timer, and leases and backoffs elapse by the clock.
Fairness ==
  /\ \A w \in Workers : WF_vars(Work(w))
  /\ \A c \in Captures, s \in Seqs : WF_vars(Elapse(c, s))

FairSpec == Spec /\ Fairness

-----------------------------------------------------------------------------
(* Properties.                                                             *)

\* Recovery never gets the revocation of a couple it was not told of before.
RevokedAfterEligible ==
  \A c \in Captures : \A s \in accepted[c] :
    Kind(s) = "revoked" => \E t \in accepted[c] : t < s /\ Kind(t) = "eligible"

\* What the book calls delivered, Recovery has accepted, whatever was lost,
\* retried, or written by a worker that had lost its lease.
DeliveredWasAccepted ==
  \A c \in Captures, s \in Seqs : row[c][s].status = "delivered" => s \in accepted[c]

\* A row that has left the queue never changes again: a worker whose lease
\* another took over writes nothing.
LeftForGood ==
  [][\A c \in Captures, s \in Seqs :
       row[c][s].status \notin {"none", "pending"} => row'[c][s] = row[c][s]]_vars

\* The last thing Recovery has accepted of the couple is that it is eligible.
Listed(c) ==
  \E s \in accepted[c] : Kind(s) = "eligible" /\ \A t \in accepted[c] : t <= s

\* Once a delivery of the couple is in the book and the couple is barred, its
\* revocation reaches Recovery, unless Recovery refuses it or the couple is
\* eligible again.
RevocationArrives ==
  \A c \in Captures :
    (~proj[c].eligible /\ \E s \in Seqs : row[c][s].status = "delivered") ~>
      \/ ~Listed(c) \/ proj[c].eligible
      \/ \E s \in Seqs : Kind(s) = "revoked" /\ row[c][s].status = "rejected"
=============================================================================
