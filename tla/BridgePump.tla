------------------------------ MODULE BridgePump ------------------------------
(***************************************************************************)
(* The pump that carries contract events from the outbox (domain_events)   *)
(* to another system: Relationship, Sales Command or the Financial layer.  *)
(* Every few seconds a tick reads a batch of events by id and drains it    *)
(* together with the retries that are due, in one order of ids.  The three *)
(* pumps are one machine; a behaviour is the pump of one target.           *)
(*                                                                         *)
(* An id is allocated at the INSERT and the row is visible at the COMMIT,  *)
(* so a smaller id may appear after the cursor passed it; the tick rereads *)
(* the recent window for those.  Cursor, retries, rejection counts, pager  *)
(* and requested rewinds live in memory; receipts live in audit_logs.  The *)
(* process may stop between any two steps: between the answer of the       *)
(* consumer and the receipt, or in the middle of a batch.                  *)
(*                                                                         *)
(* Backoff times are abstracted to due or not due, the recent window to    *)
(* the set of events inside it.                                            *)
(***************************************************************************)
EXTENDS Integers, FiniteSets

CONSTANTS
  MaxEvent,             \* bound: event ids are 1..MaxEvent
  OrderKey,             \* the contract of each event
  Targets,              \* the targets a pump may have, with its options
  MaxContentRejections, \* MAX_CONTENT_REJECTIONS
  Poison                \* events the consumer may never come to accept

Events == 1..MaxEvent

ASSUME BoundsAreNat ==
  /\ MaxEvent \in Nat
  /\ MaxContentRejections \in Nat \ {0}
ASSUME KeysAreFunctions ==
  /\ DOMAIN OrderKey = Events
  /\ Poison \subseteq Events
  /\ \A t \in Targets :
       /\ t.name \in {"contract state", "financial"}
       /\ t.batchSize \in Nat \ {0} /\ t.exclusions \in Nat
       /\ t.relevant \subseteq Events
       /\ t.receiptKey \in [Events -> {t.receiptKey[e] : e \in Events}]
       /\ t.codedRejections \in BOOLEAN
       /\ t.events \in 0..MaxEvent  \* bound: how many events its outbox gets
       /\ t.restarts \in Nat       \* bound: how often its process stops

ReceiptKeys == {t.receiptKey[e] : t \in Targets, e \in Events}

VARIABLES
  target,     \* the target and the options the pump was started with
  row,        \* domain_events: "unborn", "open", "committed" or "aborted"
  recent,     \* events with occurredAt inside LATE_COMMIT_WINDOW_SECONDS
  receipt,    \* audit_logs by receipt key: "none" or the action recorded
  arrived,    \* events the consumer processed
  resent,     \* receipt keys an administrator asked to send again
  cursor,     \* memory: the last id read
  retry,      \* memory: events in the backoff
  due,        \* memory: those of them whose time has come
  rejections, \* memory: consecutive content rejections by receipt key
  after,      \* memory: where the page of rereads continues
  rewind,     \* memory: id the panel asked to read again from, or 0
  asking,     \* memory: rewind the resend has yet to request, or 0
  queue,      \* memory: events the running tick has yet to go through
  fresh,      \* memory: those of them that came with the batch
  isDue,      \* memory: those of them that were due when the tick began
  posted,     \* memory: event accepted by the consumer, receipt to write, or 0
  pending,    \* events without receipt that were visible to the running tick
  restarts    \* how often the process stopped

outboxVars == <<target, row, recent>>
tickVars == <<queue, fresh, isDue, posted, pending>>
vars == <<outboxVars, receipt, arrived, resent, cursor, retry, due, rejections,
          after, rewind, asking, tickVars, restarts>>

Committed == {e \in Events : row[e] = "committed"}
Relevant == target.relevant          \* events whose state the target receives
BatchSize == target.batchSize        \* LIMIT of the query of a tick
RetryExclusionCap == target.exclusions
ReceiptKey(e) == target.receiptKey[e]

Handled(e) == receipt[ReceiptKey(e)] # "none"
Least(S) == CHOOSE e \in S : \A d \in S : e <= d
Greatest(S) == CHOOSE e \in S : \A d \in S : d <= e
Smallest(S, n) == {e \in S : Cardinality({d \in S : d < e}) < n}
Smaller(a, b) == IF a < b THEN a ELSE b
Larger(a, b) == IF a < b THEN b ELSE a

Init ==
  /\ target \in Targets
  /\ row = [e \in Events |-> "unborn"]
  /\ recent = {}
  /\ receipt = [k \in ReceiptKeys |-> "none"]
  /\ arrived = {}
  /\ resent = {}
  /\ cursor = 0
  /\ retry = {}
  /\ due = {}
  /\ rejections = [k \in ReceiptKeys |-> 0]
  /\ after = 0
  /\ rewind = 0
  /\ asking = 0
  /\ queue = {} /\ fresh = {} /\ isDue = {} /\ posted = 0 /\ pending = {}
  /\ restarts = 0

-----------------------------------------------------------------------------
(* The transactions that write the outbox *)

(* A transaction inserts the event: its id is taken now. *)
InsertEvent(e) ==
  /\ row[e] = "unborn" /\ e <= target.events
  /\ \A d \in Events : d < e => row[d] # "unborn"
  /\ row' = [row EXCEPT ![e] = "open"]
  /\ recent' = recent \cup {e}
  /\ UNCHANGED <<target, receipt, arrived, resent, cursor, retry, due, rejections, after,
                 rewind, asking, tickVars, restarts>>

EndTransaction(e, outcome) ==
  /\ row[e] = "open"
  /\ row' = [row EXCEPT ![e] = outcome]
  /\ UNCHANGED <<target, recent, receipt, arrived, resent, cursor, retry, due,
                 rejections, after, rewind, asking, tickVars, restarts>>

(* The event leaves the window.  Known limit of the pump: the window is     *)
(* longer than a transaction and a round of rereads, so only an event the   *)
(* pump already treated leaves it.                                          *)
LeaveWindow(e) ==
  /\ e \in recent
  /\ row[e] = "committed"
  /\ Handled(e) \/ e \in retry
  /\ recent' = recent \ {e}
  /\ UNCHANGED <<target, row, receipt, arrived, resent, cursor, retry, due, rejections, after,
                 rewind, asking, tickVars, restarts>>

-----------------------------------------------------------------------------
(* The beginning of a tick *)

Idle == queue = {} /\ posted = 0

(* The cursor of this tick, after the rewind the panel asked for. *)
CursorUnchecked == Smaller(cursor, rewind - 1)  \* mutant: no rewind taken as id 0
CursorShort == IF rewind = 0 THEN cursor ELSE Smaller(cursor, rewind)  \* mutant
CursorOfTick == IF rewind = 0 THEN cursor ELSE Smaller(cursor, rewind - 1)

(* cursorRange: what is new, and what is recent without receipt, except a   *)
(* capped number of events in retry and the pages already reread.           *)
Rereadable(from) ==
  {e \in recent \cap Relevant :
     /\ ~Handled(e)
     /\ e \notin Smallest({d \in retry : d <= from}, RetryExclusionCap)
     /\ e > after}
Selectable ==  \* the query of the Financial pump leaves out what has a receipt
  IF target.name = "financial" THEN {e \in Committed \cap Relevant : ~Handled(e)}
  ELSE Committed
Batch(from) == Smallest({e \in Selectable : e > from \/ e \in Rereadable(from)}, BatchSize)

NoPaging(rows, from) == 0  \* mutant: every tick rereads from the start

(* createRereadPager.update *)
NextPage(rows, from) ==
  LET reread == {e \in rows : e <= from} IN
  IF Cardinality(rows) < BatchSize THEN 0
  ELSE IF reread # {} THEN Greatest(reread) ELSE after

(* The tick reads its batch; drainOrdered adds the retries that are due. *)
ReadBatch ==
  LET rows == Batch(CursorOfTick) IN
  /\ Idle
  /\ rows \cup due # {} \/ after # 0 \/ rewind # 0
  /\ cursor' = CursorOfTick
  /\ rewind' = 0
  /\ after' = NextPage(rows, CursorOfTick)
  /\ queue' = rows \cup due
  /\ fresh' = rows
  /\ isDue' = due
  /\ pending' = IF rows \cup due = {} THEN {} ELSE {e \in Committed : ~Handled(e)}
  /\ UNCHANGED <<outboxVars, receipt, arrived, resent, retry, due, rejections, asking,
                 posted, restarts>>

(* The query of the tick fails: the rewind was already taken. *)
ReadFails ==
  /\ Idle
  /\ cursor' = CursorOfTick
  /\ rewind' = 0
  /\ UNCHANGED <<outboxVars, receipt, arrived, resent, retry, due, rejections, after,
                 asking, tickVars, restarts>>

-----------------------------------------------------------------------------
(* drainOrdered: one event of the queue after the other *)

Current == Least(queue)

NeverBlocked(e) == {}  \* mutant

(* An older event of the same contract waits in the backoff. *)
BlockedBy(e) == {d \in retry : d < e /\ OrderKey[d] = OrderKey[e]}

(* The event is done with for this tick; the cursor follows the batch. *)
Advance ==
  /\ queue' = queue \ {Current}
  /\ cursor' = IF Current \in fresh THEN Larger(cursor, Current) ELSE cursor
  /\ fresh' = fresh \ {Current}
  /\ isDue' = isDue \ {Current}
  /\ posted' = 0
  /\ pending' = IF queue = {Current} THEN {} ELSE pending

Schedule(e) == retry' = retry \cup {e} /\ due' = due \ {e}
Unschedule(e) == retry' = retry \ {e} /\ due' = due \ {e}
CountRejections(k, n) == rejections' = [rejections EXCEPT ![k] = n]

Attempting(e) ==
  /\ queue # {}
  /\ e = Current
  /\ posted = 0
  /\ BlockedBy(e) = {}
  /\ e \in isDue \/ e \notin retry

(* Not tried in this tick: scheduled already, or behind an older event (a   *)
(* fresh one is then deferred, due at once).                                *)
PassOver ==
  /\ queue # {}
  /\ posted = 0
  /\ \/ Current \notin isDue /\ Current \in retry /\ UNCHANGED <<retry, due>>
     \/ Current \in isDue /\ BlockedBy(Current) # {} /\ UNCHANGED <<retry, due>>
     \/ /\ Current \notin isDue /\ Current \notin retry /\ BlockedBy(Current) # {}
        /\ retry' = retry \cup {Current} /\ due' = due \cup {Current}
  /\ Advance
  /\ UNCHANGED <<outboxVars, receipt, arrived, resent, rejections, after, rewind, asking,
                 restarts>>

(* Nothing to send: the target does not receive this state. *)
Irrelevant(e) ==
  /\ Attempting(e)
  /\ e \notin Relevant
  /\ Unschedule(e)
  /\ Advance
  /\ UNCHANGED <<outboxVars, receipt, arrived, resent, rejections, after, rewind, asking,
                 restarts>>

(* Nothing to send: a receipt exists. *)
Already(e) ==
  /\ Attempting(e)
  /\ e \in Relevant
  /\ Handled(e)
  /\ Unschedule(e)
  /\ IF target.name = "financial" THEN UNCHANGED rejections
     ELSE CountRejections(ReceiptKey(e), 0)
  /\ Advance
  /\ UNCHANGED <<outboxVars, receipt, arrived, resent, after, rewind, asking, restarts>>

SendingAgain(e) == Attempting(e) /\ e \in Relevant  \* mutant: no look at the receipt
Sending(e) == Attempting(e) /\ e \in Relevant /\ ~Handled(e)

Write(e, outcome) == receipt' = [receipt EXCEPT ![ReceiptKey(e)] = outcome]

(* The contract has no lineage in the Sales Command, or the facts of the    *)
(* event cannot be sent: a terminal receipt without a call.  The Financial  *)
(* pump holds nothing back: it sends what it lacks as null.                 *)
CloseUnsent(e, outcome) ==
  /\ Sending(e)
  /\ target.name # "financial"
  /\ Write(e, outcome)
  /\ Unschedule(e)
  /\ CountRejections(ReceiptKey(e), 0)
  /\ Advance
  /\ UNCHANGED <<outboxVars, arrived, resent, after, rewind, asking, restarts>>

(* The consumer accepts the POST; the receipt comes in a later step. *)
PostAccepted(e) ==
  /\ Sending(e)
  /\ arrived' = arrived \cup {e}
  /\ posted' = e
  /\ UNCHANGED <<outboxVars, receipt, resent, cursor, retry, due, rejections, after,
                 rewind, asking, queue, fresh, isDue, pending, restarts>>

RecordDelivery ==
  /\ posted # 0
  /\ Write(posted, "delivered")
  /\ Unschedule(posted)
  /\ CountRejections(ReceiptKey(posted), 0)
  /\ Advance
  /\ UNCHANGED <<outboxVars, arrived, resent, after, rewind, asking, restarts>>

(* The receipt cannot be written: the event goes to the backoff. *)
RecordFails ==
  /\ posted # 0
  /\ Schedule(posted)
  /\ CountRejections(ReceiptKey(posted), 0)
  /\ Advance
  /\ UNCHANGED <<outboxVars, receipt, arrived, resent, after, rewind, asking, restarts>>

(* No answer, or one that never ends the matter (5xx, 401, 403, 404, and a  *)
(* 409 without a code from the Financial layer: an event out of order).  A  *)
(* consumer whose answer was lost has processed the event.                  *)
PostFails(e, processed) ==
  /\ Sending(e)
  /\ arrived' = IF processed THEN arrived \cup {e} ELSE arrived
  /\ Schedule(e)
  /\ CountRejections(ReceiptKey(e), 0)
  /\ Advance
  /\ UNCHANGED <<outboxVars, receipt, resent, after, rewind, asking, restarts>>

(* A content rejection that is not yet final.  One short of the limit it is *)
(* counted no further: the rest is a matter of MIN_REJECTION_WINDOW_MS.     *)
PostRejected(e) ==
  LET k == ReceiptKey(e) IN
  /\ Sending(e)
  /\ Schedule(e)
  /\ CountRejections(k, Smaller(rejections[k] + 1, MaxContentRejections - 1))
  /\ Advance
  /\ UNCHANGED <<outboxVars, receipt, arrived, resent, after, rewind, asking, restarts>>

(* A content rejection that is final: coded, or repeated long enough. *)
GiveUp(e) ==
  /\ Sending(e)
  /\ target.codedRejections \/ rejections[ReceiptKey(e)] + 1 >= MaxContentRejections
  /\ Write(e, "rejected")
  /\ Unschedule(e)
  /\ CountRejections(ReceiptKey(e), 0)
  /\ Advance
  /\ UNCHANGED <<outboxVars, arrived, resent, after, rewind, asking, restarts>>

(* The backoff of an event ends. *)
BecomeDue(e) ==
  /\ e \in retry \ due
  /\ due' = due \cup {e}
  /\ UNCHANGED <<outboxVars, receipt, arrived, resent, cursor, retry, rejections, after,
                 rewind, asking, tickVars, restarts>>

-----------------------------------------------------------------------------
(* The resend button of the integrations panel, and restarts *)

(* Where to read again from: the receipt of the Financial pump is of one     *)
(* event; the receipt of a state leads to the oldest event of the contract.  *)
ReadAgainFrom(k) ==
  LET ofReceipt == {e \in Events : ReceiptKey(e) = k} IN
  IF target.name = "financial" THEN Least(ofReceipt)
  ELSE Least({d \in Committed : \E e \in ofReceipt : OrderKey[d] = OrderKey[e]})

(* resendRejectedReceipt, its transaction: the refusal no longer counts as a *)
(* receipt.                                                                  *)
Resend(k) ==
  /\ receipt[k] = "rejected"
  /\ k \notin resent
  /\ asking = 0
  /\ receipt' = [receipt EXCEPT ![k] = "none"]
  /\ resent' = resent \cup {k}
  /\ asking' = ReadAgainFrom(k)
  /\ UNCHANGED <<outboxVars, arrived, cursor, retry, due, rejections, after, rewind,
                 tickVars, restarts>>

(* requestBridgeRewind, after the commit. *)
RequestRewind ==
  /\ asking # 0
  /\ rewind' = IF rewind = 0 THEN asking ELSE Smaller(rewind, asking)
  /\ asking' = 0
  /\ UNCHANGED <<outboxVars, receipt, arrived, resent, cursor, retry, due, rejections,
                 after, tickVars, restarts>>

(* The process stops wherever it is and starts again with an empty memory. *)
Restart ==
  /\ restarts < target.restarts
  /\ restarts' = restarts + 1
  /\ cursor' = 0 /\ retry' = {} /\ due' = {} /\ after' = 0 /\ rewind' = 0 /\ asking' = 0
  /\ rejections' = [k \in ReceiptKeys |-> 0]
  /\ queue' = {} /\ fresh' = {} /\ isDue' = {} /\ posted' = 0 /\ pending' = {}
  /\ UNCHANGED <<outboxVars, receipt, arrived, resent>>

-----------------------------------------------------------------------------
Next ==
  \/ \E e \in Events : InsertEvent(e)
  \/ \E e \in Events, outcome \in {"committed", "aborted"} : EndTransaction(e, outcome)
  \/ \E e \in Events : LeaveWindow(e)
  \/ ReadBatch
  \/ ReadFails
  \/ PassOver
  \/ \E e \in Events : Irrelevant(e)
  \/ \E e \in Events : Already(e)
  \/ \E e \in Events, outcome \in {"not_applicable", "rejected"} : CloseUnsent(e, outcome)
  \/ \E e \in Events : PostAccepted(e)
  \/ RecordDelivery
  \/ RecordFails
  \/ \E e \in Events, processed \in BOOLEAN : PostFails(e, processed)
  \/ \E e \in Events : PostRejected(e)
  \/ \E e \in Events : GiveUp(e)
  \/ \E e \in Events : BecomeDue(e)
  \/ \E k \in ReceiptKeys : Resend(k)
  \/ RequestRewind
  \/ Restart

Spec == Init /\ [][Next]_vars

(* The timer ticks for ever and drains what it read; backoffs end; an event *)
(* that is sent again and again is accepted in the end, and its receipt     *)
(* written, unless the consumer never takes it.                             *)
Fairness ==
  /\ SF_vars(ReadBatch)
  /\ WF_vars(PassOver)
  /\ WF_vars(RequestRewind)
  /\ SF_vars(RecordDelivery)
  /\ \A e \in Events :
       /\ WF_vars(Irrelevant(e) \/ Already(e) \/ PostFails(e, FALSE))
       /\ WF_vars(BecomeDue(e))
  /\ \A e \in Events \ Poison : SF_vars(PostAccepted(e))

FairSpec == Spec /\ Fairness

-----------------------------------------------------------------------------
(* Properties *)

TypeOK ==
  /\ target \in Targets
  /\ row \in [Events -> {"unborn", "open", "committed", "aborted"}]
  /\ recent \subseteq Events
  /\ receipt \in [ReceiptKeys -> {"none", "delivered", "not_applicable", "rejected"}]
  /\ arrived \subseteq Events
  /\ resent \subseteq ReceiptKeys
  /\ cursor \in Events \cup {0}
  /\ retry \subseteq Events
  /\ due \subseteq retry
  /\ rejections \in [ReceiptKeys -> 0..MaxContentRejections - 1]
  /\ after \in Events \cup {0}
  /\ rewind \in Events \cup {0}
  /\ asking \in Events \cup {0}
  /\ queue \subseteq Events
  /\ fresh \subseteq queue
  /\ isDue \subseteq queue
  /\ posted \in Events \cup {0}
  /\ pending \subseteq Events
  /\ restarts \in 0..target.restarts

(* drainOrdered, "never loses an event": whatever was read, deferred,        *)
(* rejected, resent or forgotten by a restart, a committed event without a   *)
(* receipt is still ahead of the cursor, in the backoff, in the window that  *)
(* is reread, or behind a rewind that is being asked for.                    *)
NothingForgotten ==
  \A e \in Committed \cap Relevant :
    Handled(e) \/ e > cursor \/ e \in retry \/ e \in recent
      \/ (rewind # 0 /\ rewind <= e) \/ (asking # 0 /\ asking <= e)

(* RED TEAM R1: an event does not reach the consumer for the first time      *)
(* ahead of an older event of the same contract that the tick could see and  *)
(* that has no receipt; events sent again by an administrator come when they *)
(* come.  (Of a pump whose batch is never full.)                             *)
DeliveredInOrder ==
  [][BatchSize > target.events => \A e \in arrived' \ arrived, d \in pending \cap Relevant :
       d < e /\ OrderKey[d] = OrderKey[e] =>
         Handled(d) \/ {ReceiptKey(d), ReceiptKey(e)} \cap resent # {}]_vars

(* An event that must wait for one the consumer may never take. *)
BehindPoison(e) == \E d \in Poison : d <= e /\ OrderKey[d] = OrderKey[e]

(* Full batches, capped exclusions, pages, backoffs and restarts starve no   *)
(* contract, whatever the consumer refuses of the others: every committed    *)
(* event of the target that waits for no refused one ends with a receipt.    *)
EventuallyHandled ==
  \A e \in Events :
    ~BehindPoison(e) => (row[e] = "committed" /\ e \in Relevant ~> Handled(e))

Outbox == INSTANCE OutboxDelivery
  WITH published <- Committed, receiptKey <- target.receiptKey

(* Whatever fails in between, the consumer sees an at-least-once delivery of *)
(* committed events that stops at the receipt.                               *)
ImplementsOutbox == Outbox!Spec

=============================================================================
