----------------------------- MODULE JobsProofs -----------------------------
(***************************************************************************)
(* Two jobs and what they keep, for any bounds.                            *)
(*                                                                         *)
(* The pump of events forgets none, keeps the order of a contract, and     *)
(* implements the delivery of OutboxDelivery, for any number of events,    *)
(* any batch, exclusions and restarts.                                     *)
(*                                                                         *)
(* The sweep of the rescue queue decides a case once.  Its snapshot is     *)
(* older than the case it locks, and the argument needs none of it: what a *)
(* case may become follows from its row as it is now and from what was     *)
(* told of it (CaseOK).                                                    *)
(***************************************************************************)
EXTENDS MCJobs, Recursion, FiniteSetTheorems, SequenceTheorems, TLAPS

(* Ids.                                                                     *)

LEMMA EventsAreFinite ==
  /\ Events \subseteq Nat \ {0} /\ IsFiniteSet(Events)
  /\ \A S \in SUBSET Events : IsFiniteSet(S) /\ Cardinality(S) \in Nat
<1>1. IsFiniteSet(Events)
  BY FS_Interval, BoundsAreNat DEF Events
<1>2. ASSUME NEW S \in SUBSET Events
      PROVE  IsFiniteSet(S) /\ Cardinality(S) \in Nat
  BY <1>1, FS_Subset, FS_CardinalityType
<1> QED
  BY <1>1, <1>2, BoundsAreNat DEF Events

LEMMA LeastIsLeast ==
  ASSUME NEW S, S \subseteq Events, S # {}
  PROVE  Least(S) \in S /\ \A d \in S : Least(S) <= d
<1>1. S \subseteq Nat
  BY EventsAreFinite
<1>2. \E x \in S : \A y \in S : x <= y
  BY <1>1, LeastExists
<1> QED
  BY <1>2 DEF Least

LEMMA GreatestIsGreatest ==
  ASSUME NEW S, S \subseteq Events, S # {}
  PROVE  Greatest(S) \in S
<1> DEFINE T == {MaxEvent - e : e \in S}
<1>1. T \subseteq Nat /\ T # {}
  <2>1. \A e \in S : MaxEvent - e \in Nat
    BY BoundsAreNat DEF Events
  <2> QED
    BY <2>1
<1>2. PICK x \in T : \A y \in T : x <= y
  BY <1>1, LeastExists
<1>3. PICK e \in S : x = MaxEvent - e
  BY <1>2
<1>4. ASSUME NEW d \in S PROVE d <= e
  <2>1. MaxEvent - e <= MaxEvent - d
    BY <1>2, <1>3
  <2> QED
    BY <2>1, BoundsAreNat DEF Events
<1> QED
  BY <1>4 DEF Greatest

(* The n smallest of a set hold whatever of the set is below one of them,   *)
(* and all of a smaller set.                                                *)
LEMMA SmallestIsWhole ==
  ASSUME NEW S \in SUBSET Events, NEW n \in Nat
  PROVE  /\ Smallest(S, n) \subseteq S
         /\ \A d \in Smallest(S, n), e \in S : e < d => e \in Smallest(S, n)
         /\ Cardinality(S) < n => Smallest(S, n) = S
<1> DEFINE Below(d) == {c \in S : c < d}
<1>1. ASSUME NEW d, NEW e, Below(e) \subseteq Below(d)
      PROVE  /\ Cardinality(Below(d)) \in Nat /\ Cardinality(Below(e)) \in Nat
             /\ Cardinality(Below(e)) <= Cardinality(Below(d))
             /\ Cardinality(Below(d)) <= Cardinality(S)
  <2>1. Below(d) \in SUBSET S /\ Below(d) \in SUBSET Events /\ Below(e) \in SUBSET Events
        /\ Below(e) \in SUBSET Below(d)
    BY <1>1
  <2> HIDE DEF Below
  <2> QED
    BY <2>1, EventsAreFinite, FS_Subset
<1>2. Smallest(S, n) = {e \in S : Cardinality(Below(e)) < n}
  BY DEF Smallest
<1>3. ASSUME NEW d \in Smallest(S, n), NEW e \in S, e < d
      PROVE  e \in Smallest(S, n)
  <2>1. d \in Nat /\ e \in Nat /\ \A c \in S : c \in Nat
    BY EventsAreFinite DEF Smallest
  <2>2. ASSUME NEW c \in S, c < e
        PROVE  c < d
    BY <1>3, <2>1, <2>2
  <2>3. Cardinality(Below(d)) < n
    BY <1>2
  <2>4. Below(e) \subseteq Below(d)
    BY <2>2
  <2>5. /\ Cardinality(Below(d)) \in Nat /\ Cardinality(Below(e)) \in Nat
        /\ Cardinality(Below(e)) <= Cardinality(Below(d))
    <3> HIDE DEF Below
    <3> QED
      BY <1>1, <2>4
  <2> HIDE DEF Below
  <2> QED
    BY <1>2, <2>3, <2>5
<1>4. ASSUME Cardinality(S) < n, NEW d \in S
      PROVE  d \in Smallest(S, n)
  <2>1. Cardinality(Below(d)) \in Nat /\ Cardinality(Below(d)) <= Cardinality(S) /\ Cardinality(S) \in Nat
    BY <1>1, EventsAreFinite
  <2> HIDE DEF Below
  <2> QED
    BY <1>2, <1>4, <2>1
<1> QED
  BY <1>3, <1>4 DEF Smallest

-----------------------------------------------------------------------------
(* The invariant.                                                           *)

(* What is in hand is committed, and what is not yet committed is recent.   *)
RowsInHand ==
  /\ queue \subseteq Committed /\ retry \subseteq Committed /\ isDue \subseteq retry
  /\ \A e \in Events : row[e] = "open" => e \in recent
  /\ \A e \in Events : row[e] # "unborn" => e <= target.events
  /\ \A k \in ReceiptKeys : receipt[k] # "none" => \E e \in Committed : ReceiptKey(e) = k

(* What waits for its receipt is the current event, and still has none.     *)
PostedIsCurrent ==
  posted # 0 => /\ queue # {} /\ posted = Current
                /\ posted \in arrived /\ posted \in Relevant /\ ~Handled(posted)

(* An event behind the cursor that the pump still knows of.  Only those an  *)
(* administrator sent again are behind a rewind.                            *)
Held(e) ==
  \/ e \in retry \/ e \in recent
  \/ /\ ReceiptKey(e) \in resent
     /\ (rewind # 0 /\ rewind <= e) \/ (asking # 0 /\ asking <= e)

AllKept == \A e \in Committed \cap Relevant : Handled(e) \/ e > cursor \/ Held(e)

(* The cursor may follow the batch: what lies between is in it, or known.   *)
BatchIsWhole ==
  \A e \in Committed \cap Relevant, d \in fresh :
    cursor < e /\ e < d => e \in fresh \/ Handled(e) \/ Held(e)

(* Of a pump whose batch is never full: there is no page, and what the tick *)
(* could see is in its queue until it is done with, waits, or was resent.   *)
Unpaged == BatchSize > target.events => after = 0
PendingKept ==
  BatchSize > target.events =>
    \A d \in pending \cap Relevant : d \in queue \/ Handled(d) \/ d \in retry \/ ReceiptKey(d) \in resent

PumpInv ==
  /\ TypeOK /\ RowsInHand /\ PostedIsCurrent
  /\ AllKept /\ BatchIsWhole /\ Unpaged /\ PendingKept

-----------------------------------------------------------------------------
(* The target's options.                                                    *)
LEMMA TargetIsFit ==
  ASSUME target \in Targets
  PROVE  /\ BatchSize \in Nat \ {0} /\ RetryExclusionCap \in Nat
         /\ Relevant \subseteq Events /\ target.events \in 0..MaxEvent /\ target.restarts \in Nat
         /\ target.receiptKey \in [Events -> ReceiptKeys]
         /\ \A e \in Events : ReceiptKey(e) \in ReceiptKeys
<1>1. \A e \in Events : target.receiptKey[e] \in ReceiptKeys
  BY DEF ReceiptKeys
<1>2. target.receiptKey \in [Events -> {target.receiptKey[e] : e \in Events}]
  BY KeysAreFunctions
<1>3. target.receiptKey \in [Events -> ReceiptKeys]
  BY <1>1, <1>2
<1> QED
  BY <1>1, <1>3, KeysAreFunctions DEF BatchSize, RetryExclusionCap, Relevant, ReceiptKey

LEMMA CurrentIsFirst ==
  ASSUME TypeOK, queue # {}
  PROVE  Current \in queue /\ Current \in Events /\ \A d \in queue : Current <= d
  BY LeastIsLeast DEF Current, TypeOK

LEMMA InvAtStart == Init => PumpInv
<1> SUFFICES ASSUME Init PROVE PumpInv
  OBVIOUS
<1>1. Committed = {}
  BY DEF Init, Committed
<1>2. TypeOK
  BY TargetIsFit, BoundsAreNat DEF Init, TypeOK
<1> QED
  BY <1>1, <1>2 DEF Init, PumpInv, RowsInHand, PostedIsCurrent, AllKept, BatchIsWhole, Unpaged, PendingKept

-----------------------------------------------------------------------------
(* A turn of the drain: the current event is done with, because it has its  *)
(* receipt or none is due, or it waits in the backoff.                      *)
LEMMA Turn ==
  ASSUME PumpInv, queue # {}, Advance,
         UNCHANGED <<outboxVars, resent, after, rewind, asking, restarts>>,
         arrived' \subseteq Events, arrived \subseteq arrived',
         receipt' \in [ReceiptKeys -> {"none", "delivered", "not_applicable", "rejected"}],
         \A k \in ReceiptKeys : receipt[k] # "none" => receipt'[k] # "none",
         \A k \in ReceiptKeys : receipt'[k] # "none" /\ receipt[k] = "none" => k = ReceiptKey(Current),
         rejections' \in [ReceiptKeys -> 0..MaxContentRejections - 1],
         retry' \ {Current} = retry \ {Current}, retry' \subseteq retry \cup {Current},
         due' \subseteq retry',
         \A e \in Relevant : e = Current => Handled(e)' \/ e \in retry'
  PROVE  PumpInv'
<1>0. /\ TypeOK /\ RowsInHand /\ AllKept /\ BatchIsWhole /\ Unpaged /\ PendingKept
      /\ Relevant \subseteq Events
      /\ Current \in queue /\ Current \in Events /\ \A d \in queue : Current <= d
      /\ Events \subseteq Nat
  BY CurrentIsFirst, TargetIsFit, EventsAreFinite DEF PumpInv, TypeOK
<1>1. /\ UNCHANGED <<target, row, recent, resent, after, rewind, asking, restarts>>
      /\ queue' = queue \ {Current} /\ fresh' = fresh \ {Current} /\ isDue' = isDue \ {Current}
      /\ posted' = 0 /\ pending' \subseteq pending
      /\ cursor' \in Nat /\ cursor' >= cursor
      /\ IF Current \in fresh THEN cursor' >= Current ELSE cursor' = cursor
      /\ cursor' \in {cursor, Current}
  BY <1>0 DEF Advance, outboxVars, Larger, TypeOK
<1>2. \A e \in Events : Handled(e) => Handled(e)'
  BY <1>0, <1>1, TargetIsFit DEF Handled, ReceiptKey, TypeOK
<1>3. Committed' = Committed /\ Relevant' = Relevant
  BY <1>1 DEF Committed, Relevant
<1>4. \A e \in Events : Held(e) => Held(e)' \/ e = Current
  BY <1>1 DEF Held, ReceiptKey
<1>5. TypeOK'
  <2>1. cursor' \in Events \cup {0}
    BY <1>0, <1>1 DEF TypeOK
  <2>2. retry' \subseteq Events /\ queue' \subseteq Events /\ pending' \subseteq Events
    BY <1>0, <1>1 DEF TypeOK
  <2>3. fresh' \subseteq queue' /\ isDue' \subseteq queue'
    BY <1>0, <1>1 DEF TypeOK
  <2> QED
    BY <1>0, <1>1, <2>1, <2>2, <2>3 DEF TypeOK
<1>6. RowsInHand'
  <2>1. ASSUME NEW k \in ReceiptKeys, receipt'[k] # "none"
        PROVE  \E e \in Committed : ReceiptKey(e)' = k
    BY <1>0, <1>1, <2>1 DEF RowsInHand, ReceiptKey
  <2> QED
    BY <1>0, <1>1, <1>3, <2>1 DEF RowsInHand
<1>7. AllKept'
  <2> SUFFICES ASSUME NEW e \in Committed \cap Relevant
               PROVE  Handled(e)' \/ e > cursor' \/ Held(e)'
    BY <1>3 DEF AllKept
  <2>1. e \in Events /\ e \in Nat
    BY <1>0
  <2>2. CASE e = Current
    BY <2>2 DEF Held
  <2>3. CASE e # Current /\ e > cursor /\ ~(e > cursor')
    <3>1. Current \in fresh /\ e < Current
      BY <1>0, <1>1, <2>1, <2>3
    <3>2. e \notin fresh
      BY <1>0, <2>1, <3>1 DEF TypeOK
    <3> QED
      BY <1>0, <1>2, <1>4, <2>1, <2>3, <3>1, <3>2 DEF BatchIsWhole, TypeOK
  <2> QED
    BY <1>0, <1>2, <1>4, <2>1, <2>2, <2>3 DEF AllKept
<1>8. BatchIsWhole'
  <2> SUFFICES ASSUME NEW e \in Committed \cap Relevant, NEW d \in fresh', cursor' < e, e < d
               PROVE  e \in fresh' \/ Handled(e)' \/ Held(e)'
    BY <1>3 DEF BatchIsWhole
  <2>1. e \in Events /\ e \in Nat /\ d \in fresh /\ cursor < e
    <3>1. e \in Nat /\ e \in Events
      BY <1>0
    <3>2. cursor \in Nat
      BY <1>0 DEF TypeOK
    <3> QED
      BY <1>1, <3>1, <3>2
  <2>2. CASE e = Current
    BY <2>2 DEF Held
  <2>3. CASE e # Current
    <3>1. e \in fresh \/ Handled(e) \/ Held(e)
      BY <1>0, <2>1 DEF BatchIsWhole
    <3> QED
      BY <1>1, <1>2, <1>4, <2>1, <2>3, <3>1
  <2> QED
    BY <2>2, <2>3
<1>9. PendingKept'
  <2> SUFFICES ASSUME BatchSize > target.events, NEW d \in pending' \cap Relevant
               PROVE  (d \in queue \/ Handled(d) \/ d \in retry \/ ReceiptKey(d) \in resent)'
    BY <1>1, <1>3 DEF PendingKept, BatchSize
  <2>1. d \in Events /\ d \in pending
    BY <1>0, <1>1
  <2>2. CASE d = Current
    BY <2>2
  <2>3. CASE d # Current
    BY <1>0, <1>1, <1>2, <2>1, <2>3 DEF PendingKept, ReceiptKey
  <2> QED
    BY <2>2, <2>3
<1>10. Unpaged' /\ PostedIsCurrent'
  BY <1>0, <1>1 DEF Unpaged, PostedIsCurrent, BatchSize
<1> QED
  BY <1>5, <1>6, <1>7, <1>8, <1>9, <1>10 DEF PumpInv

(* The steps that end a turn. *)
Drain ==
  \/ PassOver \/ RecordDelivery \/ RecordFails
  \/ \E e \in Events :
       \/ Irrelevant(e) \/ Already(e) \/ PostRejected(e) \/ GiveUp(e)
       \/ \E outcome \in {"not_applicable", "rejected"} : CloseUnsent(e, outcome)
       \/ \E processed \in BOOLEAN : PostFails(e, processed)

LEMMA TurnsKeep ==
  ASSUME PumpInv, Drain
  PROVE  PumpInv'
<1>0. /\ TypeOK /\ RowsInHand /\ PostedIsCurrent
      /\ BoundsAreNat
      /\ \A k \in ReceiptKeys : rejections[k] \in Nat
  BY BoundsAreNat DEF PumpInv, TypeOK
<1>1. ASSUME NEW k \in ReceiptKeys, NEW n \in 0..MaxContentRejections - 1, CountRejections(k, n)
      PROVE  rejections' \in [ReceiptKeys -> 0..MaxContentRejections - 1]
  BY <1>0, <1>1 DEF CountRejections, TypeOK
<1>2. 0 \in 0..MaxContentRejections - 1
  BY <1>0 DEF BoundsAreNat
<1>3. ASSUME NEW e \in Events, NEW outcome \in {"delivered", "not_applicable", "rejected"},
             Write(e, outcome)
      PROVE  /\ receipt' \in [ReceiptKeys -> {"none", "delivered", "not_applicable", "rejected"}]
             /\ \A k \in ReceiptKeys : receipt[k] # "none" => receipt'[k] # "none"
             /\ \A k \in ReceiptKeys : receipt'[k] # "none" /\ receipt[k] = "none" => k = ReceiptKey(e)
             /\ target' = target => Handled(e)'
  BY <1>0, <1>3, TargetIsFit DEF Write, TypeOK, Handled, ReceiptKey
<1>4. ASSUME NEW e, Unschedule(e)
      PROVE  /\ retry' \ {e} = retry \ {e} /\ retry' \subseteq retry \cup {e}
             /\ due' \subseteq retry'
  BY <1>0, <1>4 DEF Unschedule, TypeOK
<1>5. ASSUME NEW e, Schedule(e)
      PROVE  /\ retry' \ {e} = retry \ {e} /\ retry' \subseteq retry \cup {e}
             /\ due' \subseteq retry' /\ e \in retry'
  BY <1>0, <1>5 DEF Schedule, TypeOK
<1>6. \A e \in Events : ReceiptKey(e) \in ReceiptKeys
  BY <1>0, TargetIsFit DEF TypeOK
<1>7. /\ arrived \subseteq Events
      /\ receipt \in [ReceiptKeys -> {"none", "delivered", "not_applicable", "rejected"}]
      /\ rejections \in [ReceiptKeys -> 0..MaxContentRejections - 1]
      /\ due \subseteq retry
  BY <1>0 DEF TypeOK
<1>8. CASE PassOver
  <2>1. /\ retry' \ {Current} = retry \ {Current} /\ retry' \subseteq retry \cup {Current}
        /\ due' \subseteq retry' /\ Current \in retry'
    BY <1>0, <1>7, <1>8 DEF PassOver, RowsInHand
  <2>2. UNCHANGED <<arrived, receipt, rejections>>
    BY <1>8 DEF PassOver
  <2> QED
    BY <1>7, <1>8, <2>1, <2>2, Turn DEF PassOver
<1>9. ASSUME NEW e \in Events, Irrelevant(e)
      PROVE  PumpInv'
  <2>1. e = Current /\ queue # {} /\ e \notin Relevant /\ UNCHANGED <<arrived, receipt, rejections>>
    BY <1>9 DEF Irrelevant, Attempting
  <2>2. /\ retry' \ {Current} = retry \ {Current} /\ retry' \subseteq retry \cup {Current}
        /\ due' \subseteq retry'
    BY <1>4, <1>9, <2>1 DEF Irrelevant
  <2> QED
    BY <1>7, <1>9, <2>1, <2>2, Turn DEF Irrelevant
<1>10. ASSUME NEW e \in Events, Already(e)
       PROVE  PumpInv'
  <2>1. e = Current /\ queue # {} /\ Handled(e) /\ UNCHANGED <<arrived, receipt, target>>
    BY <1>10 DEF Already, Attempting, outboxVars
  <2>2. /\ retry' \ {Current} = retry \ {Current} /\ retry' \subseteq retry \cup {Current}
        /\ due' \subseteq retry'
    BY <1>4, <1>10, <2>1 DEF Already
  <2>3. rejections' \in [ReceiptKeys -> 0..MaxContentRejections - 1]
    BY <1>1, <1>2, <1>6, <1>7, <1>10 DEF Already
  <2>4. \A d \in Relevant : d = Current => Handled(d)'
    BY <2>1 DEF Handled, ReceiptKey
  <2> QED
    BY <1>7, <1>10, <2>1, <2>2, <2>3, <2>4, Turn DEF Already
<1>11. ASSUME NEW e \in Events, NEW outcome \in {"delivered", "not_applicable", "rejected"},
              e = Current, queue # {}, Write(e, outcome), Unschedule(e),
              CountRejections(ReceiptKey(e), 0), Advance,
              UNCHANGED <<outboxVars, arrived, resent, after, rewind, asking, restarts>>
       PROVE  PumpInv'
  <2>1. target' = target /\ arrived' = arrived
    BY <1>11 DEF outboxVars
  <2>2. /\ retry' \ {Current} = retry \ {Current} /\ retry' \subseteq retry \cup {Current}
        /\ due' \subseteq retry'
    BY <1>4, <1>11
  <2>3. rejections' \in [ReceiptKeys -> 0..MaxContentRejections - 1]
    BY <1>1, <1>2, <1>6, <1>11
  <2>4. \A d \in Relevant : d = Current => Handled(d)'
    BY <1>3, <1>11, <2>1
  <2> QED
    BY <1>3, <1>7, <1>11, <2>1, <2>2, <2>3, <2>4, Turn
<1>12. ASSUME NEW e \in Events, NEW n \in 0..MaxContentRejections - 1,
              e = Current, queue # {}, Schedule(e),
              CountRejections(ReceiptKey(e), n), Advance, arrived' \in {arrived, arrived \cup {e}},
              UNCHANGED <<outboxVars, receipt, resent, after, rewind, asking, restarts>>
       PROVE  PumpInv'
  <2>1. arrived \subseteq arrived' /\ arrived' \subseteq Events /\ receipt' = receipt
    BY <1>7, <1>12
  <2>2. /\ retry' \ {Current} = retry \ {Current} /\ retry' \subseteq retry \cup {Current}
        /\ due' \subseteq retry' /\ Current \in retry'
    BY <1>5, <1>12
  <2>3. rejections' \in [ReceiptKeys -> 0..MaxContentRejections - 1]
    BY <1>1, <1>6, <1>12
  <2> QED
    BY <1>7, <1>12, <2>1, <2>2, <2>3, Turn
<1>13. CASE RecordDelivery \/ RecordFails
  <2>1. PICK e \in Events : e = posted
    BY <1>0, <1>13 DEF RecordDelivery, RecordFails, TypeOK
  <2>2. e = Current /\ queue # {}
    BY <1>0, <1>13, <2>1 DEF RecordDelivery, RecordFails, PostedIsCurrent
  <2> QED
    BY <1>2, <1>11, <1>12, <1>13, <2>1, <2>2 DEF RecordDelivery, RecordFails
<1>14. ASSUME NEW e \in Events, NEW outcome \in {"not_applicable", "rejected"}, CloseUnsent(e, outcome)
       PROVE  PumpInv'
  BY <1>11, <1>14 DEF CloseUnsent, Sending, Attempting
<1>15. ASSUME NEW e \in Events, GiveUp(e)
       PROVE  PumpInv'
  BY <1>11, <1>15 DEF GiveUp, Sending, Attempting
<1>16. ASSUME NEW e \in Events, NEW processed \in BOOLEAN, PostFails(e, processed)
       PROVE  PumpInv'
  BY <1>2, <1>12, <1>16 DEF PostFails, Sending, Attempting
<1>17. ASSUME NEW e \in Events, PostRejected(e)
       PROVE  PumpInv'
  <2>1. Smaller(rejections[ReceiptKey(e)] + 1, MaxContentRejections - 1) \in 0..MaxContentRejections - 1
    BY <1>0, <1>6 DEF Smaller, BoundsAreNat
  <2> QED
    BY <1>12, <1>17, <2>1 DEF PostRejected, Sending, Attempting
<1> QED
  BY <1>8, <1>9, <1>10, <1>13, <1>14, <1>15, <1>16, <1>17 DEF Drain

-----------------------------------------------------------------------------
(* The beginning of a tick.                                                 *)

(* The batch holds every event of the target above the cursor and below one *)
(* of its own; if it is not full, all that may be reread is in it too.      *)
LEMMA BatchHolds ==
  ASSUME PumpInv, NEW from \in Nat
  PROVE  /\ Batch(from) \subseteq Committed
         /\ \A d \in Batch(from), e \in Committed \cap Relevant :
              ~Handled(e) /\ e > from /\ e < d => e \in Batch(from)
         /\ BatchSize > target.events =>
              /\ Cardinality(Batch(from)) < BatchSize
              /\ \A e \in Committed \cap Relevant :
                   ~Handled(e) /\ (e > from \/ e \in Rereadable(from)) => e \in Batch(from)
<1> DEFINE S == {e \in Selectable : e > from \/ e \in Rereadable(from)}
<1>0. TypeOK /\ RowsInHand /\ BatchSize \in Nat /\ target.events \in 0..MaxEvent
  BY TargetIsFit DEF PumpInv, TypeOK
<1>1. /\ S \in SUBSET Events /\ S \subseteq Committed
      /\ \A e \in Committed \cap Relevant : ~Handled(e) => e \in Selectable
  BY DEF Selectable, Committed
<1>2. Batch(from) = Smallest(S, BatchSize)
  BY DEF Batch
<1>3. ASSUME BatchSize > target.events
      PROVE  Cardinality(S) < BatchSize /\ Batch(from) = S
  <2>0. PICK n \in Nat : n = target.events
    BY <1>0, BoundsAreNat
  <2>1. S \in SUBSET (1..n)
    BY <1>0, <1>1, <2>0 DEF RowsInHand, Committed, Events
  <2>2. IsFiniteSet(1..n) /\ Cardinality(1..n) = n
    BY FS_Interval
  <2>3. Cardinality(S) \in Nat /\ Cardinality(S) <= target.events
    <3> HIDE DEF S
    <3>1. Cardinality(S) <= Cardinality(1..n)
      BY <2>1, <2>2, FS_Subset
    <3>2. Cardinality(S) \in Nat
      BY <1>1, EventsAreFinite
    <3> QED
      BY <2>0, <2>2, <3>1, <3>2
  <2>4. Cardinality(S) < BatchSize
    BY <1>0, <1>3, <2>3
  <2> HIDE DEF S
  <2> QED
    BY <1>0, <1>1, <1>2, <2>4, SmallestIsWhole
<1>4. /\ Batch(from) \subseteq S
      /\ \A d \in Batch(from), e \in S : e < d => e \in Batch(from)
  <2> HIDE DEF S
  <2> QED
    BY <1>0, <1>1, <1>2, SmallestIsWhole
<1> QED
  BY <1>1, <1>3, <1>4

LEMMA CursorGoesBack ==
  ASSUME PumpInv
  PROVE  /\ CursorOfTick \in Events \cup {0} /\ CursorOfTick \in Nat
         /\ CursorOfTick <= cursor
         /\ rewind # 0 => CursorOfTick < rewind
<1>1. cursor \in 0..MaxEvent /\ rewind \in 0..MaxEvent
  BY BoundsAreNat DEF PumpInv, TypeOK, Events
<1> QED
  BY <1>1, BoundsAreNat DEF CursorOfTick, Smaller, Events

LEMMA ReadingKeeps ==
  ASSUME PumpInv, ReadBatch \/ ReadFails
  PROVE  PumpInv'
<1>0. /\ TypeOK /\ RowsInHand /\ AllKept /\ Unpaged
      /\ queue = {} /\ posted = 0 /\ fresh = {} /\ isDue = {}
      /\ UNCHANGED <<target, row, recent, receipt, arrived, resent, retry, due, rejections, asking, posted, restarts>>
      /\ rewind' = 0 /\ cursor' = CursorOfTick
      /\ CursorOfTick \in Events \cup {0} /\ CursorOfTick \in Nat
      /\ Relevant \subseteq Events /\ BatchSize \in Nat \ {0} /\ RetryExclusionCap \in Nat /\ Events \subseteq Nat
  <2>1. TypeOK /\ RowsInHand /\ AllKept /\ Unpaged
    BY DEF PumpInv
  <2>2. /\ queue = {} /\ posted = 0 /\ rewind' = 0 /\ cursor' = CursorOfTick
        /\ UNCHANGED <<target, row, recent, receipt, arrived, resent, retry, due, rejections, asking, posted, restarts>>
    BY DEF ReadBatch, ReadFails, Idle, outboxVars, tickVars
  <2>3. fresh = {} /\ isDue = {} /\ target \in Targets
    BY <2>1, <2>2 DEF TypeOK
  <2>4. /\ CursorOfTick \in Events \cup {0} /\ CursorOfTick \in Nat
        /\ Relevant \subseteq Events /\ BatchSize \in Nat \ {0} /\ RetryExclusionCap \in Nat
    BY <2>3, CursorGoesBack, TargetIsFit
  <2> QED
    BY <2>1, <2>2, <2>3, <2>4, EventsAreFinite
<1>9. cursor \in Nat /\ rewind \in Nat /\ after \in Nat /\ recent \subseteq Events
  BY EventsAreFinite DEF PumpInv, TypeOK
<1>1. Committed' = Committed /\ Relevant' = Relevant /\ BatchSize' = BatchSize
  BY <1>0 DEF Committed, Relevant, BatchSize
<1>2. \A e \in Events : Handled(e)' = Handled(e)
  BY <1>0 DEF Handled, ReceiptKey
<1>3. \A e \in Events : Held(e) => Held(e)' \/ e > CursorOfTick
  BY <1>0, <1>9, CursorGoesBack DEF Held, ReceiptKey
<1>4. AllKept'
  <2> SUFFICES ASSUME NEW e \in Committed \cap Relevant
               PROVE  Handled(e)' \/ e > cursor' \/ Held(e)'
    BY <1>1 DEF AllKept
  <2>1. cursor \in Nat /\ e \in Nat /\ e \in Events
    BY <1>0, <1>9
  <2> QED
    BY <1>0, <1>2, <1>3, <2>1, CursorGoesBack DEF AllKept
<1>5. CASE ReadFails
  <2>1. UNCHANGED <<queue, fresh, isDue, pending, after>>
    BY <1>5 DEF ReadFails, tickVars
  <2>2. TypeOK' /\ RowsInHand' /\ PostedIsCurrent'
    BY <1>0, <1>1, <2>1 DEF TypeOK, RowsInHand, PostedIsCurrent, ReceiptKey
  <2>3. BatchIsWhole' /\ Unpaged'
    BY <1>0, <1>1, <2>1 DEF BatchIsWhole, Unpaged
  <2>4. PendingKept'
    BY <1>0, <1>1, <1>2, <2>1 DEF PumpInv, PendingKept, ReceiptKey
  <2> QED
    BY <1>4, <2>2, <2>3, <2>4 DEF PumpInv
<1>6. CASE ReadBatch
  <2> DEFINE rows == Batch(CursorOfTick)
  <2>1. /\ queue' = rows \cup due /\ fresh' = rows /\ isDue' = due
        /\ after' = NextPage(rows, CursorOfTick)
        /\ pending' = {} \/ pending' = {e \in Committed : ~Handled(e)}
    BY <1>6 DEF ReadBatch
  <2>2. rows \subseteq Committed /\ Committed \subseteq Events
    BY <1>0, BatchHolds DEF Committed
  <2>3. after' \in Events \cup {0}
    <3>1. {e \in rows : e <= CursorOfTick} # {} => Greatest({e \in rows : e <= CursorOfTick}) \in Events
      <4> DEFINE R == {e \in rows : e <= CursorOfTick}
      <4>1. R \subseteq Events
        BY <2>2
      <4> HIDE DEF R
      <4>2. R # {} => Greatest(R) \in Events
        BY <4>1, GreatestIsGreatest
      <4> QED
        BY <4>2 DEF R
    <3> QED
      BY <1>0, <2>1, <3>1 DEF NextPage, TypeOK
  <2> HIDE DEF rows
  <2>4. TypeOK'
    <3>1. queue' \subseteq Events /\ fresh' \subseteq queue' /\ isDue' \subseteq queue' /\ pending' \subseteq Events
      BY <1>0, <2>1, <2>2 DEF TypeOK
    <3> QED
      BY <1>0, <2>3, <3>1 DEF TypeOK
  <2>5. RowsInHand' /\ PostedIsCurrent'
    BY <1>0, <1>1, <2>1, <2>2 DEF TypeOK, RowsInHand, PostedIsCurrent, ReceiptKey
  <2>6. BatchIsWhole'
    <3> SUFFICES ASSUME NEW e \in Committed \cap Relevant, NEW d \in rows, CursorOfTick < e, e < d
                 PROVE  e \in fresh' \/ Handled(e)' \/ Held(e)'
      BY <1>0, <1>1, <2>1 DEF BatchIsWhole
    <3>1. e \in Events /\ e \in Nat
      BY <1>0
    <3> QED
      BY <1>0, <1>2, <2>1, <3>1, BatchHolds DEF rows
  <2>7. Unpaged'
    <3> SUFFICES ASSUME BatchSize > target.events PROVE after' = 0
      BY <1>0, <1>1 DEF Unpaged
    <3> QED
      BY <1>0, <2>1, BatchHolds DEF rows, NextPage
  <2>8. PendingKept'
    <3> SUFFICES ASSUME BatchSize > target.events, NEW d \in Committed \cap Relevant, ~Handled(d)
                 PROVE  (d \in queue \/ Handled(d) \/ d \in retry \/ ReceiptKey(d) \in resent)'
      BY <1>0, <1>1, <2>1 DEF PendingKept
    <3>1. d \in Events /\ d \in Nat /\ cursor \in Nat /\ after = 0
      BY <1>0, <1>9 DEF Unpaged
    <3>2. d > cursor => d > CursorOfTick
      BY <1>0, <3>1, CursorGoesBack
    <3>3. CASE d > CursorOfTick
      BY <1>0, <2>1, <3>1, <3>3, BatchHolds DEF rows
    <3>4. CASE d \in retry
      BY <1>0, <3>4
    <3>5. CASE d \in recent /\ d \notin retry
      <4>1. d \notin Smallest({c \in retry : c <= CursorOfTick}, RetryExclusionCap)
        BY <3>5 DEF Smallest
      <4>2. d \in Rereadable(CursorOfTick)
        BY <1>0, <3>1, <3>5, <4>1, EventsAreFinite DEF Rereadable
      <4> QED
        BY <1>0, <2>1, <4>2, BatchHolds DEF rows
    <3>6. CASE ReceiptKey(d) \in resent
      BY <1>0, <3>6 DEF ReceiptKey
    <3> QED
      BY <1>0, <3>2, <3>3, <3>4, <3>5, <3>6 DEF AllKept, Held
  <2> QED
    BY <1>4, <2>4, <2>5, <2>6, <2>7, <2>8 DEF PumpInv
<1> QED
  BY <1>5, <1>6

-----------------------------------------------------------------------------
(* The writers of the outbox, the consumer, the panel, and restarts.        *)

(* A step in which the tick stands still and what is known is not forgotten *)
(* keeps what is said of each event.                                        *)
LEMMA StandsStill ==
  ASSUME PumpInv, UNCHANGED <<target, cursor, queue, fresh, after, pending>>,
         resent \subseteq resent', retry \subseteq retry',
         \A e \in Committed' : e \in Committed \/ e \in recent',
         \A e \in Committed \cap Relevant : Handled(e) => Handled(e)' \/ Held(e)',
         \A e \in Committed \cap Relevant : Held(e) => Held(e)' \/ Handled(e)',
         \A d \in pending \cap Relevant : Handled(d) => Handled(d)' \/ ReceiptKey(d)' \in resent'
  PROVE  AllKept' /\ BatchIsWhole' /\ Unpaged' /\ PendingKept'
<1>1. AllKept /\ BatchIsWhole /\ Unpaged /\ PendingKept
  BY DEF PumpInv
<1>2. Relevant' = Relevant /\ BatchSize' = BatchSize
  BY DEF Relevant, BatchSize
<1>3. AllKept'
  BY <1>1, <1>2 DEF AllKept, Held
<1>4. BatchIsWhole'
  <2> SUFFICES ASSUME NEW e \in Committed' \cap Relevant, NEW d \in fresh, cursor < e, e < d
               PROVE  e \in fresh \/ Handled(e)' \/ Held(e)'
    BY <1>2 DEF BatchIsWhole
  <2>1. CASE e \notin Committed
    BY <2>1 DEF Held
  <2>2. CASE e \in Committed
    <3>1. e \in fresh \/ Handled(e) \/ Held(e)
      BY <1>1, <2>2 DEF BatchIsWhole
    <3> QED
      BY <2>2, <3>1
  <2> QED
    BY <2>1, <2>2
<1>5. Unpaged' /\ PendingKept'
  BY <1>1, <1>2 DEF Unpaged, PendingKept, ReceiptKey
<1> QED
  BY <1>3, <1>4, <1>5

LEMMA WritersKeep ==
  ASSUME PumpInv, NEW e \in Events,
         InsertEvent(e) \/ EndTransaction(e, "committed") \/ EndTransaction(e, "aborted") \/ LeaveWindow(e)
  PROVE  PumpInv'
<1>0. /\ TypeOK /\ RowsInHand /\ PostedIsCurrent
      /\ UNCHANGED <<target, cursor, queue, fresh, after, pending, receipt, arrived, resent, retry, due,
                     rejections, rewind, asking, isDue, posted, restarts>>
  BY DEF PumpInv, InsertEvent, EndTransaction, LeaveWindow, tickVars
<1>1. /\ row' \in [Events -> {"unborn", "open", "committed", "aborted"}] /\ recent' \subseteq Events
      /\ Committed \subseteq Committed' /\ \A d \in Committed' : d \in Committed \/ d \in recent'
  BY <1>0 DEF TypeOK, RowsInHand, InsertEvent, EndTransaction, LeaveWindow, Committed
<1>2. TypeOK'
  BY <1>0, <1>1 DEF TypeOK
<1>3. RowsInHand'
  <2>1. \A d \in Events : row'[d] = "open" => d \in recent'
    BY <1>0, <1>1 DEF TypeOK, RowsInHand, InsertEvent, EndTransaction, LeaveWindow
  <2>2. \A d \in Events : row'[d] # "unborn" => d <= target.events
    BY <1>0 DEF TypeOK, RowsInHand, InsertEvent, EndTransaction, LeaveWindow
  <2>3. \A d \in Events : ReceiptKey(d)' = ReceiptKey(d)
    BY <1>0 DEF ReceiptKey
  <2>4. \A k \in ReceiptKeys : receipt'[k] # "none" => \E d \in Committed' : ReceiptKey(d)' = k
    BY <1>0, <1>1, <2>3 DEF RowsInHand, Committed
  <2> QED
    BY <1>0, <1>1, <2>1, <2>2, <2>4 DEF RowsInHand
<1>4. \A d \in Events : Handled(d)' = Handled(d)
  BY <1>0 DEF Handled, ReceiptKey
<1>5. PostedIsCurrent'
  BY <1>0 DEF PostedIsCurrent, Handled, ReceiptKey, Relevant, Current
<1>6. \A d \in Events : Held(d) => Held(d)' \/ Handled(d)'
  BY <1>0, <1>4 DEF Held, InsertEvent, EndTransaction, LeaveWindow, ReceiptKey
<1>7. Committed \subseteq Events /\ Relevant \subseteq Events
  BY <1>0, TargetIsFit DEF Committed, TypeOK
<1>8. AllKept' /\ BatchIsWhole' /\ Unpaged' /\ PendingKept'
  BY <1>0, <1>1, <1>4, <1>6, <1>7, StandsStill
<1> QED
  BY <1>2, <1>3, <1>5, <1>8 DEF PumpInv

(* An event a receipt is for is behind the rewind that its resend asks for. *)
LEMMA ReadAgainCovers ==
  ASSUME PumpInv, NEW k \in ReceiptKeys, receipt[k] # "none"
  PROVE  /\ ReadAgainFrom(k) \in Events
         /\ \A e \in Committed : ReceiptKey(e) = k => ReadAgainFrom(k) <= e
<1> DEFINE ofReceipt == {e \in Events : ReceiptKey(e) = k}
           ofContract == {d \in Committed : \E e \in ofReceipt : OrderKey[d] = OrderKey[e]}
<1>1. /\ ofReceipt \subseteq Events /\ ofContract \subseteq Events
      /\ \A e \in Committed : ReceiptKey(e) = k => e \in ofReceipt /\ e \in ofContract
  BY DEF Committed
<1>2. ReadAgainFrom(k) = IF target.name = "financial" THEN Least(ofReceipt) ELSE Least(ofContract)
  BY DEF ReadAgainFrom
<1>3. ofReceipt # {} /\ ofContract # {}
  BY <1>1 DEF PumpInv, RowsInHand
<1> HIDE DEF ofReceipt, ofContract
<1> QED
  BY <1>1, <1>2, <1>3, LeastIsLeast

LEMMA ConsumerAndPanelKeep ==
  ASSUME PumpInv,
         \/ \E e \in Events : PostAccepted(e) \/ BecomeDue(e)
         \/ \E k \in ReceiptKeys : Resend(k)
         \/ RequestRewind
         \/ UNCHANGED vars
  PROVE  PumpInv'
<1>0. /\ TypeOK /\ RowsInHand /\ PostedIsCurrent
      /\ UNCHANGED <<target, row, recent, cursor, retry, rejections, after, queue, fresh, isDue, pending, restarts>>
      /\ Committed \subseteq Events /\ Relevant \subseteq Events
      /\ \A e \in Events : ReceiptKey(e) \in ReceiptKeys
      /\ Events \subseteq Nat \ {0}
  BY TargetIsFit, EventsAreFinite
     DEF PumpInv, TypeOK, Committed, PostAccepted, BecomeDue, Resend, RequestRewind, vars, outboxVars, tickVars
<1>1. /\ Committed' = Committed /\ Relevant' = Relevant /\ Current' = Current
      /\ \A e \in Events : ReceiptKey(e)' = ReceiptKey(e)
  BY <1>0 DEF Committed, Relevant, Current, ReceiptKey
<1>2. ASSUME NEW e \in Events, PostAccepted(e)
      PROVE  PumpInv'
  <2>1. /\ UNCHANGED <<receipt, due, resent, rewind, asking>>
        /\ arrived' = arrived \cup {e} /\ posted' = e
        /\ queue # {} /\ e = Current /\ e \in Relevant /\ ~Handled(e)
    BY <1>2 DEF PostAccepted, Sending, Attempting
  <2>2. \A d \in Events : Handled(d)' = Handled(d) /\ (Held(d) <=> Held(d)')
    BY <1>0, <1>1, <2>1 DEF Handled, Held
  <2>3. TypeOK' /\ RowsInHand' /\ PostedIsCurrent'
    <3>1. TypeOK'
      BY <1>0, <2>1 DEF TypeOK
    <3>2. RowsInHand'
      BY <1>0, <1>1, <2>1 DEF RowsInHand
    <3>3. PostedIsCurrent'
      BY <1>0, <1>1, <2>1, <2>2 DEF PostedIsCurrent
    <3> QED
      BY <3>1, <3>2, <3>3
  <2>4. AllKept' /\ BatchIsWhole' /\ Unpaged' /\ PendingKept'
    BY <1>0, <1>1, <2>1, <2>2, StandsStill
  <2> QED
    BY <2>3, <2>4 DEF PumpInv
<1>3. ASSUME NEW e \in Events, BecomeDue(e)
      PROVE  PumpInv'
  <2>1. /\ UNCHANGED <<receipt, arrived, posted, resent, rewind, asking>>
        /\ due' = due \cup {e} /\ e \in retry
    BY <1>3 DEF BecomeDue, tickVars
  <2>2. \A d \in Events : Handled(d)' = Handled(d) /\ (Held(d) <=> Held(d)')
    BY <1>0, <1>1, <2>1 DEF Handled, Held
  <2>3. TypeOK' /\ RowsInHand' /\ PostedIsCurrent'
    <3>1. TypeOK'
      BY <1>0, <2>1 DEF TypeOK
    <3>2. RowsInHand'
      BY <1>0, <1>1, <2>1 DEF RowsInHand
    <3>3. PostedIsCurrent'
      BY <1>0, <1>1, <2>1, <2>2 DEF PostedIsCurrent
    <3> QED
      BY <3>1, <3>2, <3>3
  <2>4. AllKept' /\ BatchIsWhole' /\ Unpaged' /\ PendingKept'
    BY <1>0, <1>1, <2>1, <2>2, StandsStill
  <2> QED
    BY <2>3, <2>4 DEF PumpInv
<1>4. ASSUME NEW k \in ReceiptKeys, Resend(k)
      PROVE  PumpInv'
  <2>1. /\ UNCHANGED <<arrived, posted, due, rewind>>
        /\ receipt[k] = "rejected" /\ asking = 0
        /\ receipt' = [receipt EXCEPT ![k] = "none"]
        /\ resent' = resent \cup {k} /\ asking' = ReadAgainFrom(k)
    BY <1>4 DEF Resend, tickVars
  <2>2. /\ asking' \in Events
        /\ \A e \in Committed : ReceiptKey(e) = k => asking' <= e
    BY <2>1, ReadAgainCovers
  <2>3. \A d \in Events : /\ Handled(d) /\ ReceiptKey(d) # k => Handled(d)'
                          /\ Handled(d)' => Handled(d)
                          /\ Held(d) => Held(d)'
    BY <1>0, <1>1, <2>1 DEF Handled, Held, TypeOK
  <2>4. \A e \in Committed : ReceiptKey(e) = k => Held(e)'
    BY <1>0, <1>1, <2>1, <2>2 DEF Held
  <2>5. TypeOK' /\ RowsInHand' /\ PostedIsCurrent'
    <3>1. TypeOK'
      BY <1>0, <2>1, <2>2 DEF TypeOK
    <3>2. RowsInHand'
      BY <1>0, <1>1, <2>1 DEF RowsInHand, TypeOK
    <3>3. PostedIsCurrent'
      BY <1>0, <1>1, <2>1, <2>3 DEF PostedIsCurrent, TypeOK
    <3> QED
      BY <3>1, <3>2, <3>3
  <2>6. AllKept' /\ BatchIsWhole' /\ Unpaged' /\ PendingKept'
    <3>1. \A e \in Committed \cap Relevant : Handled(e) => Handled(e)' \/ Held(e)'
      BY <1>0, <2>3, <2>4
    <3>2. \A d \in pending \cap Relevant : Handled(d) => Handled(d)' \/ ReceiptKey(d)' \in resent'
      BY <1>0, <1>1, <2>1, <2>3
    <3> QED
      BY <1>0, <1>1, <2>1, <2>3, <3>1, <3>2, StandsStill
  <2> QED
    BY <2>5, <2>6 DEF PumpInv
<1>5. CASE RequestRewind
  <2>1. /\ UNCHANGED <<receipt, arrived, posted, due, resent>>
        /\ asking # 0 /\ asking' = 0
        /\ rewind' = IF rewind = 0 THEN asking ELSE Smaller(rewind, asking)
    BY <1>5 DEF RequestRewind, tickVars
  <2>2. /\ asking \in Events /\ rewind' \in Events /\ rewind \in Nat /\ rewind' <= asking
        /\ rewind # 0 => rewind' <= rewind
    <3>1. asking \in Events /\ rewind \in Events \cup {0}
      BY <1>0, <2>1 DEF TypeOK
    <3> QED
      BY <1>0, <2>1, <3>1 DEF Smaller
  <2>3. \A d \in Events : Handled(d)' = Handled(d) /\ (Held(d) => Held(d)')
    <3>1. \A d \in Events : Handled(d)' = Handled(d)
      BY <1>1, <2>1 DEF Handled
    <3>2. ASSUME NEW d \in Events, Held(d)
          PROVE  Held(d)'
      <4>1. (rewind # 0 /\ rewind <= d) \/ (asking # 0 /\ asking <= d) => rewind' # 0 /\ rewind' <= d
        BY <1>0, <2>1, <2>2
      <4> QED
        BY <1>0, <1>1, <2>1, <3>2, <4>1 DEF Held
    <3> QED
      BY <3>1, <3>2
  <2>4. TypeOK' /\ RowsInHand' /\ PostedIsCurrent'
    <3>1. TypeOK'
      BY <1>0, <2>1, <2>2 DEF TypeOK
    <3>2. RowsInHand'
      BY <1>0, <1>1, <2>1 DEF RowsInHand
    <3>3. PostedIsCurrent'
      BY <1>0, <1>1, <2>1, <2>3 DEF PostedIsCurrent, TypeOK
    <3> QED
      BY <3>1, <3>2, <3>3
  <2>5. AllKept' /\ BatchIsWhole' /\ Unpaged' /\ PendingKept'
    BY <1>0, <1>1, <2>1, <2>3, StandsStill
  <2> QED
    BY <2>4, <2>5 DEF PumpInv
<1>6. CASE UNCHANGED vars
  BY <1>6 DEF vars, outboxVars, tickVars, PumpInv, TypeOK, RowsInHand, PostedIsCurrent, AllKept, BatchIsWhole,
              Unpaged, PendingKept, Held, Handled, ReceiptKey, Committed, Relevant, Current, BatchSize
<1> QED
  BY <1>2, <1>3, <1>4, <1>5, <1>6

LEMMA RestartKeeps ==
  ASSUME PumpInv, Restart
  PROVE  PumpInv'
<1>0. /\ TypeOK /\ RowsInHand
      /\ UNCHANGED <<target, row, recent, receipt, arrived, resent>>
      /\ cursor' = 0 /\ retry' = {} /\ due' = {} /\ after' = 0 /\ rewind' = 0 /\ asking' = 0
      /\ queue' = {} /\ fresh' = {} /\ isDue' = {} /\ posted' = 0 /\ pending' = {}
      /\ rejections' = [k \in ReceiptKeys |-> 0]
      /\ restarts < target.restarts /\ restarts' = restarts + 1
      /\ Relevant \subseteq Events /\ Events \subseteq Nat \ {0} /\ target.restarts \in Nat
  BY TargetIsFit, EventsAreFinite DEF PumpInv, TypeOK, Restart, outboxVars
<1>1. Committed' = Committed /\ Relevant' = Relevant
  BY <1>0 DEF Committed, Relevant
<1>2. TypeOK'
  <2>1. restarts' \in 0..target.restarts
    BY <1>0 DEF TypeOK
  <2>2. rejections' \in [ReceiptKeys -> 0..MaxContentRejections - 1]
    BY <1>0, BoundsAreNat
  <2> QED
    BY <1>0, <2>1, <2>2 DEF TypeOK
<1>3. RowsInHand'
  <2>1. \A d \in Events : ReceiptKey(d)' = ReceiptKey(d)
    BY <1>0 DEF ReceiptKey
  <2>2. \A k \in ReceiptKeys : receipt'[k] # "none" => \E d \in Committed' : ReceiptKey(d)' = k
    BY <1>0, <1>1, <2>1 DEF RowsInHand, Committed
  <2> QED
    BY <1>0, <1>1, <2>2 DEF RowsInHand
<1>4. AllKept'
  <2>1. \A e \in Relevant : e > cursor'
    BY <1>0
  <2> QED
    BY <1>1, <2>1 DEF AllKept
<1>5. BatchIsWhole' /\ Unpaged' /\ PendingKept' /\ PostedIsCurrent'
  BY <1>0 DEF BatchIsWhole, Unpaged, PendingKept, PostedIsCurrent
<1> QED
  BY <1>2, <1>3, <1>4, <1>5 DEF PumpInv

-----------------------------------------------------------------------------
LEMMA StepsKeep ==
  ASSUME PumpInv, [Next]_vars
  PROVE  PumpInv'
<1>1. ASSUME NEW e \in Events,
             \/ InsertEvent(e) \/ LeaveWindow(e)
             \/ \E outcome \in {"committed", "aborted"} : EndTransaction(e, outcome)
      PROVE  PumpInv'
  BY <1>1, WritersKeep
<1>2. CASE Drain
  BY <1>2, TurnsKeep
<1>3. CASE ReadBatch \/ ReadFails
  BY <1>3, ReadingKeeps
<1>4. CASE \/ \E e \in Events : PostAccepted(e) \/ BecomeDue(e)
           \/ \E k \in ReceiptKeys : Resend(k)
           \/ RequestRewind
           \/ UNCHANGED vars
  BY <1>4, ConsumerAndPanelKeep
<1>5. CASE Restart
  BY <1>5, RestartKeeps
<1> QED
  BY <1>1, <1>2, <1>3, <1>4, <1>5 DEF Next, Drain

LEMMA PumpInvariant == Spec => []PumpInv
<1>1. PumpInv /\ [Next]_vars => PumpInv'
  BY StepsKeep
<1> QED
  BY InvAtStart, <1>1, PTL DEF Spec

(* Ids, receipts and what memory holds of them keep their types.            *)
THEOREM PumpTypeCorrect == Spec => []TypeOK
<1>1. PumpInv => TypeOK
  BY DEF PumpInv
<1> QED
  BY <1>1, PumpInvariant, PTL

(* No committed event of the target is ever out of the pump's reach.        *)
THEOREM PumpForgetsNothing == Spec => []NothingForgotten
<1>1. PumpInv => NothingForgotten
  BY DEF PumpInv, AllKept, Held, NothingForgotten
<1> QED
  BY <1>1, PumpInvariant, PTL

(* An event reaches the consumer only as the current event of a tick, so    *)
(* that what came before it in its contract is done with.                   *)
LEMMA ArrivalIsAttempt ==
  ASSUME PumpInv, [Next]_vars, NEW e \in arrived' \ arrived
  PROVE  Sending(e)
<1>1. CASE \E d \in Events : PostAccepted(d)
  BY <1>1 DEF PostAccepted
<1>2. CASE \E d \in Events, processed \in BOOLEAN : PostFails(d, processed)
  BY <1>2 DEF PostFails
<1>3. ASSUME ~(\E d \in Events : PostAccepted(d)),
             ~(\E d \in Events, processed \in BOOLEAN : PostFails(d, processed))
      PROVE  arrived' = arrived
  BY <1>3 DEF Next, vars, InsertEvent, EndTransaction, LeaveWindow, ReadBatch, ReadFails, PassOver, Irrelevant,
     Already, CloseUnsent, RecordDelivery, RecordFails, PostRejected, GiveUp, BecomeDue, Resend, RequestRewind,
     Restart
<1> QED
  BY <1>1, <1>2, <1>3

(* First arrivals of a contract are in the order of its events.             *)
THEOREM PumpKeepsOrder == Spec => DeliveredInOrder
<1>1. ASSUME PumpInv, [Next]_vars
      PROVE  [BatchSize > target.events => \A e \in arrived' \ arrived, d \in pending \cap Relevant :
                d < e /\ OrderKey[d] = OrderKey[e] =>
                  Handled(d) \/ {ReceiptKey(d), ReceiptKey(e)} \cap resent # {}]_vars
  <2> SUFFICES ASSUME BatchSize > target.events, NEW e \in arrived' \ arrived,
                      NEW d \in pending \cap Relevant, d < e, OrderKey[d] = OrderKey[e]
               PROVE  Handled(d) \/ ReceiptKey(d) \in resent
    OBVIOUS
  <2>1. e = Current /\ queue # {} /\ d \notin retry
    BY <1>1, ArrivalIsAttempt DEF Sending, Attempting, BlockedBy
  <2>2. d \notin queue
    <3>1. d \in Nat /\ e \in Nat /\ \A c \in queue : e <= c
      BY <1>1, <2>1, CurrentIsFirst, EventsAreFinite DEF PumpInv, TypeOK
    <3> QED
      BY <3>1
  <2> QED
    BY <1>1, <2>1, <2>2 DEF PumpInv, PendingKept
<1> QED
  BY <1>1, PumpInvariant, PTL DEF Spec, DeliveredInOrder

-----------------------------------------------------------------------------
(* The refinement.                                                          *)
LEMMA OutboxSteps ==
  ASSUME PumpInv, [Next]_vars
  PROVE  [Outbox!Next]_(Outbox!outboxVars)
<1>0. /\ TypeOK /\ RowsInHand /\ PostedIsCurrent
      /\ Committed \subseteq Events /\ Relevant \subseteq Events
  BY TargetIsFit DEF PumpInv, TypeOK, Committed
<1> DEFINE Same == UNCHANGED <<target.receiptKey, Committed, arrived, receipt>>
<1>1. Same => [Outbox!Next]_(Outbox!outboxVars)
  BY DEF Outbox!outboxVars
<1>2. ASSUME UNCHANGED <<target, row>>
      PROVE  UNCHANGED <<target.receiptKey, Committed>>
  BY <1>2 DEF Committed
<1>3. ASSUME NEW e \in Events, EndTransaction(e, "committed")
      PROVE  Outbox!Next
  <2>1. e \notin Committed /\ Committed' = Committed \cup {e} /\ UNCHANGED <<target, arrived, receipt>>
    BY <1>0, <1>3 DEF EndTransaction, Committed, TypeOK
  <2>2. Outbox!Publish(e)
    BY <2>1 DEF Outbox!Publish
  <2> QED
    BY <2>2 DEF Outbox!Next
<1>4. ASSUME NEW e \in Events,
             InsertEvent(e) \/ EndTransaction(e, "aborted") \/ LeaveWindow(e)
      PROVE  Same
  <2>1. UNCHANGED <<target, arrived, receipt>>
    BY <1>4 DEF InsertEvent, EndTransaction, LeaveWindow
  <2>2. Committed' = Committed
    BY <1>0, <1>4 DEF InsertEvent, EndTransaction, LeaveWindow, Committed, TypeOK
  <2> QED
    BY <2>1, <2>2
<1>5. ASSUME NEW e \in Events, e = Current, queue # {}
      PROVE  e \in Committed
  BY <1>0, <1>5, CurrentIsFirst DEF RowsInHand
<1>6. ASSUME NEW e \in Events, Sending(e), arrived' = arrived \cup {e}, UNCHANGED <<outboxVars, receipt>>
      PROVE  Outbox!Next
  <2>1. e \in Committed /\ receipt[target.receiptKey[e]] = "none"
    BY <1>5, <1>6 DEF Sending, Attempting, Handled, ReceiptKey
  <2>2. UNCHANGED <<target.receiptKey, Committed>>
    BY <1>2, <1>6 DEF outboxVars
  <2>3. Outbox!Arrive(e)
    BY <1>6, <2>1, <2>2 DEF Outbox!Arrive
  <2> QED
    BY <2>3 DEF Outbox!Next
<1>7. ASSUME NEW e \in Events, e \in Committed, ~Handled(e),
             NEW outcome \in {"delivered", "rejected", "not_applicable"}, Write(e, outcome),
             outcome = "delivered" => e \in arrived, UNCHANGED <<outboxVars, arrived>>
      PROVE  Outbox!Next
  <2>1. receipt[target.receiptKey[e]] = "none" /\ receipt' = [receipt EXCEPT ![target.receiptKey[e]] = outcome]
    BY <1>7 DEF Handled, ReceiptKey, Write
  <2>2. UNCHANGED <<target.receiptKey, Committed>>
    BY <1>2, <1>7 DEF outboxVars
  <2>3. Outbox!Settle(e, outcome)
    BY <1>7, <2>1, <2>2 DEF Outbox!Settle
  <2> QED
    BY <2>3 DEF Outbox!Next
<1>8. ASSUME NEW e \in Events, PostAccepted(e)
      PROVE  Outbox!Next
  BY <1>6, <1>8 DEF PostAccepted
<1>9. ASSUME NEW e \in Events, NEW processed \in BOOLEAN, PostFails(e, processed)
      PROVE  Outbox!Next \/ Same
  <2>1. CASE processed
    BY <1>6, <1>9, <2>1 DEF PostFails
  <2>2. CASE ~processed
    BY <1>2, <1>9, <2>2 DEF PostFails, outboxVars
  <2> QED
    BY <2>1, <2>2
<1>10. ASSUME NEW e \in Events,
              GiveUp(e) \/ \E outcome \in {"not_applicable", "rejected"} : CloseUnsent(e, outcome)
       PROVE  Outbox!Next
  <2>1. /\ e \in Committed /\ ~Handled(e) /\ UNCHANGED <<outboxVars, arrived>>
        /\ \E outcome \in {"not_applicable", "rejected"} : Write(e, outcome)
    BY <1>5, <1>10 DEF GiveUp, CloseUnsent, Sending, Attempting
  <2> QED
    BY <1>7, <2>1
<1>11. CASE RecordDelivery
  <2>1. PICK e \in Events : e = posted
    BY <1>0, <1>11 DEF RecordDelivery, TypeOK
  <2>2. /\ e \in Committed /\ ~Handled(e) /\ e \in arrived
        /\ Write(e, "delivered") /\ UNCHANGED <<outboxVars, arrived>>
    BY <1>0, <1>5, <1>11, <2>1 DEF RecordDelivery, PostedIsCurrent
  <2> QED
    BY <1>7, <2>2
<1>12. ASSUME NEW k \in ReceiptKeys, Resend(k)
       PROVE  Outbox!Next
  <2>1. Outbox!Reopen(k)
    BY <1>2, <1>12 DEF Resend, outboxVars, Outbox!Reopen
  <2> QED
    BY <2>1 DEF Outbox!Next
<1>13. ASSUME \/ ReadBatch \/ ReadFails \/ PassOver \/ RecordFails \/ RequestRewind \/ Restart
              \/ \E e \in Events : Irrelevant(e) \/ Already(e) \/ PostRejected(e) \/ BecomeDue(e)
              \/ UNCHANGED vars
       PROVE  Same
  <2>1. UNCHANGED <<target, row, arrived, receipt>>
    BY <1>13 DEF ReadBatch, ReadFails, PassOver, RecordFails, RequestRewind, Restart, Irrelevant, Already,
                 PostRejected, BecomeDue, vars, outboxVars
  <2> QED
    BY <1>2, <2>1
<1> HIDE DEF Same
<1> QED
  BY <1>1, <1>3, <1>4, <1>8, <1>9, <1>10, <1>11, <1>12, <1>13 DEF Next

LEMMA OutboxStarts == Init => Outbox!Init
<1> SUFFICES ASSUME Init PROVE Outbox!Init
  OBVIOUS
<1>1. Committed = {}
  BY DEF Init, Committed
<1>2. target.receiptKey \in [Events -> ReceiptKeys]
  BY TargetIsFit DEF Init
<1> QED
  BY <1>1, <1>2 DEF Init, Outbox!Init

(* Whatever fails in between, the pump is the delivery it promises.         *)
THEOREM OutboxImplemented == Spec => ImplementsOutbox
<1>1. PumpInv /\ [Next]_vars => [Outbox!Next]_(Outbox!outboxVars)
  BY OutboxSteps
<1> QED
  BY OutboxStarts, <1>1, PumpInvariant, PTL DEF Spec, ImplementsOutbox, Outbox!Spec

-----------------------------------------------------------------------------
(* The rescue queue.                                                        *)

Statuses == OpenStatuses \cup {"rescued", "cancelled", "dismissed"}
Told == {"opened", "due_soon", "would_run", "resolved"}
CaseRows ==
  [of : Debtors, status : Statuses, due : Nat, closed : Nat, until : Nat,
   promised : 0 .. LastDay, review : BOOLEAN]
DebtorRows == [status : {"active", "cancelled", "closed"}, unpaid : SUBSET Dues, barred : BOOLEAN]

\* What is decided of a case, and when it was told that it ended.
CaseOK(r, told) ==
  /\ r.status \in {"open", "in_contact"} => ~r.review /\ "would_run" \notin told
  /\ r.status = "due_for_cancellation" => ~r.review
  /\ r.status = "manual_review" => "would_run" \notin told
  /\ ~(r.review /\ "would_run" \in told)
  /\ ("resolved" \in told) = (r.status \notin OpenStatuses)

OneCaseEach == \A c \in Debtors : \A k, h \in LiveOf(rescue, c) : k = h

CasesTyped == rescue \in Seq(CaseRows) /\ Len(rescue) <= MaxCases /\ heard \in [Ids -> SUBSET Told]

Rounds ==
  [on : BOOLEAN, todo : SUBSET Debtors, now : Nat, auto : BOOLEAN,
   at : Debtors \cup {Nobodys}, overdue : SUBSET Dues, cases : Seq(CaseRows), barred : BOOLEAN]
SweepTyped == sweep \in Rounds

RestTyped == today \in Days /\ autoCancel \in BOOLEAN /\ debtor \in [Debtors -> DebtorRows]

CasesOK ==
  /\ OneCaseEach
  /\ \A k \in DOMAIN rescue : CaseOK(rescue[k], heard[k])
  /\ \A k \in Ids : k \notin DOMAIN rescue => heard[k] = {}

QueueInv == RestTyped /\ SweepTyped /\ CasesTyped /\ CasesOK

\* The step that CaseIsDecidedOnce speaks of.
EndedStays == \A k \in DOMAIN rescue : rescue[k].status \notin OpenStatuses => rescue'[k] = rescue[k]

LEMMA Days0 ==
  /\ LastDay \in Nat \ {0} /\ WindowDays \in Nat /\ ReopenDays \in Nat /\ Dues \subseteq Nat /\ MaxCases \in Nat
  /\ Days \subseteq Nat \ {0} /\ 1 \in Days
  BY DaysOfRescue DEF Days

\* The ids of the rows are those from 1 on.
LEMMA CaseIds ==
  ASSUME CasesTyped
  PROVE  /\ Len(rescue) \in Nat /\ DOMAIN rescue = 1 .. Len(rescue) /\ DOMAIN rescue \subseteq Ids
         /\ \A k \in DOMAIN rescue : rescue[k] \in CaseRows
         /\ \A k \in Ids : heard[k] \in SUBSET Told
<1>1. Len(rescue) \in Nat /\ DOMAIN rescue = 1 .. Len(rescue)
  BY LenProperties DEF CasesTyped
<1>2. \A k \in DOMAIN rescue : rescue[k] \in CaseRows
  BY <1>1, ElementOfSeq DEF CasesTyped
<1> QED
  BY <1>1, <1>2, Days0 DEF CasesTyped, Ids

(* One row of the queue is written: it stays the case of its contract, and   *)
(* what is told of it agrees with it.                                        *)
LEMMA RowWritten ==
  ASSUME CasesTyped, CasesOK, NEW k \in DOMAIN rescue, NEW r \in CaseRows, NEW S \in SUBSET Told,
         r.of = rescue[k].of, rescue[k].status \in OpenStatuses \/ r = rescue[k], CaseOK(r, S),
         rescue' = [rescue EXCEPT ![k] = r], heard' = [heard EXCEPT ![k] = S]
  PROVE  CasesTyped' /\ CasesOK' /\ EndedStays
<1>1. /\ Len(rescue) \in Nat /\ DOMAIN rescue = 1 .. Len(rescue) /\ DOMAIN rescue \subseteq Ids
      /\ \A h \in DOMAIN rescue : rescue[h] \in CaseRows
  BY CaseIds
<1>2. /\ rescue' \in Seq(CaseRows) /\ Len(rescue') = Len(rescue)
      /\ \A h \in 1 .. Len(rescue) : rescue'[h] = IF h = k THEN r ELSE rescue[h]
  BY <1>1, ExceptSeq DEF CasesTyped
<1>3. DOMAIN rescue' = DOMAIN rescue
  BY <1>1, <1>2, LenProperties
<1>4. heard' \in [Ids -> SUBSET Told] /\ \A h \in Ids : heard'[h] = IF h = k THEN S ELSE heard[h]
  BY <1>1 DEF CasesTyped
<1>5. CasesTyped'
  BY <1>2, <1>4 DEF CasesTyped, Ids
<1>6. \A c \in Debtors : LiveOf(rescue', c) \subseteq LiveOf(rescue, c)
  BY <1>1, <1>2, <1>3 DEF LiveOf
<1>7. OneCaseEach'
  BY <1>6 DEF CasesOK, OneCaseEach
<1>8. \A h \in DOMAIN rescue' : CaseOK(rescue'[h], heard'[h])
  <2> SUFFICES ASSUME NEW h \in DOMAIN rescue PROVE CaseOK(rescue'[h], heard'[h])
    BY <1>3
  <2>1. CASE h = k
    <3>1. rescue'[h] = r /\ heard'[h] = S
      BY <1>1, <1>2, <1>4, <2>1
    <3> QED
      BY <3>1
  <2>2. CASE h # k
    <3>1. rescue'[h] = rescue[h] /\ heard'[h] = heard[h] /\ CaseOK(rescue[h], heard[h])
      BY <1>1, <1>2, <1>4, <2>2 DEF CasesOK
    <3> QED
      BY <3>1
  <2> QED
    BY <2>1, <2>2
<1>9. \A h \in Ids : h \notin DOMAIN rescue' => heard'[h] = {}
  BY <1>3, <1>4 DEF CasesOK
<1>10. EndedStays
  BY <1>1, <1>2 DEF EndedStays
<1> QED
  BY <1>5, <1>7, <1>8, <1>9, <1>10 DEF CasesOK, Ids

(* A case is opened for a contract that has none. *)
LEMMA RowAdded ==
  ASSUME CasesTyped, CasesOK, NEW c \in Debtors, LiveOf(rescue, c) = {}, NEW r \in CaseRows,
         r.of = c, r.status = "open", ~r.review, Len(rescue) < MaxCases,
         rescue' = Append(rescue, r), heard' = [heard EXCEPT ![Len(rescue) + 1] = @ \cup {"opened"}]
  PROVE  CasesTyped' /\ CasesOK' /\ EndedStays
<1> DEFINE n == Len(rescue) + 1
<1>1. /\ Len(rescue) \in Nat /\ DOMAIN rescue = 1 .. Len(rescue) /\ DOMAIN rescue \subseteq Ids
      /\ \A h \in DOMAIN rescue : rescue[h] \in CaseRows
  BY CaseIds
<1>2. /\ rescue' \in Seq(CaseRows) /\ Len(rescue') = n /\ rescue'[n] = r
      /\ \A h \in 1 .. Len(rescue) : rescue'[h] = rescue[h]
  BY <1>1, AppendProperties DEF CasesTyped
<1>3. DOMAIN rescue' = DOMAIN rescue \cup {n} /\ n \in Ids /\ n \notin DOMAIN rescue
  <2>1. DOMAIN rescue' = 1 .. n
    BY <1>2, LenProperties
  <2> QED
    BY <1>1, <2>1, Days0 DEF Ids
<1>4. heard[n] = {}
  BY <1>3 DEF CasesOK
<1>5. heard' \in [Ids -> SUBSET Told] /\ \A h \in Ids : heard'[h] = IF h = n THEN {"opened"} ELSE heard[h]
  BY <1>3, <1>4 DEF CasesTyped, Told
<1> HIDE DEF n
<1>6. CasesTyped'
  BY <1>1, <1>2, <1>5, Days0 DEF CasesTyped, Ids, n
<1>7. /\ LiveOf(rescue', c) = {n}
      /\ \A b \in Debtors \ {c} : LiveOf(rescue', b) = LiveOf(rescue, b)
  BY <1>1, <1>2, <1>3 DEF LiveOf, OpenStatuses
<1>8. OneCaseEach'
  BY <1>7 DEF CasesOK, OneCaseEach
<1>9. CaseOK(r, {"opened"})
  BY DEF CaseOK, OpenStatuses
<1>10. \A h \in DOMAIN rescue' : CaseOK(rescue'[h], heard'[h])
  <2> SUFFICES ASSUME NEW h \in DOMAIN rescue' PROVE CaseOK(rescue'[h], heard'[h])
    OBVIOUS
  <2>1. CASE h = n
    <3>1. rescue'[h] = r /\ heard'[h] = {"opened"}
      BY <1>2, <1>3, <1>5, <2>1
    <3> QED
      BY <1>9, <3>1
  <2>2. CASE h # n
    <3>1. rescue'[h] = rescue[h] /\ heard'[h] = heard[h] /\ CaseOK(rescue[h], heard[h])
      BY <1>1, <1>2, <1>3, <1>5, <2>2 DEF CasesOK
    <3> QED
      BY <3>1
  <2> QED
    BY <2>1, <2>2
<1>11. \A h \in Ids : h \notin DOMAIN rescue' => heard'[h] = {}
  BY <1>3, <1>5 DEF CasesOK
<1>12. EndedStays
  BY <1>1, <1>2 DEF EndedStays
<1> QED
  BY <1>6, <1>8, <1>10, <1>11, <1>12 DEF CasesOK, Ids

LEMMA QueueStarts == QueueInit => QueueInv
<1> SUFFICES ASSUME QueueInit PROVE QueueInv
  OBVIOUS
<1>1. RestTyped
  BY Days0 DEF QueueInit, RestTyped, DebtorRows
<1>2. <<>> \in Seq(CaseRows) /\ Len(<<>>) = 0 /\ DOMAIN <<>> = {}
  BY EmptySeq
<1>3. SweepTyped
  BY <1>2 DEF QueueInit, SweepTyped, Rounds, Resting
<1>4. CasesTyped
  BY <1>2, Days0 DEF QueueInit, CasesTyped
<1>5. CasesOK
  BY <1>2 DEF QueueInit, CasesOK, OneCaseEach, LiveOf
<1> QED
  BY <1>1, <1>3, <1>4, <1>5 DEF QueueInv

(* What the sweep makes of a case it has is one row written, of a case that  *)
(* had not ended.                                                            *)
Follows(k, r, S) ==
  /\ r \in CaseRows /\ S \in SUBSET Told /\ r.of = rescue[k].of /\ CaseOK(r, S)
  /\ rescue' = [rescue EXCEPT ![k] = r] /\ heard' = [heard EXCEPT ![k] = S]
LEMMA RowsEdited ==
  ASSUME CasesTyped, NEW k \in DOMAIN rescue
  PROVE  /\ rescue = [rescue EXCEPT ![k] = rescue[k]] /\ heard = [heard EXCEPT ![k] = heard[k]]
         /\ \A x : [rescue EXCEPT ![k].status = x] = [rescue EXCEPT ![k] = [rescue[k] EXCEPT !.status = x]]
         /\ \A x, y : [rescue EXCEPT ![k].status = x, ![k].closed = y]
                       = [rescue EXCEPT ![k] = [rescue[k] EXCEPT !.status = x, !.closed = y]]
         /\ \A x, y : [rescue EXCEPT ![k].status = x, ![k].review = y]
                       = [rescue EXCEPT ![k] = [rescue[k] EXCEPT !.status = x, !.review = y]]
         /\ \A x, y : [rescue EXCEPT ![k].status = x, ![k].promised = y]
                       = [rescue EXCEPT ![k] = [rescue[k] EXCEPT !.status = x, !.promised = y]]
         /\ \A x, y, z : [[rescue EXCEPT ![k].status = x, ![k].closed = y] EXCEPT ![k].until = z]
                       = [rescue EXCEPT ![k] = [rescue[k] EXCEPT !.status = x, !.closed = y, !.until = z]]
<1>1. /\ DOMAIN rescue = 1 .. Len(rescue) /\ rescue \in [DOMAIN rescue -> CaseRows] /\ rescue[k] \in CaseRows
      /\ k \in Ids /\ heard \in [Ids -> SUBSET Told]
  BY CaseIds, LenProperties DEF CasesTyped
<1>2. rescue = [rescue EXCEPT ![k] = rescue[k]] /\ heard = [heard EXCEPT ![k] = heard[k]]
  BY <1>1
<1>3. \A x : [rescue EXCEPT ![k].status = x] = [rescue EXCEPT ![k] = [rescue[k] EXCEPT !.status = x]]
  BY <1>1
<1>4. \A x, y : [rescue EXCEPT ![k].status = x, ![k].closed = y]
                       = [rescue EXCEPT ![k] = [rescue[k] EXCEPT !.status = x, !.closed = y]]
  BY <1>1
<1>5. \A x, y : [rescue EXCEPT ![k].status = x, ![k].review = y]
                       = [rescue EXCEPT ![k] = [rescue[k] EXCEPT !.status = x, !.review = y]]
  BY <1>1
<1>6. \A x, y : [rescue EXCEPT ![k].status = x, ![k].promised = y]
                       = [rescue EXCEPT ![k] = [rescue[k] EXCEPT !.status = x, !.promised = y]]
  BY <1>1
<1>7. \A x, y, z : [[rescue EXCEPT ![k].status = x, ![k].closed = y] EXCEPT ![k].until = z]
                       = [rescue EXCEPT ![k] = [rescue[k] EXCEPT !.status = x, !.closed = y, !.until = z]]
  BY <1>1
<1> QED
  BY <1>2, <1>3, <1>4, <1>5, <1>6, <1>7

LEMMA ShadowFollows ==
  ASSUME CasesTyped, CasesOK, NEW k \in DOMAIN rescue, "would_run" \notin heard[k],
         rescue[k].status \in {"open", "in_contact", "due_for_cancellation"}, ShadowDecide(k, {})
  PROVE  \E r, S : Follows(k, r, S)
<1>1. rescue[k] \in CaseRows /\ k \in Ids /\ heard \in [Ids -> SUBSET Told] /\ heard[k] \in SUBSET Told
  BY CaseIds DEF CasesTyped
<1>2. CaseOK(rescue[k], heard[k])
  BY DEF CasesOK
<1>3. CASE sweep.barred \/ RecentPromise(k)
  <2> DEFINE r == [rescue[k] EXCEPT !.status = "manual_review", !.review = TRUE]
  <2>1. rescue' = [rescue EXCEPT ![k] = r] /\ heard' = [heard EXCEPT ![k] = heard[k]]
    <3>1. rescue' = [rescue EXCEPT ![k].status = "manual_review", ![k].review = TRUE]
      BY <1>3 DEF ShadowDecide
    <3>2. [rescue EXCEPT ![k].status = "manual_review", ![k].review = TRUE] = [rescue EXCEPT ![k] = r]
      BY RowsEdited, ZenonT(60)
    <3>3. heard' = [heard EXCEPT ![k] = heard[k]]
      BY <1>1, <1>3 DEF ShadowDecide, Hear
    <3> QED
      BY <3>1, <3>2, <3>3
  <2>2. r \in CaseRows /\ r.of = rescue[k].of /\ r.status = "manual_review"
    BY <1>1 DEF CaseRows, Statuses, OpenStatuses
  <2> HIDE DEF r
  <2>3. CaseOK(r, heard[k])
    BY <1>2, <2>2 DEF CaseOK, OpenStatuses
  <2> QED
    BY <1>1, <2>1, <2>2, <2>3 DEF Follows
<1>4. CASE ~(sweep.barred \/ RecentPromise(k))
  <2> DEFINE r == [rescue[k] EXCEPT !.status = "due_for_cancellation"]
             S == heard[k] \cup {"would_run"}
  <2>1. rescue' = [rescue EXCEPT ![k] = r] /\ heard' = [heard EXCEPT ![k] = S]
    BY <1>1, <1>4, RowsEdited DEF ShadowDecide, Hear
  <2>2. /\ r \in CaseRows /\ r.of = rescue[k].of /\ r.status = "due_for_cancellation"
        /\ r.review = rescue[k].review /\ S \in SUBSET Told
    BY <1>1 DEF CaseRows, Statuses, OpenStatuses, Told
  <2>3. CaseOK(r, S)
    <3> HIDE DEF r
    <3> QED
      BY <1>2, <2>2 DEF CaseOK, OpenStatuses
  <2> HIDE DEF r, S
  <2> QED
    BY <2>1, <2>2, <2>3 DEF Follows
<1> QED
  BY <1>3, <1>4

LEMMA EndedFollows ==
  ASSUME CasesTyped, CasesOK, NEW k \in DOMAIN rescue, NEW how \in {"rescued", "cancelled"}, NEW day \in Nat,
         rescue' = Ended(k, how, day), heard' = Hear(k, {"resolved"}), rescue[k].status \in OpenStatuses
  PROVE  \E r, S : Follows(k, r, S)
<1>1. rescue[k] \in CaseRows /\ k \in Ids /\ heard \in [Ids -> SUBSET Told] /\ heard[k] \in SUBSET Told
  BY CaseIds DEF CasesTyped
<1> DEFINE r == [rescue[k] EXCEPT !.status = how, !.closed = day]
           S == heard[k] \cup {"resolved"}
<1>2. rescue' = [rescue EXCEPT ![k] = r] /\ heard' = [heard EXCEPT ![k] = S]
  <2>1. [rescue EXCEPT ![k].status = how, ![k].closed = day] = [rescue EXCEPT ![k] = r]
    BY RowsEdited, Zenon
  <2> HIDE DEF r
  <2> QED
    BY <2>1 DEF Ended, Hear
<1>3. /\ r \in CaseRows /\ r.of = rescue[k].of /\ r.status = how /\ r.review = rescue[k].review
      /\ S \in SUBSET Told
  BY <1>1 DEF CaseRows, Statuses, OpenStatuses, Told
<1>4. CaseOK(r, S)
  <2> HIDE DEF r
  <2>1. CaseOK(rescue[k], heard[k])
    BY DEF CasesOK
  <2> QED
    BY <1>3, <2>1 DEF CaseOK, OpenStatuses
<1> HIDE DEF r, S
<1> QED
  BY <1>2, <1>3, <1>4 DEF Follows

LEMMA FollowsOne ==
  ASSUME QueueInv, NEW c \in Debtors, NEW k \in LiveOf(rescue, c), FollowCase(c, k)
  PROVE  \E r, S : Follows(k, r, S)
<1>1. /\ k \in DOMAIN rescue /\ rescue[k].status \in OpenStatuses /\ rescue[k] \in CaseRows
      /\ k \in Ids /\ heard \in [Ids -> SUBSET Told] /\ heard[k] \in SUBSET Told
      /\ CaseOK(rescue[k], heard[k]) /\ CasesTyped /\ CasesOK
  BY CaseIds DEF QueueInv, CasesTyped, CasesOK, LiveOf
<1>2. sweep.now \in Nat
  BY DEF QueueInv, SweepTyped, Rounds
<1>3. CASE UNCHANGED rescue /\ \E S \in {{}, {"due_soon"}} : heard' = Hear(k, S)
  <2>1. PICK S \in {{}, {"due_soon"}} : heard' = Hear(k, S)
    BY <1>3
  <2> DEFINE T == heard[k] \cup S
  <2>2. rescue' = [rescue EXCEPT ![k] = rescue[k]] /\ heard' = [heard EXCEPT ![k] = T]
    BY <1>1, <1>3, <2>1, RowsEdited DEF Hear
  <2>3. T \in SUBSET Told /\ CaseOK(rescue[k], T)
    BY <1>1 DEF CaseOK, Told, OpenStatuses
  <2> HIDE DEF T
  <2> QED
    BY <1>1, <2>2, <2>3 DEF Follows
<1>4. CASE UNCHANGED <<rescue, heard>>
  <2>1. rescue' = [rescue EXCEPT ![k] = rescue[k]] /\ heard' = [heard EXCEPT ![k] = heard[k]]
    BY <1>1, <1>4, RowsEdited
  <2> QED
    BY <1>1, <2>1 DEF Follows
<1>5. CASE \E how \in {"rescued", "cancelled"} : rescue' = Ended(k, how, sweep.now) /\ heard' = Hear(k, {"resolved"})
  BY <1>1, <1>2, <1>5, EndedFollows
<1>6. CASE ShadowDecide(k, {}) /\ "would_run" \notin heard[k]
           /\ rescue[k].status \in {"open", "in_contact", "due_for_cancellation"}
  BY <1>1, <1>6, ShadowFollows
<1>7. CASE /\ rescue' = [rescue EXCEPT ![k].status = "due_for_cancellation"] /\ UNCHANGED heard
           /\ rescue[k].status \in {"open", "in_contact"}
  <2> DEFINE r == [rescue[k] EXCEPT !.status = "due_for_cancellation"]
  <2>1. rescue' = [rescue EXCEPT ![k] = r] /\ heard' = [heard EXCEPT ![k] = heard[k]]
    BY <1>1, <1>7, RowsEdited
  <2>2. /\ r \in CaseRows /\ r.of = rescue[k].of /\ r.status = "due_for_cancellation" /\ r.review = rescue[k].review
    BY <1>1 DEF CaseRows, Statuses, OpenStatuses
  <2> HIDE DEF r
  <2>3. CaseOK(r, heard[k])
    BY <1>1, <1>7, <2>2 DEF CaseOK, OpenStatuses
  <2> QED
    BY <1>1, <2>1, <2>2, <2>3 DEF Follows
<1>8. rescue[k].status \in {"open", "in_contact"} => "would_run" \notin heard[k]
  BY <1>1 DEF CaseOK
<1> QED
  <2>1. CASE UNCHANGED rescue /\ heard' = Hear(k, {})
    BY <1>3, <2>1
  <2>2. CASE UNCHANGED rescue /\ heard' = Hear(k, {"due_soon"})
    BY <1>3, <2>2
  <2> QED
    BY <1>4, <1>5, <1>6, <1>7, <1>8, <2>1, <2>2 DEF FollowCase, DecidesLate
LEMMA CasesStand ==
  ASSUME CasesTyped, CasesOK, UNCHANGED <<rescue, heard>>
  PROVE  CasesTyped' /\ CasesOK' /\ EndedStays
  BY DEF CasesTyped, CasesOK, OneCaseEach, CaseOK, LiveOf, EndedStays

LEMMA SweepSteps ==
  ASSUME QueueInv,
         \/ StartSweep \/ EndSweep \/ StopSweep
         \/ \E c \in Debtors : LockContract(c) \/ SweepContract(c) \/ FailContract(c)
  PROVE  RestTyped' /\ SweepTyped'
<1>1. RestTyped'
  <2>1. UNCHANGED <<today, autoCancel, debtor>>
    BY DEF StartSweep, EndSweep, StopSweep, LockContract, SweepContract, FailContract
  <2> QED
    BY <2>1 DEF QueueInv, RestTyped
<1>2. <<>> \in Seq(CaseRows) /\ rescue \in Seq(CaseRows)
  BY EmptySeq DEF QueueInv, CasesTyped
<1>7. Resting \in Rounds
  BY <1>2 DEF Resting, Rounds
<1>3. CASE StartSweep
  <2>1. today \in Nat /\ autoCancel \in BOOLEAN
    BY Days0 DEF QueueInv, RestTyped
  <2> DEFINE T == {c \in Debtors : \/ debtor[c].status = "active" /\ OverdueAt(c, today) # {}
                                 \/ LiveOf(rescue, c) # {}}
  <2>2. T \in SUBSET Debtors /\ sweep' = [Resting EXCEPT !.on = TRUE, !.now = today, !.auto = autoCancel, !.todo = T]
    BY <1>3 DEF StartSweep
  <2> HIDE DEF T
  <2> QED
    BY <1>1, <1>7, <2>1, <2>2 DEF SweepTyped, Rounds
<1>4. CASE EndSweep \/ StopSweep
  BY <1>1, <1>4, <1>7 DEF EndSweep, StopSweep, SweepTyped
<1>5. ASSUME NEW c \in Debtors, LockContract(c) PROVE SweepTyped'
  <2> DEFINE D == IF debtor[c].status = "active" THEN OverdueAt(c, sweep.now) ELSE {}
             b == debtor[c].barred
  <2>1. D \in SUBSET Dues /\ b \in BOOLEAN
    BY DEF QueueInv, RestTyped, DebtorRows, OverdueAt
  <2>2. sweep' = [sweep EXCEPT !.at = c, !.cases = rescue, !.barred = b, !.overdue = D]
    BY <1>5 DEF LockContract
  <2> HIDE DEF D, b
  <2> QED
    BY <1>2, <2>1, <2>2 DEF QueueInv, SweepTyped, Rounds
<1>6. ASSUME NEW c \in Debtors, SweepContract(c) \/ FailContract(c) PROVE SweepTyped'
  <2> DEFINE T == sweep.todo \ {c}
             e == {}
             s == <<>>
  <2>1. T \in SUBSET Debtors /\ e \in SUBSET Dues /\ s \in Seq(CaseRows)
    BY <1>2 DEF QueueInv, SweepTyped, Rounds
  <2>2. sweep' = [sweep EXCEPT !.todo = T, !.at = Nobodys, !.cases = s, !.overdue = e, !.barred = FALSE]
    BY <1>6 DEF SweepContract, FailContract
  <2> HIDE DEF T, e, s
  <2> QED
    BY <2>1, <2>2 DEF QueueInv, SweepTyped, Rounds
<1> QED
  BY <1>1, <1>3, <1>4, <1>5, <1>6

(* The first day of arrears gives the new case its time. *)
LEMMA NewCaseTyped ==
  ASSUME SweepTyped, NEW c \in Debtors, sweep.overdue # {}
  PROVE  NewCase(c) \in CaseRows /\ NewCase(c).of = c /\ NewCase(c).status = "open" /\ ~NewCase(c).review
<1>1. sweep.overdue \subseteq Nat
  BY Days0 DEF SweepTyped, Rounds
<1>2. \E d \in sweep.overdue : \A e \in sweep.overdue : d <= e
  BY <1>1, LeastExists
<1>3. FirstOf(sweep.overdue) \in Nat
  BY <1>1, <1>2 DEF FirstOf
<1>4. FirstOf(sweep.overdue) + WindowDays \in Nat /\ 0 \in 0 .. LastDay
  BY <1>3, Days0
<1> QED
  BY <1>4 DEF NewCase, CaseRows, Statuses, OpenStatuses

LEMMA SweepContractKeeps ==
  ASSUME QueueInv, NEW c \in Debtors, SweepContract(c)
  PROVE  CasesTyped' /\ CasesOK' /\ EndedStays
<1>1. CasesTyped /\ CasesOK /\ SweepTyped
  BY DEF QueueInv
<1>2. ASSUME NEW k \in LiveOf(rescue, c), FollowCase(c, k)
      PROVE  CasesTyped' /\ CasesOK' /\ EndedStays
  <2>1. k \in DOMAIN rescue /\ rescue[k].status \in OpenStatuses
    BY DEF LiveOf
  <2>2. PICK r, S : Follows(k, r, S)
    BY <1>2, FollowsOne
  <2> QED
    BY <1>1, <2>1, <2>2, RowWritten DEF Follows
<1>3. CASE /\ LiveOf(rescue, c) = {} /\ sweep.overdue # {} /\ Len(rescue) < MaxCases
           /\ rescue' = Append(rescue, NewCase(c)) /\ heard' = Hear(Len(rescue) + 1, {"opened"})
  <2> DEFINE r == NewCase(c)
  <2>1. r \in CaseRows /\ r.of = c /\ r.status = "open" /\ ~r.review
    BY <1>1, <1>3, NewCaseTyped
  <2>2. heard' = [heard EXCEPT ![Len(rescue) + 1] = @ \cup {"opened"}]
    BY <1>3 DEF Hear
  <2> HIDE DEF r
  <2>3. rescue' = Append(rescue, r)
    BY <1>3 DEF r
  <2> QED
    BY <1>1, <1>3, <2>1, <2>2, <2>3, RowAdded
<1>4. CASE UNCHANGED <<rescue, heard>>
  BY <1>1, <1>4, CasesStand
<1> QED
  BY <1>2, <1>3, <1>4 DEF SweepContract

LEMMA AttemptKeeps ==
  ASSUME CasesTyped, CasesOK, RestTyped, NEW k \in DOMAIN rescue, NEW promise \in BOOLEAN, RecordAttempt(k, promise)
  PROVE  CasesTyped' /\ CasesOK' /\ EndedStays
<1>1. rescue[k] \in CaseRows /\ k \in Ids /\ heard[k] \in SUBSET Told
  BY CaseIds
<1> DEFINE to == IF rescue[k].status = "open" THEN "in_contact" ELSE rescue[k].status
           day == IF promise THEN today ELSE rescue[k].promised
           r == [rescue[k] EXCEPT !.status = to, !.promised = day]
<1>2. to \in Statuses /\ to \in OpenStatuses /\ day \in 0 .. LastDay
  BY <1>1, Days0 DEF RecordAttempt, Statuses, OpenStatuses, RestTyped, Days, CaseRows
<1>3. rescue' = [rescue EXCEPT ![k].status = to, ![k].promised = day] /\ rescue[k].status \in OpenStatuses /\ heard' = heard
  BY CaseIds DEF RecordAttempt, CaseRows
<1>4. /\ rescue[k].status = "open" => to = "in_contact"
      /\ rescue[k].status # "open" => to = rescue[k].status
  OBVIOUS
<1> HIDE DEF to, day
<1>5. [rescue EXCEPT ![k].status = to, ![k].promised = day] = [rescue EXCEPT ![k] = r]
  BY RowsEdited, Zenon
<1>6. r \in CaseRows /\ r.of = rescue[k].of /\ r.status = to /\ r.review = rescue[k].review
  BY <1>1, <1>2 DEF CaseRows
<1> HIDE DEF r
<1>7. CaseOK(r, heard[k])
  <2>1. CaseOK(rescue[k], heard[k])
    BY DEF CasesOK
  <2> QED
    BY <1>2, <1>3, <1>4, <1>6, <2>1 DEF CaseOK, OpenStatuses
<1>8. rescue' = [rescue EXCEPT ![k] = r] /\ heard' = [heard EXCEPT ![k] = heard[k]]
  BY <1>3, <1>5, RowsEdited
<1> QED
  BY <1>1, <1>3, <1>6, <1>7, <1>8, RowWritten

LEMMA DismissKeeps ==
  ASSUME CasesTyped, CasesOK, RestTyped, NEW k \in DOMAIN rescue, Dismiss(k)
  PROVE  CasesTyped' /\ CasesOK' /\ EndedStays
<1>1. rescue[k] \in CaseRows /\ k \in Ids /\ heard[k] \in SUBSET Told /\ heard \in [Ids -> SUBSET Told]
  BY CaseIds DEF CasesTyped
<1> DEFINE until == today + ReopenDays
           r == [rescue[k] EXCEPT !.status = "dismissed", !.closed = today, !.until = until]
           S == heard[k] \cup {"resolved"}
<1>2. today \in Nat /\ until \in Nat
  BY Days0 DEF RestTyped
<1> HIDE DEF until
<1>3. rescue' = [[rescue EXCEPT ![k].status = "dismissed", ![k].closed = today] EXCEPT ![k].until = until]
  BY DEF Dismiss, Ended, until
<1>4. [[rescue EXCEPT ![k].status = "dismissed", ![k].closed = today] EXCEPT ![k].until = until]
        = [rescue EXCEPT ![k] = r]
  <2>1. rescue \in [DOMAIN rescue -> CaseRows]
    BY CaseIds, LenProperties DEF CasesTyped
  <2> QED
    BY <1>1, <2>1
<1>5. r \in CaseRows /\ r.of = rescue[k].of /\ r.status = "dismissed" /\ r.review = rescue[k].review
  BY <1>1, <1>2 DEF CaseRows, Statuses
<1> HIDE DEF r
<1>6. CaseOK(r, S) /\ S \in SUBSET Told
  <2>1. CaseOK(rescue[k], heard[k])
    BY DEF CasesOK
  <2> QED
    BY <1>1, <1>5, <2>1 DEF CaseOK, OpenStatuses, Told
<1>7. heard' = [heard EXCEPT ![k] = S] /\ rescue[k].status \in OpenStatuses
  BY <1>1 DEF Dismiss, Hear
<1> HIDE DEF S
<1>8. rescue' = [rescue EXCEPT ![k] = r]
  BY <1>3, <1>4
<1> QED
  BY <1>5, <1>6, <1>7, <1>8, RowWritten

LEMMA PeopleSteps ==
  ASSUME QueueInv,
         \/ \E k \in DOMAIN rescue : (\E promise \in BOOLEAN : RecordAttempt(k, promise)) \/ Dismiss(k)
         \/ SwitchAuto \/ NextDay
         \/ \E c \in Debtors : ChangeBars(c) \/ Settle(c)
  PROVE  RestTyped' /\ SweepTyped'
<1>1. SweepTyped'
  <2>1. sweep' = sweep
    BY DEF RecordAttempt, Dismiss, SwitchAuto, NextDay, ChangeBars, Settle
  <2> QED
    BY <2>1 DEF QueueInv, SweepTyped
<1>2. CASE UNCHANGED <<today, autoCancel, debtor>>
  BY <1>1, <1>2 DEF QueueInv, RestTyped
<1>3. CASE SwitchAuto
  BY <1>1, <1>3 DEF SwitchAuto, QueueInv, RestTyped
<1>4. CASE NextDay
  BY <1>1, <1>4, Days0 DEF NextDay, QueueInv, RestTyped, Days
<1>5. ASSUME NEW c \in Debtors, ChangeBars(c) \/ Settle(c) PROVE RestTyped'
  <2>1. debtor \in [Debtors -> DebtorRows] /\ UNCHANGED <<today, autoCancel>>
    BY <1>5 DEF QueueInv, RestTyped, ChangeBars, Settle
  <2>2. \E r \in DebtorRows : debtor' = [debtor EXCEPT ![c] = r]
    <3> DEFINE q == debtor[c]
    <3>1. q \in DebtorRows
      BY <2>1
    <3>2. CASE ChangeBars(c)
      <4> DEFINE r == [q EXCEPT !.barred = ~q.barred]
      <4>1. r \in DebtorRows
        BY <3>1 DEF DebtorRows
      <4>2. debtor' = [debtor EXCEPT ![c] = r]
        BY <2>1, <3>2 DEF ChangeBars, DebtorRows
      <4> QED
        BY <4>1, <4>2
    <3>3. ASSUME NEW d \in Dues, debtor' = [debtor EXCEPT ![c].unpaid = @ \ {d}]
          PROVE  \E r \in DebtorRows : debtor' = [debtor EXCEPT ![c] = r]
      <4> DEFINE r == [q EXCEPT !.unpaid = q.unpaid \ {d}]
      <4>1. r \in DebtorRows
        BY <3>1 DEF DebtorRows
      <4>2. debtor' = [debtor EXCEPT ![c] = r]
        BY <2>1, <3>3 DEF DebtorRows
      <4> QED
        BY <4>1, <4>2
    <3>4. ASSUME NEW to \in {"cancelled", "closed"}, debtor' = [debtor EXCEPT ![c].status = to]
          PROVE  \E r \in DebtorRows : debtor' = [debtor EXCEPT ![c] = r]
      <4> DEFINE r == [q EXCEPT !.status = to]
      <4>1. r \in DebtorRows
        BY <3>1 DEF DebtorRows
      <4>2. debtor' = [debtor EXCEPT ![c] = r]
        BY <2>1, <3>4 DEF DebtorRows
      <4> QED
        BY <4>1, <4>2
    <3>5. q.unpaid \subseteq Dues
      BY <3>1 DEF DebtorRows
    <3> QED
      BY <1>5, <3>2, <3>3, <3>4, <3>5 DEF Settle
  <2>3. debtor' \in [Debtors -> DebtorRows]
    BY <2>1, <2>2
  <2> QED
    BY <2>1, <2>3 DEF QueueInv, RestTyped
<1> QED
  BY <1>1, <1>2, <1>3, <1>4, <1>5 DEF RecordAttempt, Dismiss

LEMMA QueueStep ==
  ASSUME QueueInv, [QueueNext]_queueVars
  PROVE  QueueInv' /\ EndedStays
<1>1. CasesTyped /\ CasesOK /\ RestTyped /\ SweepTyped
  BY DEF QueueInv
<1>2. CASE UNCHANGED queueVars
  <2>1. RestTyped' /\ SweepTyped'
    BY <1>1, <1>2 DEF queueVars, RestTyped, SweepTyped
  <2>2. UNCHANGED <<rescue, heard>>
    BY <1>2 DEF queueVars
  <2> QED
    BY <1>1, <2>1, <2>2, CasesStand DEF QueueInv
<1>3. CASE \/ StartSweep \/ EndSweep \/ StopSweep
           \/ \E c \in Debtors : LockContract(c) \/ SweepContract(c) \/ FailContract(c)
  <2>1. RestTyped' /\ SweepTyped'
    BY <1>3, SweepSteps
  <2>2. CASE UNCHANGED <<rescue, heard>>
    BY <1>1, <2>1, <2>2, CasesStand DEF QueueInv
  <2>3. CASE \E c \in Debtors : SweepContract(c)
    BY <2>1, <2>3, SweepContractKeeps DEF QueueInv
  <2> QED
    BY <1>3, <2>2, <2>3 DEF StartSweep, EndSweep, StopSweep, LockContract, FailContract
<1>4. CASE \/ \E k \in DOMAIN rescue : (\E promise \in BOOLEAN : RecordAttempt(k, promise)) \/ Dismiss(k)
           \/ SwitchAuto \/ NextDay
           \/ \E c \in Debtors : ChangeBars(c) \/ Settle(c)
  <2>1. RestTyped' /\ SweepTyped'
    BY <1>4, PeopleSteps
  <2>2. CASE UNCHANGED <<rescue, heard>>
    BY <1>1, <2>1, <2>2, CasesStand DEF QueueInv
  <2>3. ASSUME NEW k \in DOMAIN rescue, NEW promise \in BOOLEAN, RecordAttempt(k, promise)
        PROVE  QueueInv' /\ EndedStays
    BY <1>1, <2>1, <2>3, AttemptKeeps DEF QueueInv
  <2>4. ASSUME NEW k \in DOMAIN rescue, Dismiss(k)
        PROVE  QueueInv' /\ EndedStays
    BY <1>1, <2>1, <2>4, DismissKeeps DEF QueueInv
  <2> QED
    BY <1>4, <2>2, <2>3, <2>4 DEF SwitchAuto, NextDay, ChangeBars, Settle
<1> QED
  BY <1>2, <1>3, <1>4 DEF QueueNext

LEMMA QueueInvTypes == QueueInv => QueueTypeOK
<1> SUFFICES ASSUME QueueInv PROVE QueueTypeOK
  OBVIOUS
<1>1. \A k \in DOMAIN rescue : rescue[k] \in CaseRows
  BY CaseIds DEF QueueInv
<1> QED
  BY <1>1 DEF QueueInv, QueueTypeOK, RestTyped, SweepTyped, Rounds, CasesTyped, CaseRows, DebtorRows, Statuses, Told

(* The queue and the round of its job are well typed, for any contracts,    *)
(* due days, settings and bounds.                                           *)
THEOREM QueueTypes == QueueSpec => []QueueTypeOK
  BY QueueInvTypes, QueueStarts, QueueStep, PTL DEF QueueSpec

(* A contract has one case at a time, what is written of a case is either   *)
(* that it would have been cancelled or that a person decides, a case has   *)
(* ended when and only when that was told, and an ended case does not       *)
(* change: however rounds, calls, dismissals, changes of the settings,      *)
(* failures and restarts cross (sweepContract and dismissRescueCase,        *)
(* rescueShadow.ts).                                                        *)
THEOREM CasesDecidedOnce == QueueSpec => CaseIsDecidedOnce
<1>1. ASSUME QueueInv, QueueInv', EndedStays
      PROVE  /\ \A c \in Debtors : \A k, h \in LiveOf(rescue', c) : k = h
             /\ \A k \in DOMAIN rescue' : /\ ~(rescue'[k].review /\ "would_run" \in heard'[k])
                                          /\ ("resolved" \in heard'[k]) = (rescue'[k].status \notin OpenStatuses)
             /\ \A k \in DOMAIN rescue : rescue[k].status \notin OpenStatuses => rescue'[k] = rescue[k]
  BY <1>1 DEF QueueInv, CasesOK, OneCaseEach, CaseOK, LiveOf, EndedStays
<1> QED
  BY <1>1, QueueStarts, QueueStep, PTL DEF QueueSpec, CaseIsDecidedOnce

-----------------------------------------------------------------------------
(* Each job moves its own variables only, so both keep their types in any   *)
(* behaviour of the two (MCJobs).                                           *)
THEOREM JobsTypesKept == JobsSpec => []JobsTypeOK
<1> DEFINE Both == PumpInv /\ QueueInv
<1>1. JobsInit => Both
  BY InvAtStart, QueueStarts DEF JobsInit
<1>2. Both /\ [JobsNext]_jobsVars => Both'
  <2> SUFFICES ASSUME PumpInv, QueueInv, [JobsNext]_jobsVars
               PROVE  PumpInv' /\ QueueInv'
    OBVIOUS
  <2>1. [Next]_vars /\ [QueueNext]_queueVars
    BY DEF JobsNext, jobsVars
  <2> QED
    BY <2>1, StepsKeep, QueueStep
<1>3. Both => JobsTypeOK
  BY QueueInvTypes DEF PumpInv, JobsTypeOK
<1> QED
  BY <1>1, <1>2, <1>3, PTL DEF JobsSpec
=============================================================================
