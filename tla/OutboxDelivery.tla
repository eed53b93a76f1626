--------------------------- MODULE OutboxDelivery ---------------------------
(***************************************************************************)
(* What an outbox bridge promises to the system at its other end, without  *)
(* cursors, batches, retries or processes: only committed events are sent; *)
(* the receipt that stops the sending is written once the consumer has the *)
(* event, or refused it, or has no use for it; nothing is sent under an    *)
(* existing receipt; and only a refusal can be taken back.                 *)
(***************************************************************************)
CONSTANTS Events, ReceiptKeys

VARIABLES
  receiptKey, \* the receipt that stops each event, as the target keeps them
  published,  \* events whose transaction committed
  arrived,    \* events the consumer got at least once
  receipt     \* per receipt key: "none" or how the delivery ended

outboxVars == <<receiptKey, published, arrived, receipt>>

Init ==
  /\ receiptKey \in [Events -> ReceiptKeys]
  /\ published = {}
  /\ arrived = {}
  /\ receipt = [k \in ReceiptKeys |-> "none"]

Publish(e) ==
  /\ e \notin published
  /\ published' = published \cup {e}
  /\ UNCHANGED <<receiptKey, arrived, receipt>>

(* At least once: a repeated arrival changes nothing. *)
Arrive(e) ==
  /\ e \in published
  /\ receipt[receiptKey[e]] = "none"
  /\ arrived' = arrived \cup {e}
  /\ UNCHANGED <<receiptKey, published, receipt>>

Settle(e, outcome) ==
  /\ e \in published
  /\ receipt[receiptKey[e]] = "none"
  /\ outcome = "delivered" => e \in arrived
  /\ receipt' = [receipt EXCEPT ![receiptKey[e]] = outcome]
  /\ UNCHANGED <<receiptKey, published, arrived>>

Reopen(k) ==
  /\ receipt[k] = "rejected"
  /\ receipt' = [receipt EXCEPT ![k] = "none"]
  /\ UNCHANGED <<receiptKey, published, arrived>>

Next ==
  \/ \E e \in Events :
       \/ Publish(e)
       \/ Arrive(e)
       \/ \E outcome \in {"delivered", "rejected", "not_applicable"} : Settle(e, outcome)
  \/ \E k \in ReceiptKeys : Reopen(k)

Spec == Init /\ [][Next]_outboxVars

=============================================================================
