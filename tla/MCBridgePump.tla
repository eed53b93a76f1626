---------------------------- MODULE MCBridgePump ----------------------------
(* Small instances of BridgePump for TLC. *)
EXTENDS BridgePump

(* Two events of two contracts, read one by one, without exclusions. *)
TwoOrder == <<"a", "b">>
Paging == {[name |-> "contract state", batchSize |-> 1, exclusions |-> 0,
            relevant |-> {1, 2}, receiptKey |-> <<"a:active", "b:active">>,
            codedRejections |-> FALSE, events |-> 2, restarts |-> 1]}

(* Three events of one contract, two of them with the same state: a batch    *)
(* that is never full; batches of two and one exclusion, with an event the   *)
(* target has no use for, and a restart; and the Financial pump, a receipt    *)
(* for each event, with two of them, a restart and no full batch.            *)
SameOrder == <<"a", "a", "a">>
SameReceipts == <<"a:active", "a:cancelled", "a:active">>
Pumps ==
  {[name |-> "contract state", batchSize |-> 4, exclusions |-> 3,
    relevant |-> {1, 2, 3}, receiptKey |-> SameReceipts, codedRejections |-> FALSE,
    events |-> 3, restarts |-> 0],
   [name |-> "contract state", batchSize |-> 2, exclusions |-> 1,
    relevant |-> {1, 3}, receiptKey |-> SameReceipts, codedRejections |-> FALSE,
    events |-> 3, restarts |-> 1],
   [name |-> "financial", batchSize |-> 3, exclusions |-> 1,
    relevant |-> {1, 2}, receiptKey |-> <<"1", "2", "3">>, codedRejections |-> TRUE,
    events |-> 2, restarts |-> 1]}

=============================================================================
