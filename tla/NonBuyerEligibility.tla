------------------------ MODULE NonBuyerEligibility ------------------------
(***************************************************************************)
(* The projection of who is a non-buyer: the facts of one customer, the    *)
(* row of state of each of its captures, and the transactions that         *)
(* reevaluate it: the hook of a business transaction, the hook that runs   *)
(* after the commit of one, the reconciliation job, and the delivery.      *)
(*                                                                         *)
(* A transaction reads without locks the snapshot of its first read and    *)
(* what it wrote itself; a hook then reads the committed facts again on    *)
(* another connection.  The reconciliation is READ COMMITTED.  Every       *)
(* select of these is a step.  The row of state is the only lock a         *)
(* reevaluation waits for.                                                 *)
(***************************************************************************)
EXTENDS Integers

CONSTANTS
  Cards,       \* captures of the customer, by id
  Writers,     \* calls that change a fact
  Reconciler,  \* the reconciliation job
  Deliverer,   \* the delivery job
  Undoable,    \* of the kinds beside opt_out, those that happen in the run
  MaxChanges,  \* bound: changes of the facts
  MaxFailures, \* bound: hooks that fail, transactions rolled back, calls cut
  NoTx

\* What bars a customer, in the order loadEligibilityFacts selects it; the
\* first select also reads the capture.
ReadOrder == <<"erasure", "contract", "opt_out">>
Kinds == {"erasure", "contract", "opt_out"}

ASSUME EligibilityAssumption ==
  /\ Cards \subseteq Nat \ {0}
  /\ Undoable \subseteq {"erasure", "contract"}
  /\ Reconciler # Deliverer /\ {Reconciler, Deliverer} \cap Writers = {}
  /\ NoTx \notin Writers \cup {Reconciler, Deliverer}
  /\ MaxChanges \in Nat /\ MaxFailures \in Nat

VARIABLES
  truth,  \* committed: what bars the customer, the visits that have ended
  projection,  \* non_buyer_eligibility_state, committed
  flips,  \* the non_buyer events, committed
  lock,   \* who holds the row of state of a capture
  tx,     \* the transactions in flight
  changes,
  failures

eligibilityVars == <<truth, projection, flips, lock, tx, changes, failures>>

Txs == Writers \cup {Reconciler, Deliverer}

\* A kind that bars the customer; the visit of a capture that has ended.
Block(kind) == [what |-> kind, card |-> 0]
Attended(c) == [what |-> "attended", card |-> c]
Blocks == {Block(kind) : kind \in Kinds}
Visits == {Attended(c) : c \in Cards}
Truths == Blocks \cup Visits
OptOut == Block("opt_out")

NoChange == [fact |-> Block("none"), on |-> FALSE]
NoWrite == [eligible |-> FALSE, seq |-> 0]
States == [eligible : BOOLEAN, seq : Nat]

NotBegun ==
  [at |-> "idle", reads |-> "fresh", change |-> NoChange, own |-> {}, todo |-> {}, n |-> 0,
   seen |-> {}, atLock |-> {}, writes |-> [c \in Cards |-> NoWrite]]

\* own: what its snapshot and its own writes show; seen: what it has read since
\* it locked the row; atLock: what was committed by then (history).
Transactions ==
  [at : {"idle", "open", "lock", "read", "commit"}, reads : {"fresh", "committed", "snapshot"},
   change : {NoChange} \cup [fact : Truths, on : BOOLEAN], own : SUBSET Truths, todo : SUBSET Cards,
   n : 0..3, seen : SUBSET Truths, atLock : SUBSET Truths, writes : [Cards -> States]]

EligibilityTypeOK ==
  /\ truth \subseteq Truths
  /\ projection \in [Cards -> States]
  /\ \A c \in Cards : flips[c] \subseteq States
  /\ lock \in [Cards -> Txs \cup {NoTx}]
  /\ tx \in [Txs -> Transactions]
  /\ changes \in 0..MaxChanges
  /\ failures \in 0..MaxFailures

EligibilityInit ==
  /\ truth = {}
  /\ projection = [c \in Cards |-> NoWrite]
  /\ flips = [c \in Cards |-> {}]
  /\ lock = [c \in Cards |-> NoTx]
  /\ tx = [t \in Txs |-> NotBegun]
  /\ changes = 0
  /\ failures = 0

-----------------------------------------------------------------------------
(* evaluateNonBuyerEligibility and mergeBlockingFacts.                     *)

Eligible(c, known) == Attended(c) \in known /\ known \cap Blocks = {}

\* Mutant: what the other connection read is not merged.
MergedOwnOnly(own, fresh) == own

\* mergeBlockingFacts: what bars counts if either reading shows it.
Merged(own, fresh) == own \cup (fresh \cap Blocks)

\* What the transaction decides on.
Known(t) ==
  CASE tx[t].reads = "fresh"     -> Merged(tx[t].own, tx[t].seen)
    [] tx[t].reads = "committed" -> tx[t].seen
    [] tx[t].reads = "snapshot"  -> tx[t].own

-----------------------------------------------------------------------------
(* Who reevaluates.                                                        *)

Apply(change, known) ==
  IF change = NoChange THEN known
  ELSE IF change.on THEN known \cup {change.fact} ELSE known \ {change.fact}

Begins(t, record) == tx' = [tx EXCEPT ![t] = record]

MayChange(fact, on) ==
  /\ changes < MaxChanges
  /\ changes' = changes + 1
  /\ (fact \in truth) # on
  /\ fact.what \in Undoable \/ (fact \in Visits \cup {OptOut} /\ on)
  /\ \A t \in Txs : tx[t].change.fact # fact

\* A business transaction: it has its snapshot, and has written its fact when
\* the hook, its last step, begins.  recordNt reevaluates its capture, the
\* others every capture of the customer.
WriteFact(w, fact, on) ==
  LET change == [fact |-> fact, on |-> on]
  IN  /\ tx[w] = NotBegun
      /\ MayChange(fact, on)
      /\ Begins(w, [NotBegun EXCEPT !.at = "lock", !.change = change, !.own = Apply(change, truth),
                                    !.todo = IF fact \in Visits THEN {fact.card} ELSE Cards])
      /\ UNCHANGED <<truth, projection, flips, lock, failures>>

\* endPresentation, and markNoTour with a motive: the fact is committed, and its
\* hook has a transaction of its own.
EndPresentation(w, c) ==
  /\ tx[w] = NotBegun
  /\ MayChange(Attended(c), TRUE)
  /\ truth' = truth \cup {Attended(c)}
  /\ Begins(w, [NotBegun EXCEPT !.at = "open", !.todo = {c}])
  /\ UNCHANGED <<projection, flips, lock, failures>>

\* Mutant: the job looks only at what is marked eligible.
ScanEligible(c) ==
  /\ tx[Reconciler] = NotBegun
  /\ projection[c].eligible
  /\ Begins(Reconciler, [NotBegun EXCEPT !.at = "lock", !.reads = "committed", !.todo = {c}])
  /\ UNCHANGED <<truth, projection, flips, lock, changes, failures>>

\* The reconciliation takes one capture after another.
ScanCapture(c) ==
  /\ tx[Reconciler] = NotBegun
  /\ Attended(c) \in truth \/ projection[c].eligible
  /\ Begins(Reconciler, [NotBegun EXCEPT !.at = "lock", !.reads = "committed", !.todo = {c}])
  /\ UNCHANGED <<truth, projection, flips, lock, changes, failures>>

\* The delivery, on an eligible event whose capture is not eligible any more.
DeliveryReevaluates(c) ==
  /\ tx[Deliverer] = NotBegun
  /\ projection[c].eligible /\ ~Eligible(c, truth)
  /\ Begins(Deliverer, [NotBegun EXCEPT !.at = "open", !.reads = "snapshot", !.todo = {c}])
  /\ UNCHANGED <<truth, projection, flips, lock, changes, failures>>

-----------------------------------------------------------------------------
(* reevaluateCapture.                                                      *)

\* The first read of a transaction opens its snapshot.
OpenSnapshot(t) ==
  /\ tx[t].at = "open"
  /\ tx' = [tx EXCEPT ![t].at = "lock", ![t].own = truth]
  /\ UNCHANGED <<truth, projection, flips, lock, changes, failures>>

\* In ascending order of the captures.
IsNext(t, c) == c \in tx[t].todo /\ \A d \in tx[t].todo : c <= d

\* Mutant: the row is read without FOR UPDATE.
ReadRowOnly(t, c) ==
  /\ tx[t].at = "lock" /\ IsNext(t, c)
  /\ tx' = [tx EXCEPT ![t].at = "read", ![t].n = 0, ![t].seen = {}, ![t].atLock = truth]
  /\ UNCHANGED <<truth, projection, flips, lock, changes, failures>>

\* lockState.
LockState(t, c) ==
  /\ tx[t].at = "lock" /\ IsNext(t, c)
  /\ lock[c] \in {NoTx, t}
  /\ lock' = [lock EXCEPT ![c] = t]
  /\ tx' = [tx EXCEPT ![t].at = "read", ![t].n = 0, ![t].seen = {}, ![t].atLock = truth]
  /\ UNCHANGED <<truth, projection, flips, changes, failures>>

\* The next select: the first one also reads the capture.
ReadFacts(t) ==
  /\ tx[t].at = "read" /\ tx[t].n < 3 /\ tx[t].reads # "snapshot"
  /\ LET read == {Block(ReadOrder[tx[t].n + 1])} \cup (IF tx[t].n = 0 THEN Visits ELSE {})
     IN  tx' = [tx EXCEPT ![t].n = @ + 1, ![t].seen = @ \cup (truth \cap read)]
  /\ UNCHANGED <<truth, projection, flips, lock, changes, failures>>

\* A change of the verdict writes the row and one event; both wait for the
\* commit.
Decide(t, c) ==
  /\ tx[t].at = "read" /\ IsNext(t, c)
  /\ tx[t].n = 3 \/ tx[t].reads = "snapshot"
  /\ LET eligible == Eligible(c, Known(t))
         rest == tx[t].todo \ {c}
     IN  tx' = [tx EXCEPT
           ![t].writes[c] = IF eligible = projection[c].eligible THEN @
                            ELSE [eligible |-> eligible, seq |-> projection[c].seq + 1],
           ![t].todo = rest,
           ![t].at = IF rest = {} THEN "commit" ELSE "lock"]
  /\ UNCHANGED <<truth, projection, flips, lock, changes, failures>>

Written(t, c) == tx[t].writes[c] # NoWrite

Unlocked(t) == [c \in Cards |-> IF lock[c] = t THEN NoTx ELSE lock[c]]

Commit(t) ==
  /\ tx[t].at = "commit"
  /\ truth' = Apply(tx[t].change, truth)
  /\ projection' = [c \in Cards |-> IF Written(t, c) THEN tx[t].writes[c] ELSE projection[c]]
  /\ flips' = [c \in Cards |-> flips[c] \cup (IF Written(t, c) THEN {tx[t].writes[c]} ELSE {})]
  /\ lock' = Unlocked(t)
  /\ tx' = [tx EXCEPT ![t] = NotBegun]
  /\ UNCHANGED <<changes, failures>>

\* eligibilityHook: an error goes back to the savepoint, the fact is committed;
\* the locks stay until then.
HookFails(t) ==
  /\ tx[t].at \in {"lock", "read"} /\ tx[t].change # NoChange
  /\ failures < MaxFailures /\ failures' = failures + 1
  /\ tx' = [tx EXCEPT ![t].at = "commit", ![t].writes = NotBegun.writes]
  /\ UNCHANGED <<truth, projection, flips, lock, changes>>

\* A deadlock, a lock wait that timed out, an error of a job or of a hook after
\* the commit, a stop of the process.
Rollback(t) ==
  /\ tx[t].at # "idle"
  /\ failures < MaxFailures /\ failures' = failures + 1
  /\ lock' = Unlocked(t)
  /\ tx' = [tx EXCEPT ![t] = NotBegun]
  /\ UNCHANGED <<truth, projection, flips, changes>>

-----------------------------------------------------------------------------

Proceed(t) ==
  \/ OpenSnapshot(t) \/ ReadFacts(t) \/ Commit(t)
  \/ \E c \in Cards : LockState(t, c) \/ Decide(t, c)

EligibilityNext ==
  \/ \E w \in Writers : \/ \E fact \in Truths, on \in BOOLEAN : WriteFact(w, fact, on)
                        \/ \E c \in Cards : EndPresentation(w, c)
  \/ \E c \in Cards : ScanCapture(c) \/ DeliveryReevaluates(c)
  \/ \E t \in Txs : Proceed(t) \/ HookFails(t) \/ Rollback(t)

\* Transactions go on, and the job, every ten minutes, goes over all captures.
EligibilityFairness ==
  /\ \A t \in Txs : WF_eligibilityVars(Proceed(t))
  /\ \A c \in Cards : SF_eligibilityVars(ScanCapture(c))

EligibilitySpec ==
  EligibilityInit /\ [][EligibilityNext]_eligibilityVars /\ EligibilityFairness

-----------------------------------------------------------------------------
(* What is checked.                                                        *)

\* The events of a capture are what its projection went through, numbered
\* without a gap, eligible and revoked by turns: the delivery counts on it.
EventsTellTheProjection ==
  \A c \in Cards :
    /\ flips[c] = {[eligible |-> s % 2 = 1, seq |-> s] : s \in 1..projection[c].seq}
    /\ projection[c].eligible = (projection[c].seq % 2 = 1)

\* A hook or the reconciliation never makes a capture eligible when the customer
\* had opted out by the time it locked the row, whatever its snapshot shows and
\* whichever hooks failed.  The delivery has neither the second reading nor READ
\* COMMITTED, and does.
OptOutIsSeen ==
  [][\A t \in Txs \ {Deliverer}, c \in Cards :
       tx'[t].writes[c].eligible /\ ~tx[t].writes[c].eligible => OptOut \notin tx[t].atLock]_eligibilityVars

\* The projection comes to what the facts say, whatever hooks failed or saw too
\* little.
ProjectionConverges == []<>(\A c \in Cards : projection[c].eligible = Eligible(c, truth))
=============================================================================
