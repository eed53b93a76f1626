------------------------------ MODULE Erasure ------------------------------
(***************************************************************************)
(* The erasure of personal data: the request an administrator completes,   *)
(* the orders pulled from the GuestPass feed with their lease and receipt, *)
(* and the writers of personal data that run beside them.                  *)
(*                                                                         *)
(* A transaction that locks the customer and its sheets is one step; an    *)
(* operation that reads without a lock and writes later is two.  A         *)
(* deadlock between two of them rolls one back and is a retry.  Time is    *)
(* only whether the two minutes of a claim have passed.                    *)
(***************************************************************************)
EXTENDS FiniteSets, Integers

CONSTANTS
  Owners,    \* customers; all of them carry the CPF the orders name
  Sheets,    \* capture sheets
  Orders,    \* events of the feed of GuestPass
  Runners,   \* processes that run the erasure job
  Clerks,    \* users of the sales room and of the back office
  NoOne,
  MaxMishaps \* bound on errors, crashes, lost posts, lapsed claims

ASSUME ErasureAssumption == NoOne \notin Owners \cup Orders \cup Runners
ASSUME ErasureBounds == IsFiniteSet(Owners) /\ MaxMishaps \in Nat

VARIABLES
  person,    \* customers: personal data beyond the legal minimum, legal hold
  sheet,     \* capture_records
  requested, \* sheets with an open row of capture_erasure_requests
  order,     \* privacy_erasure_events
  receipt,   \* privacy_erasure_receipts of the CRM
  answers,   \* receipts GuestPass has taken
  runner,    \* where each runner is (memory)
  clerk,     \* what each clerk has read and is about to write (memory)
  imports,   \* whose row the last import replaced, while it may be undone, and
             \* whose rows csv_import_items has copied
  mishaps

erasureVars ==
  <<person, sheet, requested, order, receipt, answers, runner, clerk, imports, mishaps>>

Verdicts == {"done", "partial", "nothing_to_erase", "needs_human"}

\* at: where the runner is in processErasureEvent and runErasureSync.
RunnerStates == [at : {"idle", "insert", "claim", "scan", "erase", "post", "mark"}, on : Orders \cup {NoOne},
                 todo : SUBSET Owners, erased : 0..Cardinality(Owners), blocked : 0..Cardinality(Owners)]

IdleRunner == [at |-> "idle", on |-> NoOne, todo |-> {}, erased |-> 0, blocked |-> 0]

IdleClerk == [op |-> "idle", on |-> NoOne]

\* byTheSale: the formalization opened it ("Sales Command", captureLocation).
SheetRows == [of : Owners \cup {NoOne}, anonymized : BOOLEAN, personal : BOOLEAN, sold : BOOLEAN,
              byTheSale : BOOLEAN]

ErasureTypeOK ==
  /\ person \in [Owners -> [anonymized : BOOLEAN, personal : BOOLEAN, held : BOOLEAN]]
  /\ sheet \in [Sheets -> SheetRows]
  /\ requested \subseteq Sheets
  /\ order \in [Orders -> [mode : {"minimal", "full"}, status : Verdicts \cup {"unknown", "received"},
                           claim : Runners \cup {NoOne}, lapsed : BOOLEAN]]
  /\ receipt \in [Orders -> [status : Verdicts \cup {"none"}, delivered : BOOLEAN]]
  /\ answers \in [Orders -> SUBSET Verdicts]
  /\ runner \in [Runners -> RunnerStates]
  /\ clerk \in [Clerks -> [op : {"idle", "sale", "formalize", "upload", "import", "undo"}, on : Sheets \cup Owners \cup {NoOne}]]
  /\ imports \in [last : Owners \cup {NoOne}, copied : SUBSET Owners]
  /\ mishaps \in 0..MaxMishaps
  /\ \A r \in Runners : runner[r].at # "idle" => runner[r].on \in Orders \/ runner[r].at = "post"
  /\ \A s \in Sheets : sheet[s].of = NoOne => ~sheet[s].sold /\ s \notin requested

ErasureInit ==
  /\ person = [c \in Owners |-> [anonymized |-> FALSE, personal |-> TRUE, held |-> FALSE]]
  /\ sheet = [s \in Sheets |-> [of |-> NoOne, anonymized |-> FALSE, personal |-> FALSE, sold |-> FALSE,
                              byTheSale |-> FALSE]]
  /\ requested = {}
  /\ order \in [Orders -> [mode : {"minimal", "full"}, status : {"unknown"}, claim : {NoOne}, lapsed : {FALSE}]]
  /\ receipt = [o \in Orders |-> [status |-> "none", delivered |-> FALSE]]
  /\ answers = [o \in Orders |-> {}]
  /\ runner = [r \in Runners |-> IdleRunner]
  /\ clerk = [k \in Clerks |-> IdleClerk]
  /\ imports = [last |-> NoOne, copied |-> {}]
  /\ mishaps = 0

Mishap == mishaps < MaxMishaps /\ mishaps' = mishaps + 1

-----------------------------------------------------------------------------
(* What is erased, and what bars it.                                       *)

SheetsOf(c) == {s \in Sheets : sheet[s].of = c}

\* erasureBlockers: a contract, reservation, document or place on the waiting
\* list, or a sheet marked VENDEU.
Blocked(c) == person[c].held \/ \E s \in SheetsOf(c) : sheet[s].sold

\* applyCustomerAnonymization: the customer, all the sheets locked with it, and
\* the rows the imports have copied.
Anonymize(c) ==
  /\ person' = [person EXCEPT ![c].anonymized = TRUE, ![c].personal = FALSE]
  /\ sheet' = [s \in Sheets |-> IF s \in SheetsOf(c)
                                THEN [sheet[s] EXCEPT !.anonymized = TRUE, !.personal = FALSE]
                                ELSE sheet[s]]
  /\ imports' = [imports EXCEPT !.copied = @ \ {c}]

-----------------------------------------------------------------------------
(* The request of the titular, in two steps.                               *)

Office == UNCHANGED <<order, receipt, answers, runner, clerk, mishaps>>

\* One open request per customer: sister sheets share it.
RequestErasure(s) ==
  LET c == sheet[s].of
  IN  /\ c # NoOne
      /\ ~sheet[s].anonymized
      /\ \A t \in SheetsOf(c) : t \notin requested
      /\ ~Blocked(c)
      /\ requested' = requested \cup {s}
      /\ UNCHANGED <<person, sheet, imports>>
      /\ Office

\* The feed may have erased the customer meanwhile: it is erased again.
CompleteErasure(s) ==
  LET c == sheet[s].of
  IN  /\ s \in requested
      /\ ~Blocked(c)
      /\ Anonymize(c)
      /\ requested' = requested \ {s}
      /\ Office

RejectErasure(s) ==
  /\ s \in requested
  /\ requested' = requested \ {s}
  /\ UNCHANGED <<person, sheet, imports>>
  /\ Office

-----------------------------------------------------------------------------
(* The writers of personal data.                                           *)

Writer == UNCHANGED <<requested, order, receipt, answers, runner, mishaps>>

\* captures.create: the customer, found by id or by its contacts, is locked.
CreateSheet(s, c) ==
  /\ sheet[s].of = NoOne
  /\ ~person[c].anonymized
  /\ sheet' = [sheet EXCEPT ![s] = [@ EXCEPT !.of = c, !.personal = TRUE]]
  /\ UNCHANGED <<person, clerk, imports>>
  /\ Writer

\* customers.update, addInteraction and the contacts.
EditCustomer(c) ==
  /\ ~person[c].anonymized
  /\ person' = [person EXCEPT ![c].personal = TRUE]
  /\ UNCHANGED <<sheet, clerk, imports>>
  /\ Writer

\* updateExtras locks the sheet, not the customer whose birth date it writes.
UpdateExtras(s) ==
  /\ sheet[s].of # NoOne
  /\ ~sheet[s].anonymized
  /\ sheet' = [sheet EXCEPT ![s].personal = TRUE]
  /\ person' = [person EXCEPT ![sheet[s].of].personal = TRUE]
  /\ UNCHANGED <<clerk, imports>>
  /\ Writer

\* A contract, a reservation or a place on the waiting list: no erasure is
\* looked for.
Hold(c) ==
  /\ ~person[c].held
  /\ person' = [person EXCEPT ![c].held = TRUE]
  /\ UNCHANGED <<sheet, clerk, imports>>
  /\ Writer

\* updateStatus, checkIn, assignRoom, markNoTour, CAIU EM MESA: free text,
\* written only on a sheet that is not erased.  What they read before can only
\* refuse the call, so the write alone is the step.
WriteNote(s) ==
  /\ sheet[s].of # NoOne
  /\ ~sheet[s].anonymized
  /\ sheet' = [sheet EXCEPT ![s].personal = TRUE]
  /\ UNCHANGED <<person, clerk, imports>>
  /\ Writer

\* materializeSalesCommandSale opens its snapshot and finds the customer by phone
\* and name; the erasure clears the phone, so an erased one is not found.
MatchForSale(k, c) ==
  /\ clerk[k].op = "idle"
  /\ ~person[c].anonymized
  /\ clerk' = [clerk EXCEPT ![k] = [op |-> "formalize", on |-> c]]
  /\ UNCHANGED <<person, sheet, imports>>
  /\ Writer

\* The writes of that transaction, which nothing erases between (each row holds
\* the customer by its foreign key) and which do not look at it again: a contract,
\* and a sheet of the sale unless a live one of the reception is found.
FormalizeSale(k) ==
  LET c == clerk[k].on
  IN  /\ clerk[k].op = "formalize"
      /\ clerk' = [clerk EXCEPT ![k] = IdleClerk]
      /\ person' = [person EXCEPT ![c].held = TRUE]
      /\ \/ \E s \in Sheets :
              /\ sheet[s].of = NoOne
              /\ sheet' = [sheet EXCEPT ![s] = [@ EXCEPT !.of = c, !.personal = TRUE, !.byTheSale = TRUE]]
         \/ /\ \E s \in SheetsOf(c) : ~sheet[s].anonymized /\ ~sheet[s].byTheSale
            /\ UNCHANGED sheet
      /\ UNCHANGED imports
      /\ Writer

\* The stock, the conference or the database refuses: all of it is rolled back.
SaleRefused(k) ==
  /\ clerk[k].op = "formalize"
  /\ clerk' = [clerk EXCEPT ![k] = IdleClerk]
  /\ UNCHANGED <<person, sheet, imports>>
  /\ Writer

\* recordCommercialOutcome, VENDEU: findCaptureOrThrow reads without a lock.
ReadSheet(k, s) ==
  /\ clerk[k].op = "idle"
  /\ sheet[s].of # NoOne
  /\ ~sheet[s].anonymized /\ ~sheet[s].sold
  /\ clerk' = [clerk EXCEPT ![k] = [op |-> "sale", on |-> s]]
  /\ UNCHANGED <<person, sheet, imports>>
  /\ Writer

\* The update asks again that the sheet is not erased.
MarkSold(k) ==
  LET s == clerk[k].on
  IN  /\ clerk[k].op = "sale"
      /\ clerk' = [clerk EXCEPT ![k] = IdleClerk]
      /\ sheet' = IF sheet[s].anonymized THEN sheet ELSE [sheet EXCEPT ![s].sold = TRUE]
      /\ UNCHANGED <<person, imports>>
      /\ Writer

\* uploadDocument: the first look, then the file goes to the storage.
StoreDocument(k, c) ==
  /\ clerk[k].op = "idle"
  /\ ~person[c].anonymized
  /\ clerk' = [clerk EXCEPT ![k] = [op |-> "upload", on |-> c]]
  /\ UNCHANGED <<person, sheet, imports>>
  /\ Writer

\* The row of the document, with the customer locked and looked at again.
RegisterDocument(k) ==
  LET c == clerk[k].on
  IN  /\ clerk[k].op = "upload"
      /\ clerk' = [clerk EXCEPT ![k] = IdleClerk]
      /\ person' = IF person[c].anonymized THEN person
                   ELSE [person EXCEPT ![c].held = TRUE, ![c].personal = TRUE]
      /\ UNCHANGED <<sheet, imports>>
      /\ Writer

\* imports.commit, of a file with a row of a customer on record: the rows are
\* read before the transaction, an erased one refuses the file.
ReadForImport(k, c) ==
  /\ clerk[k].op = "idle"
  /\ ~person[c].anonymized
  /\ clerk' = [clerk EXCEPT ![k] = [op |-> "import", on |-> c]]
  /\ UNCHANGED <<person, sheet, imports>>
  /\ Writer

\* The batch, which waits for an undoing that has the last one: the customer is
\* locked and looked at again, its row replaced, the row read before kept.
CommitImport(k) ==
  LET c == clerk[k].on
  IN  /\ clerk[k].op = "import"
      /\ \A j \in Clerks : clerk[j].op # "undo"
      /\ clerk' = [clerk EXCEPT ![k] = IdleClerk]
      /\ IF person[c].anonymized THEN UNCHANGED <<person, imports>>
         ELSE /\ person' = [person EXCEPT ![c].personal = TRUE]
              /\ imports' = [last |-> c, copied |-> imports.copied \cup {c}]
      /\ UNCHANGED sheet
      /\ Writer

\* undoLast locks the last batch and reads what it copied, in a snapshot.
ReadForUndo(k) ==
  /\ clerk[k].op = "idle"
  /\ imports.last # NoOne
  /\ \A j \in Clerks : clerk[j].op # "undo"
  /\ clerk' = [clerk EXCEPT ![k] = [op |-> "undo",
                                    on |-> IF imports.last \in imports.copied THEN imports.last ELSE NoOne]]
  /\ UNCHANGED <<person, sheet, imports>>
  /\ Writer

\* Mutant: what the batch copied is restored without looking at the customer.
RestoreUnchecked(k) ==
  LET c == clerk[k].on
  IN  /\ clerk[k].op = "undo"
      /\ clerk' = [clerk EXCEPT ![k] = IdleClerk]
      /\ person' = IF c = NoOne THEN person ELSE [person EXCEPT ![c].personal = TRUE]
      /\ imports' = [imports EXCEPT !.last = NoOne]
      /\ UNCHANGED sheet
      /\ Writer

\* The customer is locked: an erased one is passed over.
Restore(k) ==
  LET c == clerk[k].on
  IN  /\ clerk[k].op = "undo"
      /\ clerk' = [clerk EXCEPT ![k] = IdleClerk]
      /\ person' = IF c = NoOne \/ person[c].anonymized THEN person
                   ELSE [person EXCEPT ![c].personal = TRUE]
      /\ imports' = [imports EXCEPT !.last = NoOne]
      /\ UNCHANGED sheet
      /\ Writer

-----------------------------------------------------------------------------
(* The orders of the feed.                                                 *)

Moves(r, f) == runner' = [runner EXCEPT ![r] = f]

RunnerTo(r, stage) == Moves(r, [runner[r] EXCEPT !.at = stage])

\* The receipts not yet delivered are posted at the end of a run.
ToPosts(r) == Moves(r, [IdleRunner EXCEPT !.at = "post"])

Processed(o) == order[o].status \in Verdicts

Records == UNCHANGED <<person, sheet, requested, clerk, imports>>

\* GuestPass lists an order until it has the receipt.
TakeOrder(r, o) ==
  /\ runner[r].at = "idle"
  /\ answers[o] = {}
  /\ IF Processed(o) THEN ToPosts(r)
     ELSE Moves(r, [IdleRunner EXCEPT !.on = o,
                                      !.at = IF order[o].status = "unknown" THEN "insert" ELSE "claim"])
  /\ UNCHANGED <<order, receipt, answers, mishaps>>
  /\ Records

\* A duplicate key means that another runner has inserted it.
InsertOrder(r) ==
  LET o == runner[r].on
  IN  /\ runner[r].at = "insert"
      /\ order' = IF order[o].status = "unknown" THEN [order EXCEPT ![o].status = "received"] ELSE order
      /\ RunnerTo(r, "claim")
      /\ UNCHANGED <<receipt, answers, mishaps>>
      /\ Records

\* The loser polls until the winner has finished or its claim lapses.
ClaimOrder(r) ==
  LET o == runner[r].on
  IN  /\ runner[r].at = "claim"
      /\ \/ /\ ~Processed(o)
            /\ order[o].claim = NoOne \/ order[o].lapsed
            /\ order' = [order EXCEPT ![o].claim = r, ![o].lapsed = FALSE]
            /\ RunnerTo(r, "scan")
         \/ /\ Processed(o)
            /\ ToPosts(r)
            /\ UNCHANGED order
      /\ UNCHANGED <<receipt, answers, mishaps>>
      /\ Records

\* findCustomersByCpfHmac; mode full (or another minimum) erases nothing.
ScanCustomers(r) ==
  /\ runner[r].at = "scan"
  /\ Moves(r, [runner[r] EXCEPT !.at = "erase",
                                !.todo = IF order[runner[r].on].mode = "minimal" THEN Owners ELSE {}])
  /\ UNCHANGED <<order, receipt, answers, mishaps>>
  /\ Records

\* anonymizeOne: a customer erased before counts for nothing.  The model does
\* not keep the order of the identifiers.
EraseOne(r, c) ==
  LET left == [runner[r] EXCEPT !.todo = @ \ {c}]
  IN  /\ runner[r].at = "erase"
      /\ c \in runner[r].todo
      /\ \/ /\ person[c].anonymized
            /\ Moves(r, left)
            /\ UNCHANGED <<person, sheet, imports>>
         \/ /\ ~person[c].anonymized
            /\ Blocked(c)
            /\ Moves(r, [left EXCEPT !.blocked = @ + 1])
            /\ UNCHANGED <<person, sheet, imports>>
         \/ /\ ~person[c].anonymized
            /\ ~Blocked(c)
            /\ Moves(r, [left EXCEPT !.erased = @ + 1])
            /\ Anonymize(c)
      /\ UNCHANGED <<requested, clerk, order, receipt, answers, mishaps>>

\* An error: the order is given back, whoever holds it now.
GiveBack(r) ==
  LET o == runner[r].on
  IN  /\ Mishap
      /\ runner[r].at = "scan" \/ runner[r].todo # {}
      /\ order' = IF Processed(o) THEN order ELSE [order EXCEPT ![o].claim = NoOne, ![o].lapsed = FALSE]
      /\ ToPosts(r)
      /\ UNCHANGED <<receipt, answers>>
      /\ Records

\* decide: the verdict from what this runner counted.
Verdict(r) ==
  CASE order[runner[r].on].mode = "full" -> "needs_human"
    [] runner[r].blocked > 0 /\ runner[r].erased = 0 -> "needs_human"
    [] runner[r].blocked > 0 -> "partial"
    [] runner[r].erased = 0 -> "nothing_to_erase"
    [] OTHER -> "done"

\* Mutant: the last transaction does not look whether it was done already.
FinishTwice(r) ==
  LET o == runner[r].on
  IN  /\ runner[r].at = "erase" /\ runner[r].todo = {}
      /\ order' = [order EXCEPT ![o].status = Verdict(r), ![o].claim = NoOne, ![o].lapsed = FALSE]
      /\ receipt' = [receipt EXCEPT ![o] = [status |-> Verdict(r), delivered |-> FALSE]]
      /\ ToPosts(r)
      /\ UNCHANGED <<answers, mishaps>>
      /\ Records

\* The verdict and the receipt, once.
Finish(r) ==
  LET o == runner[r].on
  IN  /\ runner[r].at = "erase" /\ runner[r].todo = {}
      /\ IF Processed(o) THEN UNCHANGED <<order, receipt>>
         ELSE /\ order' = [order EXCEPT ![o].status = Verdict(r), ![o].claim = NoOne, ![o].lapsed = FALSE]
              /\ receipt' = [receipt EXCEPT ![o].status = Verdict(r)]
      /\ ToPosts(r)
      /\ UNCHANGED <<answers, mishaps>>
      /\ Records

\* The last transaction fails: the claim stays until it lapses.
FinishFails(r) ==
  /\ Mishap
  /\ runner[r].at = "erase" /\ runner[r].todo = {}
  /\ ToPosts(r)
  /\ UNCHANGED <<order, receipt, answers>>
  /\ Records

Pending(o) == receipt[o].status # "none" /\ ~receipt[o].delivered

\* The receipt is posted; whether GuestPass took it is known a step later.
PostReceipt(r, o) ==
  /\ runner[r].at = "post"
  /\ Pending(o)
  /\ answers' = [answers EXCEPT ![o] = @ \cup {receipt[o].status}]
  /\ Moves(r, [runner[r] EXCEPT !.at = "mark", !.on = o])
  /\ UNCHANGED <<order, receipt, mishaps>>
  /\ Records

MarkDelivered(r) ==
  /\ runner[r].at = "mark"
  /\ receipt' = [receipt EXCEPT ![runner[r].on].delivered = TRUE]
  /\ ToPosts(r)
  /\ UNCHANGED <<order, answers, mishaps>>
  /\ Records

EndRun(r) ==
  /\ runner[r].at = "post"
  /\ \A o \in Orders : ~Pending(o)
  /\ Moves(r, IdleRunner)
  /\ UNCHANGED <<order, receipt, answers, mishaps>>
  /\ Records

\* GuestPass does not answer: the next run posts again.
PostFails(r) ==
  /\ Mishap
  /\ runner[r].at = "post"
  /\ \E o \in Orders : Pending(o)
  /\ Moves(r, IdleRunner)
  /\ UNCHANGED <<order, receipt, answers>>
  /\ Records

\* A run with nothing on the feed still posts what is pending.
RunForReceipts(r) ==
  /\ runner[r].at = "idle"
  /\ \E o \in Orders : Pending(o)
  /\ ToPosts(r)
  /\ UNCHANGED <<order, receipt, answers, mishaps>>
  /\ Records

RunnerCrashes(r) ==
  /\ Mishap
  /\ runner[r].at # "idle"
  /\ Moves(r, IdleRunner)
  /\ UNCHANGED <<order, receipt, answers>>
  /\ Records

\* Two minutes pass.  Under a runner that works, only a pause lets them.
ClaimLapses(o) ==
  /\ order[o].claim # NoOne /\ ~order[o].lapsed
  /\ LET holder == order[o].claim
     IN  IF runner[holder].on = o /\ runner[holder].at \in {"scan", "erase"}
         THEN Mishap ELSE UNCHANGED mishaps
  /\ order' = [order EXCEPT ![o].lapsed = TRUE]
  /\ UNCHANGED <<receipt, answers, runner>>
  /\ Records

-----------------------------------------------------------------------------
DeskStep ==
  \/ \E s \in Sheets : RequestErasure(s) \/ CompleteErasure(s) \/ RejectErasure(s)
  \/ \E s \in Sheets : UpdateExtras(s) \/ WriteNote(s)
  \/ \E s \in Sheets, c \in Owners : CreateSheet(s, c)
  \/ \E c \in Owners : EditCustomer(c) \/ Hold(c)
  \/ \E k \in Clerks, s \in Sheets : ReadSheet(k, s)
  \/ \E k \in Clerks, c \in Owners : StoreDocument(k, c) \/ MatchForSale(k, c)
  \/ \E k \in Clerks : MarkSold(k) \/ RegisterDocument(k) \/ FormalizeSale(k) \/ SaleRefused(k)

ImportStep ==
  \/ \E k \in Clerks, c \in Owners : ReadForImport(k, c)
  \/ \E k \in Clerks : CommitImport(k) \/ ReadForUndo(k) \/ Restore(k)

\* A step of a runner that goes on with its run.
RunStep(r) ==
  \/ InsertOrder(r) \/ ClaimOrder(r) \/ ScanCustomers(r) \/ Finish(r) \/ MarkDelivered(r)
  \/ RunForReceipts(r) \/ EndRun(r)
  \/ \E c \in Owners : EraseOne(r, c)
  \/ \E o \in Orders : TakeOrder(r, o) \/ PostReceipt(r, o)

FaultStep ==
  \E r \in Runners : GiveBack(r) \/ FinishFails(r) \/ PostFails(r) \/ RunnerCrashes(r)

FeedStep ==
  \/ FaultStep
  \/ \E r \in Runners : RunStep(r)
  \/ \E o \in Orders : ClaimLapses(o)

ErasureNext == DeskStep \/ ImportStep \/ FeedStep

\* The job runs every fifteen minutes and nothing ends a run but a mishap.
ErasureFairness ==
  /\ \A r \in Runners : WF_erasureVars(RunStep(r))
  /\ \A o \in Orders : WF_erasureVars(ClaimLapses(o) /\ mishaps' = mishaps)

ErasureSpec == ErasureInit /\ [][ErasureNext]_erasureVars /\ ErasureFairness

-----------------------------------------------------------------------------
(* What is checked.                                                        *)

\* A customer whom the formalization of a sale wrote after the erasure: it read
\* the customer before and opened a sheet that no erasure has seen.
ReopenedBySale(c) ==
  /\ person[c].held
  /\ \E s \in SheetsOf(c) : sheet[s].byTheSale /\ ~sheet[s].anonymized

\* Once a customer is erased, no writer brings personal data back, in its record or
\* in what an import has copied: neither a clerk that read before, nor the undoing
\* of a batch, nor the birth date written under the lock of a sheet alone.  The one
\* way back is the sheet a stale formalization opened: no other sheet of an erased
\* customer is live, and the erasure of the old ones holds.  A sheet marked VENDEU
\* is never an erased one, whichever came first.
ErasureHolds ==
  /\ \A c \in Owners : person[c].anonymized =>
       /\ c \notin imports.copied
       /\ person[c].personal => ReopenedBySale(c)
       /\ \A s \in SheetsOf(c) : ~sheet[s].anonymized => sheet[s].byTheSale /\ person[c].held
  /\ \A s \in Sheets : sheet[s].anonymized =>
       person[sheet[s].of].anonymized /\ ~sheet[s].personal /\ ~sheet[s].sold

\* What customerAnonymization.ts says: an erased customer receives no personal data
\* again, by any path.
NothingComesBack == \A c \in Owners : person[c].anonymized => ~person[c].personal

\* Every order taken from the feed gets its receipt, whatever failed on the way,
\* and GuestPass is told one verdict for it, the one recorded here, however many
\* runners worked on it and however often the receipt was posted.
FeedIsAnswered ==
  \A o \in Orders :
    (order[o].status # "unknown") ~> [](receipt[o].delivered /\ answers[o] = {order[o].status})
=============================================================================
