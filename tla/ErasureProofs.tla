---------------------------- MODULE ErasureProofs ----------------------------
(***************************************************************************)
(* Theorems of Erasure, for any customers, sheets, orders, runners and     *)
(* clerks.  What is erased stays erased because every writer but one       *)
(* either locks the row that tells (the customer, or a sheet, which is     *)
(* erased with its customer) or looks at it again under that lock; what    *)
(* that one, the formalization, opens holds the customer, so no erasure    *)
(* follows it.  ErasureInv adds what the two rows and the memories of the  *)
(* writers need to look like.                                              *)
(***************************************************************************)
EXTENDS Erasure, FiniteSetTheorems, TLAPS

(* What a runner remembers; the bounds of its counts are of no use here.    *)
Memories == [at : {"idle", "insert", "claim", "scan", "erase", "post", "mark"}, on : Orders \cup {NoOne},
             todo : SUBSET Owners, erased : Int, blocked : Int]

LiveRows == {row \in SheetRows : ~row.anonymized}

StoredRows ==
  /\ person \in [Owners -> [anonymized : BOOLEAN, personal : BOOLEAN, held : BOOLEAN]]
  /\ sheet \in [Sheets -> SheetRows]
  /\ requested \subseteq Sheets
  /\ imports \in [last : Owners \cup {NoOne}, copied : SUBSET Owners]

Hands ==
  /\ runner \in [Runners -> Memories]
  /\ clerk \in [Clerks -> [op : {"idle", "sale", "formalize", "upload", "import", "undo"},
                           on : Sheets \cup Owners \cup {NoOne}]]
  /\ \A k \in Clerks :
       /\ clerk[k].op = "sale" => clerk[k].on \in Sheets /\ sheet[clerk[k].on].of # NoOne
       /\ clerk[k].op \in {"formalize", "upload", "import"} => clerk[k].on \in Owners
       /\ clerk[k].op = "undo" => clerk[k].on \in Owners \cup {NoOne}

(* A sheet nobody has opened yet. *)
Unopened ==
  \A s \in Sheets : sheet[s].of = NoOne => ~sheet[s].anonymized /\ ~sheet[s].sold /\ s \notin requested

ErasureInv == StoredRows /\ Hands /\ Unopened /\ ErasureHolds

-----------------------------------------------------------------------------
(* What every kind of step keeps of the invariant. *)

(* An erasure the law does not bar, of the request or of the feed.          *)
LEMMA AnonymizeKeeps ==
  ASSUME ErasureInv, NEW c \in Owners, Anonymize(c), ~Blocked(c),
         requested' \subseteq requested
  PROVE  /\ StoredRows' /\ Unopened' /\ ErasureHolds'
         /\ \A s \in Sheets : sheet'[s].of = sheet[s].of
<1> USE ErasureAssumption DEF ErasureInv
<1>1. StoredRows'
  <2>1. person' \in [Owners -> [anonymized : BOOLEAN, personal : BOOLEAN, held : BOOLEAN]]
    BY DEF StoredRows, Anonymize
  <2>2. sheet' \in [Sheets -> SheetRows]
    <3>1. ASSUME NEW s \in Sheets
          PROVE  [sheet[s] EXCEPT !.anonymized = TRUE, !.personal = FALSE]
                   \in SheetRows
      <4>1. sheet[s] \in SheetRows
        BY DEF StoredRows
      <4> QED
        BY <4>1 DEF SheetRows
    <3> QED
      BY <3>1 DEF StoredRows, Anonymize
  <2>3. imports' \in [last : Owners \cup {NoOne}, copied : SUBSET Owners]
    BY DEF StoredRows, Anonymize
  <2> QED
    BY <2>1, <2>2, <2>3 DEF StoredRows
<1>2. \A s \in Sheets : sheet'[s] = IF sheet[s].of = c
                                    THEN [sheet[s] EXCEPT !.anonymized = TRUE, !.personal = FALSE]
                                    ELSE sheet[s]
  BY DEF Anonymize, SheetsOf
<1>3. \A s \in Sheets : /\ sheet'[s].of = sheet[s].of
                        /\ sheet'[s].sold = sheet[s].sold
                        /\ sheet'[s].byTheSale = sheet[s].byTheSale
                        /\ sheet[s].of = c => sheet'[s].anonymized /\ ~sheet'[s].personal
  BY <1>2 DEF StoredRows, SheetRows
<1>4. Unopened'
  <2>1. ASSUME NEW s \in Sheets, sheet'[s].of = NoOne
        PROVE  ~sheet'[s].anonymized /\ ~sheet'[s].sold /\ s \notin requested'
    <3>1. sheet[s].of = NoOne /\ sheet[s].of # c
      BY <1>3, <2>1
    <3>2. sheet'[s] = sheet[s]
      BY <1>2, <3>1
    <3> QED
      BY <3>1, <3>2 DEF Unopened
  <2> QED
    BY <2>1 DEF Unopened
<1>5. \A d \in Owners : person'[d] = IF d = c THEN [person[c] EXCEPT !.anonymized = TRUE, !.personal = FALSE]
                                              ELSE person[d]
  BY DEF Anonymize, StoredRows
<1>6. imports'.copied = imports.copied \ {c}
  BY DEF Anonymize, StoredRows
<1>7. ASSUME NEW d \in Owners, person'[d].anonymized
      PROVE  /\ d \notin imports'.copied
             /\ person'[d].personal => ReopenedBySale(d)'
             /\ \A s \in Sheets : sheet'[s].of = d /\ ~sheet'[s].anonymized => sheet'[s].byTheSale /\ person'[d].held
  <2>1. CASE d = c
    <3>1. person'[d] = [person[c] EXCEPT !.anonymized = TRUE, !.personal = FALSE] /\ person[c] \in
            [anonymized : BOOLEAN, personal : BOOLEAN, held : BOOLEAN]
      BY <1>5, <2>1 DEF StoredRows
    <3>2. ~person'[d].personal /\ d \notin imports'.copied
      BY <1>6, <2>1, <3>1
    <3> QED
      BY <1>3, <2>1, <3>2
  <2>2. CASE d # c
    <3>1. person[d].anonymized /\ person'[d] = person[d]
      BY <1>5, <1>7, <2>2
    <3>2. \A s \in Sheets : sheet[s].of = d => sheet'[s] = sheet[s]
      BY <1>2, <2>2
    <3>3. ReopenedBySale(d) => ReopenedBySale(d)'
      BY <1>3, <3>1, <3>2 DEF ReopenedBySale, SheetsOf
    <3> QED
      BY <1>3, <1>6, <3>1, <3>2, <3>3 DEF ErasureHolds, SheetsOf
  <2> QED
    BY <2>1, <2>2
<1>8. ASSUME NEW s \in Sheets, sheet'[s].anonymized
      PROVE  person'[sheet'[s].of].anonymized /\ ~sheet'[s].personal /\ ~sheet'[s].sold
  <2>1. CASE sheet[s].of = c
    <3>1. ~sheet'[s].personal /\ ~sheet'[s].sold
      BY <1>3, <2>1 DEF Blocked, SheetsOf
    <3>2. person'[c] = [person[c] EXCEPT !.anonymized = TRUE, !.personal = FALSE] /\ person[c] \in
            [anonymized : BOOLEAN, personal : BOOLEAN, held : BOOLEAN]
      BY <1>5 DEF StoredRows
    <3>3. person'[c].anonymized
      BY <3>2
    <3> QED
      BY <1>3, <2>1, <3>1, <3>3
  <2>2. CASE sheet[s].of # c
    <3>1. sheet[s].anonymized
      BY <1>2, <1>8, <2>2
    <3>2. sheet[s].of \in Owners
      BY <3>1 DEF Unopened, StoredRows, SheetRows
    <3> QED
      BY <1>2, <1>5, <2>2, <3>1, <3>2 DEF ErasureHolds
  <2> QED
    BY <2>1, <2>2
<1> QED
  BY <1>1, <1>3, <1>4, <1>7, <1>8 DEF ErasureHolds, ReopenedBySale, SheetsOf

(* The request of the titular.                                              *)
LEMMA RequestKeeps ==
  ASSUME ErasureInv, NEW s \in Sheets,
         RequestErasure(s) \/ CompleteErasure(s) \/ RejectErasure(s)
  PROVE  ErasureInv'
<1> USE ErasureAssumption DEF ErasureInv
<1>1. CASE RequestErasure(s)
  BY <1>1 DEF RequestErasure, Office, StoredRows, Hands, Unopened, ErasureHolds, ReopenedBySale, SheetsOf
<1>2. CASE RejectErasure(s)
  BY <1>2 DEF RejectErasure, Office, StoredRows, Hands, Unopened, ErasureHolds, ReopenedBySale, SheetsOf
<1>3. CASE CompleteErasure(s)
  <2>1. sheet[s].of \in Owners
    BY <1>3 DEF CompleteErasure, StoredRows, SheetRows, Unopened
  <2>2. StoredRows' /\ Unopened' /\ ErasureHolds' /\ \A t \in Sheets : sheet'[t].of = sheet[t].of
    BY <1>3, <2>1, AnonymizeKeeps DEF CompleteErasure
  <2>3. Hands'
    BY <1>3, <2>2 DEF CompleteErasure, Office, Hands
  <2> QED
    BY <2>2, <2>3
<1> QED
  BY <1>1, <1>2, <1>3

(* A step that touches no row that is erased, neither erases nor revives.   *)
LEMMA ErasedUntouched ==
  ASSUME StoredRows, Unopened, ErasureHolds,
         \A d \in Owners : /\ person'[d].anonymized = person[d].anonymized
                           /\ person[d].anonymized =>
                                /\ person[d].held => person'[d].held
                                /\ person'[d].personal =>
                                     person[d].personal \/ \E s \in Sheets : sheet[s].of = d /\ ~sheet[s].anonymized
                                /\ d \in imports'.copied => d \in imports.copied,
         \A s \in Sheets : /\ sheet'[s].of = sheet[s].of
                           /\ sheet'[s].byTheSale = sheet[s].byTheSale
                           /\ sheet'[s].anonymized = sheet[s].anonymized
                           /\ sheet[s].anonymized => sheet'[s] = sheet[s]
  PROVE  ErasureHolds'
<1>1. ASSUME NEW d \in Owners, person'[d].anonymized
      PROVE  /\ d \notin imports'.copied
             /\ person'[d].personal => ReopenedBySale(d)'
             /\ \A s \in Sheets : sheet'[s].of = d /\ ~sheet'[s].anonymized => sheet'[s].byTheSale /\ person'[d].held
  <2>1. /\ person[d].anonymized /\ d \notin imports.copied
        /\ person[d].personal => ReopenedBySale(d)
        /\ \A s \in Sheets : sheet[s].of = d /\ ~sheet[s].anonymized => sheet[s].byTheSale /\ person[d].held
    BY <1>1 DEF ErasureHolds, SheetsOf
  <2>2. person'[d].personal => \E s \in Sheets : sheet[s].of = d /\ ~sheet[s].anonymized
    BY <2>1 DEF ReopenedBySale, SheetsOf
  <2>3. person'[d].personal => ReopenedBySale(d)'
    BY <2>1, <2>2 DEF ReopenedBySale, SheetsOf
  <2> QED
    BY <2>1, <2>3
<1>2. ASSUME NEW s \in Sheets, sheet'[s].anonymized
      PROVE  person'[sheet'[s].of].anonymized /\ ~sheet'[s].personal /\ ~sheet'[s].sold
  <2>1. sheet[s].anonymized /\ sheet[s].of \in Owners
    BY <1>2 DEF Unopened, StoredRows, SheetRows
  <2> QED
    BY <2>1 DEF ErasureHolds
<1> QED
  BY <1>1, <1>2 DEF ErasureHolds, SheetsOf

(* Writing to a customer who is not erased.                                 *)
LEMMA OneCustomerWritten ==
  ASSUME StoredRows, NEW c \in Owners, ~person[c].anonymized,
         NEW new \in [anonymized : {FALSE}, personal : BOOLEAN, held : BOOLEAN],
         person' = [person EXCEPT ![c] = new]
  PROVE  /\ person' \in [Owners -> [anonymized : BOOLEAN, personal : BOOLEAN, held : BOOLEAN]]
         /\ \A d \in Owners : /\ person'[d].anonymized = person[d].anonymized
                              /\ person[d].anonymized => person'[d] = person[d]
BY DEF StoredRows

(* Writing to a sheet that is not erased.                                   *)
LEMMA OneSheetWritten ==
  ASSUME StoredRows, NEW s \in Sheets, ~sheet[s].anonymized,
         NEW new \in LiveRows,
         sheet' = [sheet EXCEPT ![s] = new]
  PROVE  /\ sheet' \in [Sheets -> SheetRows]
         /\ \A t \in Sheets : /\ sheet'[t].anonymized = sheet[t].anonymized
                              /\ t # s => sheet'[t] = sheet[t]
                              /\ sheet[t].anonymized => sheet'[t] = sheet[t]
         /\ sheet'[s] = new
BY DEF StoredRows, LiveRows, SheetRows

(* The formalization of a sale, of a customer read before: what it writes   *)
(* holds the customer, and the sheet it opens is one of the sale.           *)
LEMMA FormalizationKeeps ==
  ASSUME ErasureInv, NEW k \in Clerks, FormalizeSale(k)
  PROVE  ErasureInv'
<1> USE ErasureAssumption DEF ErasureInv
<1> DEFINE c == clerk[k].on
<1>1. /\ c \in Owners /\ clerk' = [clerk EXCEPT ![k] = IdleClerk]
      /\ person' = [person EXCEPT ![c].held = TRUE]
      /\ UNCHANGED <<requested, runner, imports>>
  BY DEF FormalizeSale, Hands, Writer
<1>2. /\ person' \in [Owners -> [anonymized : BOOLEAN, personal : BOOLEAN, held : BOOLEAN]]
      /\ person'[c].held
      /\ \A d \in Owners : /\ person'[d].anonymized = person[d].anonymized
                           /\ person'[d].personal = person[d].personal
                           /\ person[d].held => person'[d].held
  BY <1>1 DEF StoredRows
<1>3. CASE UNCHANGED sheet
  <2>1. ErasureHolds'
    BY <1>1, <1>2, <1>3, ErasedUntouched
  <2> QED
    BY <1>1, <1>2, <1>3, <2>1 DEF StoredRows, Hands, Unopened, IdleClerk
<1>4. ASSUME NEW s \in Sheets, sheet[s].of = NoOne,
             sheet' = [sheet EXCEPT ![s] = [@ EXCEPT !.of = c, !.personal = TRUE, !.byTheSale = TRUE]]
      PROVE  ErasureInv'
  <2> DEFINE new == [sheet[s] EXCEPT !.of = c, !.personal = TRUE, !.byTheSale = TRUE]
  <2>1. new \in LiveRows /\ new.of = c /\ new.byTheSale /\ ~sheet[s].anonymized
    <3>1. sheet[s] \in SheetRows /\ ~sheet[s].anonymized
      BY <1>4 DEF StoredRows, Unopened
    <3>2. c \in Owners
      BY <1>1
    <3> QED
      BY <3>1, <3>2 DEF SheetRows, LiveRows
  <2>2. /\ sheet' \in [Sheets -> SheetRows]
        /\ \A t \in Sheets : t # s => sheet'[t] = sheet[t]
        /\ sheet'[s] = new /\ ~sheet'[s].anonymized
    BY <1>4, <2>1, OneSheetWritten
  <2>3. StoredRows' /\ Hands' /\ Unopened'
    BY <1>1, <1>2, <1>4, <2>1, <2>2 DEF StoredRows, Hands, Unopened, IdleClerk
  <2>4. \A d \in Owners : ReopenedBySale(d) => ReopenedBySale(d)'
    BY <1>2, <1>4, <2>2 DEF ReopenedBySale, SheetsOf
  <2>5. \A t \in Sheets : sheet'[t].anonymized => sheet'[t] = sheet[t] /\ sheet[t].of \in Owners
    BY <2>2 DEF Unopened, StoredRows, SheetRows
  <2>6. ASSUME NEW d \in Owners, person'[d].anonymized
        PROVE  /\ d \notin imports'.copied
               /\ person'[d].personal => ReopenedBySale(d)'
               /\ \A t \in Sheets : sheet'[t].of = d /\ ~sheet'[t].anonymized =>
                    sheet'[t].byTheSale /\ person'[d].held
    <3>1. /\ person[d].anonymized /\ d \notin imports'.copied
          /\ person'[d].personal => ReopenedBySale(d)'
          /\ \A t \in Sheets : sheet[t].of = d /\ ~sheet[t].anonymized => sheet[t].byTheSale /\ person[d].held
      BY <1>1, <1>2, <2>4, <2>6 DEF ErasureHolds, SheetsOf
    <3>2. ASSUME NEW t \in Sheets, sheet'[t].of = d, ~sheet'[t].anonymized
          PROVE  sheet'[t].byTheSale /\ person'[d].held
      <4>1. CASE t = s
        BY <1>2, <2>1, <2>2, <3>2, <4>1
      <4>2. CASE t # s
        BY <1>2, <2>2, <3>1, <3>2, <4>2
      <4> QED
        BY <4>1, <4>2
    <3> QED
      BY <3>1, <3>2
  <2>7. ErasureHolds'
    BY <1>2, <2>5, <2>6 DEF ErasureHolds, SheetsOf
  <2> QED
    BY <2>3, <2>7
<1> QED
  BY <1>3, <1>4 DEF FormalizeSale

(* The writers of the reception and of the back office.                     *)
LEMMA DeskKeeps ==
  ASSUME ErasureInv, DeskStep
  PROVE  ErasureInv'
<1> USE ErasureAssumption DEF ErasureInv
<1>1. ASSUME NEW s \in Sheets, RequestErasure(s) \/ CompleteErasure(s) \/ RejectErasure(s)
      PROVE  ErasureInv'
  BY <1>1, RequestKeeps
<1>2. ASSUME NEW s \in Sheets, UpdateExtras(s) \/ WriteNote(s)
      PROVE  ErasureInv'
  <2> DEFINE c == sheet[s].of
             newSheet == [sheet[s] EXCEPT !.personal = TRUE]
             newPerson == [person[c] EXCEPT !.personal = TRUE]
  <2>1. /\ sheet' = [sheet EXCEPT ![s] = newSheet]
        /\ person' = person \/ person' = [person EXCEPT ![c] = newPerson]
        /\ ~sheet[s].anonymized /\ c \in Owners
        /\ UNCHANGED <<requested, runner, clerk, imports>>
    BY <1>2 DEF UpdateExtras, WriteNote, Writer, StoredRows, SheetRows
  <2>2. /\ newSheet \in LiveRows
        /\ newSheet.of = sheet[s].of /\ newSheet.sold = sheet[s].sold /\ newSheet.byTheSale = sheet[s].byTheSale
    <3>1. sheet[s] \in SheetRows
      BY DEF StoredRows
    <3> QED
      BY <2>1, <3>1 DEF SheetRows, LiveRows
  <2>3. /\ person' \in [Owners -> [anonymized : BOOLEAN, personal : BOOLEAN, held : BOOLEAN]]
        /\ \A d \in Owners : /\ person'[d].anonymized = person[d].anonymized
                             /\ person'[d].held = person[d].held
                             /\ d # c => person'[d] = person[d]
    <3>1. CASE person' = person
      BY <3>1 DEF StoredRows
    <3>2. CASE person' = [person EXCEPT ![c] = newPerson]
      BY <2>1, <3>2 DEF StoredRows
    <3> QED
      BY <2>1, <3>1, <3>2
  <2>4. /\ sheet' \in [Sheets -> SheetRows]
        /\ \A t \in Sheets : /\ sheet'[t].anonymized = sheet[t].anonymized
                             /\ t # s => sheet'[t] = sheet[t]
                             /\ sheet[t].anonymized => sheet'[t] = sheet[t]
        /\ sheet'[s] = newSheet
    BY <2>1, <2>2, OneSheetWritten
  <2>5. \A t \in Sheets : /\ sheet'[t].of = sheet[t].of /\ sheet'[t].sold = sheet[t].sold
                          /\ sheet'[t].byTheSale = sheet[t].byTheSale
    BY <2>2, <2>4
  <2>6. \A d \in Owners : person'[d].personal =>
          person[d].personal \/ \E t \in Sheets : sheet[t].of = d /\ ~sheet[t].anonymized
    BY <2>1, <2>3
  <2>7. ErasureHolds'
    BY <2>1, <2>3, <2>4, <2>5, <2>6, ErasedUntouched
  <2>8. StoredRows' /\ Hands' /\ Unopened'
    BY <2>1, <2>3, <2>4, <2>5 DEF StoredRows, Hands, Unopened
  <2> QED
    BY <2>7, <2>8
<1>3. ASSUME NEW s \in Sheets, NEW c \in Owners, CreateSheet(s, c)
      PROVE  ErasureInv'
  <2> DEFINE new == [sheet[s] EXCEPT !.of = c, !.personal = TRUE]
  <2>1. /\ sheet' = [sheet EXCEPT ![s] = new]
        /\ ~person[c].anonymized /\ sheet[s].of = NoOne
        /\ UNCHANGED <<person, requested, runner, clerk, imports>>
    BY <1>3 DEF CreateSheet, Writer
  <2>2. new \in LiveRows
        /\ new.of = c /\ ~sheet[s].anonymized
    <3>1. sheet[s] \in SheetRows /\ ~sheet[s].anonymized
      BY <2>1 DEF StoredRows, Unopened
    <3> QED
      BY <3>1 DEF SheetRows, LiveRows
  <2>3. /\ sheet' \in [Sheets -> SheetRows]
        /\ \A t \in Sheets : t # s => sheet'[t] = sheet[t]
        /\ sheet'[s] = new /\ ~sheet'[s].anonymized
    BY <2>1, <2>2, OneSheetWritten
  <2>4. StoredRows' /\ Hands' /\ Unopened'
    BY <2>1, <2>2, <2>3 DEF StoredRows, Hands, Unopened
  <2>5. ErasureHolds'
    <3>1. \A d \in Owners : ReopenedBySale(d) => ReopenedBySale(d)'
      BY <2>1, <2>3 DEF ReopenedBySale, SheetsOf
    <3> QED
      BY <2>1, <2>2, <2>3, <3>1 DEF ErasureHolds, SheetsOf
  <2> QED
    BY <2>4, <2>5
<1>4. ASSUME NEW c \in Owners, EditCustomer(c)
      PROVE  ErasureInv'
  <2> DEFINE new == [person[c] EXCEPT !.personal = TRUE]
  <2>1. /\ person' = [person EXCEPT ![c] = new] /\ ~person[c].anonymized
        /\ UNCHANGED <<sheet, requested, runner, clerk, imports>>
    BY <1>4 DEF EditCustomer, Writer
  <2>2. new \in [anonymized : {FALSE}, personal : BOOLEAN, held : BOOLEAN]
    BY <2>1 DEF StoredRows
  <2>3. /\ person' \in [Owners -> [anonymized : BOOLEAN, personal : BOOLEAN, held : BOOLEAN]]
        /\ \A d \in Owners : /\ person'[d].anonymized = person[d].anonymized
                             /\ person[d].anonymized => person'[d] = person[d]
    BY <2>1, <2>2, OneCustomerWritten
  <2> QED
    BY <2>1, <2>3, ErasedUntouched DEF StoredRows, Hands, Unopened
<1>5. ASSUME NEW c \in Owners, Hold(c)
      PROVE  ErasureInv'
  <2>1. /\ person' = [person EXCEPT ![c].held = TRUE]
        /\ UNCHANGED <<sheet, requested, runner, clerk, imports>>
    BY <1>5 DEF Hold, Writer
  <2>2. /\ person' \in [Owners -> [anonymized : BOOLEAN, personal : BOOLEAN, held : BOOLEAN]]
        /\ \A d \in Owners : /\ person'[d].anonymized = person[d].anonymized
                             /\ person'[d].personal = person[d].personal
                             /\ person[d].held => person'[d].held
    BY <2>1 DEF StoredRows
  <2> QED
    BY <2>1, <2>2, ErasedUntouched DEF StoredRows, Hands, Unopened
<1>6. ASSUME NEW k \in Clerks, NEW s \in Sheets, ReadSheet(k, s)
      PROVE  ErasureInv'
  BY <1>6 DEF ReadSheet, Writer, StoredRows, Hands, Unopened, ErasureHolds, ReopenedBySale, SheetsOf
<1>7. ASSUME NEW k \in Clerks, NEW c \in Owners, StoreDocument(k, c)
      PROVE  ErasureInv'
  BY <1>7 DEF StoreDocument, Writer, StoredRows, Hands, Unopened, ErasureHolds, ReopenedBySale, SheetsOf
<1>8. ASSUME NEW k \in Clerks, MarkSold(k)
      PROVE  ErasureInv'
  <2> DEFINE s == clerk[k].on
             new == [sheet[s] EXCEPT !.sold = TRUE]
  <2>1. /\ s \in Sheets /\ sheet[s].of # NoOne
        /\ clerk' = [clerk EXCEPT ![k] = IdleClerk]
        /\ sheet' = IF sheet[s].anonymized THEN sheet ELSE [sheet EXCEPT ![s] = new]
        /\ UNCHANGED <<person, requested, runner, imports>>
    BY <1>8 DEF MarkSold, Hands, Writer
  <2>2. CASE sheet[s].anonymized
    BY <2>1, <2>2 DEF StoredRows, Hands, Unopened, ErasureHolds, ReopenedBySale, SheetsOf, IdleClerk
  <2>3. CASE ~sheet[s].anonymized
    <3>1. new \in LiveRows
          /\ new.of = sheet[s].of /\ new.byTheSale = sheet[s].byTheSale
      <4>1. sheet[s] \in SheetRows
        BY <2>1 DEF StoredRows
      <4> QED
        BY <4>1, <2>3 DEF SheetRows, LiveRows
    <3>2. /\ sheet' \in [Sheets -> SheetRows]
          /\ \A t \in Sheets : /\ sheet'[t].anonymized = sheet[t].anonymized
                               /\ sheet'[t].of = sheet[t].of
                               /\ sheet'[t].byTheSale = sheet[t].byTheSale
                               /\ t # s => sheet'[t] = sheet[t]
                               /\ sheet[t].anonymized => sheet'[t] = sheet[t]
      BY <2>1, <2>3, <3>1, OneSheetWritten
    <3>3. ErasureHolds'
      BY <2>1, <3>2, ErasedUntouched
    <3>4. StoredRows' /\ Unopened'
      BY <2>1, <3>2 DEF StoredRows, Unopened
    <3>5. Hands'
      BY <2>1, <3>2 DEF Hands, IdleClerk
    <3> QED
      BY <3>3, <3>4, <3>5
  <2> QED
    BY <2>2, <2>3
<1>9. ASSUME NEW k \in Clerks, RegisterDocument(k)
      PROVE  ErasureInv'
  <2> DEFINE c == clerk[k].on
             new == [person[c] EXCEPT !.held = TRUE, !.personal = TRUE]
  <2>1. /\ c \in Owners
        /\ clerk' = [clerk EXCEPT ![k] = IdleClerk]
        /\ person' = IF person[c].anonymized THEN person ELSE [person EXCEPT ![c] = new]
        /\ UNCHANGED <<sheet, requested, runner, imports>>
    BY <1>9 DEF RegisterDocument, Hands, Writer
  <2>2. /\ person' \in [Owners -> [anonymized : BOOLEAN, personal : BOOLEAN, held : BOOLEAN]]
        /\ \A d \in Owners : /\ person'[d].anonymized = person[d].anonymized
                             /\ person[d].anonymized => person'[d] = person[d]
    <3>1. ~person[c].anonymized => new \in [anonymized : {FALSE}, personal : BOOLEAN, held : BOOLEAN]
      BY <2>1 DEF StoredRows
    <3> QED
      BY <2>1, <3>1, OneCustomerWritten DEF StoredRows
  <2>3. ErasureHolds'
    BY <2>1, <2>2, ErasedUntouched
  <2> QED
    BY <2>1, <2>2, <2>3 DEF StoredRows, Hands, Unopened, IdleClerk
<1>10. ASSUME NEW k \in Clerks, NEW c \in Owners, MatchForSale(k, c)
       PROVE  ErasureInv'
  BY <1>10 DEF MatchForSale, Writer, StoredRows, Hands, Unopened, ErasureHolds, ReopenedBySale, SheetsOf
<1>11. ASSUME NEW k \in Clerks, SaleRefused(k)
       PROVE  ErasureInv'
  BY <1>11 DEF SaleRefused, IdleClerk, Writer, StoredRows, Hands, Unopened, ErasureHolds, ReopenedBySale, SheetsOf
<1>12. ASSUME NEW k \in Clerks, FormalizeSale(k)
       PROVE  ErasureInv'
  BY <1>12, FormalizationKeeps
<1> QED
  BY <1>1, <1>2, <1>3, <1>4, <1>5, <1>6, <1>7, <1>8, <1>9, <1>10, <1>11, <1>12 DEF DeskStep

(* An import and its undoing.                                               *)
LEMMA ImportKeeps ==
  ASSUME ErasureInv, ImportStep
  PROVE  ErasureInv'
<1> USE ErasureAssumption DEF ErasureInv
<1>1. ASSUME NEW k \in Clerks, NEW c \in Owners, ReadForImport(k, c)
      PROVE  ErasureInv'
  BY <1>1 DEF ReadForImport, Writer, StoredRows, Hands, Unopened, ErasureHolds, ReopenedBySale, SheetsOf
<1>2. ASSUME NEW k \in Clerks, ReadForUndo(k)
      PROVE  ErasureInv'
  <2>1. clerk' \in [Clerks -> [op : {"idle", "sale", "formalize", "upload", "import", "undo"},
                              on : Sheets \cup Owners \cup {NoOne}]]
        /\ clerk'[k].op = "undo" /\ clerk'[k].on \in Owners \cup {NoOne}
        /\ \A j \in Clerks : j # k => clerk'[j] = clerk[j]
    BY <1>2 DEF ReadForUndo, Hands, StoredRows
  <2>2. UNCHANGED <<person, sheet, imports, requested, runner>>
    BY <1>2 DEF ReadForUndo, Writer
  <2> QED
    BY <2>1, <2>2 DEF StoredRows, Hands, Unopened, ErasureHolds, ReopenedBySale, SheetsOf
<1>3. ASSUME NEW k \in Clerks, CommitImport(k)
      PROVE  ErasureInv'
  <2> DEFINE c == clerk[k].on
             new == [person[c] EXCEPT !.personal = TRUE]
  <2>1. /\ c \in Owners
        /\ clerk' = [clerk EXCEPT ![k] = IdleClerk]
        /\ UNCHANGED <<sheet, requested, runner>>
    BY <1>3 DEF CommitImport, Hands, Writer
  <2>2. CASE person[c].anonymized
    BY <1>3, <2>1, <2>2 DEF CommitImport, StoredRows, Hands, Unopened, ErasureHolds, ReopenedBySale, SheetsOf, IdleClerk
  <2>3. CASE ~person[c].anonymized
    <3>1. /\ person' = [person EXCEPT ![c] = new]
          /\ imports' = [last |-> c, copied |-> imports.copied \cup {c}]
      BY <1>3, <2>3 DEF CommitImport
    <3>2. new \in [anonymized : {FALSE}, personal : BOOLEAN, held : BOOLEAN]
      BY <2>1, <2>3 DEF StoredRows
    <3>3. /\ person' \in [Owners -> [anonymized : BOOLEAN, personal : BOOLEAN, held : BOOLEAN]]
          /\ \A d \in Owners : /\ person'[d].anonymized = person[d].anonymized
                               /\ person[d].anonymized => person'[d] = person[d]
      BY <2>1, <2>3, <3>1, <3>2, OneCustomerWritten
    <3>4. imports'.copied = imports.copied \cup {c} /\ imports.copied \subseteq Owners
      BY <3>1 DEF StoredRows
    <3>5. ErasureHolds'
      <4>1. \A d \in Owners : /\ person'[d].anonymized = person[d].anonymized
                              /\ person[d].anonymized => /\ person'[d].personal = person[d].personal
                                                         /\ person[d].held => person'[d].held
                                                         /\ d \in imports'.copied => d \in imports.copied
        BY <2>3, <3>3, <3>4
      <4>2. \A s \in Sheets : /\ sheet'[s].of = sheet[s].of
                              /\ sheet'[s].byTheSale = sheet[s].byTheSale
                              /\ sheet'[s].anonymized = sheet[s].anonymized
                              /\ sheet[s].anonymized => sheet'[s] = sheet[s]
        BY <2>1
      <4> QED
        BY <4>1, <4>2, ErasedUntouched
    <3> QED
      BY <2>1, <3>1, <3>3, <3>5 DEF StoredRows, Hands, Unopened, IdleClerk
  <2> QED
    BY <2>2, <2>3
<1>4. ASSUME NEW k \in Clerks, Restore(k)
      PROVE  ErasureInv'
  <2> DEFINE c == clerk[k].on
             new == [person[c] EXCEPT !.personal = TRUE]
  <2>1. /\ c \in Owners \cup {NoOne}
        /\ clerk' = [clerk EXCEPT ![k] = IdleClerk]
        /\ person' = IF c = NoOne \/ person[c].anonymized THEN person ELSE [person EXCEPT ![c] = new]
        /\ imports' = [imports EXCEPT !.last = NoOne]
        /\ UNCHANGED <<sheet, requested, runner>>
    BY <1>4 DEF Restore, Hands, Writer
  <2>2. /\ person' \in [Owners -> [anonymized : BOOLEAN, personal : BOOLEAN, held : BOOLEAN]]
        /\ \A d \in Owners : /\ person'[d].anonymized = person[d].anonymized
                             /\ person[d].anonymized => person'[d] = person[d]
    <3>1. CASE c = NoOne \/ person[c].anonymized
      BY <2>1, <3>1 DEF StoredRows
    <3>2. CASE c # NoOne /\ ~person[c].anonymized
      <4>1. c \in Owners /\ new \in [anonymized : {FALSE}, personal : BOOLEAN, held : BOOLEAN]
        BY <2>1, <3>2 DEF StoredRows
      <4> QED
        BY <2>1, <3>2, <4>1, OneCustomerWritten
    <3> QED
      BY <3>1, <3>2
  <2>3. imports' \in [last : Owners \cup {NoOne}, copied : SUBSET Owners] /\ imports'.copied = imports.copied
    BY <2>1 DEF StoredRows
  <2>4. ErasureHolds'
    <3>1. \A d \in Owners : /\ person'[d].anonymized = person[d].anonymized
                            /\ person[d].anonymized => /\ person'[d].personal = person[d].personal
                                                       /\ person[d].held => person'[d].held
                                                       /\ d \in imports'.copied => d \in imports.copied
      BY <2>2, <2>3
    <3>2. \A s \in Sheets : /\ sheet'[s].of = sheet[s].of
                            /\ sheet'[s].byTheSale = sheet[s].byTheSale
                            /\ sheet'[s].anonymized = sheet[s].anonymized
                            /\ sheet[s].anonymized => sheet'[s] = sheet[s]
      BY <2>1
    <3> QED
      BY <3>1, <3>2, ErasedUntouched
  <2> QED
    BY <2>1, <2>2, <2>3, <2>4 DEF StoredRows, Hands, Unopened, IdleClerk
<1> QED
  BY <1>1, <1>2, <1>3, <1>4 DEF ImportStep

(* A runner between two transactions: only its memory of the customers and  *)
(* of the order moves.                                                      *)
LEMMA RunnerMoves ==
  ASSUME ErasureInv, NEW r \in Runners, NEW f \in Memories, Moves(r, f), Records
  PROVE  ErasureInv'
BY DEF ErasureInv, Moves, Records, StoredRows, Hands, Unopened, ErasureHolds, ReopenedBySale, SheetsOf

(* The memories a runner moves to.                                          *)
LEMMA MemoryTypes ==
  ASSUME Hands, NEW r \in Runners,
         NEW at \in {"idle", "insert", "claim", "scan", "erase", "post", "mark"}, NEW o \in Orders \cup {NoOne}
  PROVE  /\ runner[r] \in Memories
         /\ IdleRunner \in Memories
         /\ [IdleRunner EXCEPT !.at = "post"] \in Memories
         /\ [IdleRunner EXCEPT !.on = o, !.at = at] \in Memories
         /\ [runner[r] EXCEPT !.at = at] \in Memories
         /\ [runner[r] EXCEPT !.at = at, !.on = o] \in Memories
         /\ \A F \in SUBSET Owners : [runner[r] EXCEPT !.at = at, !.todo = F] \in Memories
<1>1. runner[r] \in Memories
  BY DEF Hands
<1>2. IdleRunner \in Memories
  BY DEF IdleRunner, Memories
<1> QED
  BY <1>1, <1>2 DEF Memories

(* The job of the feed.                                                     *)
LEMMA FeedKeeps ==
  ASSUME ErasureInv, FeedStep
  PROVE  ErasureInv'
<1> USE ErasureAssumption
<1>0. Hands
  BY DEF ErasureInv
<1>1. ASSUME NEW r \in Runners, NEW o \in Orders, TakeOrder(r, o) \/ PostReceipt(r, o)
      PROVE  ErasureInv'
  BY <1>0, <1>1, MemoryTypes, RunnerMoves DEF TakeOrder, PostReceipt, ToPosts
<1>2. ASSUME NEW r \in Runners,
             InsertOrder(r) \/ ClaimOrder(r) \/ MarkDelivered(r) \/ RunForReceipts(r) \/ EndRun(r)
      PROVE  ErasureInv'
  BY <1>0, <1>2, MemoryTypes, RunnerMoves
     DEF InsertOrder, ClaimOrder, MarkDelivered, RunForReceipts, EndRun, RunnerTo, ToPosts
<1>3. ASSUME NEW r \in Runners, ScanCustomers(r) \/ Finish(r)
      PROVE  ErasureInv'
  BY <1>0, <1>3, MemoryTypes, RunnerMoves DEF ScanCustomers, Finish, ToPosts
<1>4. ASSUME NEW r \in Runners, GiveBack(r) \/ FinishFails(r) \/ PostFails(r) \/ RunnerCrashes(r)
      PROVE  ErasureInv'
  BY <1>0, <1>4, MemoryTypes, RunnerMoves DEF GiveBack, FinishFails, PostFails, RunnerCrashes, ToPosts
<1>5. ASSUME NEW o \in Orders, ClaimLapses(o)
      PROVE  ErasureInv'
  BY <1>5 DEF ClaimLapses, Records, ErasureInv, StoredRows, Hands, Unopened, ErasureHolds, ReopenedBySale, SheetsOf
<1>6. ASSUME NEW r \in Runners, NEW c \in Owners, EraseOne(r, c)
      PROVE  ErasureInv'
  <2> DEFINE left == [runner[r] EXCEPT !.todo = @ \ {c}]
  <2>1. left \in Memories /\ [left EXCEPT !.blocked = @ + 1] \in Memories
        /\ [left EXCEPT !.erased = @ + 1] \in Memories
    <3>1. runner[r] \in Memories
      BY <1>0 DEF Hands
    <3>2. left \in Memories
      BY <3>1 DEF Memories
    <3>3. left.blocked + 1 \in Int /\ left.erased + 1 \in Int
      BY <3>2 DEF Memories
    <3> HIDE DEF left
    <3> QED
      BY <3>2, <3>3 DEF Memories
  <2>2. CASE UNCHANGED <<person, sheet, imports>>
    <3>1. Records
      BY <1>6, <2>2 DEF EraseOne, Records
    <3>2. \E f \in Memories : Moves(r, f)
      BY <1>6, <2>1 DEF EraseOne
    <3> QED
      BY <3>1, <3>2, RunnerMoves
  <2>3. CASE ~Blocked(c) /\ Anonymize(c) /\ Moves(r, [left EXCEPT !.erased = @ + 1])
    <3>1. UNCHANGED <<requested, clerk>>
      BY <1>6 DEF EraseOne
    <3>2. StoredRows' /\ Unopened' /\ ErasureHolds' /\ \A t \in Sheets : sheet'[t].of = sheet[t].of
      BY <2>3, <3>1, AnonymizeKeeps
    <3>3. Hands'
      BY <1>0, <2>1, <2>3, <3>1, <3>2 DEF Hands, Moves
    <3> QED
      BY <3>2, <3>3 DEF ErasureInv
  <2> QED
    BY <1>6, <2>2, <2>3 DEF EraseOne
<1> QED
  BY <1>1, <1>2, <1>3, <1>4, <1>5, <1>6 DEF FeedStep, FaultStep, RunStep

LEMMA ErasureInvariant ==
  /\ ErasureInit => ErasureInv
  /\ ErasureInv /\ [ErasureNext]_erasureVars => ErasureInv'
<1>1. ErasureInit => ErasureInv
  BY ErasureAssumption DEF ErasureInit, ErasureInv, StoredRows, Hands, Unopened, ErasureHolds, ReopenedBySale, SheetsOf,
     IdleRunner, IdleClerk, Memories, SheetRows
<1>2. ErasureInv /\ [ErasureNext]_erasureVars => ErasureInv'
  <2> SUFFICES ASSUME ErasureInv, [ErasureNext]_erasureVars
               PROVE  ErasureInv'
    OBVIOUS
  <2>1. CASE UNCHANGED erasureVars
    BY <2>1 DEF erasureVars, ErasureInv, StoredRows, Hands, Unopened, ErasureHolds, ReopenedBySale, SheetsOf
  <2> QED
    BY <2>1, DeskKeeps, ImportKeeps, FeedKeeps DEF ErasureNext
<1> QED
  BY <1>1, <1>2

-----------------------------------------------------------------------------
(* The types: what a runner counts is of customers it has taken from its    *)
(* list, so the counts and the list together never exceed the customers.    *)

OrderRows == [mode : {"minimal", "full"}, status : Verdicts \cup {"unknown", "received"},
              claim : Runners \cup {NoOne}, lapsed : BOOLEAN]
ReceiptRows == [status : Verdicts \cup {"none"}, delivered : BOOLEAN]

FeedTyped ==
  /\ order \in [Orders -> OrderRows] /\ receipt \in [Orders -> ReceiptRows]
  /\ answers \in [Orders -> SUBSET Verdicts] /\ mishaps \in 0..MaxMishaps

MemoryOK(m) ==
  /\ m \in Memories /\ m.erased \in Nat /\ m.blocked \in Nat
  /\ m.erased + m.blocked + Cardinality(m.todo) <= Cardinality(Owners)
  /\ m.at # "erase" => m.todo = {} /\ m.erased = 0 /\ m.blocked = 0
  /\ m.at \notin {"idle", "post"} => m.on \in Orders

FeedInv == FeedTyped /\ \A r \in Runners : MemoryOK(runner[r])

LEMMA OwnersCount ==
  /\ Cardinality(Owners) \in Nat /\ Cardinality({}) = 0
  /\ \A F \in SUBSET Owners : Cardinality(F) \in Nat /\ Cardinality(F) <= Cardinality(Owners)
  BY ErasureBounds, FS_Subset, FS_CardinalityType, FS_EmptySet

LEMMA IdleMemories ==
  /\ MemoryOK(IdleRunner) /\ MemoryOK([IdleRunner EXCEPT !.at = "post"])
  /\ \A o \in Orders, at \in {"insert", "claim"} : MemoryOK([IdleRunner EXCEPT !.on = o, !.at = at])
<1>1. /\ IdleRunner \in Memories /\ IdleRunner.at = "idle" /\ IdleRunner.todo = {}
      /\ IdleRunner.erased = 0 /\ IdleRunner.blocked = 0
  BY DEF IdleRunner, Memories
<1>2. MemoryOK(IdleRunner)
  BY <1>1, OwnersCount DEF MemoryOK
<1>3. MemoryOK([IdleRunner EXCEPT !.at = "post"])
  <2> DEFINE m == [IdleRunner EXCEPT !.at = "post"]
  <2>1. m \in Memories /\ m.at = "post" /\ m.todo = {} /\ m.erased = 0 /\ m.blocked = 0
    BY <1>1 DEF Memories
  <2> HIDE DEF m
  <2>2. MemoryOK(m)
    BY <2>1, OwnersCount DEF MemoryOK
  <2> QED
    BY <2>2 DEF m
<1>4. ASSUME NEW o \in Orders, NEW at \in {"insert", "claim"}
      PROVE  MemoryOK([IdleRunner EXCEPT !.on = o, !.at = at])
  <2> DEFINE m == [IdleRunner EXCEPT !.on = o, !.at = at]
  <2>1. m \in Memories /\ m.at = at /\ m.on = o /\ m.todo = {} /\ m.erased = 0 /\ m.blocked = 0
    BY <1>1 DEF Memories
  <2> HIDE DEF m
  <2>2. MemoryOK(m)
    BY <2>1, OwnersCount DEF MemoryOK
  <2> QED
    BY <2>2 DEF m
<1> QED
  BY <1>2, <1>3, <1>4

(* A runner moves, and the feed is written as its rows allow. *)
LEMMA FeedWritten ==
  ASSUME \A r \in Runners : MemoryOK(runner[r]), FeedTyped', NEW r \in Runners, NEW f, MemoryOK(f), Moves(r, f),
         runner \in [Runners -> Memories]
  PROVE  FeedInv'
<1>1. \A q \in Runners : runner'[q] = IF q = r THEN f ELSE runner[q]
  BY DEF Moves
<1>2. \A q \in Runners : MemoryOK(runner'[q])
  BY <1>1
<1> QED
  BY <1>2 DEF FeedInv, MemoryOK

LEMMA OrderWritten ==
  ASSUME FeedTyped, NEW o \in Orders, NEW row \in OrderRows, order' = [order EXCEPT ![o] = row]
  PROVE  order' \in [Orders -> OrderRows]
  BY DEF FeedTyped

LEMMA VerdictType ==
  ASSUME NEW r \in Runners
  PROVE  Verdict(r) \in Verdicts
  BY DEF Verdict, Verdicts

LEMMA FeedStepKeeps ==
  ASSUME FeedInv, runner \in [Runners -> Memories], NEW r \in Runners, RunStep(r)
  PROVE  FeedInv'
<1> DEFINE m == runner[r]
           o == m.on
<1>0. MemoryOK(m) /\ FeedTyped /\ (\A q \in Runners : MemoryOK(runner[q]))
  BY DEF FeedInv
<1>1. ASSUME NEW p \in Orders, TakeOrder(r, p) PROVE FeedInv'
  <2>1. FeedTyped'
    BY <1>0, <1>1 DEF TakeOrder, FeedTyped
  <2>2. \E f : MemoryOK(f) /\ Moves(r, f)
    BY <1>1, IdleMemories DEF TakeOrder, ToPosts
  <2> QED
    BY <1>0, <2>1, <2>2, FeedWritten
<1>2. CASE InsertOrder(r)
  <2>1. m.at = "insert" /\ o \in Orders
    BY <1>0, <1>2 DEF InsertOrder, MemoryOK
  <2> DEFINE f == [m EXCEPT !.at = "claim"]
  <2>2. MemoryOK(f) /\ Moves(r, f)
    BY <1>0, <1>2, <2>1, OwnersCount DEF InsertOrder, RunnerTo, MemoryOK, Memories
  <2>3. order' \in [Orders -> OrderRows]
    <3> DEFINE row == [order[o] EXCEPT !.status = "received"]
    <3>1. order[o] \in OrderRows /\ row \in OrderRows
      BY <1>0, <2>1 DEF FeedTyped, OrderRows
    <3>2. order' = order \/ order' = [order EXCEPT ![o] = row]
      BY <1>2 DEF InsertOrder
    <3> HIDE DEF row
    <3> QED
      BY <1>0, <2>1, <3>1, <3>2, OrderWritten DEF FeedTyped
  <2>4. FeedTyped'
    BY <1>0, <1>2, <2>3 DEF InsertOrder, FeedTyped
  <2> HIDE DEF f
  <2> QED
    BY <1>0, <2>2, <2>4, FeedWritten
<1>3. CASE ClaimOrder(r)
  <2>1. m.at = "claim" /\ o \in Orders
    BY <1>0, <1>3 DEF ClaimOrder, MemoryOK
  <2>2. CASE ToPosts(r) /\ order' = order
    <3>1. FeedTyped'
      BY <1>0, <1>3, <2>2 DEF ClaimOrder, FeedTyped
    <3> QED
      BY <1>0, <2>2, <3>1, IdleMemories, FeedWritten DEF ToPosts
  <2>3. CASE RunnerTo(r, "scan") /\ order' = [order EXCEPT ![o].claim = r, ![o].lapsed = FALSE]
    <3> DEFINE f == [m EXCEPT !.at = "scan"]
               row == [order[o] EXCEPT !.claim = r, !.lapsed = FALSE]
    <3>1. MemoryOK(f)
      BY <1>0, <2>1, OwnersCount DEF MemoryOK, Memories
    <3>6. Moves(r, f)
      BY <2>3 DEF RunnerTo
    <3>7. order[o] \in OrderRows
      BY <1>0, <2>1 DEF FeedTyped
    <3>2. order[o] \in OrderRows /\ row \in OrderRows
      BY <3>7 DEF OrderRows
    <3>3. order' = [order EXCEPT ![o] = row]
      BY <1>0, <2>1, <2>3 DEF FeedTyped, OrderRows
    <3> HIDE DEF f, row
    <3>4. order' \in [Orders -> OrderRows]
      BY <1>0, <2>1, <3>2, <3>3, OrderWritten
    <3>5. FeedTyped'
      BY <1>0, <1>3, <3>4 DEF ClaimOrder, FeedTyped
    <3> QED
      BY <1>0, <3>1, <3>5, <3>6, FeedWritten
  <2> QED
    BY <1>3, <2>2, <2>3 DEF ClaimOrder
<1>4. CASE ScanCustomers(r)
  <2> DEFINE F == IF order[o].mode = "minimal" THEN Owners ELSE {}
             f == [m EXCEPT !.at = "erase", !.todo = F]
  <2>1. F \in SUBSET Owners /\ Cardinality(F) \in Nat /\ Cardinality(F) <= Cardinality(Owners)
    BY OwnersCount
  <2>2. m.at = "scan" /\ Moves(r, f)
    BY <1>4 DEF ScanCustomers
  <2> HIDE DEF F
  <2>3. m \in Memories /\ m.erased = 0 /\ m.blocked = 0 /\ m.on \in Orders
    BY <1>0, <2>2 DEF MemoryOK
  <2>4. /\ f \in Memories /\ f.erased = 0 /\ f.blocked = 0 /\ f.on \in Orders /\ f.todo = F /\ f.at = "erase"
    BY <2>1, <2>3 DEF Memories
  <2> HIDE DEF f
  <2>5. MemoryOK(f)
    BY <2>1, <2>4, OwnersCount DEF MemoryOK
  <2>6. FeedTyped'
    BY <1>0, <1>4 DEF ScanCustomers, FeedTyped
  <2> QED
    BY <1>0, <2>2, <2>5, <2>6, FeedWritten
<1>5. ASSUME NEW c \in Owners, EraseOne(r, c) PROVE FeedInv'
  <2> DEFINE T == m.todo \ {c}
             left == [m EXCEPT !.todo = T]
  <2>1. /\ m.at = "erase" /\ c \in m.todo /\ m \in Memories /\ m.todo \in SUBSET Owners /\ m.on \in Orders
        /\ m.erased \in Nat /\ m.blocked \in Nat
        /\ m.erased + m.blocked + Cardinality(m.todo) <= Cardinality(Owners)
    BY <1>0, <1>5 DEF EraseOne, MemoryOK, Memories
  <2>2. T \in SUBSET Owners /\ Cardinality(m.todo) = Cardinality(T) + 1 /\ Cardinality(T) \in Nat
    <3>1. IsFiniteSet(m.todo)
      BY <2>1, ErasureBounds, FS_Subset
    <3> DEFINE S == m.todo
    <3>2. IsFiniteSet(S) /\ c \in S /\ T = S \ {c} /\ S \in SUBSET Owners
      BY <2>1, <3>1
    <3> HIDE DEF S, T
    <3>3. Cardinality(T) = Cardinality(S) - 1
      BY <3>2, FS_RemoveElement
    <3>4. T \in SUBSET Owners
      BY <3>2
    <3>5. Cardinality(S) \in Nat /\ Cardinality(T) \in Nat
      BY <3>2, <3>4, OwnersCount
    <3> QED
      BY <3>3, <3>4, <3>5 DEF S
  <2>3. FeedTyped'
    BY <1>0, <1>5 DEF EraseOne, FeedTyped
  <2>4. /\ left \in Memories /\ left.at = "erase" /\ left.on = m.on /\ left.todo = T
        /\ left.erased = m.erased /\ left.blocked = m.blocked
    <3> HIDE DEF T
    <3> QED
      BY <2>1, <2>2 DEF Memories
  <2>5. \/ Moves(r, left) \/ Moves(r, [left EXCEPT !.blocked = left.blocked + 1])
        \/ Moves(r, [left EXCEPT !.erased = left.erased + 1])
    BY <1>5, <2>4 DEF EraseOne, Memories
  <2> HIDE DEF T, left
  <2>6. ASSUME NEW f \in {left, [left EXCEPT !.blocked = left.blocked + 1], [left EXCEPT !.erased = left.erased + 1]}
        PROVE  MemoryOK(f)
    <3>1. /\ f \in Memories /\ f.at = "erase" /\ f.on = m.on /\ f.todo = T
          /\ f.erased \in {m.erased, m.erased + 1} /\ f.blocked \in {m.blocked, m.blocked + 1}
          /\ f.erased + f.blocked <= m.erased + m.blocked + 1
      BY <2>1, <2>4 DEF Memories
    <3> QED
      BY <2>1, <2>2, <3>1, OwnersCount DEF MemoryOK
  <2> QED
    BY <1>0, <2>3, <2>5, <2>6, FeedWritten
<1>6. CASE Finish(r)
  <2>1. m.at = "erase" /\ o \in Orders /\ Verdict(r) \in Verdicts /\ ToPosts(r)
    BY <1>0, <1>6, VerdictType DEF Finish, MemoryOK
  <2> DEFINE row == [order[o] EXCEPT !.status = Verdict(r), !.claim = NoOne, !.lapsed = FALSE]
             paper == [receipt[o] EXCEPT !.status = Verdict(r)]
  <2>6. order[o] \in OrderRows /\ receipt[o] \in ReceiptRows
    BY <1>0, <2>1 DEF FeedTyped
  <2>7. row \in OrderRows
    BY <2>1, <2>6 DEF OrderRows
  <2>8. paper \in ReceiptRows
    BY <2>1, <2>6 DEF ReceiptRows
  <2>2. order[o] \in OrderRows /\ row \in OrderRows /\ receipt[o] \in ReceiptRows /\ paper \in ReceiptRows
    BY <2>6, <2>7, <2>8
  <2>3. \/ UNCHANGED <<order, receipt>>
        \/ order' = [order EXCEPT ![o] = row] /\ receipt' = [receipt EXCEPT ![o] = paper]
    BY <1>0, <1>6, <2>1 DEF Finish, FeedTyped, OrderRows, ReceiptRows
  <2> HIDE DEF row, paper
  <2>4. order' \in [Orders -> OrderRows] /\ receipt' \in [Orders -> ReceiptRows]
    BY <1>0, <2>1, <2>2, <2>3 DEF FeedTyped
  <2>5. FeedTyped'
    BY <1>0, <1>6, <2>4 DEF Finish, FeedTyped
  <2> QED
    BY <1>0, <2>1, <2>5, IdleMemories, FeedWritten DEF ToPosts
<1>7. ASSUME NEW p \in Orders, PostReceipt(r, p) PROVE FeedInv'
  <2> DEFINE f == [m EXCEPT !.at = "mark", !.on = p]
  <2>1. m.at = "post" /\ Moves(r, f) /\ receipt[p].status \in Verdicts
    BY <1>0, <1>7 DEF PostReceipt, Pending, FeedTyped, ReceiptRows
  <2>2. MemoryOK(f)
    BY <1>0, <2>1, OwnersCount DEF MemoryOK, Memories
  <2>3. FeedTyped'
    BY <1>0, <1>7, <2>1 DEF PostReceipt, FeedTyped
  <2> HIDE DEF f
  <2> QED
    BY <1>0, <2>1, <2>2, <2>3, FeedWritten
<1>8. CASE MarkDelivered(r)
  <2>1. m.at = "mark" /\ o \in Orders /\ ToPosts(r)
    BY <1>0, <1>8 DEF MarkDelivered, MemoryOK
  <2> DEFINE paper == [receipt[o] EXCEPT !.delivered = TRUE]
  <2>2. receipt[o] \in ReceiptRows /\ paper \in ReceiptRows
    BY <1>0, <2>1 DEF FeedTyped, ReceiptRows
  <2>3. receipt' = [receipt EXCEPT ![o] = paper]
    BY <1>8 DEF MarkDelivered
  <2> HIDE DEF paper
  <2>4. receipt' \in [Orders -> ReceiptRows]
    BY <1>0, <2>1, <2>2, <2>3 DEF FeedTyped
  <2>5. FeedTyped'
    BY <1>0, <1>8, <2>4 DEF MarkDelivered, FeedTyped
  <2> QED
    BY <1>0, <2>1, <2>5, IdleMemories, FeedWritten DEF ToPosts
<1>9. CASE RunForReceipts(r) \/ EndRun(r)
  <2>1. FeedTyped'
    BY <1>0, <1>9 DEF RunForReceipts, EndRun, FeedTyped
  <2>2. ToPosts(r) \/ Moves(r, IdleRunner)
    BY <1>9 DEF RunForReceipts, EndRun
  <2> QED
    BY <1>0, <2>1, <2>2, IdleMemories, FeedWritten DEF ToPosts
<1> QED
  BY <1>1, <1>2, <1>3, <1>4, <1>5, <1>6, <1>7, <1>8, <1>9 DEF RunStep

LEMMA FaultKeeps ==
  ASSUME FeedInv, runner \in [Runners -> Memories], FaultStep \/ \E o \in Orders : ClaimLapses(o)
  PROVE  FeedInv'
<1>0. FeedTyped /\ (\A q \in Runners : MemoryOK(runner[q])) /\ MaxMishaps \in Nat
  BY ErasureBounds DEF FeedInv
<1>1. Mishap => mishaps' \in 0..MaxMishaps
  BY <1>0 DEF Mishap, FeedTyped
<1>2. ASSUME NEW r \in Runners, GiveBack(r) \/ FinishFails(r) \/ PostFails(r) \/ RunnerCrashes(r)
      PROVE  FeedInv'
  <2>1. ToPosts(r) \/ Moves(r, IdleRunner)
    BY <1>2 DEF GiveBack, FinishFails, PostFails, RunnerCrashes
  <2>2. order' \in [Orders -> OrderRows]
    <3>1. CASE order' = order
      BY <1>0, <3>1 DEF FeedTyped
    <3>2. CASE GiveBack(r) /\ order' # order
      <4> DEFINE o == runner[r].on
                 row == [order[o] EXCEPT !.claim = NoOne, !.lapsed = FALSE]
      <4>1. o \in Orders
        <5>1. MemoryOK(runner[r])
          BY <1>0
        <5>2. runner[r].at = "scan" \/ runner[r].todo # {}
          BY <3>2 DEF GiveBack
        <5> QED
          BY <5>1, <5>2 DEF MemoryOK
      <4>4. order[o] \in OrderRows
        BY <1>0, <4>1 DEF FeedTyped
      <4>2. order[o] \in OrderRows /\ row \in OrderRows
        BY <4>4 DEF OrderRows
      <4>3. order' = [order EXCEPT ![o] = row]
        BY <1>0, <3>2, <4>1 DEF GiveBack, FeedTyped, OrderRows
      <4> HIDE DEF o, row
      <4> QED
        BY <1>0, <4>1, <4>2, <4>3, OrderWritten
    <3> QED
      BY <1>2, <3>1, <3>2 DEF FinishFails, PostFails, RunnerCrashes
  <2>3. FeedTyped'
    BY <1>0, <1>1, <1>2, <2>2 DEF GiveBack, FinishFails, PostFails, RunnerCrashes, FeedTyped
  <2> QED
    BY <1>0, <2>1, <2>3, IdleMemories, FeedWritten DEF ToPosts
<1>3. ASSUME NEW o \in Orders, ClaimLapses(o) PROVE FeedInv'
  <2> DEFINE row == [order[o] EXCEPT !.lapsed = TRUE]
  <2>1. order[o] \in OrderRows /\ row \in OrderRows
    BY <1>0 DEF FeedTyped, OrderRows
  <2>2. order' = [order EXCEPT ![o] = row]
    BY <1>3 DEF ClaimLapses
  <2> HIDE DEF row
  <2>3. order' \in [Orders -> OrderRows]
    BY <1>0, <2>1, <2>2, OrderWritten
  <2>4. mishaps' \in 0..MaxMishaps
    BY <1>0, <1>1, <1>3 DEF ClaimLapses, FeedTyped
  <2>5. FeedTyped' /\ runner' = runner
    BY <1>0, <1>3, <2>3, <2>4 DEF ClaimLapses, FeedTyped
  <2> QED
    BY <1>0, <2>5 DEF FeedInv, MemoryOK
<1> QED
  BY <1>2, <1>3 DEF FaultStep

LEMMA ErasureTypes ==
  /\ ErasureInit => ErasureInv /\ FeedInv
  /\ ErasureInv /\ FeedInv /\ [ErasureNext]_erasureVars => ErasureInv' /\ FeedInv'
  /\ ErasureInv /\ FeedInv => ErasureTypeOK
<1>1. ASSUME ErasureInit PROVE FeedInv
  <2>1. order \in [Orders -> OrderRows]
    BY <1>1 DEF ErasureInit, OrderRows
  <2>2. receipt \in [Orders -> ReceiptRows] /\ answers \in [Orders -> SUBSET Verdicts] /\ mishaps \in 0..MaxMishaps
    BY <1>1, ErasureBounds DEF ErasureInit, ReceiptRows
  <2>3. \A r \in Runners : runner[r] = IdleRunner
    BY <1>1 DEF ErasureInit
  <2> QED
    BY <2>1, <2>2, <2>3, IdleMemories DEF FeedInv, FeedTyped
<1>2. ASSUME ErasureInv, FeedInv, [ErasureNext]_erasureVars PROVE FeedInv'
  <2>1. runner \in [Runners -> Memories]
    BY <1>2 DEF ErasureInv, Hands
  <2>2. CASE UNCHANGED <<order, receipt, answers, runner, mishaps>>
    BY <1>2, <2>2 DEF FeedInv, FeedTyped, MemoryOK
  <2>3. CASE DeskStep \/ ImportStep
    BY <2>2, <2>3 DEF DeskStep, ImportStep, RequestErasure, CompleteErasure, RejectErasure, UpdateExtras, WriteNote,
       CreateSheet, EditCustomer, Hold, MatchForSale, FormalizeSale, SaleRefused, ReadSheet, StoreDocument, MarkSold, RegisterDocument, ReadForImport,
       CommitImport, ReadForUndo, Restore, Office, Writer
  <2>4. CASE FeedStep
    BY <1>2, <2>1, <2>4, FeedStepKeeps, FaultKeeps DEF FeedStep
  <2> QED
    BY <1>2, <2>2, <2>3, <2>4 DEF ErasureNext, erasureVars
<1>3. ASSUME ErasureInv, FeedInv PROVE ErasureTypeOK
  <2>1. \A r \in Runners : runner[r] \in RunnerStates
    <3> SUFFICES ASSUME NEW r \in Runners PROVE runner[r] \in RunnerStates
      OBVIOUS
    <3> DEFINE m == runner[r]
    <3>1. MemoryOK(m)
      BY <1>3 DEF FeedInv
    <3> HIDE DEF m
    <3>2. m.todo \in SUBSET Owners /\ Cardinality(m.todo) \in Nat
      BY <3>1, OwnersCount DEF MemoryOK, Memories
    <3>3. m.erased \in 0..Cardinality(Owners) /\ m.blocked \in 0..Cardinality(Owners)
      BY <3>1, <3>2, OwnersCount DEF MemoryOK
    <3>4. m \in RunnerStates
      BY <3>1, <3>3 DEF MemoryOK, Memories, RunnerStates
    <3> QED
      BY <3>4 DEF m
  <2>2. runner \in [Runners -> RunnerStates]
    BY <1>3, <2>1 DEF ErasureInv, Hands
  <2>3. \A r \in Runners : runner[r].at # "idle" => runner[r].on \in Orders \/ runner[r].at = "post"
    BY <1>3 DEF FeedInv, MemoryOK
  <2> QED
    BY <1>3, <2>2, <2>3 DEF ErasureInv, StoredRows, Hands, Unopened, FeedInv, FeedTyped, OrderRows, ReceiptRows,
       ErasureTypeOK
<1> QED
  BY <1>1, <1>2, <1>3, ErasureInvariant

-----------------------------------------------------------------------------
(* An erased customer stays erased: no personal data comes back in its      *)
(* record, on its sheets or in the rows an import keeps, and no erased      *)
(* sheet is sold, for any number of clerks, runners and customers, with     *)
(* every claim lapsed and every process stopped at any time                 *)
(* (captureErasure.ts:75-114, customers.ts:223, imports.ts:208).  The one   *)
(* way back is a sheet opened by a formalization that read the customer     *)
(* before the erasure (salesCommandBridge.ts:294-296, 366-375).             *)
THEOREM ErasureIsFinal == ErasureSpec => []ErasureHolds
<1>1. ErasureInv => ErasureHolds
  BY DEF ErasureInv
<1> QED
  BY <1>1, ErasureInvariant, PTL DEF ErasureSpec
(* Customers, sheets, orders, receipts and what runners and clerks remember *)
(* keep their types; a runner counts no customer twice                      *)
(* (privacyErasure.ts, processErasureEvent).                                *)
THEOREM ErasureTypeCorrect == ErasureSpec => []ErasureTypeOK
  BY ErasureTypes, PTL DEF ErasureSpec
=============================================================================
