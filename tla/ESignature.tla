----------------------------- MODULE ESignature -----------------------------
(***************************************************************************)
(* The electronic signature of one document of a contract.  A call sets an *)
(* envelope up at the signature service and records each step as it goes;  *)
(* the service sends webhooks, late, out of order and more than once; a    *)
(* user may reconcile an envelope with the service by hand, and the        *)
(* administration may confirm the signature itself or upload the signed    *)
(* file, a document of its own, which the validation of the sale asks for. *)
(*                                                                         *)
(* The setup and the reconciliation write without looking at what the      *)
(* webhooks wrote meanwhile.  A webhook is one transaction.                *)
(***************************************************************************)
EXTENDS Naturals

CONSTANTS
  Envelopes,    \* rows of contract_signature_envelopes, one per call that made one
  Reconcilers,  \* users that reconcile by hand
  NoEnvelope

VARIABLES
  agreement,  \* the contract: its status, and whether signedAt is set
  signed,     \* contract_documents.signed
  byHand,     \* what the administration did: confirmed the signature of the
              \* document, stored the signed file (signedArtifact)
  envelope,   \* contract_signature_envelopes, with its document row
  setup,      \* the step a setup is at (memory)
  remote,     \* the envelope at the service
  posted,     \* webhooks the service sent
  processed,  \* signature_webhook_events
  announced,  \* contract.document.signed events
  reading     \* what a reconciliation has read (memory)

signVars == <<agreement, signed, byHand, envelope, setup, remote, posted, processed, announced, reading>>

RowStatuses == {"draft", "running", "closed", "canceled", "error"}
RemoteStatuses == {"none", "draft", "running", "closed", "canceled"}
Remotes == [status : RemoteStatuses, signed : BOOLEAN, dropped : BOOLEAN]
Steps == {"none", "read", "inserted", "created", "linked", "documented", "activated", "recording", "failed"}
Events == {"sign", "document_closed", "document_canceled", "envelope_closed", "envelope_canceled"}
Posts == [on : Envelopes, event : Events]

EnvelopeRows == [status : RowStatuses, key : BOOLEAN, external : BOOLEAN,
                 document : {"none", "pending", "signed", "closed", "canceled"}]

Readings == [on : Envelopes, key : BOOLEAN, status : RemoteStatuses]

ASSUME NoEnvelopeIsNoRow == NoEnvelope \notin EnvelopeRows \cup Readings

SignTypeOK ==
  /\ agreement \in [status : {"draft", "pending_signature", "active", "cancelled"}, signedAt : BOOLEAN]
  /\ signed \in BOOLEAN
  /\ byHand \in [confirmed : BOOLEAN, stored : BOOLEAN]
  /\ envelope \in [Envelopes -> EnvelopeRows \cup {NoEnvelope}]
  /\ setup \in [Envelopes -> Steps]
  /\ remote \in [Envelopes -> Remotes]
  /\ posted \subseteq Posts
  /\ processed \subseteq Posts
  /\ announced \in Nat
  /\ reading \in [Reconcilers -> {NoEnvelope} \cup Readings]

SignInit ==
  /\ agreement \in [status : {"draft", "pending_signature"}, signedAt : {FALSE}]
  /\ signed = FALSE
  /\ byHand = [confirmed |-> FALSE, stored |-> FALSE]
  /\ envelope = [e \in Envelopes |-> NoEnvelope]
  /\ setup = [e \in Envelopes |-> "none"]
  /\ remote = [e \in Envelopes |-> [status |-> "none", signed |-> FALSE, dropped |-> FALSE]]
  /\ posted = {}
  /\ processed = {}
  /\ announced = 0
  /\ reading = [r \in Reconcilers |-> NoEnvelope]

-----------------------------------------------------------------------------
(* startContractElectronicSignature.                                       *)

HasKey(e) == envelope[e] # NoEnvelope /\ envelope[e].key

\* The call reads contract and document, and looks for an open envelope.
ReadForSignature(e) ==
  /\ setup[e] = "none"
  /\ agreement.status # "cancelled"
  /\ ~signed
  /\ \A d \in Envelopes : HasKey(d) => envelope[d].status \notin {"draft", "running"}
  /\ setup' = [setup EXCEPT ![e] = "read"]
  /\ UNCHANGED <<agreement, signed, byHand, envelope, remote, posted, processed, announced, reading>>

\* The row, with the unique activeKey of the document, whatever became of contract
\* and document while the file was fetched; a call that finds the key taken
\* answers with the envelope that has it.
InsertEnvelope(e) ==
  /\ setup[e] = "read"
  /\ IF \E d \in Envelopes : HasKey(d)
     THEN setup' = [setup EXCEPT ![e] = "none"] /\ UNCHANGED envelope
     ELSE /\ envelope' = [envelope EXCEPT ![e] =
               [status |-> "draft", key |-> TRUE, external |-> FALSE, document |-> "none"]]
          /\ setup' = [setup EXCEPT ![e] = "inserted"]
  /\ UNCHANGED <<agreement, signed, byHand, remote, posted, processed, announced, reading>>

\* The calls to the service: create, and, after document, signer and
\* requirements, activate (with its notification).
CallService(e) ==
  /\ \/ setup[e] = "inserted" /\ setup' = [setup EXCEPT ![e] = "created"]
        /\ remote' = [remote EXCEPT ![e].status = "draft"]
     \/ setup[e] = "documented" /\ setup' = [setup EXCEPT ![e] = "activated"]
        /\ remote' = [remote EXCEPT ![e].status = IF @ = "draft" THEN "running" ELSE @]
  /\ UNCHANGED <<agreement, signed, byHand, envelope, posted, processed, announced, reading>>

\* The identifier of the envelope, then its document and its signer.
RecordService(e) ==
  /\ \/ setup[e] = "created" /\ setup' = [setup EXCEPT ![e] = "linked"]
        /\ envelope' = [envelope EXCEPT ![e].external = TRUE]
     \/ setup[e] = "linked" /\ setup' = [setup EXCEPT ![e] = "documented"]
        /\ envelope' = [envelope EXCEPT ![e].document = "pending"]
  /\ UNCHANGED <<agreement, signed, byHand, remote, posted, processed, announced, reading>>

\* The last transaction: running, whatever the row holds by now.
FinishSetup(e) ==
  /\ setup[e] = "activated"
  /\ setup' = [setup EXCEPT ![e] = "recording"]
  /\ envelope' = [envelope EXCEPT ![e].status = "running"]
  /\ agreement' = [agreement EXCEPT !.status = IF @ = "draft" THEN "pending_signature" ELSE @]
  /\ UNCHANGED <<signed, byHand, remote, posted, processed, announced, reading>>

\* An error at any step, that of the audit and the event after the last
\* transaction included: error, and the key is free; what exists at the service
\* stays.
FailSetup(e) ==
  /\ setup[e] \in {"inserted", "created", "linked", "documented", "activated", "recording"}
  /\ setup' = [setup EXCEPT ![e] = "failed"]
  /\ envelope' = [envelope EXCEPT ![e].status = "error", ![e].key = FALSE]
  /\ UNCHANGED <<agreement, signed, byHand, remote, posted, processed, announced, reading>>

\* The process stops in the middle of the setup: the row stays as it is.
StopSetup(e) ==
  /\ setup[e] \in {"inserted", "created", "linked", "documented", "activated"}
  /\ setup' = [setup EXCEPT ![e] = "failed"]
  /\ UNCHANGED <<agreement, signed, byHand, envelope, remote, posted, processed, announced, reading>>

-----------------------------------------------------------------------------
(* The service (external).  Each act is sent as a webhook.                 *)

Does(e, at, events) ==
  /\ remote' = [remote EXCEPT ![e] = at]
  /\ posted' = posted \cup {[on |-> e, event |-> ev] : ev \in events}
  /\ UNCHANGED <<agreement, signed, byHand, envelope, setup, processed, announced, reading>>

\* The associate signs; the envelope closes once its document is signed or was
\* cancelled there; or someone cancels the document or the envelope.
ServiceActs(e) ==
  LET at == remote[e]
  IN  \/ /\ at.status = "running" /\ ~at.signed /\ ~at.dropped
         /\ Does(e, [at EXCEPT !.signed = TRUE], {"sign"})
      \/ /\ at.status = "running" /\ at.signed /\ ~at.dropped
         /\ Does(e, [at EXCEPT !.status = "closed"], {"document_closed", "envelope_closed"})
      \/ /\ at.status = "running" /\ at.dropped
         /\ Does(e, [at EXCEPT !.status = "closed"], {"envelope_closed"})
      \/ /\ at.status = "running" /\ ~at.dropped
         /\ Does(e, [at EXCEPT !.dropped = TRUE], {"document_canceled"})
      \/ /\ at.status \in {"draft", "running"} /\ ~at.signed
         /\ Does(e, [at EXCEPT !.status = "canceled"], {"envelope_canceled"})

-----------------------------------------------------------------------------
(* processClicksignWebhook.                                                *)

Closing == {"document_closed", "envelope_closed"}

\* An event of the envelope does not name the document; the others do.
DocumentAfter(row, event) ==
  IF row.document = "none" THEN "none"
  ELSE CASE event = "sign"              -> "signed"
         [] event = "document_closed"   -> "closed"
         [] event = "document_canceled" -> "canceled"
         [] OTHER                       -> row.document

StatusAfter(row, event) ==
  CASE event = "envelope_closed"   -> "closed"
    [] event = "envelope_canceled" -> "canceled"
    [] event = "document_closed" /\ row.document # "none" -> "closed"
    [] OTHER -> row.status

\* Mutant: an envelope that ended, in any way, marks its documents.
MarksAtTheEnd(row, event) ==
  row.document # "none" /\ (event = "sign" \/ StatusAfter(row, event) \in {"closed", "canceled"})

\* The document is marked as signed by its own events, and with the others when
\* the envelope closes.
MarksDocument(row, event) ==
  \/ row.document # "none" /\ event \in {"sign", "document_closed"}
  \/ StatusAfter(row, event) = "closed" /\ DocumentAfter(row, event) \in {"pending", "signed", "closed"}

\* One transaction for an event not seen before (eventKey is unique: sent again,
\* it changes nothing).  It finds the envelope by its identifier or by that of
\* the document, which are recorded by the time anything is signed; closed, the
\* envelope signs a contract that waits for the signature.  The document is
\* announced after the commit if the transaction marked it; the announcement
\* may be lost.
Receive(p) ==
  LET row == envelope[p.on]
      now == StatusAfter(row, p.event)
      marks == MarksDocument(row, p.event)
  IN  /\ p \in posted \ processed
      /\ processed' = processed \cup {p}
      /\ IF row.external
         THEN /\ envelope' = [envelope EXCEPT
                   ![p.on].status = now,
                   ![p.on].document = DocumentAfter(row, p.event),
                   ![p.on].key = @ /\ now \notin {"closed", "canceled"}]
              /\ agreement' = [agreement EXCEPT
                   !.signedAt = @ \/ (now = "closed" /\ agreement.status = "pending_signature")]
              /\ signed' = (signed \/ marks)
              /\ announced' \in {announced, announced + IF marks /\ ~signed THEN 1 ELSE 0}
         ELSE UNCHANGED <<envelope, agreement, signed, announced>>
      /\ UNCHANGED <<byHand, setup, remote, posted, reading>>

-----------------------------------------------------------------------------
(* reconcileContractSignature, and the contract meanwhile.                 *)

\* It reads the row, and then the service.
ReadRemote(r, e) ==
  /\ reading[r] = NoEnvelope
  /\ envelope[e] # NoEnvelope
  /\ envelope[e].external
  /\ reading' = [reading EXCEPT ![r] = [on |-> e, key |-> envelope[e].key, status |-> remote[e].status]]
  /\ UNCHANGED <<agreement, signed, byHand, envelope, setup, remote, posted, processed, announced>>

\* It writes the status of the service and the key it read over the row, unless
\* another envelope has the key by now; contract and document stay as they are.
WriteReading(r) ==
  /\ reading[r] # NoEnvelope
  /\ LET read == reading[r]
         key == read.key /\ read.status \notin {"closed", "canceled"}
     IN  envelope' = IF key /\ \E d \in Envelopes \ {read.on} : HasKey(d) THEN envelope
                     ELSE [envelope EXCEPT ![read.on].status = read.status, ![read.on].key = key]
  /\ reading' = [reading EXCEPT ![r] = NoEnvelope]
  /\ UNCHANGED <<agreement, signed, byHand, setup, remote, posted, processed, announced>>

\* markDocumentSigned: the administration confirms the signature, with no envelope
\* asked for; the event is written with it.
ConfirmSignature ==
  /\ ~signed
  /\ signed' = TRUE
  /\ byHand' = [byHand EXCEPT !.confirmed = TRUE]
  /\ announced' = announced + 1
  /\ UNCHANGED <<agreement, envelope, setup, remote, posted, processed, reading>>

\* uploadDocument, signed, by the administration.
StoreSignedFile ==
  /\ ~byHand.stored
  /\ byHand' = [byHand EXCEPT !.stored = TRUE]
  /\ UNCHANGED <<agreement, signed, envelope, setup, remote, posted, processed, announced, reading>>

\* The contract goes its way: validated, with the signed file and no open envelope,
\* which dates its signature if nothing did; or cancelled.
MoveContract ==
  /\ \/ /\ agreement.status \in {"draft", "pending_signature"}
        /\ byHand.stored
        /\ \A e \in Envelopes : envelope[e] # NoEnvelope => envelope[e].status \notin {"draft", "running"}
        /\ agreement' = [status |-> "active", signedAt |-> TRUE]
     \/ /\ agreement.status # "cancelled"
        /\ agreement' = [agreement EXCEPT !.status = "cancelled"]
  /\ UNCHANGED <<signed, byHand, envelope, setup, remote, posted, processed, announced, reading>>

SignNext ==
  \/ \E e \in Envelopes :
       \/ ReadForSignature(e) \/ InsertEnvelope(e) \/ CallService(e) \/ RecordService(e) \/ FinishSetup(e)
       \/ FailSetup(e) \/ StopSetup(e) \/ ServiceActs(e)
  \/ \E p \in Posts : Receive(p)
  \/ \E r \in Reconcilers : WriteReading(r) \/ \E e \in Envelopes : ReadRemote(r, e)
  \/ ConfirmSignature \/ StoreSignedFile \/ MoveContract

SignSpec == SignInit /\ [][SignNext]_signVars

-----------------------------------------------------------------------------
(* What is checked.                                                        *)

\* Whatever the setup that was cut, the order of the webhooks, the reconciliations
\* and the hand of the administration: a document is signed only if the associate
\* signed it at the service, the service closed its envelope or the administration
\* confirmed it; a contract has its signature only with a signed file in the storage
\* or a closed envelope, and then its document is signed as well, unless it was
\* cancelled at the service; and the signed document is announced at most once,
\* however many envelopes, webhooks and users say so.
SignatureIsReal ==
  /\ signed => byHand.confirmed \/ \E e \in Envelopes : remote[e].signed \/ remote[e].status = "closed"
  /\ agreement.signedAt =>
       \/ byHand.stored
       \/ \E e \in Envelopes :
            remote[e].status = "closed" /\ (signed \/ (remote[e].dropped /\ envelope[e].document = "canceled"))
  /\ announced <= IF signed THEN 1 ELSE 0
=============================================================================
