----------------------------- MODULE Ingestion -----------------------------
(***************************************************************************)
(* Uploads: services/ingestion.ingest_upload, as many at once as there are *)
(* requests, over the invoices table with its unique content digest, the   *)
(* object store and the broker.                                            *)
(*                                                                         *)
(* A document stands for its bytes and for their SHA-256.  A row that is   *)
(* flushed and not committed keeps others from inserting the same digest:  *)
(* they wait for that transaction to end.                                  *)
(***************************************************************************)
EXTENDS Naturals, FiniteSets

CONSTANTS
    Documents,   \* contents, one digest each
    Names,       \* base names of the uploaded files
    Requests,    \* uploads; an invoice is called by the upload that made it
    None,        \* no row, no document
    MaxFaults    \* bound: requests that die or meet a failing service

\* A row of the invoices table: who made it, under which storage_key.
Row == [by : Requests, name : Names]

ASSUME IngestionAssumption ==
    /\ None \notin Documents \cup Requests \cup Row
    /\ "error" \notin Requests
    /\ MaxFaults \in Nat

VARIABLES
    backend,    \* settings.storage_backend
    rows,       \* committed invoices rows, by content_sha256
    objects,    \* raw/<digest>/<name> in the object store
    queue,      \* extract_invoice messages sent, by document
    req,        \* what each request is doing
    faults

vars == <<backend, rows, objects, queue, req, faults>>
-----------------------------------------------------------------------------
\* Where a request stands:
\*   new        not yet made
\*   open       has its session and the digest
\*   missed     has found no row with the digest
\*   writing    has opened the local file, which empties it
\*   stored     has put the document
\*   inserted   has flushed its row
\*   conflict   met the unique constraint and rolled back
\*   committed  has committed its row, has not sent the message
\*   done       knows the invoice it answers with
\*   answered   failed
ProgramCounters == {"new", "open", "missed", "writing", "stored", "inserted",
                    "conflict", "committed", "done", "answered", "failed"}

Request == [pc      : ProgramCounters,
            doc     : Documents \cup {None},
            name    : Names \cup {None},
            invoice : Requests \cup {None}]     \* IngestResult.invoice

Open == ProgramCounters \ {"new", "answered", "failed"}

\* Mutant: the digest is reserved before the document is stored.
Locked_FromLookup(d, r) ==
    \E q \in Requests \ {r} : req[q].pc \in {"stored", "inserted"} /\ req[q].doc = d

\* The unique index makes an INSERT wait for another one of the same digest.
Locked(d, r) == \E q \in Requests \ {r} : req[q].pc = "inserted" /\ req[q].doc = d
-----------------------------------------------------------------------------
Init ==
    /\ backend \in {"s3", "local"}
    /\ rows = [d \in Documents |-> None]
    /\ objects = [k \in Documents \X Names |-> "absent"]
    /\ queue = [d \in Documents |-> 0]
    /\ req = [r \in Requests |-> [pc |-> "new", doc |-> None, name |-> None, invoice |-> None]]
    /\ faults = 0

Goto(r, from, to) == req[r].pc = from /\ req' = [req EXCEPT ![r].pc = to]

\* Request r knows its answer: invoice.
Finish(r, invoice) == req' = [req EXCEPT ![r].pc = "done", ![r].invoice = invoice]

\* A SELECT by the digest: answer with the row, or go on without one.
FindRow(r, from, missing) ==
    /\ req[r].pc = from
    /\ IF rows[req[r].doc] = None THEN Goto(r, from, missing)
       ELSE Finish(r, rows[req[r].doc].by)
    /\ UNCHANGED <<backend, rows, objects, queue, faults>>

\* An upload that passes validate_upload.
Submit(r, d, n) ==
    /\ req[r].pc = "new"
    /\ req' = [req EXCEPT ![r] = [pc |-> "open", doc |-> d, name |-> n, invoice |-> None]]
    /\ UNCHANGED <<backend, rows, objects, queue, faults>>

\* Mutant: a new document is not stored.
Lookup_NotStored(r) == FindRow(r, "open", "stored")

\* The pre-check: the digest is known already, or was not at this moment.
Lookup(r) == FindRow(r, "open", "missed")

PutInto(r, content) == objects' = [objects EXCEPT ![<<req[r].doc, req[r].name>>] = content]

\* put_object: S3 replaces the object at once ...
PutObject(r) ==
    /\ backend = "s3"
    /\ Goto(r, "missed", "stored")
    /\ PutInto(r, "whole")
    /\ UNCHANGED <<backend, rows, queue, faults>>

\* ... write_bytes empties the file first, whoever may be reading it.
OpenFile(r) ==
    /\ backend = "local"
    /\ Goto(r, "missed", "writing")
    /\ PutInto(r, "partial")
    /\ UNCHANGED <<backend, rows, queue, faults>>

WriteFile(r) ==
    /\ Goto(r, "writing", "stored")
    /\ PutInto(r, "whole")
    /\ UNCHANGED <<backend, rows, queue, faults>>

\* Mutants: the constraint does not exist; its violation is not caught.
Insert_NotUnique(r) ==
    /\ Goto(r, "stored", "inserted")
    /\ UNCHANGED <<backend, rows, objects, queue, faults>>
Insert_NotCaught(r) ==
    /\ req[r].pc = "stored" /\ ~Locked(req[r].doc, r)
    /\ Goto(r, "stored", IF rows[req[r].doc] = None THEN "inserted" ELSE "failed")
    /\ UNCHANGED <<backend, rows, objects, queue, faults>>

\* session.flush(): the row is in, or IntegrityError and rollback.
Insert(r) ==
    /\ req[r].pc = "stored" /\ ~Locked(req[r].doc, r)
    /\ Goto(r, "stored", IF rows[req[r].doc] = None THEN "inserted" ELSE "conflict")
    /\ UNCHANGED <<backend, rows, objects, queue, faults>>

\* Mutant: the loser of the race enqueues as well.
Reread_Enqueues(r) ==
    /\ Goto(r, "conflict", "committed")
    /\ UNCHANGED <<backend, rows, objects, queue, faults>>

\* The row that won; without one the IntegrityError is raised after all.
Reread(r) == FindRow(r, "conflict", "failed")

Commit(r) ==
    /\ Goto(r, "inserted", "committed")
    /\ rows' = [rows EXCEPT ![req[r].doc] = [by |-> r, name |-> req[r].name]]
    /\ UNCHANGED <<backend, objects, queue, faults>>

\* extract_invoice.delay
Enqueue(r) ==
    /\ req[r].pc = "committed"
    /\ queue' = [queue EXCEPT ![req[r].doc] = @ + 1]
    /\ Finish(r, r)
    /\ UNCHANGED <<backend, rows, objects, faults>>

\* 201 for an invoice of its own, 200 for another's.
Respond(r) ==
    /\ Goto(r, "done", "answered")
    /\ UNCHANGED <<backend, rows, objects, queue, faults>>

\* The process dies, or the store, the database or the broker fails: the
\* transaction is rolled back, what is stored or committed stays.
Fail(r) ==
    /\ faults < MaxFaults /\ req[r].pc \in Open
    /\ faults' = faults + 1
    /\ req' = [req EXCEPT ![r].pc = "failed"]
    /\ UNCHANGED <<backend, rows, objects, queue>>

RequestStep(r) ==
    \/ Lookup(r)
    \/ PutObject(r) \/ OpenFile(r) \/ WriteFile(r)
    \/ Insert(r) \/ Reread(r)
    \/ Commit(r) \/ Enqueue(r) \/ Respond(r)

Next ==
    \E r \in Requests : \/ \E d \in Documents, n \in Names : Submit(r, d, n)
                        \/ RequestStep(r)
                        \/ Fail(r)

Spec == Init /\ [][Next]_vars

\* A request that has been made runs on to its end.
FairSpec == Spec /\ \A r \in Requests : WF_vars(RequestStep(r))
-----------------------------------------------------------------------------
TypeOK ==
    /\ backend \in {"s3", "local"}
    /\ rows \in [Documents -> Row \cup {None}]
    /\ objects \in [Documents \X Names -> {"absent", "partial", "whole"}]
    /\ queue \in [Documents -> Nat]
    /\ req \in [Requests -> Request]
    /\ faults \in Nat

\* An invoice's document is in the store, whichever of several requests with
\* the same bytes made the row; in a local directory a late one may be writing
\* the same file again, or have died while it was.
RowHasDocument ==
    \A d \in Documents : rows[d] # None =>
        LET content == objects[<<d, rows[d].name>>]
        IN  content # "absent" /\ (content = "partial" => backend = "local")

\* An upload fails only by a fault: the loser of a race always finds the row
\* that won.
RacesAreResolved == Cardinality({r \in Requests : req[r].pc = "failed"}) <= faults

\* The document's message has not been sent and no request is about to.
Forgotten(d) ==
    /\ rows[d] # None /\ queue[d] = 0
    /\ \A r \in Requests : ~(req[r].pc = "committed" /\ req[r].doc = d)

ForgottenDocuments == {d \in Documents : Forgotten(d)}

\* However many uploads race, one message is sent per invoice, and only a
\* fault loses it.  (No later upload of the same bytes makes up for it.)
OneMessagePerInvoice ==
    /\ \A d \in Documents : queue[d] <= 1 /\ (queue[d] > 0 => rows[d] # None)
    /\ Cardinality(ForgottenDocuments) <= faults

\* The invoice of a document, and the one a request has been told of.
OwnerOf(d) == IF rows[d] = None THEN None ELSE rows[d].by
ToldOf(r) == CASE req[r].pc = "answered" -> req[r].invoice
               [] req[r].pc = "failed"   -> "error"
               [] OTHER                  -> None

\* ingestion.py: "the same file uploaded twice yields the same invoice": the
\* uploads implement a register per document that is written once.
Register == INSTANCE UploadRegister WITH
    asked  <- [r \in Requests |-> req[r].doc],
    owner  <- [d \in Documents |-> OwnerOf(d)],
    answer <- [r \in Requests |-> ToldOf(r)]

SameBytesSameInvoice == Register!Spec

StatusOf(d) == IF rows[d] = None THEN "absent" ELSE "received"

SessionOf(request) ==
    [pc |-> IF request.pc = "committed" THEN "sending" ELSE "idle",
     job |-> IF request.pc = "committed" THEN "extract_invoice" ELSE "none",
     inv |-> IF request.pc = "committed" THEN request.doc ELSE None,
     base |-> "absent", reading |-> None, match |-> None,
     rivals |-> {}, rival |-> None, verdict |-> "none"]

Messages ==
    [task \in {"extract_invoice", "match_invoice", "validate_invoice", "approve_invoice",
               "export_invoice"} |->
        [d \in Documents |-> IF task = "extract_invoice" THEN queue[d] ELSE 0]]

\* What the pipeline sees of uploads: a document is an invoice once its row is
\* committed, a request is a session while it has a message to send, and the
\* faults it knows of are those that lost a message.
Pipeline == INSTANCE InvoicePipeline WITH
    Invoices <- Documents, Clients <- Requests, Workers <- {},
    Vendors <- {}, PurchaseOrders <- {}, Numbers <- {}, Blank <- "blank",
    Readings <- {}, Matches <- {}, MaxRedeliveries <- 0, MaxLlmErrors <- 0,
    status <- [d \in Documents |-> StatusOf(d)],
    audit <- [d \in Documents |-> <<>>],
    reading <- [d \in Documents |-> None],
    match <- [d \in Documents |-> None],
    matchedVendors <- [d \in Documents |-> {}],
    validation <- [d \in Documents |-> "none"],
    exports <- [d \in Documents |-> {}],
    artifacts <- [d \in Documents |-> <<>>],
    queue <- Messages,
    sess <- [r \in Requests |-> SessionOf(req[r])],
    faults <- Cardinality(ForgottenDocuments),
    redeliveries <- 0, llmErrors <- 0

\* Every step of an upload is a step of InvoicePipeline's or no step of it: the
\* store, the insert and the lost race stay invisible until one request's row
\* is committed, of a document that has none, and its one message follows.
UploadsArePipelineSteps == Pipeline!Spec

\* Requests wait for each other's inserts, and for nothing else: every upload
\* ends.
EveryUploadEnds ==
    \A r \in Requests : req[r].pc = "open" ~> req[r].pc \in {"answered", "failed"}
=============================================================================
