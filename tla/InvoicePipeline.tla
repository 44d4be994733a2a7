-------------------------- MODULE InvoicePipeline --------------------------
(***************************************************************************)
(* One invoice's way from upload to export, and many of them at once: the  *)
(* Celery tasks of workers/tasks.py around the services they call, the     *)
(* requests of api/invoices.py and api/review_ui.py that upload invoices   *)
(* and record human decisions, the database they share, and the broker     *)
(* that carries one message per stage.                                     *)
(*                                                                         *)
(* A process is a Celery worker slot or an API request.  It has one        *)
(* database session at a time: it loads rows (a consistent READ COMMITTED  *)
(* look, kept in memory), may flush an UPDATE of the invoice row, which    *)
(* takes the row's lock until the transaction ends, and then commits or    *)
(* rolls back.  Nothing compares the row with what was loaded: there is no *)
(* SELECT ... FOR UPDATE and no version column, so a commit overwrites.    *)
(* After the commit, in a separate step, the next stage's message is sent. *)
(*                                                                         *)
(* The statuses extracting, matching and exporting are flushed but never   *)
(* committed; status[i] is the committed status, "absent" before upload.   *)
(***************************************************************************)
EXTENDS InvoiceState, Naturals, Sequences, FiniteSets

CONSTANTS
    Invoices,         \* identities of the invoices that may be uploaded
    Workers,          \* Celery worker slots
    Clients,          \* API requests that may be in flight at once
    Vendors,          \* active rows of the vendors table
    PurchaseOrders,   \* rows of the purchase_orders table
    Numbers,          \* invoice numbers, stripped and lowercased
    Blank,            \* an extracted invoice number that is the empty string
    Readings,         \* extraction results the model may return
    Matches,          \* (vendor, purchase order) outcomes of the matcher
    None,             \* a NULL column or an empty list of rows
    MaxFaults,        \* bound: process crashes
    MaxRedeliveries,  \* bound: messages the broker delivers twice
    MaxLlmErrors      \* bound: LLM calls that raise LLMError

\* What one extraction says of an invoice: its number and whether every
\* critical field's confidence reaches AUTO_APPROVE_CONFIDENCE_THRESHOLD.
Reading == [number: Numbers \cup {Blank, None}, confidence: {"high", "low"}]

\* One row of invoice_matches: the identified vendor and purchase order.
Match == [vendor: Vendors \cup {None}, po: PurchaseOrders \cup {None}]

ASSUME PipelineAssumption ==
    /\ Readings \subseteq Reading
    /\ Matches \subseteq Match
    /\ Workers \cap Clients = {}
    /\ None \notin Invoices \cup Vendors \cup PurchaseOrders \cup Numbers
    /\ None \notin Readings \cup Matches
    /\ None \notin [from: Statuses, to: Statuses, actor: {"system"} \cup Clients]
    /\ Blank \notin Numbers \cup {None}
    /\ {"system"} \cap (Workers \cup Clients) = {}
    /\ MaxFaults \in Nat /\ MaxRedeliveries \in Nat /\ MaxLlmErrors \in Nat

VARIABLES
    \* the database, as committed
    status,          \* invoices.status
    audit,           \* audit_log, oldest first
    reading,         \* latest_successful_extraction
    match,           \* latest_match
    matchedVendors,  \* vendor_id of every invoice_matches row of an invoice
    validation,      \* latest_validation's passed
    exports,         \* exports rows: the storage keys they name
    \* object storage
    artifacts,       \* documents under exports/<invoice>/, in order of upload
    \* the broker and the processes
    queue,           \* messages waiting, per task and invoice
    sess,            \* what each process is doing, and what it has loaded
    faults, redeliveries, llmErrors     \* how often each has happened

database == <<status, audit, reading, match, matchedVendors, validation, exports>>
counters == <<faults, redeliveries, llmErrors>>
vars == <<status, audit, reading, match, matchedVendors, validation, exports,
          artifacts, queue, sess, faults, redeliveries, llmErrors>>
-----------------------------------------------------------------------------
Processes == Workers \cup Clients

Tasks == {"extract_invoice", "match_invoice", "validate_invoice",
          "approve_invoice", "export_invoice"}

Decisions == {"approve", "reject"}

\* Where a process stands:
\*   idle      no session
\*   loaded    has read the invoice and its rows, has written nothing
\*   scanning  is looking at the rivals of the invoice it validates
\*   flushed   has flushed the stage's working status, or a rejection that has
\*             been answered, holds the row's lock
\*   stored    has also put the export artifact, holds the row's lock
\*   sending   has committed, is about to enqueue `job`
ProgramCounters == {"idle", "loaded", "scanning", "flushed", "stored", "sending"}

Outcomes == {"none", "passed", "failed"}

Session ==
    [pc      : ProgramCounters,
     job     : Tasks \cup Decisions \cup {"none"},
     inv     : Invoices \cup {None},
     base    : Statuses \cup {"absent"},   \* status as loaded
     reading : Readings \cup {None},       \* extraction as loaded
     match   : Matches \cup {None},        \* match as loaded
     rivals  : SUBSET Invoices,            \* listed, not looked at yet
     rival   : Invoices \cup {None},       \* live, its extraction not read yet
     verdict : Outcomes]                   \* validation as loaded, or so far

Idle == [pc |-> "idle", job |-> "none", inv |-> None, base |-> "absent",
         reading |-> None, match |-> None, rivals |-> {}, rival |-> None,
         verdict |-> "none"]

\* A fresh session that has read invoice i and its latest rows.
Loaded(job, i) ==
    [pc |-> "loaded", job |-> job, inv |-> i, base |-> status[i],
     reading |-> reading[i], match |-> match[i], rivals |-> {},
     rival |-> None, verdict |-> validation[i]]

\* A process that has committed its work on i and will enqueue task.
Sending(task, i) ==
    [pc |-> "sending", job |-> task, inv |-> i, base |-> "absent",
     reading |-> None, match |-> None, rivals |-> {}, rival |-> None,
     verdict |-> "none"]

AuditEntry == [from: Statuses, to: Statuses, actor: {"system"} \cup Clients]

\* What the accounting export says of the invoice: the status it started
\* from, the audit entry it found for the approval, the data it copied.
Artifact ==
    [status: Statuses, approval: AuditEntry \cup {None},
     reading: Readings, match: Matches \cup {None}]

\* A flush of an UPDATE holds the row's lock until commit or rollback.
Locked(i) == \E p \in Processes : sess[p].inv = i /\ sess[p].pc \in {"flushed", "stored"}
-----------------------------------------------------------------------------
Init ==
    /\ status = [i \in Invoices |-> "absent"]
    /\ audit = [i \in Invoices |-> <<>>]
    /\ reading = [i \in Invoices |-> None]
    /\ match = [i \in Invoices |-> None]
    /\ matchedVendors = [i \in Invoices |-> {}]
    /\ validation = [i \in Invoices |-> "none"]
    /\ exports = [i \in Invoices |-> {}]
    /\ artifacts = [i \in Invoices |-> <<>>]
    /\ queue = [t \in Tasks |-> [i \in Invoices |-> 0]]
    /\ sess = [p \in Processes |-> Idle]
    /\ faults = 0 /\ redeliveries = 0 /\ llmErrors = 0

\* Mutant: the audit row is written from the status the session first loaded.
Advance_AuditFromLoaded(i, base, path, actor) ==
    /\ CanTransition(base, path[1])
    /\ status' = [status EXCEPT ![i] = path[Len(path)]]
    /\ audit' = [audit EXCEPT ![i] = @ \o
           [k \in DOMAIN path |-> [from |-> base, to |-> path[k], actor |-> actor]]]

\* Mutant: the audit row keeps the default actor.
Advance_DefaultActor(i, base, path, actor) ==
    LET from(k) == IF k = 1 THEN base ELSE path[k - 1]
    IN  /\ \A k \in DOMAIN path : CanTransition(from(k), path[k])
        /\ status' = [status EXCEPT ![i] = path[Len(path)]]
        /\ audit' = [audit EXCEPT ![i] = @ \o
               [k \in DOMAIN path |-> [from |-> from(k), to |-> path[k], actor |-> "system"]]]

\* services/lifecycle.advance, once per status of path: refuse an illegal move
\* (judged on the status the session loaded), append the audit entry, assign
\* the status.  The whole walk becomes visible with the commit.
Advance(i, base, path, actor) ==
    LET from(k) == IF k = 1 THEN base ELSE path[k - 1]
    IN  /\ \A k \in DOMAIN path : CanTransition(from(k), path[k])
        /\ status' = [status EXCEPT ![i] = path[Len(path)]]
        /\ audit' = [audit EXCEPT ![i] = @ \o
               [k \in DOMAIN path |-> [from |-> from(k), to |-> path[k], actor |-> actor]]]

\* Which task is enqueued once a status is committed: ingest_upload,
\* approve_and_export and the task bodies of workers/tasks.py.
Chain == [received |-> "extract_invoice", extracted |-> "match_invoice",
          validating |-> "validate_invoice", validated |-> "approve_invoice",
          auto_approved |-> "export_invoice", approved |-> "export_invoice"]

\* Mutants: a stage forgets to chain; approval chains whatever it decided.
FollowUp_NotAfterExtraction(committed) ==
    IF committed \in DOMAIN Chain \ {"extracted"} THEN Chain[committed] ELSE "none"
FollowUp_NotAfterValidation(committed) ==
    IF committed \in DOMAIN Chain \ {"validated"} THEN Chain[committed] ELSE "none"
FollowUp_NotAfterHuman(committed) ==
    IF committed \in DOMAIN Chain \ {"approved"} THEN Chain[committed] ELSE "none"
FollowUp_AlwaysExports(committed) ==
    IF committed \in DOMAIN Chain THEN Chain[committed]
    ELSE IF committed = "needs_review" THEN "export_invoice" ELSE "none"

FollowUp(committed) == IF committed \in DOMAIN Chain THEN Chain[committed] ELSE "none"

\* A session that has committed i with a new status: done, or about to chain.
Committed(i, new) ==
    IF FollowUp(new) = "none" THEN Idle ELSE Sending(FollowUp(new), i)

\* Process p advances its invoice along path, commits, and goes on.
Commit(p, path, actor) ==
    LET s == sess[p] IN
    /\ Advance(s.inv, s.base, path, actor)
    /\ sess' = [sess EXCEPT ![p] = Committed(s.inv, path[Len(path)])]

\* The row `latest_*` picks once a new row is written: rows are ordered by the
\* start of their transactions, so beside an older row either may come last.
Latest(old, new, absent) == {new} \cup ({old} \ {absent})

\* Celery acknowledges early: a message is gone once a worker has taken it.
Receive(w, task, i) ==
    /\ sess[w].pc = "idle"
    /\ queue[task][i] > 0
    /\ queue' = [queue EXCEPT ![task][i] = @ - 1]

\* Take a message whose invoice is in a status the stage starts from, and load
\* the rows the stage reads.
Begin(w, task, i) ==
    /\ Receive(w, task, i)
    /\ sess' = [sess EXCEPT ![w] = Loaded(task, i)]
    /\ UNCHANGED <<database, artifacts, counters>>

Doing(p, pc, job) == sess[p].pc = pc /\ sess[p].job = job

\* session.flush() of the working status: waits for the row's lock, takes it.
Flush(p, task, working) ==
    /\ Doing(p, "loaded", task)
    /\ ~Locked(sess[p].inv)
    /\ CanTransition(sess[p].base, working)
    /\ sess' = [sess EXCEPT ![p].pc = "flushed"]
    /\ UNCHANGED <<database, artifacts, queue, counters>>
-----------------------------------------------------------------------------
(* Upload: POST /invoices and POST /ui/invoices, services/ingestion.py     *)

\* The row is committed before the task is enqueued.
Upload(c, i) ==
    /\ sess[c].pc = "idle"
    /\ status[i] = "absent"
    /\ status' = [status EXCEPT ![i] = "received"]
    /\ sess' = [sess EXCEPT ![c] = Committed(i, "received")]
    /\ UNCHANGED <<audit, reading, match, matchedVendors, validation, exports,
                   artifacts, queue, counters>>

\* <task>.delay(id), after the commit.
Send(p) ==
    /\ sess[p].pc = "sending"
    /\ queue' = [queue EXCEPT ![sess[p].job][sess[p].inv] = @ + 1]
    /\ sess' = [sess EXCEPT ![p] = Idle]
    /\ UNCHANGED <<database, artifacts, counters>>

StartStatuses(task) ==
    CASE task = "extract_invoice"  -> {"received"}
      [] task = "match_invoice"    -> {"extracted"}
      [] task = "validate_invoice" -> {"validating"}
      [] task = "approve_invoice"  -> {"validated"}
      [] task = "export_invoice"   -> {"auto_approved", "approved"}

\* A stage returns None unless the invoice is in its starting status: the
\* message is consumed and nothing is chained.
Skip(w, task, i) ==
    /\ Receive(w, task, i)
    /\ status[i] \notin StartStatuses(task)
    /\ UNCHANGED <<database, artifacts, sess, counters>>
-----------------------------------------------------------------------------
(* Extraction: services/extraction.run_extraction                          *)

BeginExtraction(w, i) == Begin(w, "extract_invoice", i) /\ status[i] = "received"

FlushExtraction(w) == Flush(w, "extract_invoice", "extracting")

\* The model answered with a valid result: a new extractions row.
CompleteExtraction(w, r) ==
    /\ Doing(w, "flushed", "extract_invoice")
    /\ Commit(w, <<"extracting", "extracted">>, "system")
    /\ \E latest \in Latest(reading[sess[w].inv], r, None) :
          reading' = [reading EXCEPT ![sess[w].inv] = latest]
    /\ UNCHANGED <<match, matchedVendors, validation, exports, artifacts, queue, counters>>

\* Mutant: an attempt without a result lands in extracted all the same.
FailExtraction_LandsExtracted(w) ==
    /\ Doing(w, "flushed", "extract_invoice")
    /\ Commit(w, <<"extracting", "extracted">>, "system")
    /\ UNCHANGED <<reading, match, matchedVendors, validation, exports,
                   artifacts, queue, counters>>

\* _fail: no text layer, no API key, or every attempt's answer unusable.  The
\* row it adds has ok = False, which latest_successful_extraction passes over.
FailExtraction(w) ==
    /\ Doing(w, "flushed", "extract_invoice")
    /\ Commit(w, <<"extracting", "failed">>, "system")
    /\ UNCHANGED <<reading, match, matchedVendors, validation, exports,
                   artifacts, queue, counters>>

\* complete_json raises LLMError (transport or HTTP error), the document cannot
\* be opened, the row cannot be stored: no handler catches it, session_scope
\* rolls back, the task ends in FAILURE and is not retried.
RaiseLlmError(w) ==
    /\ llmErrors < MaxLlmErrors
    /\ Doing(w, "flushed", "extract_invoice")
    /\ llmErrors' = llmErrors + 1
    /\ sess' = [sess EXCEPT ![w] = Idle]
    /\ UNCHANGED <<database, artifacts, queue, faults, redeliveries>>
-----------------------------------------------------------------------------
(* Matching: services/matching.run_matching                                *)

\* Beside the status, the stage asks for a successful extraction; its answer
\* to a missing one is never needed (StageDataPresent).
BeginMatching(w, i) ==
    Begin(w, "match_invoice", i) /\ status[i] = "extracted" /\ reading[i] # None

FlushMatching(w) == Flush(w, "match_invoice", "matching")

\* Mutant: a match without a vendor still counts as a match to one.
VendorsNamed_Null(m) == {m.vendor}

\* The vendors a row of invoice_matches can be found by.
VendorsNamed(m) == {m.vendor} \ {None}

\* The vendors and purchase orders read after the flush settle on m.
CompleteMatching(w, m) ==
    LET i == sess[w].inv IN
    /\ Doing(w, "flushed", "match_invoice")
    /\ Commit(w, <<"matching", "validating">>, "system")
    /\ \E latest \in Latest(match[i], m, None) : match' = [match EXCEPT ![i] = latest]
    /\ matchedVendors' = [matchedVendors EXCEPT ![i] = @ \cup VendorsNamed(m)]
    /\ UNCHANGED <<reading, validation, exports, artifacts, queue, counters>>
-----------------------------------------------------------------------------
(* Validation: services/validation.run_validation                          *)

BeginValidation(w, i) ==
    Begin(w, "validate_invoice", i) /\ status[i] = "validating" /\ reading[i] # None

\* if match.vendor_id is not None and extracted.invoice_number
ChecksDuplicates(s) ==
    s.match # None /\ s.match.vendor # None /\ s.reading.number \notin {None, Blank}

\* Mutant: only invoices already past validation are listed.
Rivals_ValidatedOnly(s) ==
    {j \in Invoices \ {s.inv} :
        ChecksDuplicates(s) /\ s.match.vendor \in matchedVendors[j] /\ validation[j] # "none"}

\* _find_duplicate_candidates, first half: one SELECT of the other invoices
\* ever matched to the same vendor.
Rivals(s) ==
    {j \in Invoices \ {s.inv} : ChecksDuplicates(s) /\ s.match.vendor \in matchedVendors[j]}

ListRivals(w) ==
    LET s == sess[w] IN
    /\ Doing(w, "loaded", "validate_invoice")
    /\ sess' = [sess EXCEPT ![w] =
           [s EXCEPT !.pc = "scanning", !.rivals = Rivals(s), !.verdict = "passed"]]
    /\ UNCHANGED <<database, artifacts, queue, counters>>

\* Mutant: only an invoice that has already been decided on competes.
IsLive_DecidedOnly(j) == status[j] \in {"auto_approved", "approved", "exported"}

\* A failed or a rejected invoice does not compete for its number.
IsLive(j) == status[j] \notin {"failed", "rejected"}

\* latest_successful_extraction of j carries the number.
HasNumber(j, number) == reading[j] # None /\ reading[j].number = number

\* Second half: the listed invoices are looked at one after another, each in two
\* queries.  session.get reads the row; one that is not live is passed over ...
GetRival(w, j) ==
    LET s == sess[w] IN
    /\ s.pc = "scanning" /\ s.rival = None /\ j \in s.rivals
    /\ sess' = [sess EXCEPT ![w] =
           [s EXCEPT !.rivals = @ \ {j}, !.rival = IF IsLive(j) THEN j ELSE None]]
    /\ UNCHANGED <<database, artifacts, queue, counters>>

\* ... and its extractions are loaded when they are asked for.
ReadRival(w) ==
    LET s == sess[w] IN
    /\ s.pc = "scanning" /\ s.rival # None
    /\ sess' = [sess EXCEPT ![w] =
           [s EXCEPT !.rival = None,
                     !.verdict = IF HasNumber(s.rival, s.reading.number) THEN "failed" ELSE @]]
    /\ UNCHANGED <<database, artifacts, queue, counters>>

\* run_rules: a duplicate or a missing number blocks; any other blocking rule
\* (amounts, dates, purchase order) may fail as well.  One flush, then commit.
CompleteValidation(w, passed) ==
    LET s == sess[w] IN
    /\ s.pc = "scanning" /\ s.rivals = {} /\ s.rival = None /\ ~Locked(s.inv)
    /\ passed = "passed" => s.verdict = "passed" /\ s.reading.number # None
    /\ Commit(w, <<"validated">>, "system")
    /\ \E latest \in Latest(validation[s.inv], passed, "none") :
          validation' = [validation EXCEPT ![s.inv] = latest]
    /\ UNCHANGED <<reading, match, matchedVendors, exports, artifacts, queue, counters>>
-----------------------------------------------------------------------------
(* Approval: services/approval.py                                          *)

BeginApproval(w, i) ==
    /\ Begin(w, "approve_invoice", i) /\ status[i] = "validated"
    /\ reading[i] # None /\ validation[i] # "none"

\* Mutant: the policy forgets the confidence of the critical fields.
Decision_AnyConfidence(s) ==
    IF s.verdict = "passed" /\ s.match # None /\ s.match.vendor # None /\ s.match.po # None
    THEN "auto_approved" ELSE "needs_review"

\* domain/approval.decide_approval on the rows the session loaded.
Decision(s) ==
    IF /\ s.verdict = "passed"
       /\ s.match # None /\ s.match.vendor # None /\ s.match.po # None
       /\ s.reading.confidence = "high"
    THEN "auto_approved" ELSE "needs_review"

\* run_approval: one flush, then commit; only an auto-approval chains on.
CompleteApproval(w) ==
    /\ Doing(w, "loaded", "approve_invoice") /\ ~Locked(sess[w].inv)
    /\ Commit(w, <<Decision(sess[w])>>, "system")
    /\ UNCHANGED <<reading, match, matchedVendors, validation, exports,
                   artifacts, queue, counters>>

Target(decision) == IF decision = "approve" THEN "approved" ELSE "rejected"

\* A reviewer's request has read the invoice.  From any other status advance
\* raises RuntimeError, the request is answered 409 and changes nothing.
OpenDecision(c, i, decision) ==
    /\ sess[c].pc = "idle"
    /\ CanTransition(status[i], Target(decision))
    /\ sess' = [sess EXCEPT ![c] = Loaded(decision, i)]
    /\ UNCHANGED <<database, artifacts, queue, counters>>

\* record_human_decision flushes a rejection and the request is answered with
\* it; get_db commits after the answer is sent.
FlushRejection(c) == Flush(c, "reject", "rejected")

\* approve_and_export flushes and commits by itself, then enqueues; a rejection
\* is committed when its request ends.
RecordDecision(c) ==
    LET s == sess[c] IN
    /\ \/ Doing(c, "loaded", "approve") /\ ~Locked(s.inv)
       \/ Doing(c, "flushed", "reject")
    /\ Commit(c, <<Target(s.job)>>, c)
    /\ UNCHANGED <<reading, match, matchedVendors, validation, exports,
                   artifacts, queue, counters>>
-----------------------------------------------------------------------------
(* Export: services/export.run_export                                      *)

BeginExport(w, i) ==
    /\ Begin(w, "export_invoice", i) /\ status[i] \in {"auto_approved", "approved"}
    /\ reading[i] # None

FlushExport(w) == Flush(w, "export_invoice", "exporting")

\* _approval_audit_entry: the last audit entry that approved the invoice.
ApprovalEntries(i) ==
    {k \in DOMAIN audit[i] : audit[i][k].to \in {"auto_approved", "approved"}}

LatestApproval(i) ==
    IF ApprovalEntries(i) = {} THEN {None}
    ELSE {audit[i][k] : k \in {k \in ApprovalEntries(i) : \A l \in ApprovalEntries(i) : l <= k}}

\* The artifact is put before the commit.  The extraction is the one loaded
\* before the flush, the match and the approval entry are read after it.
StoreArtifact(w) ==
    LET s == sess[w] IN
    /\ Doing(w, "flushed", "export_invoice")
    /\ \E approval \in LatestApproval(s.inv) :
          artifacts' = [artifacts EXCEPT ![s.inv] = Append(@,
              [status |-> s.base, approval |-> approval,
               reading |-> s.reading, match |-> match[s.inv]])]
    /\ sess' = [sess EXCEPT ![w].pc = "stored"]
    /\ UNCHANGED <<database, queue, counters>>

\* The exports row names the artifact just put: under the row's lock it is
\* the invoice's last one.
CompleteExport(w) ==
    LET i == sess[w].inv IN
    /\ Doing(w, "stored", "export_invoice")
    /\ Commit(w, <<"exporting", "exported">>, "system")
    /\ exports' = [exports EXCEPT ![i] = @ \cup {Len(artifacts[i])}]
    /\ UNCHANGED <<reading, match, matchedVendors, validation,
                   artifacts, queue, counters>>
-----------------------------------------------------------------------------
(* Failures                                                                *)

\* A process dies with its transaction open: the database rolls back, the
\* message is already acknowledged, an artifact already put stays.
Abort(p) ==
    /\ faults < MaxFaults
    /\ sess[p].pc \in {"loaded", "scanning", "flushed", "stored"}
    /\ faults' = faults + 1
    /\ sess' = [sess EXCEPT ![p] = Idle]
    /\ UNCHANGED <<database, artifacts, queue, redeliveries, llmErrors>>

\* A process dies, or the broker refuses the message, between the commit and
\* the enqueue.
DropSend(p) ==
    /\ faults < MaxFaults
    /\ sess[p].pc = "sending"
    /\ faults' = faults + 1
    /\ sess' = [sess EXCEPT ![p] = Idle]
    /\ UNCHANGED <<database, artifacts, queue, redeliveries, llmErrors>>

\* The Redis broker hands a message it has delivered but not seen acknowledged
\* in time to another worker as well.
Redeliver(task, i) ==
    /\ redeliveries < MaxRedeliveries
    /\ queue[task][i] > 0
    /\ redeliveries' = redeliveries + 1
    /\ queue' = [queue EXCEPT ![task][i] = @ + 1]
    /\ UNCHANGED <<database, artifacts, sess, faults, llmErrors>>
-----------------------------------------------------------------------------
WorkerStep(w) ==
    \/ \E i \in Invoices : \/ \E task \in Tasks : Skip(w, task, i)
                           \/ BeginExtraction(w, i)
                           \/ BeginMatching(w, i)
                           \/ BeginValidation(w, i)
                           \/ BeginApproval(w, i)
                           \/ BeginExport(w, i)
                           \/ GetRival(w, i)
    \/ FlushExtraction(w)
    \/ FlushMatching(w)
    \/ FlushExport(w)
    \/ \E r \in Readings : CompleteExtraction(w, r)
    \/ FailExtraction(w)
    \/ RaiseLlmError(w)
    \/ \E m \in Matches : CompleteMatching(w, m)
    \/ ListRivals(w)
    \/ ReadRival(w)
    \/ \E passed \in {"passed", "failed"} : CompleteValidation(w, passed)
    \/ CompleteApproval(w)
    \/ StoreArtifact(w)
    \/ CompleteExport(w)
    \/ Send(w)

\* What a request in flight does by itself.
RequestStep(c) == FlushRejection(c) \/ RecordDecision(c) \/ Send(c)

\* What people do.
RequestArrives(c) ==
    \E i \in Invoices : \/ Upload(c, i)
                        \/ \E decision \in Decisions : OpenDecision(c, i, decision)

Failure ==
    \/ \E p \in Processes : Abort(p) \/ DropSend(p)
    \/ \E task \in Tasks, i \in Invoices : Redeliver(task, i)

Next ==
    \/ \E w \in Workers : WorkerStep(w)
    \/ \E c \in Clients : RequestStep(c) \/ RequestArrives(c)
    \/ Failure

Spec == Init /\ [][Next]_vars

\* A live worker slot keeps taking messages and finishes what it has taken; a
\* request that has arrived runs to its end.  Nobody has to upload or decide.
Fairness ==
    /\ \A w \in Workers : WF_vars(WorkerStep(w))
    /\ \A c \in Clients : WF_vars(RequestStep(c))

FairSpec == Spec /\ Fairness
-----------------------------------------------------------------------------
(* Properties                                                              *)

TypeOK ==
    /\ status \in [Invoices -> Statuses \cup {"absent"}]
    /\ audit \in [Invoices -> Seq(AuditEntry)]
    /\ reading \in [Invoices -> Readings \cup {None}]
    /\ match \in [Invoices -> Matches \cup {None}]
    /\ matchedVendors \in [Invoices -> SUBSET Vendors]
    /\ validation \in [Invoices -> Outcomes]
    /\ exports \in [Invoices -> SUBSET Nat]
    /\ artifacts \in [Invoices -> Seq(Artifact)]
    /\ queue \in [Tasks -> [Invoices -> Nat]]
    /\ sess \in [Processes -> Session]
    /\ faults \in Nat /\ redeliveries \in Nat /\ llmErrors \in Nat

\* The branches of run_matching, run_validation, run_approval and run_export
\* for missing rows are never taken: whatever is lost, retried or overwritten,
\* an invoice that a stage may start on has the rows that stage reads, whichever
\* of several is the latest.  (Two of those branches would ask for an illegal
\* move to failed and raise.)
StageDataPresent ==
    \A i \in Invoices :
        /\ status[i] \in UNION {StartStatuses(t) : t \in Tasks \ {"extract_invoice"}}
              => reading[i] # None
        /\ status[i] = "validated" => validation[i] # "none"

\* Two invoices bill the same thing: same vendor, same invoice number.
SameBill(i, j) ==
    /\ match[i] # None /\ match[j] # None
    /\ match[i].vendor = match[j].vendor /\ match[i].vendor # None
    /\ reading[i] # None /\ reading[j] # None
    /\ reading[i].number = reading[j].number /\ reading[i].number \in Numbers

\* A log has an entry that leads to status s.
LeadsTo(log, s) == \E k \in DOMAIN log : log[k].to = s

Logged(i, s) == LeadsTo(audit[i], s)

AutoApproved(i) == Logged(i, "auto_approved")

\* Two invoices with the same vendor and number are never both approved
\* without a human, although run_validation looks for the other one in a
\* transaction of its own and nothing serialises the two validations.
NoDoubleAutoApproval ==
    \A i, j \in Invoices :
        i # j /\ SameBill(i, j) => ~(AutoApproved(i) /\ AutoApproved(j))

\* Whatever run_export reads before and after its flush, the artifact carries
\* the very data that was approved, and names the latest approval of the log,
\* one to the status it loaded: the system's only for an invoice that passed
\* every check.
ExportIsWhatWasApproved ==
    \A i \in Invoices : \A k \in DOMAIN artifacts[i] :
        LET a == artifacts[i][k] IN
        /\ a.reading = reading[i] /\ a.match = match[i]
        /\ a.approval # None /\ a.approval.to = a.status
        /\ a.status = "auto_approved" =>
              /\ a.approval.actor = "system"
              /\ validation[i] = "passed" /\ a.reading.confidence = "high"
              /\ a.match # None /\ a.match.vendor # None /\ a.match.po # None
        /\ a.status = "approved" => a.approval.actor \in Clients

\* The log of i is one walk from received to the invoice's status.
Reconstructs(i) ==
    /\ \A k \in 1 .. Len(audit[i]) - 1 : audit[i][k].to = audit[i][k + 1].from
    /\ audit[i] # <<>> => /\ audit[i][1].from = "received"
                         /\ audit[i][Len(audit[i])].to = status[i]

\* services/lifecycle.py: "the full transition history is reconstructible":
\* each audit entry continues the one before it, the last one leads to the
\* invoice's status.
AuditReconstructs == \A i \in Invoices : Reconstructs(i)

\* docs/export-contract.md: "An invoice is exported once".
ExportedAtMostOnce == \A i \in Invoices : Cardinality(exports[i]) <= 1

\* The log of i holds at most one decision of a person.
Undisputed(i) ==
    \A k, l \in DOMAIN audit[i] :
        audit[i][k].actor \in Clients /\ audit[i][l].actor \in Clients => k = l

\* However many requests have an invoice open at once, crash or give up, its
\* history stays one walk with one export until a second person's decision is
\* recorded of it: nothing but record_human_decision on a stale row breaks it.
OneDecisionKeepsHistory ==
    \A i \in Invoices :
        Undisputed(i) => Reconstructs(i) /\ Cardinality(exports[i]) <= 1

\* run_export may run any number of times at once on an invoice, but each run
\* goes back to an approval that is in the log or to a message delivered twice.
ExportsPerApproval ==
    \A i \in Invoices :
        Cardinality(exports[i]) <= Cardinality(ApprovalEntries(i)) + redeliveries

\* Somebody still has to, and will, act on invoice i: a message waits or a
\* process has taken one or is about to send one.
InProgress(i) ==
    \/ \E t \in Tasks : queue[t][i] > 0
    \/ \E p \in Processes : sess[p].inv = i

Settled == TerminalStatuses \cup {"needs_review"}

Stranded(i) == status[i] \notin Settled \cup {"absent"} /\ ~InProgress(i)

\* An invoice is left half way, with no message and no process that would
\* carry it on, only by a crash or an LLM error, and by each of those at most
\* one: no interleaving of the stages loses a message by itself.
StrandedOnlyByFailure ==
    Cardinality({i \in Invoices : Stranded(i)}) <= faults + llmErrors

\* domain/state.py: a terminal status is never left.
TerminalIsFinal ==
    [][\A i \in Invoices : status[i] \in TerminalStatuses => status'[i] = status[i]]_vars

\* This step records a person's decision about i.
DecidesNow(i) ==
    /\ Len(audit'[i]) > Len(audit[i])
    /\ audit'[i][Len(audit'[i])].actor \in Clients

\* domain/state.py: "A status absent from this map is terminal": no stage takes
\* an invoice out of a final status, only a person's decision could, judged on a
\* row it had loaded before.  (run_export does, when a rejection is committed
\* while it is under way: it never reads the row again.)
StagesKeepFinal ==
    [][\A i \in Invoices :
        status[i] \in TerminalStatuses /\ status'[i] # status[i] => DecidesNow(i)]_vars

\* An export that loaded an approval of i commits over the rejection recorded
\* in the meantime.
OverwritesRejection(i) ==
    status[i] = "rejected" /\ status'[i] = "exported" /\ Logged(i, "approved")

\* An invoice leaves a final status only if a second person's decision is in its
\* log, and only in one of two ways: the step records that decision, judged on
\* a row loaded before the first, or it is the export of an approval that was
\* overwritten by a rejection, which it overwrites in turn.
OnlyDisputesReopen ==
    [][\A i \in Invoices :
        status[i] \in TerminalStatuses /\ status'[i] # status[i] =>
            /\ ~Undisputed(i)'
            /\ DecidesNow(i) \/ OverwritesRejection(i)]_vars

\* services/lifecycle.py, domain/state.py and docs/export-contract.md together:
\* whatever is interrupted, an invoice walks along the table from the status it
\* is really in, is decided by people where people decide, and is recorded as
\* exported once, with the move.  (Two requests that decide at once break it.)
Lifecycle ==
    INSTANCE InvoiceLifecycle WITH
        Reviewers <- Clients,
        exports <- [i \in Invoices |-> Cardinality(exports[i])]
KeepsLifecycle == Lifecycle!Spec

\* services/extraction.py: "an attempt lands the invoice in EXTRACTED (...) or
\* FAILED".
ExtractionLands ==
    \A i \in Invoices : status[i] = "received" ~> status[i] # "received"

\* api/review_ui.py: "forms POST, the server redirects (PRG pattern), the next
\* GET renders the new state".  What a request has been answered is what the
\* next one sees.
ReplyIsTrue ==
    \A c \in Clients : Doing(c, "flushed", "reject") => status[sess[c].inv] = "rejected"

\* docs/export-contract.md on vendor_id and po_id: "in practice both are always
\* present for an export produced by this pipeline".
ExportNamesVendorAndOrder ==
    \A i \in Invoices : \A k \in exports[i] :
        LET m == artifacts[i][k].match IN m # None /\ m.vendor # None /\ m.po # None

\* A crash or an LLM error has left i half way: nobody will act on it.
LeftBehind(i) == Stranded(i) /\ faults + llmErrors > 0

\* Every uploaded invoice reaches a decision or a terminal status, unless a
\* failure leaves it behind on its way through the stages ...
EverySubmissionSettles ==
    \A i \in Invoices :
        status[i] = "received" ~>
            status[i] \in Settled \cup {"auto_approved"} \/ LeftBehind(i)

\* ... and every approved one its export, unless a failure leaves it behind
\* before, or a second person's rejection overwrites the approval.
ApprovedIsExported ==
    \A i \in Invoices :
        status[i] \in {"auto_approved", "approved"} ~>
            \/ status[i] = "exported"
            \/ status[i] = "rejected" /\ ~Undisputed(i)
            \/ LeftBehind(i)
=============================================================================
