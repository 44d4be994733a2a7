# Verification of the invoice operating system

TLA+ models of `src/invoice_ops`, their TLC instances and TLAPS proofs. Paths
below are relative to the repository's `src/invoice_ops/` unless they start
with `docs/`. `PROJECT.json` lists the components, the runs, the source lines
behind every definition, the mutants, the findings and the hazards.

To check: `tlc -config <run>.cfg <module>.tla` for a run of the table below,
`tlapm` for each `*Proofs.tla`.

## 1. The system

An accounts-payable service. An invoice document is uploaded, a chain of five
Celery tasks extracts, matches, validates, approves and exports it, and a human
decides the cases the policy does not approve by itself. PostgreSQL holds the
rows, an object store the documents and the export artifacts, Redis the task
messages.

| Component | Code | State | Operations |
|---|---|---|---|
| Lifecycle | `domain/state.py`, `services/lifecycle.py` | `invoices.status`, `audit_log` | `advance`: checks the transition table, appends an audit row, assigns the status |
| Task chain | `workers/tasks.py`, `queue.py` | messages in Redis | each task opens a session, runs its stage, commits, then enqueues the next task |
| Extraction | `services/extraction.py`, `services/llm.py`, `services/documents.py` | `extractions` | `received -> extracting -> extracted` or `failed`; LLM calls with retries |
| Matching | `services/matching.py`, `domain/matching.py` | `invoice_matches` | `extracted -> matching -> validating`; vendor and order lookup |
| Validation | `services/validation.py`, `domain/validation.py` | `validations` | `validating -> validated`; duplicate search, seven rules |
| Approval | `services/approval.py`, `domain/approval.py` | - | `validated -> auto_approved` or `needs_review`; human `approved` or `rejected` |
| Export | `services/export.py`, `domain/export.py` | `exports`, artifacts | `(auto_)approved -> exporting -> exported`; canonical JSON, HMAC |
| Ingestion | `services/ingestion.py` | `invoices`, raw documents | deduplicates by content digest, stores, inserts, commits, enqueues |
| API and review UI | `api/` | one session per request | upload, approve, reject; read-only views |
| Sessions | `db.py`, `models.py` | open transactions | commit on success, roll back on exception; no row versions, no `FOR UPDATE` |
| Seeds | `scripts/seed_demo.py`, `scripts/seed_eval_vendors.py` (repository root) | `vendors`, `purchase_orders` | insert the vendors whose tax id is new, with their orders |
| Evaluation | `evaluation/scoring.py` | - | offline scoring of extractions |

Components meet in four places: the rows of one invoice (every stage reads what
the ones before it wrote), the messages (each stage runs only because its
predecessor enqueued it *after* committing), the rows of *other* invoices
(the duplicate search), and the vendor and order tables.

### What is hard

- **Stale status.** A session judges a move on the status it loaded. Nothing
  locks the row before the flush or compares it afterwards, so two requests, or
  a request and a task, can both act on the same status.
- **Invisible working statuses.** `extracting`, `matching` and `exporting` are
  flushed but not committed until the stage ends; other sessions never see them.
- **Two invoices at once.** The duplicate check reads other invoices in a
  transaction that does not see what the other validation is about to write.
- **Commit and enqueue are two steps**, with a crash in between. Messages are
  acknowledged on receipt, so a dying worker loses its message; the Redis
  transport may on the other hand deliver a message twice.
- **External effects inside a transaction.** The export artifact is in storage
  before the commit that names it; a rollback does not remove it.
- **Identity.** A vendor is found by tax id, by name or by likeness, in tables
  that grow; two documents of one supplier need not be found by the same means.
- **Attempts.** One extraction is several calls of a model, each of which may
  answer well, answer badly, or raise; what the row says must be what happened.
- **Replies.** A rejection is answered before it is committed.
- **Missing data.** Most financial rules pass or warn when they lack their data;
  another rule or the policy has to close each gap.

### What makes each part correct

| Part | Properties | Status |
|---|---|---|
| Lifecycle | every stage is a step of one abstract lifecycle; the audit log reconstructs the status; terminal statuses are final; all this until a second decision on one invoice is recorded, after which an invoice leaves a final status in two ways only | checked, proved under the conditions section 5 names |
| Task chain | nothing is stranded except by a failure, and at most one invoice per failure; every stage finds its data; everything settles and every approval is exported, but for named exceptions | safety proved, liveness checked |
| Extraction | an attempt is one step for everybody else; its row tells what happened; a failure reason is that of a failure; it ends | checked, proved (that it ends: checked) |
| Matching | an accepted vendor has no rival of that moment | checked, proved |
| Validation and approval | no bill, and no order under one invoice number, is approved twice by the machine | checked, proved |
| Rules and policy | an automatic approval is backed by an order; gaps are caught | checked, proved |
| Export | at most once per invoice; at most once per approval and redelivery; what is exported is what was approved | checked, proved (the first under two conditions, the last while messages are delivered once) |
| Ingestion | one invoice per content, whoever wins the race; every row has its document; one message each; the pipeline sees one `Upload` | checked, proved |

## 2. The modules

| Module | Models |
|---|---|
| `InvoiceState` | the statuses and the transition table |
| `InvoiceLifecycle` | what the table and `advance` promise every invoice: an abstract specification of three variables |
| `InvoicePipeline` | the five tasks, the requests, the database, the broker, the failures; implements `InvoiceLifecycle` |
| `InvoicePipelineInvariant` | the inductive invariant of the pipeline, in named layers |
| `Extraction` | one invoice's extraction, call by call; implements the extraction stage of `InvoicePipeline` |
| `InvoiceData` | extracted invoices, vendors and orders |
| `VendorMatching` | `match_vendor` and `match_po` |
| `FinancialRules` | the seven rules and the approval policy over integer cents |
| `InvoiceDecision` | matching, validation, approval and review over the two modules above, with tables that grow |
| `UploadRegister` | what ingestion promises: a register per document, written once |
| `Ingestion` | `ingest_upload`, step by step, over rows, objects and messages; implements `UploadRegister`, and the uploads of `InvoicePipeline` |
| `MC*` | the small instances |
| `*Proofs` | the proofs: `InvoicePipelineProofs` (types, data, double approvals, exports), `PipelineProgressProofs` (nothing stranded), `PipelineLifecycleProofs` (the refinement), `InvoiceLifecycleProofs` (the abstract specification), `InvoiceDecisionProofs` with `FinancialRulesProofs`, `IngestionProofs`, `ExtractionProofs` |

Three modules look at the middle of the system, each keeping what the others
leave out. `InvoicePipeline` has the concurrency and the failures, and lets each
stage find anything its code allows. `Extraction` replaces one of its steps by
the calls behind it. `InvoiceDecision` has the findings themselves, with every
message delivered once.

### `InvoicePipeline` and the code

*Processes* are Celery worker slots (`Workers`) and API requests (`Clients`).
`sess[p]` is the one session a process has open: `pc` says how far it has come,
`base`, `reading`, `match` and `verdict` are what it has *loaded*, which the
tables may have left behind since.

| In the model | In the code |
|---|---|
| `status`, `audit` | committed `invoices.status`; `audit_log` in order |
| `reading`, `match`, `validation` | what `latest_successful_extraction`, `latest_match`, `latest_validation` return |
| `matchedVendors` | the vendors of *all* match rows: what the duplicate search joins on |
| `exports`, `artifacts` | `exports` rows; the objects under `exports/<invoice>/` |
| `queue[task][i]` | messages waiting for a task |
| `Begin*` | a task takes a message and its session loads the invoice and its latest rows |
| `Flush*` | `advance` to the working status and `session.flush()`: waits for and takes the row lock |
| `Complete*`, `FailExtraction` | the rest of the stage up to the commit; the status moves through the working status in the same step |
| `Advance` | `lifecycle.advance`, once per status: legality judged on the loaded status, an audit entry each |
| `Latest` | `order_by created_at`, a column that PostgreSQL fills with the *start* of the transaction: beside an older row either one may come last |
| `ListRivals`, `GetRival`, `ReadRival` | `_find_duplicate_candidates`: one SELECT of invoice ids, then for each the row (`session.get`) and, if it is live, its extractions (a lazy load) |
| `OpenDecision`, `RecordDecision` | a reviewer's request loads the invoice, then flushes and commits |
| `FlushRejection` | a rejection is flushed and answered; `get_db` commits when the response is out (FastAPI since 0.118; `uv.lock` pins 0.141) |
| `Committed`, `Send`, `DropSend` | the gap between commit and `.delay`; the crash in it |
| `Skip` | a stage whose guard rejects the status returns `None`; nothing is chained |
| `Abort` | a process dies with its transaction open |
| `RaiseLlmError` | an exception nothing in the stage catches: an `LLMError` of a call, a document that cannot be opened, a row the database refuses |
| `Redeliver` | the broker's second delivery |

Granularity: between two writes or flushes, what one session reads about *its
own* invoice is one step. Reading what others write meanwhile, the rows of other
invoices and the vendor and order tables, is one step per query, because that is
where interleavings matter. There is one exception: `InvoiceDecision` lists and reads
the rivals in one step (`SearchDuplicates`), and leaves their interleavings to
`InvoicePipeline`. A flush that must wait for a lock is not
enabled until the lock is free, and then goes on with what the session had
loaded, as PostgreSQL does under READ COMMITTED. SQLite (development, one
writer) and eager mode (tasks run inside the request) allow a subset of these
interleavings.

Data: an extraction is its invoice number (a number, missing, or empty) and
whether every critical field clears the confidence threshold; a match is a
vendor or none and an order or none; a validation either passes or not, where
the duplicate rule and the missing number are exact and every other rule is a
free choice. `InvoiceDecision` makes that free choice exact. A request's identity
stands for the reviewer it names; the API takes any name, also `system`, and a
log in which a person calls himself that says less than the model's.

### `FinancialRules` and the code

One operator per function, with its name. A Decimal is an integer of cents. The
only division, `abs(diff) / po_total <= 0.02`, is multiplied out *with its
sign*: for a negative order total the inequality turns round, as it does in
Python. (Python rounds the quotient to 28 digits; two amounts of `Numeric(12,2)`
cannot be so close to two percent that it shows.) Amounts of fractions of a cent
are outside the model. A confidence is `high`, `low` or missing.

### `VendorMatching`, `InvoiceDecision` and the code

A name is written stripped and lower-cased, as the code compares it. Tax ids and
order numbers appear raw and normalised, because the order table's key and the
seeds compare them raw and the matcher normalised. The ratio of two names is a
constant function: nothing is assumed of it but its range (not even that equal
names have ratio one). The code sorts candidates and looks at the first two; the
model asks for a candidate that is near enough and ahead of *every* other by the
gap, which is the same since the gap is positive.

`InvoiceDecision` takes a document from `extracted` to its decision:
`IdentifyVendor` and `RunMatching` (the queries of vendors and of orders, between
which a seed may commit), `SearchDuplicates`, `RunValidation`, `RunApproval`,
`Review`, and `Seed`, the scripts that add vendors and orders meanwhile. `Init`
takes tables and documents from the constant `Cases`; all that is assumed of
them is what the schema enforces: an order has a vendor, order numbers are
unique as written (`Consistent`). `None` in `papers` is a document not yet there.

The two views of these stages meet in `FindingsFitTheStages`. `ReadingOf`,
`MatchOf` and `VerdictOf` are what `InvoicePipeline` keeps of a document's rows,
and with them its own operators say what a session that has loaded these rows
finds: the duplicates (`Rivals`, `IsLive`, `HasNumber`), that it passes only without any
and with a number (`CompleteValidation`), what it decides (`Decision`). The real
rules and policy come to the same. It is not a refinement step by step, as a
step here is several of the pipeline's.

### `Extraction` and the code

| In the model | In the code |
|---|---|
| `sess[w]` | the local variables of `run_extraction` and `extract_with_retry` |
| `FlushExtracting` | `advance` to `extracting` and the flush, which takes the row's lock |
| `NoText`, `NoKey`, `OpenDocument` | the document has no text; the client cannot be built; otherwise the loop starts |
| `AnswerFits`, `AnswerRefused` | one turn of the loop: the call, `json.loads`, `model_validate` |
| `Escape` | everything no handler expects; `session_scope` rolls back |
| `LandSuccess`, `LandFailure` | the new row, `advance`, commit (`_fail` for the second) |
| `asked` | what the model was asked and answered, per attempt: not in the code, there to be compared with the rows |
| `Storable` | PostgreSQL takes no NUL in text and no NaN in JSON |

`AttemptsArePipelineSteps` maps this onto `InvoicePipeline` with one invoice and
no requests: the calls are stuttering, `Land*` is `Complete`- or
`FailExtraction`, `Escape` is `RaiseLlmError`.

### `InvoiceLifecycle`

Three variables, `status`, `audit` and the number of exports rows, and three kinds
of step: `Arrive`, one legal `Move` (by the system, or out of `needs_review` by a
person), `Work` (two legal moves through a working status nobody sees).
`KeepsLifecycle` is `InvoicePipeline` implementing it; that it holds needs that
messages are delivered once and that no two requests decide one invoice at once,
neither of which the code ensures. What the pipeline then inherits is proved of
the abstract specification.

### `Ingestion` and the code

A document stands for its bytes and their digest; an invoice is called by the
upload that created it. `req[r]` is one request: `Lookup` is the pre-check,
`PutObject` (S3) or `OpenFile` and `WriteFile` (a local file is emptied, then
written) are `put_object`, `Insert` is the flush, `Reread` the query after the
rollback, `Commit` and `Enqueue` the end. An insert of a digest that another
open transaction has inserted waits for that transaction, as a unique index
makes it; then it succeeds or meets the constraint. `Fail` is a process that
dies or a store, database or broker that fails, at any step: what is committed
or stored stays. `backend` is chosen once, in `Init`. Names matter because the
storage key holds the file's base name: two uploads of the same bytes under two
names store two objects, one of which no row names.

`UploadRegister` has one atomic `Create` per document and answers that all name
the same invoice. `Ingestion` implements it under the mapping: the owner of a
document is the creator of its committed row, the answer of a request is the
invoice it has responded with. The linearisation point is the commit.

The pipeline's `Upload` is this module's `Commit`, its `Send` and `DropSend` are
`Enqueue` and the `Fail` of a request that has committed: the two modules
overlap in exactly these steps. `UploadsArePipelineSteps` says so: with documents
as invoices and requests as clients, every behaviour of `Ingestion` is one of
`InvoicePipeline`, in which everything before the commit is invisible. Of the
faults the pipeline knows those that lost a message (`ForgottenDocuments`); a
request that fails before its commit, or after its message, is none to it.

## 3. The runs

| Run | Instance | Shows |
|---|---|---|
| `pipeline_crashes` | 2 invoices, 2 workers, 1 request at a time, 4 readings, 3 matches, 1 crash anywhere, 1 LLM error; 455,000 states | `KeepsLifecycle` (refinement), `NoDoubleAutoApproval`, `AuditReconstructs`, `ExportedAtMostOnce`, `StrandedOnlyByFailure`, `TerminalIsFinal`, `TypeOK` |
| `pipeline_requests` | 2 requests at once, no failures | `NoDoubleAutoApproval` and `ExportIsWhatWasApproved` survive the lost updates of concurrent decisions; `OneDecisionKeepsHistory`: a history survives until a second decision is recorded; `OnlyDisputesReopen`: the two ways in which a disputed invoice leaves a terminal status; `ExportsPerApproval` |
| `pipeline_redelivery` | 1 invoice, 2 redeliveries; 1,000,000 states | `StageDataPresent`, `StrandedOnlyByFailure` and `ExportsPerApproval` survive stages that run twice at once |
| `pipeline_liveness` | 2 invoices of one bill, 2 workers, 2 requests at once, 1 crash anywhere, 1 LLM error, fair; 132,000 states | `EverySubmissionSettles`: every upload settles unless a failure leaves it behind; `ApprovedIsExported`: every approval is exported unless a crash leaves the invoice behind or a second person's rejection overwrites the approval |
| `extraction_attempts` | 2 workers, 3 calls an attempt, 6 answers, 1 redelivery, 1 crash, 2 escapes; 112,000 states | `AttemptsArePipelineSteps` (refinement), `RowTellsTheAttempt`, `ReasonIsOfAFailure`, `EveryAttemptEnds`, `TypeOK` |
| `documents_decided` | one document with every combination of amounts and gaps; two whose supplier and order are named in every way, 3 vendors, 2 seeds; 1,750,000 states | `PaymentIsBacked`, `GapsAreCaught`, `NoOrderBilledTwice`, `VendorIsUnrivalled`, `FindingsFitTheStages`, `TypeOK` |
| `ingestion_races` | 3 uploads, 2 documents, 2 names, 2 backends, 1 fault; 190,000 states | `SameBytesSameInvoice` and `UploadsArePipelineSteps` (refinements), `RowHasDocument`, `RacesAreResolved`, `OneMessagePerInvoice`, `EveryUploadEnds` |

The five other runs are the findings of section 4.

Why the bounds are enough. The safety properties relate at most two invoices,
and the code relates an invoice to others only pairwise, in the duplicate
search. Two workers give every interleaving of two stages; a third could only
repeat one of them (`NoDoubleAutoApproval` is proved for any number anyway).
One crash hits every state of every stage. Two simultaneous requests are what it
takes for a lost update; in `pipeline_crashes` there is one at a time, because
with two `AuditReconstructs` and `ExportedAtMostOnce` fail (section 4). The
amounts of `documents_decided` include both sides of both ends of the tolerance
of one order, an order of another vendor, of zero and of less; its names are
equal, near one vendor, near two and near none, its vendors include one entered
twice, its orders two whose numbers differ in punctuation only. Three calls an
attempt are what it takes to tell the first complaint from the last. Three
uploads give a winner and two losers, which is what waiting for one insert and
then meeting the next takes.

Symmetry (workers, requests) is used in the pure safety runs only, and no
property there names one of them. `CHECK_DEADLOCK FALSE`: work ends when all
invoices are settled and nobody uploads or decides.

**Fairness.** Weak fairness for each worker's steps and for the steps of a
request in flight: a Celery worker polls its queue for as long as it lives, and
FastAPI runs a request that has arrived to its end. Nobody has to upload or to
decide, so `needs_review` counts as settled. Uploads (`Ingestion`) are such
requests too; a call of the model ends because its HTTP client has a timeout
(`Extraction`). After a crash or an LLM error the code has no retry and no
sweeper (`services/ingestion.py` mentions one that does not exist), so both
liveness properties except an invoice that has been left behind (`LeftBehind`:
half way, no message, no process, and there has been a failure);
`StrandedOnlyByFailure` says how many these can be. `ApprovedIsExported` has a
second exception, which needs no failure: a rejection judged on a row loaded
before the approval, and committed after it but before the export begins, is the
end of the invoice. The exception is no wider than that (a `rejected` whose log
holds two people's decisions), and for its sake two requests run at once in
`pipeline_liveness`. Messages are delivered once there: a second delivery of the
approval stage may overwrite a person's approval with `needs_review`. One reading
and one match are enough, since a validation may fail for any rule: either
invoice may be approved by the machine or wait for a person.

### What holds only without some failure

With one redelivery, `NoDoubleAutoApproval`, `ExportIsWhatWasApproved`,
`AuditReconstructs`, `ExportedAtMostOnce` and `TerminalIsFinal` can all be
violated: no stage is idempotent against a second session that has loaded the
same status. (`services/extraction.py:131` comments the guard on `received` with
"Do not create a second attempt"; as `extracting` is never committed by itself,
the guard does not see an attempt that is under way.) That messages are
delivered once is the assumption under which the other runs
stand; the theorems say of each *state* that no message has been delivered twice
so far (`OnceDelivered`), so they hold of every behaviour up to its first
redelivery. What a redelivery cannot break is `StageDataPresent`,
`StrandedOnlyByFailure` and `ExportsPerApproval`: it adds at most one export. Celery's Redis transport redelivers a message that is not acknowledged
within its visibility timeout;
with early acknowledgement that needs a worker that has fetched a message and
not started it.

## 4. Findings

Each has a run in which TLC shows the code doing what a sentence of the
repository says it does not.

| Run | The repository says | The code does |
|---|---|---|
| `export_over_rejection` | a status absent from the table is terminal (`domain/state.py`, `tests/test_state.py`) | an approval and a rejection are both judged on one `needs_review`; a rejection committed while the export is under way is overwritten with `exported`: `run_export` does not read the row again |
| `reply_before_commit` | after a POST the next GET renders the new state (`api/review_ui.py`) | a rejection is flushed, answered, and committed afterwards |
| `llm_error_strands` | an attempt lands in `extracted` or `failed` (`services/extraction.py`) | an `LLMError` escapes, the invoice stays `received` and nothing retries |
| `export_without_order` | vendor and order are always present in an export (`docs/export-contract.md`) | a human approves and exports an invoice without either |
| `zero_order_approved` | auto-approval only inside every tolerance (`README.md`) | an order of zero only warns, a negative one always passes |

Also met, without a run of their own:

Two decisions judged on one `needs_review`, as in `export_over_rejection`, do more
harm than that. They fork the log, so that the history is not "reconstructible for
any invoice" (`services/lifecycle.py`): `AuditReconstructs` is violated as soon as
both are committed. Two approvals enqueue two exports, against "exported once"
(`docs/export-contract.md`). And a rejection that is committed before the export
begins is the end of an approved invoice, which the same page says is exported "the
moment it reaches" `approved`: that is the exception of `ApprovedIsExported`. An artifact can be
read while its invoice is still approved, for good if the worker then dies,
although the same page says the status has moved on by then. A success after an
overlapping failed attempt leaves that attempt's `failure_reason` on an extracted
invoice (`tests/test_extraction.py` expects `None`): SQLAlchemy writes no column
that is set to the value it was loaded with. `ReasonIsOfAFailure` says how far
that goes: it takes a message delivered twice. A tax id that several vendors share
falls through to the names, where one of a *different* tax id may be accepted;
`services/matching.py` calls ambiguity "never silently resolved", and
`VendorIsUnrivalled` says in which sense it is not.

`domain/validation.py:6-8` says that missing data is a skip with severity `info`
and `passed=True`, but
`rule_po_amount_tolerance`, `rule_po_currency_match`, `rule_po_vendor_mismatch`
and `rule_line_items_sum_to_subtotal` return `warning` and `passed=False` for a
missing total, currency, vendor or line total. `GapsAreCaught` says what that
means for an approval.

## 5. Proofs

For every value of the constants, from the modules' named assumptions:
`PipelineAssumption`, `IngestionAssumption`, `ExtractionAssumption`,
`DataAssumption`, `RulesAssumption`, `MatchingAssumption` and
`DecisionAssumption` say that the sets are what their names say, that the
sentinels are not members of them, that the thresholds are ordered, and of
tables what the schema enforces.

### The pipeline

- `TypeCorrect`: `Spec => []TypeOK`. The types are inductive only together with
  `SessionOK`, which ties a session's loaded rows and its job to its `pc`.
- `StageDataAlwaysPresent`: `Spec => []StageDataPresent`, with crashes,
  redeliveries and LLM errors without bound. Strengthened to `StatusHasData`
  (every status after `received` except `failed` has a reading) and
  `SessionHasData` (so has the invoice of every open session beyond
  extraction): a session commits on what it *loaded*, and rows are never
  removed, so what it saw is still there however the status was overwritten.
- `StrandedOnlyWhenFailing`: `Spec => []StrandedOnlyByFailure`, redeliveries
  included. It counts: the invoices in an unsettled status that nothing attends
  to are at most the failures so far (`Answered`). A message or a session
  *attends* to an invoice if it is, or is before, the job the invoice's status
  calls for, so a stale session that overwrites a later status sends the message
  the overwritten status needs. Each step adds at most one invoice to the
  unattended ones, and only a failure adds any.
- `NoBillApprovedTwice`: `Spec => [](OnceDelivered => NoDoubleAutoApproval)`: until
  a message is delivered twice (`OnceDelivered` is `redeliveries = 0`), with any number of invoices, workers and requests and any crashes. Layers:
  - `OneToken`: each invoice has at most one message or session among the four
    stages before the decision, and it agrees with the status. `DecidedFirst`:
    exports and human decisions come only after one.
  - from those `RowsFollowStatus` (rows appear with the stage that writes them),
    `LoadedIsCurrent` (what such a session loaded is still what the tables say)
    and `DecisionLogged` (the log tells a machine's decision from a human's).
  - `NoMutualOversight`: of two invoices for the same bill that have each
    *overlooked* the other (passed, or scanning with nothing found and the other
    no longer to be read), one has been reviewed by a human. The one that lists
    its rivals later finds the other's match row, already committed, and then
    finds it live: it can only have become `rejected`, and so reviewed, or
    `failed`, which is impossible after matching.

  No single one of these is inductive without the ones above it: without
  `OneToken` a second session of the same invoice could replace the reading
  after the comparison.
- `ExportAlwaysTrue`: `Spec => [](OnceDelivered => ExportIsWhatWasApproved)`,
  with any number of requests that decide at once and of exports that run at
  once. On top of the layers above: `ApprovalsNamed` (who approved is in the log,
  and `auto_approved` only after every check), `ExportsKnow` (an export's session
  has the reading of the tables and a status that was logged) and
  `ArtifactsAfterDecision`; after the decision no stage writes those rows.
- `ExportsArePaidFor`: `Spec => []ExportsPerApproval`, with no condition at all.
  The inductive form (`ExportsPaidFor`) counts everything that will or may still
  export: exports rows, `export_invoice` messages, and sessions that carry one or
  are about to send one, are together at most the approvals in the log and the
  redeliveries. A session that exports takes its message away when it begins and
  leaves a row when it commits; a commit that approves adds its entry to the log
  in the step in which it becomes a sender.

### The lifecycle

`PipelineKeepsLifecycle` proves the refinement: `Spec`, `[]OnceDelivered` and
`[]OneDecisionAtATime` imply `KeepsLifecycle`. `OneDecisionAtATime` (no two
requests decide the same invoice at the same time) is a hypothesis about the
people and not an invariant: nothing in the code ensures it, and
`export_over_rejection` shows the refinement broken without it; the single client of
`pipeline_crashes` meets it. Under it `OneWriter` is inductive (an invoice is in
one place, a message or a process that loaded it as it is), so every commit
starts from the status it judged, and `ExportsFollow` (an exports row only with
`exported`) follows. `LogReconstructs` proves of the abstract specification, once,
that its log tells the history; that it exports once and keeps final statuses are
two small lemmas beside it. `AuditAlwaysReconstructs`, `ExportedOnce` and
`FinalIsFinal` carry the three over to the pipeline.

`OneDecisionAtATime` is stronger than the system needs: two requests may well
have an invoice open, if only one of them commits. `OneDecisionIsHarmless`
(`Spec => [](OnceDelivered => OneDecisionKeepsHistory)`) and `NothingElseReopens`
(`Spec /\ []OnceDelivered => OnlyDisputesReopen`) assume nothing about the
people and put the condition where it can be looked up: in the log. While an
invoice's log holds at most one entry of a person, it is one walk to the status,
there is at most one export, and a terminal status is not left. Once there is a
second entry, it can be left in two ways: the step records that entry, judged on a
row loaded before the first; or it is an export that had loaded the approval and
commits `exported` over `rejected` (`OverwritesRejection`). The second way is a
stage overwriting a final status, and `export_over_rejection` shows it; that there
is no third rests on `DecisionIsLast` and `FinalOverwritten`: after a decision only
exports and stale requests are left, and an export goes back to a logged approval,
so the other status it may overwrite is the rejection. The invariant `UndisputedInv` says of every such
invoice that for the tasks it is in one place, a message or a session that loaded
it as it is (`OneMachine`), and that while nobody has decided, a request that has
it open finds it waiting in `needs_review` (`DecisionsWait`). So whoever commits
without starting a dispute commits on the status the invoice really has
(`BaseIsCurrent`); the requests that come second are stale, but committing one
makes the invoice disputed, and logs only grow (`LogOnlyGrows`).

### The decision

- `VendorAlwaysUnrivalled`: whatever the similarities and the tables, with the
  operators' lemmas (`AcceptedIsListed`, `MatchedOrder` and those beside them)
  saying what `match_vendor` and `match_po` return.
- `PaymentAlwaysBacked`, `GapsAlwaysCaught`: for all integer amounts. One lemma
  per rule says what its passing means; the invariant `RowsFollowStatus` of
  `InvoiceDecision` says that what validation and approval read is what matching
  and extraction wrote, though vendors and orders have been added since.
- `InsideToleranceOfRealOrders`: while every order in the table is of a positive
  amount, `InsideOrderTolerance` holds. The run `zero_order_approved` shows it
  violated; the theorem says that orders of zero and credits are the whole of it.
- `NoOrderPaidTwice`: two documents that name one order, with one invoice number,
  are not both approved without a human. Approval needs an order of the vendor
  that was matched (`rule_po_vendor_mismatch`). Orders are only ever added, and a
  number that two orders share matches none, so two documents that matched an
  order by the same number matched the same one (`OneOrderPerNumber`), hence one
  vendor; and of two searches for duplicates the later finds the earlier document
  (`LastOneSees`).
- `FindingsAlwaysFit`: `Spec => FindingsFitTheStages`. What it needs beyond the
  invariant above is `AllFound`: a vendor in a match row was accepted by a method
  the policy counts as identification, so that the pipeline's decision need not
  know the method; and only a document with a number has duplicates, so that the
  rule that skips an empty number skips nothing that was found.
- `DecisionTypeCorrect` carries the types.

### Extraction

- `RowsTellTheirAttempts`: `Spec => []RowTellsTheAttempt`, for any number of
  workers, retries, deliveries and exceptions. The inductive invariant has two
  halves. `Tells`: what a session's local variables say (attempts, errors, hint,
  last answer) is what the model's log says of its attempt, and so is every row.
  `OwnLogs`: no two attempts, under way or landed, share a log; without it a
  second delivery's calls could change the log an older row is compared with.
- `ReasonsAreOfFailures`: `Spec => []ReasonIsOfAFailure`. An extracted invoice has
  a good row and one with a reason a failed row; by `OwnLogs` these are two
  attempts, and attempts and messages left are together at most one more than the
  redeliveries (`ReasonInv`).
- `ExtractionImplementsTheStage`: `Spec => AttemptsArePipelineSteps`, one lemma
  per action. The calls stutter (`CallIsInvisible`); landing is
  `CompleteExtraction` or `FailExtraction`. The one that needs an argument is
  `SuccessIsLatest`: overlapping attempts may land in another order than they
  began, and the row `latest_successful_extraction` picks is then either the new
  one or the one it picked before (`RowsInOrder`), which is all the freedom
  `InvoicePipeline`'s `Latest` allows.

### Uploads

- `UploadsImplementRegister`: `Spec => SameBytesSameInvoice`, the refinement of
  `UploadRegister` by `Ingestion`, for any number of uploads and faults. Its
  invariant `RowsOK` says what each request knows of its document's row: while
  it has inserted there is none and no other has (`OneInserts`), in a conflict
  there is one, and what it will answer is what the row says.
- `UploadsImplementThePipeline`: `Spec => UploadsArePipelineSteps`. What has to be
  shown besides the mapping is that a commit finds its document without a row
  (`RowsOK`, by the unique index), and that the pipeline's bound on faults is
  kept: the documents whose message is lost are never more than the faults so
  far (`Counted`), and a fault is what makes one more.
- `DocumentsAlwaysKept`, `RacesAlwaysResolved`, `OneMessageAlways`: the other
  safety properties of uploads. The last two compare a number of requests or
  documents with the number of faults; each step adds at most one element to
  the counted set (`GrowsByOne`), and only a fault adds one.

### Only model-checked

The liveness properties (`EverySubmissionSettles`, `ApprovedIsExported`,
`EveryUploadEnds`, `EveryAttemptEnds`): fairness and `ENABLED` are out of the
prover's reach. What a sum over a sequence is for every sequence needs
induction over data, which the installed provers cannot instantiate;
`rule_line_items_sum_to_subtotal` only warns, so no theorem depends on it.

## 6. Not modelled, and why

- The text of a PDF, the model's answers and HTTP themselves: pure I/O; what
  they may come to are the choices of `Extraction`.
- Canonical JSON and the HMAC of an export: formatting and cryptography.
- String normalisation and `difflib`: data; the matcher is modelled for every
  ratio they could give.
- Read-only views, templates, health probes, settings: no state of their own.
- `evaluation/scoring.py` and the scripts under `evals/`: offline comparison of
  finished extractions, sequential and without effect on the service; the unit
  tests reach all of it.
- Deactivating or editing a vendor or an order: nothing in the repository does.
- Presigned URLs and the creation of the bucket.
- Eager mode and SQLite: subsets of the interleavings modelled (section 2), but
  for what SQLite stores and PostgreSQL refuses (a NaN in JSON).
