----------------------------- MODULE Extraction -----------------------------
(***************************************************************************)
(* One invoice's extraction in detail: run_extraction, the retry loop of   *)
(* extract_with_retry, the text of the document and the calls of the       *)
(* language model, each of which may fail in its own way.  The same        *)
(* message may be delivered more than once, to workers that overlap.       *)
(*                                                                         *)
(* InvoicePipeline sees an attempt as one step that lands, fails or        *)
(* raises; AttemptsArePipelineSteps says that is all it is.                *)
(***************************************************************************)
EXTENDS InvoiceState, Naturals, Sequences

CONSTANTS
    Invoice,          \* the invoice
    Workers,          \* Celery worker slots
    Answers,          \* what the model may answer
    Kind,             \* answer -> "valid", "no_json" or "misfit"
    Storable,         \* the answers PostgreSQL stores (no NUL, no NaN)
    Numbers, Blank, None,
    Meaning,          \* valid answer -> what the later stages read in it
    MaxRetries,       \* llm_max_retries
    MaxRedeliveries,  \* bound: messages the broker delivers twice
    MaxFaults,        \* bound: crashes of a worker
    MaxEscapes        \* bound: exceptions that no handler of the stage catches

Valid == {a \in Answers : Kind[a] = "valid"}
Readings == {Meaning[a] : a \in Valid}

ASSUME ExtractionAssumption ==
    /\ Kind \in [Answers -> {"valid", "no_json", "misfit"}]
    /\ Storable \subseteq Answers
    /\ Readings \subseteq [number : Numbers \cup {Blank, None}, confidence : {"high", "low"}]
    /\ None \notin Answers \cup Readings \cup Numbers \cup {Invoice, Blank}
    /\ {"no_text", "no_key"} \cap Answers = {}
    /\ {MaxRetries, MaxRedeliveries, MaxFaults, MaxEscapes} \subseteq Nat

VARIABLES
    api_key,     \* whether OPENROUTER_API_KEY is set
    document,    \* what the stored document holds: text, none, or it cannot be opened
    status,      \* the invoice's status, as committed
    audit,       \* its audit_log
    rows,        \* its rows of extractions
    failure_reason,
    asked,       \* the model's log: per attempt, the calls made and answered
    messages,    \* extract_invoice messages that wait
    chained,     \* match_invoice messages sent
    sess,        \* what each worker is doing
    faults, redeliveries, escapes

settings == <<api_key, document>>
database == <<status, audit, rows, failure_reason>>
broker == <<messages, chained>>
counters == <<faults, redeliveries, escapes>>
vars == <<api_key, document, status, audit, rows, failure_reason, asked,
          messages, chained, sess, faults, redeliveries, escapes>>
-----------------------------------------------------------------------------
\* Where an attempt stands:
\*   loaded    has read the invoice, in status received
\*   reading   has flushed extracting, holds the row's lock, opens the document
\*   asking    is about to call the model
\*   answered  has a valid answer to store
\*   failing   has an error to store
\*   sending   has committed, is about to chain match_invoice
ProgramCounters == {"idle", "loaded", "reading", "asking", "answered", "failing", "sending"}

\* An error is named by what it complains of: the document without text, the
\* missing key, or an answer.
Errors == Answers \cup {"no_text", "no_key"}

Session == [pc : ProgramCounters, began : Nat, attempts : 0 .. MaxRetries + 1,
            error_hint : Answers \cup {None}, errors : Seq(Errors),
            last_raw : Answers \cup {None}]

Idle == [pc |-> "idle", began |-> 0, attempts |-> 0, error_hint |-> None,
         errors |-> <<>>, last_raw |-> None]

\* A row of extractions; its created_at is the start of its transaction.
Row == [began : Nat, ok : BOOLEAN, attempts : 0 .. MaxRetries + 1,
        errors : Seq(Errors), raw_response : Answers \cup {None}]

Holding == {"reading", "asking", "answered", "failing"}
Locked == \E w \in Workers : sess[w].pc \in Holding

Init ==
    /\ api_key \in BOOLEAN /\ document \in {"text", "none", "broken"}
    /\ status = "received" /\ audit = <<>> /\ rows = {} /\ failure_reason = <<>>
    /\ asked = <<>>
    /\ messages = 1 /\ chained = 0
    /\ sess = [w \in Workers |-> Idle]
    /\ faults = 0 /\ redeliveries = 0 /\ escapes = 0
-----------------------------------------------------------------------------
Receive(w) == sess[w].pc = "idle" /\ messages > 0 /\ messages' = messages - 1

Begin(w) ==
    /\ Receive(w) /\ status = "received"
    /\ asked' = Append(asked, <<>>)
    /\ sess' = [sess EXCEPT ![w] = [Idle EXCEPT !.pc = "loaded", !.began = Len(asked) + 1]]
    /\ UNCHANGED <<settings, database, chained, counters>>

\* Already processed, or being processed: no second attempt.
Skip(w) ==
    /\ Receive(w) /\ status # "received"
    /\ UNCHANGED <<settings, database, asked, chained, sess, counters>>

\* Mutant: advance is not flushed, so that attempts overlap.
FlushExtracting_Unflushed(w) ==
    /\ sess[w].pc = "loaded"
    /\ sess' = [sess EXCEPT ![w].pc = "reading"]
    /\ UNCHANGED <<settings, database, asked, broker, counters>>

FlushExtracting(w) ==
    /\ sess[w].pc = "loaded" /\ ~Locked
    /\ sess' = [sess EXCEPT ![w].pc = "reading"]
    /\ UNCHANGED <<settings, database, asked, broker, counters>>

FailWith(w, error) ==
    /\ sess' = [sess EXCEPT ![w].pc = "failing", ![w].errors = <<error>>]
    /\ UNCHANGED <<settings, database, asked, broker, counters>>

\* extract_text found no text: an image, or a PDF without a text layer.
NoText(w) == sess[w].pc = "reading" /\ document = "none" /\ FailWith(w, "no_text")

\* OpenRouterClient cannot be built.
NoKey(w) == sess[w].pc = "reading" /\ document = "text" /\ ~api_key /\ FailWith(w, "no_key")

OpenDocument(w) ==
    /\ sess[w].pc = "reading" /\ document = "text" /\ api_key
    /\ sess' = [sess EXCEPT ![w].pc = "asking"]
    /\ UNCHANGED <<settings, database, asked, broker, counters>>

\* complete_json: one call of the model, with the last complaint as a hint.
Call(w, answer) ==
    /\ sess[w].pc = "asking"
    /\ asked' = [asked EXCEPT ![sess[w].began] =
                     Append(@, [hint |-> sess[w].error_hint, answer |-> answer])]
    /\ UNCHANGED <<settings, database, broker, counters>>

AnswerFits(w, answer) ==
    /\ Call(w, answer) /\ Kind[answer] = "valid"
    /\ sess' = [sess EXCEPT ![w].pc = "answered", ![w].attempts = @ + 1,
                            ![w].last_raw = answer]

\* Mutant: the loop runs once more than there are retries.
IsLast_OneMore(attempt) == attempt = MaxRetries + 2

IsLast(attempt) == attempt = MaxRetries + 1

\* Mutant: the error of the first answer stays the hint.
NextHint_First(s, answer) == IF s.error_hint = None THEN answer ELSE s.error_hint

NextHint(s, answer) == answer

\* Not JSON, or JSON that does not fit the schema: once more, or give up.
AnswerRefused(w, answer) ==
    LET s == sess[w] IN
    /\ Call(w, answer) /\ Kind[answer] # "valid"
    /\ sess' = [sess EXCEPT ![w] =
           [s EXCEPT !.pc = IF IsLast(s.attempts + 1) THEN "failing" ELSE "asking",
                     !.attempts = @ + 1, !.error_hint = NextHint(s, answer),
                     !.errors = Append(@, answer), !.last_raw = answer]]

IsStored(raw) == raw = None \/ raw \in Storable

RowOf(s, ok) == [began |-> s.began, ok |-> ok, attempts |-> s.attempts,
                 errors |-> IF ok THEN <<>> ELSE s.errors, raw_response |-> s.last_raw]

\* advance to extracting and on to the outcome, the new row, and the commit.
Land(w, outcome, next) ==
    /\ IsStored(sess[w].last_raw)
    /\ rows' = rows \cup {RowOf(sess[w], outcome = "extracted")}
    /\ status' = outcome
    /\ audit' = audit \o <<[from |-> "received", to |-> "extracting", actor |-> "system"],
                          [from |-> "extracting", to |-> outcome, actor |-> "system"]>>
    /\ sess' = [sess EXCEPT ![w] = next]
    /\ UNCHANGED <<settings, asked, broker, counters>>

\* Mutant: the reason is not kept with the invoice.
LandFailure_NoReason(w) ==
    sess[w].pc = "failing" /\ Land(w, "failed", Idle) /\ UNCHANGED failure_reason

\* _fail
LandFailure(w) ==
    /\ sess[w].pc = "failing" /\ Land(w, "failed", Idle)
    /\ failure_reason' = sess[w].errors

\* The session loaded no failure_reason, so setting it to None writes nothing:
\* the reason an overlapping attempt has left meanwhile stays.
LandSuccess(w) ==
    /\ sess[w].pc = "answered" /\ Land(w, "extracted", [Idle EXCEPT !.pc = "sending"])
    /\ UNCHANGED failure_reason

Chain(w) ==
    /\ sess[w].pc = "sending"
    /\ chained' = chained + 1
    /\ sess' = [sess EXCEPT ![w] = Idle]
    /\ UNCHANGED <<settings, database, asked, messages, counters>>

\* Mutant: the exception leaves the transaction open.
Escape_KeepsTransaction(w) ==
    /\ sess[w].pc \in {"reading", "asking"} /\ escapes < MaxEscapes
    /\ escapes' = escapes + 1
    /\ UNCHANGED <<settings, database, asked, broker, sess, faults, redeliveries>>

\* An exception no handler expects rolls the transaction back: the storage or
\* the document cannot be opened, a call fails (LLMError) or carries no
\* content, or the database refuses the row.
Escape(w) ==
    /\ escapes < MaxEscapes
    /\ \/ sess[w].pc \in {"reading", "asking"}
       \/ sess[w].pc \in {"answered", "failing"} /\ ~IsStored(sess[w].last_raw)
    /\ escapes' = escapes + 1
    /\ sess' = [sess EXCEPT ![w] = Idle]
    /\ UNCHANGED <<settings, database, asked, broker, faults, redeliveries>>
-----------------------------------------------------------------------------
\* The worker's process dies.
Crash(w) ==
    /\ sess[w].pc # "idle" /\ faults < MaxFaults
    /\ faults' = faults + 1
    /\ sess' = [sess EXCEPT ![w] = Idle]
    /\ UNCHANGED <<settings, database, asked, broker, redeliveries, escapes>>

\* The broker delivers a message once more.
Redeliver ==
    /\ messages > 0 /\ redeliveries < MaxRedeliveries
    /\ redeliveries' = redeliveries + 1 /\ messages' = messages + 1
    /\ UNCHANGED <<settings, database, asked, chained, sess, faults, escapes>>

WorkerStep(w) ==
    \/ Begin(w) \/ Skip(w) \/ FlushExtracting(w)
    \/ NoText(w) \/ NoKey(w) \/ OpenDocument(w)
    \/ \E answer \in Answers : AnswerFits(w, answer) \/ AnswerRefused(w, answer)
    \/ LandSuccess(w) \/ LandFailure(w) \/ Chain(w)
    \/ Escape(w)

Next == (\E w \in Workers : WorkerStep(w) \/ Crash(w)) \/ Redeliver

Spec == Init /\ [][Next]_vars

\* Storage, the model and the database answer or time out, so a worker that
\* is up goes on.
FairSpec == Spec /\ \A w \in Workers : WF_vars(WorkerStep(w))
-----------------------------------------------------------------------------
(* The stage of InvoicePipeline this is                                    *)

\* latest_successful_extraction: failed rows are passed over.
latest_successful_extraction ==
    LET good == {r \in rows : r.ok}
        latest == CHOOSE r \in good : \A q \in good : q.began <= r.began
    IN  IF good = {} THEN None ELSE Meaning[latest.raw_response]

StageSession(s) ==
    [pc |-> IF s.pc \in Holding THEN "flushed" ELSE s.pc,
     job |-> IF s.pc = "idle" THEN "none"
             ELSE IF s.pc = "sending" THEN "match_invoice" ELSE "extract_invoice",
     inv |-> IF s.pc = "idle" THEN None ELSE Invoice,
     base |-> IF s.pc \in Holding \cup {"loaded"} THEN "received" ELSE "absent",
     reading |-> None, match |-> None, rivals |-> {}, rival |-> None, verdict |-> "none"]

Queue ==
    [task \in {"extract_invoice", "match_invoice", "validate_invoice", "approve_invoice",
               "export_invoice"} |-> [i \in {Invoice} |->
        IF task = "extract_invoice" THEN messages
        ELSE IF task = "match_invoice" THEN chained ELSE 0]]

Pipeline == INSTANCE InvoicePipeline WITH
    Invoices <- {Invoice}, Clients <- {}, Vendors <- {}, PurchaseOrders <- {}, Matches <- {},
    MaxLlmErrors <- MaxEscapes,
    status <- [i \in {Invoice} |-> status],
    audit <- [i \in {Invoice} |-> audit],
    reading <- [i \in {Invoice} |-> latest_successful_extraction],
    match <- [i \in {Invoice} |-> None],
    matchedVendors <- [i \in {Invoice} |-> {}],
    validation <- [i \in {Invoice} |-> "none"],
    exports <- [i \in {Invoice} |-> {}],
    artifacts <- [i \in {Invoice} |-> <<>>],
    queue <- Queue,
    sess <- [w \in Workers |-> StageSession(sess[w])],
    llmErrors <- escapes
-----------------------------------------------------------------------------
(* Properties                                                              *)

TypeOK ==
    /\ api_key \in BOOLEAN /\ document \in {"text", "none", "broken"}
    /\ status \in {"received", "extracted", "failed"}
    /\ rows \subseteq Row /\ failure_reason \in Seq(Errors)
    /\ asked \in Seq(Seq([hint : Answers \cup {None}, answer : Answers]))
    /\ sess \in [Workers -> Session]
    /\ {messages, chained, faults, redeliveries, escapes} \subseteq Nat

\* A row of extractions tells what its attempt was: as many attempts as calls,
\* the last answer, ok if and only if that one is valid, and the error of every
\* call, in order; no call follows a valid answer, none is made without a text
\* and a key, and every call after the first is told what was wrong with the
\* answer before it, not with an earlier one.
RowTellsTheAttempt ==
    \A r \in rows :
        LET calls == asked[r.began]
            last == calls[Len(calls)].answer
        IN  /\ r.attempts = Len(calls)
            /\ calls = <<>> => ~r.ok /\ r.raw_response = None /\ Len(r.errors) = 1
            /\ calls # <<>> =>
                  /\ r.raw_response = last /\ (r.ok <=> last \in Valid)
                  /\ ~r.ok => r.errors = [k \in DOMAIN calls |-> calls[k].answer]
            /\ \A k \in DOMAIN calls :
                  /\ calls[k].hint = IF k = 1 THEN None ELSE calls[k - 1].answer
                  /\ k < Len(calls) => calls[k].answer \notin Valid

\* The invoice's failure_reason is always what a failed row of it says, and a
\* failed invoice has one.  One that is left on an extracted invoice, because a
\* success writes no None over it, is that of another attempt: it takes a
\* message delivered twice, never a crash or an exception.
ReasonIsOfAFailure ==
    /\ failure_reason # <<>> => \E r \in rows : ~r.ok /\ r.errors = failure_reason
    /\ status = "failed" => failure_reason # <<>>
    /\ status = "extracted" /\ failure_reason # <<>> => redeliveries > 0

\* Every step of an attempt is a step of InvoicePipeline's extraction or no
\* step of it: the calls and their answers stay invisible until the attempt
\* lands, as one commit, and what the later stages read is the latest valid
\* answer, whatever attempts have failed before or since.
AttemptsArePipelineSteps == [][Pipeline!Next]_(Pipeline!vars)

\* An attempt ends, though it holds the invoice's row through every call of
\* the model and another delivery of the message waits for that row.
EveryAttemptEnds == \A w \in Workers : sess[w].pc # "idle" ~> sess[w].pc = "idle"
=============================================================================
