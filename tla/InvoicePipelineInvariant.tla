---------------------- MODULE InvoicePipelineInvariant ----------------------
(***************************************************************************)
(* The inductive invariant behind InvoicePipeline's safety properties, in  *)
(* layers.  SessionOK, StatusHasData and SessionHasData hold whatever      *)
(* fails; the others hold until the broker first delivers a message twice. *)
(***************************************************************************)
EXTENDS InvoicePipeline

\* What a process may be in the middle of, and what it loaded when it began.
GoodSession(s) ==
    /\ s.pc = "idle" => s = Idle
    /\ s.pc # "idle" => s.inv \in Invoices /\ s.job \in Tasks \cup Decisions
    /\ s.pc = "sending" => s.job \in Tasks
    /\ s.pc = "scanning" => s.job = "validate_invoice"
    /\ s.pc = "flushed" => s.job \in {"extract_invoice", "match_invoice", "export_invoice", "reject"}
    /\ s.pc = "stored" => s.job = "export_invoice"
    /\ s.pc \notin {"idle", "sending"} =>
          /\ s.job \in Tasks => s.base \in StartStatuses(s.job)
          /\ s.job \in Decisions => s.base = "needs_review"
          /\ s.job \in Tasks \ {"extract_invoice"} => s.reading # None

SessionOK == \A p \in Processes : GoodSession(sess[p])

\* A committed row that a stage may start from has the rows the stage reads.
StatusHasData ==
    \A i \in Invoices :
        /\ status[i] \notin {"absent", "received", "failed"} => reading[i] # None
        /\ status[i] = "validated" => validation[i] # "none"

\* ... and a session that will commit such a status knows they are there.
SessionHasData ==
    \A p \in Processes :
        sess[p].pc # "idle" /\ sess[p].job \notin {"extract_invoice", "none"}
            => reading[sess[p].inv] # None

\* Every message so far has been delivered once.
OnceDelivered == redeliveries = 0
-----------------------------------------------------------------------------
\* The stages up to the decision, and the statuses after it.
PreTasks == Tasks \ {"export_invoice"}
Decided == {"auto_approved", "needs_review", "approved", "rejected", "exported"}

\* Process p has taken, or is about to send, the message of invoice i for task.
Holder(p, task, i) == sess[p].pc # "idle" /\ sess[p].job = task /\ sess[p].inv = i

\* One message per invoice is on its way through the stages, either queued or
\* in the hands of one process, and it is the one the invoice's status calls for.
OneToken ==
    \A i \in Invoices : \A t \in PreTasks :
        /\ queue[t][i] <= 1
        /\ queue[t][i] > 0 => status[i] \in StartStatuses(t)
        /\ \A p \in Processes : Holder(p, t, i) =>
              /\ status[i] \in StartStatuses(t)
              /\ queue[t][i] = 0
              /\ \A q \in Processes : Holder(q, t, i) => p = q

\* Decisions and exports are about invoices the approval stage has decided.
DecidedFirst ==
    \A i \in Invoices :
        /\ queue["export_invoice"][i] > 0 => status[i] \in Decided
        /\ \A p \in Processes : \A job \in {"export_invoice"} \cup Decisions :
              Holder(p, job, i) => status[i] \in Decided
-----------------------------------------------------------------------------
\* Rows appear with the stage that writes them, not before.
RowsFollowStatus ==
    \A i \in Invoices :
        /\ status[i] \in {"absent", "received", "failed"} => reading[i] = None
        /\ status[i] \in {"absent", "received", "failed", "extracted"} => match[i] = None
        /\ status[i] \in {"absent", "received", "failed", "extracted", "validating"}
              => validation[i] = "none"
        /\ match[i] # None /\ match[i].vendor # None => match[i].vendor \in matchedVendors[i]

\* What a session loaded before the decision is still what the tables say.
LoadedIsCurrent ==
    \A p \in Processes : LET s == sess[p] IN
        /\ s.pc \in {"loaded", "scanning"} /\ s.job \in {"validate_invoice", "approve_invoice"}
              => s.reading = reading[s.inv] /\ s.match = match[s.inv]
        /\ s.pc = "loaded" /\ s.job = "approve_invoice" => s.verdict = validation[s.inv]

Reviewed(i) == Logged(i, "needs_review")

\* The audit log tells a machine's decision from one left to a human.
DecisionLogged ==
    \A i \in Invoices :
        /\ status[i] \notin Decided => ~AutoApproved(i) /\ ~Reviewed(i)
        /\ status[i] \in {"needs_review", "rejected"} => Reviewed(i)
        /\ AutoApproved(i) => validation[i] = "passed" /\ ~Reviewed(i)
        /\ \A p \in Processes : \A d \in Decisions : Holder(p, d, i) => Reviewed(i)

\* The validation of i has passed over j: it has passed, or it is under way,
\* has found nothing so far and will not look at j (any more).
Overlooks(i, j) ==
    \/ validation[i] = "passed"
    \/ \E p \in Processes : /\ sess[p].pc = "scanning" /\ sess[p].inv = i
                            /\ sess[p].verdict = "passed"
                            /\ j \notin sess[p].rivals \cup {sess[p].rival}

\* Of two invoices for the same bill the one validated last has seen the other.
NoMutualOversight ==
    \A i, j \in Invoices :
        i # j /\ SameBill(i, j) /\ Overlooks(i, j) /\ Overlooks(j, i)
            => Reviewed(i) \/ Reviewed(j)
-----------------------------------------------------------------------------
\* What the approval policy asks of an invoice no human looks at.
FullyChecked(i) ==
    /\ validation[i] = "passed" /\ reading[i].confidence = "high"
    /\ match[i] # None /\ match[i].vendor # None /\ match[i].po # None

\* The log names who approved, and an approved invoice is logged as such.
ApprovalsNamed ==
    \A i \in Invoices :
        /\ \A k \in DOMAIN audit[i] :
              /\ audit[i][k].to = "auto_approved" => audit[i][k].actor = "system"
              /\ audit[i][k].to = "approved" => audit[i][k].actor \in Clients
        /\ Logged(i, "approved") => Reviewed(i)
        /\ status[i] \in {"auto_approved", "approved"} => Logged(i, status[i])
        /\ AutoApproved(i) => FullyChecked(i)

\* An export works from the extraction that was approved.
ExportsKnow ==
    \A p \in Processes : LET s == sess[p] IN
        s.pc \notin {"idle", "sending"} /\ s.job = "export_invoice"
            => s.reading = reading[s.inv] /\ Logged(s.inv, s.base)

ArtifactsAfterDecision ==
    \A i \in Invoices : artifacts[i] # <<>> => status[i] \in Decided
-----------------------------------------------------------------------------
\* Two requests never decide the same invoice at once: what nothing in the code
\* ensures, and what its history needs.
OneDecisionAtATime ==
    \A i \in Invoices : \A c, d \in Processes :
        (\E a, b \in Decisions : Holder(c, a, i) /\ Holder(d, b, i)) => c = d

\* The statuses a job may find its invoice in.
Starts(job) == IF job \in Decisions THEN {"needs_review"} ELSE StartStatuses(job)

\* An invoice is in one place: a message that waits or a process that has
\* loaded it as it is, and whose job its status calls for.
OneWriter ==
    \A i \in Invoices :
        /\ \A t \in Tasks :
              /\ queue[t][i] <= 1
              /\ queue[t][i] > 0 => /\ status[i] \in Starts(t)
                                    /\ \A p \in Processes : sess[p].inv # i
        /\ \A p \in Processes : sess[p].inv = i =>
              /\ status[i] \in Starts(sess[p].job)
              /\ sess[p].pc # "sending" => sess[p].base = status[i]
              /\ \A q \in Processes : sess[q].inv = i => q = p

\* Invoice i has an exports row only once it is exported.
ExportFollows(i) ==
    \/ exports[i] = {}
    \/ status[i] = "exported" /\ \E key \in exports[i] : exports[i] = {key}

ExportsFollow == \A i \in Invoices : ExportFollows(i)
-----------------------------------------------------------------------------
\* Process p works on invoice i for a task, not for a person.
Machine(p, i) == sess[p].inv = i /\ sess[p].job \in Tasks

\* What is left of OneWriter while requests may hold i open: the tasks have it
\* in one place, and until the first decision is recorded it waits for one.
OneMachine(i) ==
    /\ \A t \in Tasks :
          /\ queue[t][i] <= 1
          /\ queue[t][i] > 0 => /\ status[i] \in StartStatuses(t)
                                /\ \A p \in Processes : ~Machine(p, i)
    /\ \A p \in Processes : Machine(p, i) =>
          /\ status[i] \in StartStatuses(sess[p].job)
          /\ sess[p].pc # "sending" => sess[p].base = status[i]
          /\ \A q \in Processes : Machine(q, i) => q = p

NobodyDecided(i) == \A k \in DOMAIN audit[i] : audit[i][k].actor \notin Clients

DecisionsWait(i) ==
    NobodyDecided(i) =>
        \A p \in Processes : sess[p].inv = i /\ sess[p].job \in Decisions
                                 => status[i] = "needs_review"

\* An invoice without an entry has not moved yet.
Unmoved(i) == audit[i] = <<>> => status[i] \in {"absent", "received"}

UndisputedInv ==
    \A i \in Invoices : Undisputed(i) =>
        /\ OneMachine(i) /\ DecisionsWait(i)
        /\ Reconstructs(i) /\ Unmoved(i) /\ ExportFollows(i)
-----------------------------------------------------------------------------
\* Who is about to run, or runs, the export of invoice i.
Exporters(i) == {p \in Processes : Holder(p, "export_invoice", i)}

\* Every message and every run of an export is paid for by an approval in the
\* log or by a redelivery, and so is every row such a run has left.
PaidFor(i) ==
    /\ IsFiniteSet(exports[i]) /\ IsFiniteSet(Exporters(i))
    /\ queue["export_invoice"][i] + Cardinality(Exporters(i)) + Cardinality(exports[i])
          <= Cardinality(ApprovalEntries(i)) + redeliveries

ExportsPaidFor == \A i \in Invoices : PaidFor(i)
=============================================================================
