-------------------------- MODULE InvoiceLifecycle --------------------------
(***************************************************************************)
(* What domain/state.py and services/lifecycle.py promise every invoice,   *)
(* whatever runs it: it walks along the transition table, one stage at a   *)
(* time, every move is in its audit log, only people decide a review, and  *)
(* its export is recorded once, when it arrives in exported.               *)
(***************************************************************************)
EXTENDS InvoiceState, Naturals, Sequences

CONSTANTS
    Invoices,    \* identities of the invoices
    Reviewers    \* the people, or requests, that decide reviews

VARIABLES
    status,      \* invoices.status, "absent" before the upload
    audit,       \* audit_log, oldest first
    exports      \* how many rows of exports the invoice has

vars == <<status, audit, exports>>

Init ==
    /\ status = [i \in Invoices |-> "absent"]
    /\ audit = [i \in Invoices |-> <<>>]
    /\ exports = [i \in Invoices |-> 0]

Arrive(i) ==
    /\ status[i] = "absent"
    /\ status' = [status EXCEPT ![i] = "received"]
    /\ UNCHANGED <<audit, exports>>

Entry(a, b, actor) == [from |-> a, to |-> b, actor |-> actor]

\* One legal move, of the system or, out of needs_review, of a person.
Move(i, new, actor) ==
    /\ status[i] \in Statuses /\ CanTransition(status[i], new)
    /\ actor \in IF status[i] = "needs_review" THEN Reviewers ELSE {"system"}
    /\ status' = [status EXCEPT ![i] = new]
    /\ audit' = [audit EXCEPT ![i] = Append(@, Entry(status[i], new, actor))]
    /\ UNCHANGED exports

\* Two legal moves at once, through a working status that stays invisible.
Work(i, working, new) ==
    /\ CanTransition(status[i], working) /\ CanTransition(working, new)
    /\ status' = [status EXCEPT ![i] = new]
    /\ audit' = [audit EXCEPT ![i] = @ \o <<Entry(status[i], working, "system"),
                                           Entry(working, new, "system")>>]
    /\ IF new = "exported"
       THEN exports[i] = 0 /\ exports' = [exports EXCEPT ![i] = 1]
       ELSE UNCHANGED exports

Next ==
    \E i \in Invoices :
        \/ Arrive(i)
        \/ \E new \in {"validated", "auto_approved", "needs_review", "approved", "rejected"},
              actor \in {"system"} \cup Reviewers : Move(i, new, actor)
        \/ \E working \in {"extracting", "matching", "exporting"},
              new \in {"extracted", "validating", "exported", "failed"} : Work(i, working, new)

Spec == Init /\ [][Next]_vars
-----------------------------------------------------------------------------
(* What follows                                                            *)

\* Each audit entry continues the one before it, the last one leads to the
\* invoice's status.
AuditReconstructs ==
    \A i \in Invoices :
        /\ \A k \in 1 .. Len(audit[i]) - 1 : audit[i][k].to = audit[i][k + 1].from
        /\ audit[i] # <<>> => /\ audit[i][1].from = "received"
                             /\ audit[i][Len(audit[i])].to = status[i]

\* An invoice is exported once.
ExportedAtMostOnce == \A i \in Invoices : exports[i] <= 1

\* A terminal status is never left.
TerminalIsFinal ==
    [][\A i \in Invoices : status[i] \in TerminalStatuses => status'[i] = status[i]]_vars
=============================================================================
