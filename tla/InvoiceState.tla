---------------------------- MODULE InvoiceState ----------------------------
(***************************************************************************)
(* The invoice lifecycle of domain/state.py: the statuses and the legal    *)
(* moves between them.  Pure definitions, shared by every module that      *)
(* changes an invoice's status.                                            *)
(***************************************************************************)

\* class InvoiceStatus.
Statuses ==
    {"received", "extracting", "extracted", "matching", "validating",
     "validated", "needs_review", "auto_approved", "approved", "rejected",
     "exporting", "exported", "failed"}

\* _TRANSITIONS.get(current, frozenset()): a status the table does not list
\* is terminal.
AllowedTransitions(current) ==
    CASE current = "received"      -> {"extracting", "failed"}
      [] current = "extracting"    -> {"extracted", "failed"}
      [] current = "extracted"     -> {"matching", "failed"}
      [] current = "matching"      -> {"validating", "failed"}
      [] current = "validating"    -> {"validated", "failed"}
      [] current = "validated"     -> {"auto_approved", "needs_review"}
      [] current = "needs_review"  -> {"approved", "rejected"}
      [] current = "auto_approved" -> {"exporting"}
      [] current = "approved"      -> {"exporting"}
      [] current = "exporting"     -> {"exported", "failed"}
      [] OTHER                     -> {}

\* Mutant: the move is not checked against the table.
CanTransition_Unchecked(current, target) == target \in Statuses

CanTransition(current, target) == target \in AllowedTransitions(current)

TerminalStatuses == {s \in Statuses : AllowedTransitions(s) = {}}
=============================================================================
