--------------------------- MODULE FinancialRules ---------------------------
(***************************************************************************)
(* The decision about one invoice's money: the seven deterministic rules   *)
(* of domain/validation.py and the policy of domain/approval.py that turns *)
(* their results into an automatic approval or a review.  Pure operators.  *)
(***************************************************************************)
EXTENDS InvoiceData, Functions

\* CRITICAL_FIELDS and REQUIRED_FIELDS.
CriticalFields == {"supplier_name", "invoice_number", "invoice_date", "currency", "total"}
RequiredFields == {"supplier_name", "invoice_number", "invoice_date", "total"}

\* Whether the confidence of a critical field reaches the threshold; a field
\* without an entry counts as 0.
Confidence == [CriticalFields -> {"high", "low", None}]

\* What the service layer gathers for the rules: has_duplicates stands for
\* duplicate_candidates, of which the rules only ask whether there are any.
ValidationInput ==
    [invoice           : ExtractedInvoice,
     matched_po        : PurchaseOrder \cup {None},
     matched_vendor_id : Vendors \cup {None},
     has_duplicates    : BOOLEAN]

ASSUME RulesAssumption == None \notin {"high", "low"}
-----------------------------------------------------------------------------
AMOUNT_TOLERANCE == 2     \* cents: Decimal("0.02")
PO_TOLERANCE_PCT == 2     \* percent: Decimal("0.02")

Severities == {"info", "warning", "error"}
RuleResult == [severity : Severities, passed : BOOLEAN]

\* A rule passes with severity info, or fails with the severity it gives the
\* failure; a rule that lacks its data mostly passes.
Pass == [severity |-> "info", passed |-> TRUE]
Fail(severity) == [severity |-> severity, passed |-> FALSE]
Check(ok, severity) == IF ok THEN Pass ELSE Fail(severity)
Skipped == Pass

Distance(a, b) == IF a >= b THEN a - b ELSE b - a

rule_required_fields_present(inp) ==
    Check(\A field \in RequiredFields : inp.invoice[field] # None, "error")

rule_arithmetic_consistency(inp) ==
    LET inv == inp.invoice IN
    IF None \in {inv.subtotal, inv.tax_amount, inv.total} THEN Skipped
    ELSE Check(Distance(inv.subtotal + inv.tax_amount, inv.total) <= AMOUNT_TOLERANCE, "error")

rule_line_items_sum_to_subtotal(inp) ==
    LET lines == inp.invoice.line_totals IN
    IF DOMAIN lines = {} \/ inp.invoice.subtotal = None THEN Skipped
    ELSE IF \E k \in DOMAIN lines : lines[k] = None THEN Fail("warning")
    ELSE Check(Distance(SumFunction(lines), inp.invoice.subtotal) <= AMOUNT_TOLERANCE, "warning")

\* Mutant: only an invoice above its order is out of tolerance.
WithinTolerance_OverOnly(amount, ordered) ==
    IF ordered > 0 THEN 100 * (amount - ordered) <= PO_TOLERANCE_PCT * ordered
    ELSE 100 * (amount - ordered) >= PO_TOLERANCE_PCT * ordered

\* abs(amount - ordered) / ordered <= PO_TOLERANCE_PCT, for ordered # 0: the
\* divisor keeps its sign.
WithinTolerance(amount, ordered) ==
    IF ordered > 0
    THEN 100 * Distance(amount, ordered) <= PO_TOLERANCE_PCT * ordered
    ELSE 100 * Distance(amount, ordered) >= PO_TOLERANCE_PCT * ordered

rule_po_amount_tolerance(inp) ==
    LET po == inp.matched_po IN
    IF po = None THEN Skipped
    ELSE IF inp.invoice.total = None \/ po.total = 0 THEN Fail("warning")
    ELSE Check(WithinTolerance(inp.invoice.total, po.total), "error")

rule_po_currency_match(inp) ==
    IF inp.matched_po = None THEN Skipped
    ELSE IF inp.invoice.currency \in {None, Blank} THEN Fail("warning")
    ELSE Check(inp.invoice.currency = inp.matched_po.currency, "error")

rule_po_vendor_mismatch(inp) ==
    IF inp.matched_po = None THEN Skipped
    ELSE IF inp.matched_vendor_id = None THEN Fail("warning")
    ELSE Check(inp.matched_po.vendor_id = inp.matched_vendor_id, "error")

rule_duplicate_invoice_number(inp) ==
    IF inp.invoice.invoice_number \in {None, Blank} THEN Skipped
    ELSE Check(~inp.has_duplicates, "error")

run_rules(inp) ==
    {rule_required_fields_present(inp), rule_arithmetic_consistency(inp),
     rule_line_items_sum_to_subtotal(inp), rule_po_amount_tolerance(inp),
     rule_po_currency_match(inp), rule_po_vendor_mismatch(inp),
     rule_duplicate_invoice_number(inp)}

has_blocking_failure(results) == \E r \in results : r.severity = "error" /\ ~r.passed

\* Mutant: a field without a confidence counts as a sure one.
decide_approval_MissingIsHigh(validation_passed, vendor_identified, has_po, confidence) ==
    IF /\ validation_passed /\ vendor_identified /\ has_po
       /\ \A field \in CriticalFields : confidence[field] # "low"
    THEN "auto_approved" ELSE "needs_review"

decide_approval(validation_passed, vendor_identified, has_po, confidence) ==
    IF /\ validation_passed /\ vendor_identified /\ has_po
       /\ \A field \in CriticalFields : confidence[field] = "high"
    THEN "auto_approved" ELSE "needs_review"
=============================================================================
