-------------------------- MODULE InvoiceDecision --------------------------
(***************************************************************************)
(* From extracted data to a decision: run_matching, run_validation,        *)
(* run_approval and the human review, over the real matching algorithm and *)
(* the real rules, with several documents under way at once and vendor and *)
(* order tables that the seeding scripts extend meanwhile.                 *)
(*                                                                         *)
(* InvoicePipeline has the messages, locks, crashes and lost updates of    *)
(* these stages and leaves open what they find; here every message is      *)
(* delivered once and it is the findings that count.                       *)
(***************************************************************************)
EXTENDS VendorMatching, FinancialRules

CONSTANTS
    Documents,   \* identities of the invoices
    Cases,       \* the tables and documents a behaviour may start with
    Scripts      \* the sets of vendors that each seeding script brings

\* Rows of invoice_matches and validations; what an extraction holds.
MatchRow == [vendor : VendorMatchResult, po : PoMatchResult]
ValidationRow == [candidates : SUBSET Documents, passed : BOOLEAN]
Paper == [invoice : ExtractedInvoice, field_confidence : Confidence]

\* Foreign key and unique order number, as the schema enforces them.
Consistent(vs, os) ==
    /\ \A o \in os : OrderRow[o].vendor_id \in vs
    /\ \A o, p \in os : OrderRow[o].po_number = OrderRow[p].po_number => o = p

ASSUME DecisionAssumption ==
    /\ \A c \in Cases :
          /\ c \in [vendors : SUBSET Vendors, orders : SUBSET Orders,
                    papers : [Documents -> Paper \cup {None}]]
          /\ Consistent(c.vendors, c.orders)
    /\ Scripts \subseteq SUBSET {v \in Vendors : VendorRow[v].tax_id # None}
    /\ None \notin Paper /\ None \notin MatchRow /\ None \notin ValidationRow
    /\ None \notin VendorMatchResult
    /\ None \notin [number : Numbers \cup {Blank, None}, confidence : {"high", "low"}]
    /\ None \notin [vendor : Vendors \cup {None}, po : Orders \cup {None}]

VARIABLES
    vendors,      \* active rows of the vendors table
    orders,       \* rows of the purchase_orders table
    papers,       \* what was extracted from each document, None if there is none
    status,       \* invoices.status
    vendorResult, \* what run_matching has made of the vendors when it reads the orders
    match,        \* latest_match: vendor and order, with the methods
    searched,     \* documents whose validation has looked for duplicates
    duplicates,   \* what it has found
    validation    \* latest_validation: the duplicates it names, and passed

vars == <<vendors, orders, papers, status, vendorResult, match, searched, duplicates,
          validation>>

Init ==
    \E c \in Cases :
        /\ vendors = c.vendors /\ orders = c.orders /\ papers = c.papers
        /\ status = [d \in Documents |-> IF papers[d] = None THEN "absent" ELSE "extracted"]
        /\ vendorResult = [d \in Documents |-> None]
        /\ match = [d \in Documents |-> None]
        /\ searched = {}
        /\ duplicates = [d \in Documents |-> {}]
        /\ validation = [d \in Documents |-> None]
-----------------------------------------------------------------------------
\* run_matching reads the vendors, and then the orders: a seeding script may
\* commit in between.  Others see the row when both are known.
IdentifyVendor(d) ==
    /\ status[d] = "extracted" /\ vendorResult[d] = None
    /\ vendorResult' = [vendorResult EXCEPT ![d] = match_vendor(papers[d].invoice, vendors)]
    /\ UNCHANGED <<vendors, orders, papers, status, match, searched, duplicates, validation>>

RunMatching(d) ==
    /\ status[d] = "extracted" /\ vendorResult[d] # None
    /\ match' = [match EXCEPT ![d] =
           [vendor |-> vendorResult[d], po |-> match_po(papers[d].invoice, orders)]]
    /\ status' = [status EXCEPT ![d] = "validating"]
    /\ UNCHANGED <<vendors, orders, papers, vendorResult, searched, duplicates, validation>>

\* Mutant: a document whose own validation is not over is not looked at.
FindDuplicates_Validated(d) ==
    LET vendor == match[d].vendor.vendor_id
        number == papers[d].invoice.invoice_number
    IN  {e \in Documents \ {d} :
           /\ vendor # None /\ number \notin {None, Blank}
           /\ validation[e] # None /\ match[e].vendor.vendor_id = vendor
           /\ status[e] \notin {"failed", "rejected"}
           /\ papers[e].invoice.invoice_number = number}

\* _find_duplicate_candidates: the live documents of the same vendor that
\* carry the same number; without a vendor or a number there is no search.
FindDuplicates(d) ==
    LET vendor == match[d].vendor.vendor_id
        number == papers[d].invoice.invoice_number
    IN  {e \in Documents \ {d} :
           /\ vendor # None /\ number \notin {None, Blank}
           /\ match[e] # None /\ match[e].vendor.vendor_id = vendor
           /\ status[e] \notin {"failed", "rejected"}
           /\ papers[e].invoice.invoice_number = number}

\* run_validation looks for duplicates, and commits what it makes of them
\* later: other documents may move in between.
SearchDuplicates(d) ==
    /\ status[d] = "validating" /\ d \notin searched
    /\ searched' = searched \cup {d}
    /\ duplicates' = [duplicates EXCEPT ![d] = FindDuplicates(d)]
    /\ UNCHANGED <<vendors, orders, papers, status, vendorResult, match, validation>>

\* The ValidationInput run_validation builds.
InputOf(d, found) ==
    LET po == match[d].po.po_id
    IN  [invoice |-> papers[d].invoice,
         matched_po |-> IF po = None THEN None ELSE OrderRow[po],
         matched_vendor_id |-> match[d].vendor.vendor_id,
         has_duplicates |-> found # {}]

RunValidation(d) ==
    /\ status[d] = "validating" /\ d \in searched
    /\ validation' = [validation EXCEPT ![d] =
           [candidates |-> duplicates[d],
            passed |-> ~has_blocking_failure(run_rules(InputOf(d, duplicates[d])))]]
    /\ status' = [status EXCEPT ![d] = "validated"]
    /\ UNCHANGED <<vendors, orders, papers, vendorResult, match, searched, duplicates>>

IdentifiedMethods == {"tax_id", "exact_name", "fuzzy_name"}

RunApproval(d) ==
    LET vendor == match[d].vendor
        identified == vendor.vendor_id # None /\ vendor.method \in IdentifiedMethods
    IN  /\ status[d] = "validated"
        /\ status' = [status EXCEPT ![d] =
               decide_approval(validation[d].passed, identified, match[d].po.po_id # None,
                               papers[d].field_confidence)]
        /\ UNCHANGED <<vendors, orders, papers, vendorResult, match, searched, duplicates,
                       validation>>

\* record_human_decision.
Review(d, outcome) ==
    /\ status[d] = "needs_review"
    /\ status' = [status EXCEPT ![d] = outcome]
    /\ UNCHANGED <<vendors, orders, papers, vendorResult, match, searched, duplicates,
                   validation>>

\* Those of a script's vendors whose tax id, as it is written, no vendor has yet.
Missing(script) ==
    {v \in script \ vendors :
        \A u \in vendors : VendorRow[u].tax_id # VendorRow[v].tax_id}

\* A seeding script adds what is missing, with its orders, in one transaction.
Seed(script) ==
    LET new == Missing(script)
        brought == {o \in Orders : OrderRow[o].vendor_id \in new}
    IN  /\ new # {}
        /\ Consistent(vendors \cup new, orders \cup brought)
        /\ vendors' = vendors \cup new
        /\ orders' = orders \cup brought
        /\ UNCHANGED <<papers, status, vendorResult, match, searched, duplicates, validation>>

Next ==
    \/ \E d \in Documents : \/ IdentifyVendor(d)
                            \/ RunMatching(d)
                            \/ SearchDuplicates(d)
                            \/ RunValidation(d)
                            \/ RunApproval(d)
                            \/ \E outcome \in {"approved", "rejected"} : Review(d, outcome)
    \/ \E script \in Scripts : Seed(script)

Spec == Init /\ [][Next]_vars
-----------------------------------------------------------------------------
(* What InvoicePipeline keeps of a document's rows                         *)

ReadingOf(d) ==
    IF papers[d] = None THEN None
    ELSE [number |-> papers[d].invoice.invoice_number,
          confidence |-> IF \A field \in CriticalFields : papers[d].field_confidence[field] = "high"
                         THEN "high" ELSE "low"]

MatchOf(d) ==
    IF match[d] = None THEN None
    ELSE [vendor |-> match[d].vendor.vendor_id, po |-> match[d].po.po_id]

VerdictOf(d) ==
    IF validation[d] = None THEN "none" ELSE IF validation[d].passed THEN "passed" ELSE "failed"

\* Its messages, sessions, logs and exports are none of this module's.
Pipeline == INSTANCE InvoicePipeline WITH
    Invoices <- Documents, Workers <- {}, Clients <- {}, PurchaseOrders <- Orders,
    Readings <- {}, Matches <- {}, MaxFaults <- 0, MaxRedeliveries <- 0, MaxLlmErrors <- 0,
    audit <- [d \in Documents |-> <<>>],
    reading <- [d \in Documents |-> ReadingOf(d)],
    match <- [d \in Documents |-> MatchOf(d)],
    matchedVendors <- [d \in Documents |->
        IF match[d] = None THEN {} ELSE {match[d].vendor.vendor_id} \ {None}],
    validation <- [d \in Documents |-> VerdictOf(d)],
    exports <- [d \in Documents |-> {}], artifacts <- [d \in Documents |-> <<>>],
    queue <- <<>>, sess <- <<>>, faults <- 0, redeliveries <- 0, llmErrors <- 0
-----------------------------------------------------------------------------
(* Properties                                                              *)

TypeOK ==
    /\ vendors \subseteq Vendors /\ orders \subseteq Orders
    /\ papers \in [Documents -> Paper \cup {None}]
    /\ status \in [Documents -> {"absent", "extracted", "validating", "validated",
                                 "auto_approved", "needs_review", "approved", "rejected"}]
    /\ vendorResult \in [Documents -> VendorMatchResult \cup {None}]
    /\ match \in [Documents -> MatchRow \cup {None}]
    /\ searched \subseteq Documents
    /\ duplicates \in [Documents -> SUBSET Documents]
    /\ validation \in [Documents -> ValidationRow \cup {None}]

\* An automatic approval is backed by a purchase order of the invoice's own
\* vendor: if the order is of a positive amount, the total, and what subtotal
\* and tax add up to where both are given, are within two percent of it (and
\* two cents); the currency, where one is given, is the order's; and no other
\* invoice was found to carry the number.  No single rule compares subtotal
\* and tax with the order.
PaymentIsBacked ==
    \A d \in Documents : status[d] = "auto_approved" =>
        LET inv == papers[d].invoice
            po == OrderRow[match[d].po.po_id]
        IN  /\ match[d].po.po_id \in orders
            /\ po.vendor_id = match[d].vendor.vendor_id
            /\ inv.total # None
            /\ po.total > 0 => /\ 98 * po.total <= 100 * inv.total
                               /\ 100 * inv.total <= 102 * po.total
            /\ po.total > 0 /\ inv.subtotal # None /\ inv.tax_amount # None =>
                  /\ 98 * po.total <= 100 * (inv.subtotal + inv.tax_amount + AMOUNT_TOLERANCE)
                  /\ 100 * (inv.subtotal + inv.tax_amount - AMOUNT_TOLERANCE) <= 102 * po.total
            /\ inv.currency \notin {None, Blank} => inv.currency = po.currency
            /\ validation[d].candidates = {}

\* The rules that compare with the order or with other invoices only warn, or
\* even pass, when what they compare is missing.  Another rule or a gate of the
\* policy catches each of these gaps, except a missing currency, an empty
\* invoice number and an order of nothing.
GapsAreCaught ==
    \A d \in Documents : status[d] = "auto_approved" =>
        LET inv == papers[d].invoice
            input == InputOf(d, validation[d].candidates)
        IN  /\ \A field \in RequiredFields : inv[field] # None
            /\ \A field \in CriticalFields : papers[d].field_confidence[field] # None
            /\ match[d].po.po_id # None /\ rule_po_vendor_mismatch(input).passed
            /\ ~rule_po_amount_tolerance(input).passed => input.matched_po.total = 0
            /\ ~rule_po_currency_match(input).passed => inv.currency \in {None, Blank}

\* Two documents with the same invoice number that name the same order are
\* never both approved without a human.  They may have been matched to their
\* vendors by different means, against vendor and order tables that differ,
\* and validated at the same time; the search for duplicates goes by the
\* vendor and knows nothing of orders.
NoOrderBilledTwice ==
    \A d, e \in Documents :
        LET a == papers[d].invoice
            b == papers[e].invoice
        IN  /\ d # e /\ status[d] = "auto_approved" /\ status[e] = "auto_approved"
            /\ a.invoice_number = b.invoice_number /\ a.invoice_number \in Numbers
            => NormalCode(a.purchase_order_number) # NormalCode(b.purchase_order_number)

\* services/matching.py: an ambiguous match is "never silently resolved".  When
\* a document is given a vendor, no other vendor of that moment has as good a
\* claim: it alone has the tax id, or it alone the name, or its name is ahead
\* of every other name that might be meant; and a tax id that one vendor alone
\* has decides the matter.
VendorIsUnrivalled ==
    [][\A d \in Documents :
        LET v == vendorResult'[d].vendor_id
            invoice == papers[d].invoice
        IN  vendorResult'[d] # vendorResult[d] /\ v # None =>
              /\ \A u \in vendors \ {v} :
                    \/ v \in TaxIdHits(invoice, vendors) /\ u \notin TaxIdHits(invoice, vendors)
                    \/ v \in NameHits(invoice, vendors) /\ u \notin NameHits(invoice, vendors)
                    \/ Leads(invoice, v, u)
                    \/ ~IsLike(invoice, u, FUZZY_FLOOR)
              /\ \A u \in vendors : TaxIdHits(invoice, vendors) = {u} => v = u]_vars

\* InvoicePipeline leaves open what its stages find in the documents and the
\* tables.  What it does say of them is true of the real rules and policy: the
\* duplicates are those a session finds that has loaded the rows, a validation
\* passes only without any and with a number, and the decision is the one made
\* of what the pipeline keeps of the rows.
FindingsFitTheStages ==
    [][\A d \in Documents :
        LET s == Pipeline!Loaded("validate_invoice", d)
        IN  /\ d \in searched' \ searched =>
                  duplicates'[d] = {e \in Pipeline!Rivals(s) : Pipeline!IsLive(e) /\
                                     Pipeline!HasNumber(e, s.reading.number)}
            /\ validation'[d] # validation[d] /\ validation'[d].passed =>
                  duplicates[d] = {} /\ s.reading.number # None
            /\ status[d] = "validated" /\ status'[d] # status[d] =>
                  status'[d] = Pipeline!Decision(Pipeline!Loaded("approve_invoice", d))]_vars

\* README.md: "An invoice auto-approves only when it is inside every
\* tolerance": in particular inside that of its purchase order.
InsideOrderTolerance ==
    \A d \in Documents : status[d] = "auto_approved" =>
        LET ordered == OrderRow[match[d].po.po_id].total
        IN  100 * Distance(papers[d].invoice.total, ordered)
                <= PO_TOLERANCE_PCT * Distance(ordered, 0)
=============================================================================
