--------------------------- MODULE VendorMatching ---------------------------
(***************************************************************************)
(* Who sent the invoice and which order it names: domain/matching.py.  An  *)
(* ordered list of checks, the first that singles out one vendor wins.     *)
(*                                                                         *)
(* A similarity is the ratio difflib gives two normalised names, in some   *)
(* unit: One is equality.  Ratios, the two thresholds and the gap are      *)
(* floats in the code and are only compared and, near each other,          *)
(* subtracted, which floats do exactly: integers in one unit stand for     *)
(* them.                                                                   *)
(***************************************************************************)
EXTENDS InvoiceData

CONSTANTS
    Similarity,           \* [Names \X Names -> 0 .. One]: SequenceMatcher.ratio
    One,                  \* 1.0
    FUZZY_FLOOR,          \* 0.60: below it a name is no candidate
    FUZZY_AUTO_ACCEPT,    \* 0.88: from it on a candidate may be accepted
    FUZZY_AMBIGUITY_GAP   \* 0.08: if it leads the next one by so much

ASSUME MatchingAssumption ==
    /\ One \in Nat /\ Similarity \in [Names \X Names -> 0 .. One]
    /\ FUZZY_FLOOR \in 1 .. One /\ FUZZY_AUTO_ACCEPT \in FUZZY_FLOOR .. One
    /\ FUZZY_AMBIGUITY_GAP \in 1 .. FUZZY_AUTO_ACCEPT

Methods == {"tax_id", "exact_name", "fuzzy_name", "ambiguous", "none"}

VendorMatchResult == [vendor_id : Vendors \cup {None}, method : Methods]
PoMatchResult == [po_id : Orders \cup {None},
                  method : {"exact_number", "not_found", "not_provided", "ambiguous"}]

NoVendor(method) == [vendor_id |-> None, method |-> method]
Accept(vendor, method) == [vendor_id |-> vendor, method |-> method]

\* Exactly one of the vendors, or orders, at hand.
Single(hits) == \E h \in hits : hits = {h}
Only(hits) == CHOOSE h \in hits : TRUE

\* The vendors of a table a tax id or a name stands for.
TaxIdHits(invoice, vendors) ==
    LET wanted == NormalCode(invoice.supplier_tax_id)
    IN  {v \in vendors : wanted # None /\ NormalCode(VendorRow[v].tax_id) = wanted}

NameHits(invoice, vendors) == {v \in vendors : invoice.supplier_name \in VendorRow[v].names}

\* Some name of the vendor's is as much like the invoice's as the bound asks.
\* (The code takes the best ratio of a vendor's names; only bounds on it and
\* differences of two of them matter.)
IsLike(invoice, v, bound) ==
    \E n \in VendorRow[v].names : Similarity[invoice.supplier_name, n] >= bound

Candidates(invoice, vendors) == {v \in vendors : IsLike(invoice, v, FUZZY_FLOOR)}

\* The best ratio of v's names is ahead of the best of u's by the gap.
Leads(invoice, v, u) ==
    \E n \in VendorRow[v].names : \A m \in VendorRow[u].names :
        Similarity[invoice.supplier_name, n] - Similarity[invoice.supplier_name, m]
            >= FUZZY_AMBIGUITY_GAP

\* Mutant: the runner-up is not looked at.
IsClear_NearOnly(invoice, top, candidates) == IsLike(invoice, top, FUZZY_AUTO_ACCEPT)

\* Near enough, and ahead of the runner-up, if there is one, by the gap.
IsClear(invoice, top, candidates) ==
    /\ IsLike(invoice, top, FUZZY_AUTO_ACCEPT)
    /\ \A u \in candidates \ {top} : Leads(invoice, top, u)

match_by_similarity(invoice, vendors) ==
    LET candidates == Candidates(invoice, vendors)
        clear == {v \in candidates : IsClear(invoice, v, candidates)}
    IN  IF candidates = {} THEN NoVendor("none")
        ELSE IF clear = {} THEN NoVendor("ambiguous")
        ELSE Accept(Only(clear), "fuzzy_name")

match_vendor(invoice, vendors) ==
    LET by_tax_id == TaxIdHits(invoice, vendors)
        by_name == NameHits(invoice, vendors)
    IN  IF Single(by_tax_id) THEN Accept(Only(by_tax_id), "tax_id")
        ELSE IF invoice.supplier_name \in {None, Blank} THEN NoVendor("none")
        ELSE IF Single(by_name) THEN Accept(Only(by_name), "exact_name")
        ELSE match_by_similarity(invoice, vendors)

PoHits(invoice, orders) ==
    LET wanted == NormalCode(invoice.purchase_order_number)
    IN  {o \in orders : wanted # None /\ NormalCode(OrderRow[o].po_number) = wanted}

NoOrder(method) == [po_id |-> None, method |-> method]

\* Mutant: the order's number is recorded in place of its id.
match_po_Number(invoice, orders) ==
    LET hits == PoHits(invoice, orders)
    IN  IF Single(hits)
        THEN [po_id |-> OrderRow[Only(hits)].po_number, method |-> "exact_number"]
        ELSE NoOrder("not_found")

match_po(invoice, orders) ==
    LET hits == PoHits(invoice, orders)
    IN  IF NormalCode(invoice.purchase_order_number) = None THEN NoOrder("not_provided")
        ELSE IF hits = {} THEN NoOrder("not_found")
        ELSE IF Single(hits) THEN [po_id |-> Only(hits), method |-> "exact_number"]
        ELSE NoOrder("ambiguous")
=============================================================================
