------------------------- MODULE MCInvoiceDecision -------------------------
(* Instances of InvoiceDecision: one document with every combination of    *)
(* amounts and gaps, and two documents whose supplier and order are named  *)
(* in every way, against tables that grow.                                 *)
EXTENDS InvoiceDecision, TLC

CONSTANTS
    d1, d2, v1, v2, v3, acme, acne, acmes, acmne,
    t1, t1dots, t2, t3, p1, p1dots, p2, p3, p4, p5, T1, T2, T3, P1, P2, P3, P4, P5,
    oAcme, oTwin, oFits, oOther, oZero, oCredit, n1, eur, usd, null, blank

\* Tax id t1dots and order number p1dots are t1 and p1 with other punctuation.
MCCode ==
    [c \in RawCodes |->
        CASE c \in {t1, t1dots} -> T1 [] c = t2 -> T2 [] c = t3 -> T3
          [] c \in {p1, p1dots} -> P1 [] c = p2 -> P2 [] c = p3 -> P3
          [] c = p4 -> P4 [] c = p5 -> P5]

\* v3 is v1 entered a second time.
MCVendorRow ==
    [v \in Vendors |->
        CASE v = v1 -> [names |-> {acme}, tax_id |-> t1]
          [] v = v2 -> [names |-> {acne, acmes}, tax_id |-> t2]
          [] v = v3 -> [names |-> {acme}, tax_id |-> t1dots]]

\* In percent: acmes is near acne only, acmne is near both.
MCSimilarity ==
    [pair \in Names \X Names |->
        CASE pair[1] = pair[2] -> 100
          [] pair \in {<<acmne, acme>>, <<acme, acmne>>} -> 94
          [] pair \in {<<acmne, acne>>, <<acne, acmne>>} -> 88
          [] pair \in {<<acmes, acne>>, <<acne, acmes>>} -> 92
          [] OTHER -> 50]

Order(number, total, vendor) ==
    [po_number |-> number, currency |-> eur, total |-> total, vendor_id |-> vendor]

\* The order of v1, one of v2 with the same number but for its punctuation; an
\* order that fits, one of another vendor, one of nothing, a credit.
MCOrderRow ==
    [o \in Orders |->
        CASE o = oAcme   -> Order(p1, 1000, v1)
          [] o = oTwin   -> Order(p1dots, 1000, v2)
          [] o = oFits   -> Order(p2, 1000, v2)
          [] o = oOther  -> Order(p3, 1000, v1)
          [] o = oZero   -> Order(p4, 0, v2)
          [] o = oCredit -> Order(p5, -1000, v2)]

MCScripts == {{v2}, {v3}}
-----------------------------------------------------------------------------
\* An order of 10.00 leaves 0.20 each way: 9.80 and 10.20 are inside, 9.79 and
\* 10.21 are not.  9.00 and 0.82, 1.00 or 1.22 add up to them, or nearly.
Totals == {null, 979, 980, 1000, 1020, 1021}
Taxes == {null, 82, 100, 122}
Lines == {<<>>, <<500, 403>>, <<900, null>>}

\* At most one confidence is not high.
Confident == [field \in CriticalFields |-> "high"]
Confidences ==
    {Confident, [Confident EXCEPT !["currency"] = "low"], [Confident EXCEPT !["total"] = null]}

\* An invoice number and a date, at most one of them missing.
NumberAndDate == {<<n1, "given">>, <<blank, "given">>, <<null, "given">>, <<n1, null>>}

\* A supplier that is v2, and one that is nobody.
Suppliers == {<<acne, t2>>, <<acmne, null>>}

AmountPapers ==
    {[invoice |->
        [supplier_name |-> supplier[1], supplier_tax_id |-> supplier[2],
         purchase_order_number |-> po, invoice_number |-> header[1],
         invoice_date |-> header[2], currency |-> currency, subtotal |-> 900,
         tax_amount |-> tax, total |-> total, line_totals |-> lines],
      field_confidence |-> confidence] :
        supplier \in Suppliers, po \in {null, p2, p3, p4, p5}, header \in NumberAndDate,
        currency \in {eur, usd, blank, null}, tax \in Taxes, total \in Totals,
        lines \in Lines, confidence \in Confidences}

AmountCases ==
    {[vendors |-> {v1, v2, v3}, orders |-> {oFits, oOther, oZero, oCredit},
      papers |-> (d1 :> paper) @@ (d2 :> null)] : paper \in AmountPapers}

\* Documents whose amounts are in order and whose supplier is named in any way.
IdentityPapers ==
    {[invoice |->
        [supplier_name |-> name, supplier_tax_id |-> tax_id,
         purchase_order_number |-> po, invoice_number |-> n1,
         invoice_date |-> "given", currency |-> eur, subtotal |-> 900,
         tax_amount |-> 100, total |-> 1000, line_totals |-> <<>>],
      field_confidence |-> Confident] :
        name \in {acme, acmes, acmne, blank}, tax_id \in {null, t1dots, t2, t3},
        po \in {p1, p1dots}}

IdentityCases ==
    {[vendors |-> vs, orders |-> {o \in {oAcme, oTwin} : MCOrderRow[o].vendor_id \in vs},
      papers |-> (d1 :> a) @@ (d2 :> b)] :
        vs \in {{v1}, {v1, v2}}, a \in IdentityPapers, b \in IdentityPapers}

AllCases == AmountCases \cup IdentityCases
=============================================================================
