------------------------ MODULE FinancialRulesProofs ------------------------
(***************************************************************************)
(* What the rules guarantee for every amount, and every combination of     *)
(* missing data: lemmas for InvoiceDecisionProofs.                         *)
(***************************************************************************)
EXTENDS FinancialRules, TLAPS

\* The rules whose failure, of severity error, blocks an approval.
BlockingRules(inp) ==
    {rule_required_fields_present(inp), rule_arithmetic_consistency(inp),
     rule_po_amount_tolerance(inp), rule_po_currency_match(inp),
     rule_po_vendor_mismatch(inp), rule_duplicate_invoice_number(inp)}

\* What an input that nothing blocks says of the rules.
LEMMA NothingBlocks ==
    ASSUME NEW inp, ~has_blocking_failure(run_rules(inp))
    PROVE  \A r \in BlockingRules(inp) : r # Fail("error")
  <1>1. \A r \in BlockingRules(inp) : r \in run_rules(inp)
    BY DEF BlockingRules, run_rules
  <1>2. Fail("error").severity = "error" /\ ~Fail("error").passed
    BY DEF Fail
  <1> QED BY <1>1, <1>2 DEF has_blocking_failure

\* A check of severity error that has not failed was true.
LEMMA CheckHolds ==
    ASSUME NEW ok \in BOOLEAN, Check(ok, "error") # Fail("error")
    PROVE  ok
  BY DEF Check

\* What is within tolerance of a positive order, on both sides.
LEMMA ToleranceBounds ==
    ASSUME NEW amount \in Int, NEW ordered \in Int, ordered > 0, WithinTolerance(amount, ordered)
    PROVE  98 * ordered <= 100 * amount /\ 100 * amount <= 102 * ordered
  BY DEF WithinTolerance, Distance, PO_TOLERANCE_PCT

\* What the rules together say of the money, once vendor and order are there.
Backed(inp) ==
    LET inv == inp.invoice
        po == inp.matched_po
    IN  /\ po.vendor_id = inp.matched_vendor_id
        /\ inv.total # None
        /\ po.total > 0 => /\ 98 * po.total <= 100 * inv.total
                           /\ 100 * inv.total <= 102 * po.total
        /\ po.total > 0 /\ inv.subtotal # None /\ inv.tax_amount # None =>
              /\ 98 * po.total <= 100 * (inv.subtotal + inv.tax_amount + AMOUNT_TOLERANCE)
              /\ 100 * (inv.subtotal + inv.tax_amount - AMOUNT_TOLERANCE) <= 102 * po.total
        /\ inv.currency \notin {None, Blank} => inv.currency = po.currency
        /\ inp.has_duplicates => inv.invoice_number = Blank

LEMMA RulesBack ==
    ASSUME NEW inp \in ValidationInput, ~has_blocking_failure(run_rules(inp)),
           inp.matched_po # None, inp.matched_vendor_id # None
    PROVE  Backed(inp)
  <1> DEFINE inv == inp.invoice
             po == inp.matched_po
  <1>rules. /\ rule_required_fields_present(inp) # Fail("error")
            /\ rule_arithmetic_consistency(inp) # Fail("error")
            /\ rule_po_amount_tolerance(inp) # Fail("error")
            /\ rule_po_currency_match(inp) # Fail("error")
            /\ rule_po_vendor_mismatch(inp) # Fail("error")
            /\ rule_duplicate_invoice_number(inp) # Fail("error")
    BY NothingBlocks DEF BlockingRules
  <1>types. /\ po \in PurchaseOrder /\ po.total \in Int
            /\ inv.subtotal \in Amount /\ inv.tax_amount \in Amount /\ inv.total \in Amount
            /\ inp.has_duplicates \in BOOLEAN
    BY DEF ValidationInput, ExtractedInvoice, PurchaseOrder
  <1>1. inv.total # None /\ inv.invoice_number # None /\ inv.total \in Int
    <2>1. \A field \in RequiredFields : inv[field] # None
      BY <1>rules, CheckHolds DEF rule_required_fields_present
    <2> QED BY <2>1, <1>types DEF RequiredFields, Amount
  <1>2. po.vendor_id = inp.matched_vendor_id
    BY <1>rules, CheckHolds DEF rule_po_vendor_mismatch
  <1>3. inv.currency \notin {None, Blank} => inv.currency = po.currency
    BY <1>rules, CheckHolds DEF rule_po_currency_match
  <1>4. inp.has_duplicates => inv.invoice_number = Blank
    BY <1>rules, <1>1, <1>types, CheckHolds DEF rule_duplicate_invoice_number
  <1>5. po.total > 0 => 98 * po.total <= 100 * inv.total /\ 100 * inv.total <= 102 * po.total
    <2> SUFFICES ASSUME po.total > 0
                 PROVE  98 * po.total <= 100 * inv.total /\ 100 * inv.total <= 102 * po.total
      OBVIOUS
    <2> DEFINE close == 100 * Distance(inv.total, po.total) <= PO_TOLERANCE_PCT * po.total
    <2>1. po.total # 0
      BY <1>types
    <2>2. close \in BOOLEAN
      OBVIOUS
    <2>3. WithinTolerance(inv.total, po.total) = close
      BY DEF WithinTolerance
    <2>4. rule_po_amount_tolerance(inp) = Check(close, "error")
      BY <2>1, <2>3, <1>1 DEF rule_po_amount_tolerance
    <2>5. close
      <3> HIDE DEF close
      <3> QED BY <2>2, <2>4, <1>rules, CheckHolds
    <2> QED BY <2>3, <2>5, <1>1, <1>types, ToleranceBounds
  <1>6. inv.subtotal # None /\ inv.tax_amount # None =>
           /\ inv.subtotal \in Int /\ inv.tax_amount \in Int
           /\ Distance(inv.subtotal + inv.tax_amount, inv.total) <= AMOUNT_TOLERANCE
    <2> SUFFICES ASSUME inv.subtotal # None, inv.tax_amount # None
                 PROVE  /\ inv.subtotal \in Int /\ inv.tax_amount \in Int
                        /\ Distance(inv.subtotal + inv.tax_amount, inv.total) <= AMOUNT_TOLERANCE
      OBVIOUS
    <2>1. inv.subtotal \in Int /\ inv.tax_amount \in Int
      BY <1>types DEF Amount
    <2> DEFINE close == Distance(inv.subtotal + inv.tax_amount, inv.total) <= AMOUNT_TOLERANCE
    <2>2. close \in BOOLEAN
      OBVIOUS
    <2>3. rule_arithmetic_consistency(inp) = Check(close, "error")
      BY <1>1 DEF rule_arithmetic_consistency
    <2>4. close
      <3> HIDE DEF close
      <3> QED BY <2>2, <2>3, <1>rules, CheckHolds
    <2> QED BY <2>1, <2>4
  <1>7. po.total > 0 /\ inv.subtotal # None /\ inv.tax_amount # None =>
           /\ 98 * po.total <= 100 * (inv.subtotal + inv.tax_amount + AMOUNT_TOLERANCE)
           /\ 100 * (inv.subtotal + inv.tax_amount - AMOUNT_TOLERANCE) <= 102 * po.total
    <2>1. ASSUME NEW s \in Int, NEW t \in Int, NEW total \in Int, NEW ordered \in Int,
                 Distance(s + t, total) <= AMOUNT_TOLERANCE,
                 98 * ordered <= 100 * total, 100 * total <= 102 * ordered
          PROVE  /\ 98 * ordered <= 100 * (s + t + AMOUNT_TOLERANCE)
                 /\ 100 * (s + t - AMOUNT_TOLERANCE) <= 102 * ordered
      BY <2>1 DEF Distance, AMOUNT_TOLERANCE
    <2> QED BY <2>1, <1>1, <1>5, <1>6, <1>types
  <1> QED BY <1>1, <1>2, <1>3, <1>4, <1>5, <1>7 DEF Backed

\* What is missing, and no rule blocks for it.
GapsCaught(inp) ==
    LET inv == inp.invoice
        po == inp.matched_po
    IN  /\ \A field \in RequiredFields : inv[field] # None
        /\ rule_po_vendor_mismatch(inp).passed
        /\ ~rule_po_amount_tolerance(inp).passed => po.total = 0
        /\ ~rule_po_currency_match(inp).passed => inv.currency \in {None, Blank}

LEMMA RulesCatchGaps ==
    ASSUME NEW inp \in ValidationInput, ~has_blocking_failure(run_rules(inp)),
           inp.matched_po # None, inp.matched_vendor_id # None
    PROVE  GapsCaught(inp)
  <1> DEFINE inv == inp.invoice
             po == inp.matched_po
  <1>rules. /\ rule_required_fields_present(inp) # Fail("error")
            /\ rule_po_amount_tolerance(inp) # Fail("error")
            /\ rule_po_currency_match(inp) # Fail("error")
            /\ rule_po_vendor_mismatch(inp) # Fail("error")
    BY NothingBlocks DEF BlockingRules
  <1>1. \A field \in RequiredFields : inv[field] # None
    BY <1>rules, CheckHolds DEF rule_required_fields_present
  <1>3. rule_po_vendor_mismatch(inp).passed
    BY <1>rules DEF rule_po_vendor_mismatch, Check, Pass
  <1>4. ~rule_po_amount_tolerance(inp).passed => po.total = 0
    BY <1>rules, <1>1 DEF rule_po_amount_tolerance, RequiredFields, Check, Pass
  <1>5. ~rule_po_currency_match(inp).passed => inv.currency \in {None, Blank}
    BY <1>rules DEF rule_po_currency_match, Check, Pass
  <1> QED BY <1>1, <1>3, <1>4, <1>5 DEF GapsCaught
=============================================================================
