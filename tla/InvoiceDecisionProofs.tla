----------------------- MODULE InvoiceDecisionProofs -----------------------
(***************************************************************************)
(* The decisions of InvoiceDecision, for every vendor and order table,     *)
(* every similarity of names, every amount and any number of documents.    *)
(***************************************************************************)
EXTENDS InvoiceDecision, FinancialRulesProofs, TLAPS

(* What matching returns                                                   *)

LEMMA OnlyIsOne ==
    ASSUME NEW hits, Single(hits)
    PROVE  Only(hits) \in hits /\ hits = {Only(hits)}
  BY DEF Single, Only

\* A vendor is accepted from the table or not at all.
LEMMA AcceptedIsListed ==
    ASSUME NEW invoice, NEW vs \in SUBSET Vendors
    PROVE  LET r == match_vendor(invoice, vs)
           IN  r \in VendorMatchResult /\ (r.vendor_id # None => r.vendor_id \in vs)
  <1> DEFINE r == match_vendor(invoice, vs)
             candidates == Candidates(invoice, vs)
             clear == {v \in candidates : IsClear(invoice, v, candidates)}
  <1>1. \A method : NoVendor(method).vendor_id = None
    BY DEF NoVendor
  <1>2. NoVendor("none") \in VendorMatchResult /\ NoVendor("ambiguous") \in VendorMatchResult
    BY DEF NoVendor, VendorMatchResult, Methods
  <1>3. ASSUME NEW v \in vs, NEW method \in Methods
        PROVE  Accept(v, method) \in VendorMatchResult /\ Accept(v, method).vendor_id \in vs
    BY <1>3 DEF Accept, VendorMatchResult
  <1>4. {"tax_id", "exact_name", "fuzzy_name"} \subseteq Methods
    BY DEF Methods
  <1>5. TaxIdHits(invoice, vs) \subseteq vs /\ NameHits(invoice, vs) \subseteq vs
        /\ clear \subseteq vs
    BY DEF TaxIdHits, NameHits, Candidates
  <1>6. clear # {} => Only(clear) \in clear
    BY DEF Only
  <1>7. LET s == match_by_similarity(invoice, vs)
        IN  s \in VendorMatchResult /\ (s.vendor_id # None => s.vendor_id \in vs)
    <2> HIDE DEF clear
    <2>1. match_by_similarity(invoice, vs) \in
             {NoVendor("none"), NoVendor("ambiguous")}
             \cup {Accept(v, "fuzzy_name") : v \in clear}
      BY <1>6 DEF match_by_similarity, clear
    <2> QED BY <2>1, <1>1, <1>2, <1>3, <1>4, <1>5
  <1>8. r \in {NoVendor("none"), match_by_similarity(invoice, vs)}
             \cup {Accept(v, "tax_id") : v \in TaxIdHits(invoice, vs)}
             \cup {Accept(v, "exact_name") : v \in NameHits(invoice, vs)}
    BY OnlyIsOne DEF match_vendor
  <1> QED BY <1>1, <1>2, <1>3, <1>4, <1>5, <1>7, <1>8

\* No other vendor of the table has as good a claim as the accepted one.
LEMMA AcceptedIsUnrivalled ==
    ASSUME NEW invoice, NEW vs \in SUBSET Vendors,
           NEW v, v = match_vendor(invoice, vs).vendor_id, v # None
    PROVE  /\ \A u \in vs \ {v} :
                 \/ v \in TaxIdHits(invoice, vs) /\ u \notin TaxIdHits(invoice, vs)
                 \/ v \in NameHits(invoice, vs) /\ u \notin NameHits(invoice, vs)
                 \/ Leads(invoice, v, u)
                 \/ ~IsLike(invoice, u, FUZZY_FLOOR)
           /\ \A u \in vs : TaxIdHits(invoice, vs) = {u} => v = u
  <1> DEFINE T == TaxIdHits(invoice, vs)
             N == NameHits(invoice, vs)
             candidates == Candidates(invoice, vs)
             clear == {w \in candidates : IsClear(invoice, w, candidates)}
  <1>1. CASE Single(T)
    <2>1. v = Only(T)
      BY <1>1 DEF match_vendor, Accept
    <2>2. T = {v}
      BY <2>1, <1>1, OnlyIsOne
    <2> QED BY <2>2
  <1>2. CASE ~Single(T)
    <2>1. invoice.supplier_name \notin {None, Blank}
      BY <1>2 DEF match_vendor, NoVendor
    <2>2. \A u : T # {u}
      <3> SUFFICES ASSUME NEW u, T = {u} PROVE FALSE
        OBVIOUS
      <3> QED BY <1>2 DEF Single
    <2>3. CASE Single(N)
      <3>1. v = Only(N)
        BY <1>2, <2>1, <2>3 DEF match_vendor, Accept
      <3>2. N = {v}
        BY <3>1, <2>3, OnlyIsOne
      <3> QED BY <3>2, <2>2
    <2>4. CASE ~Single(N)
      <3>1. v = match_by_similarity(invoice, vs).vendor_id
        BY <1>2, <2>1, <2>4 DEF match_vendor
      <3>2. candidates # {} /\ clear # {}
        BY <3>1 DEF match_by_similarity, NoVendor
      <3>3. v = Only(clear)
        BY <3>1, <3>2 DEF match_by_similarity, Accept
      <3>4. v \in clear
        BY <3>2, <3>3 DEF Only
      <3>5. \A u \in candidates \ {v} : Leads(invoice, v, u)
        BY <3>4 DEF IsClear
      <3>6. \A u \in vs \ candidates : ~IsLike(invoice, u, FUZZY_FLOOR)
        BY DEF Candidates
      <3> QED BY <3>5, <3>6, <2>2
    <2> QED BY <2>3, <2>4
  <1> QED BY <1>1, <1>2

\* An order is matched only if it is the one order with the invoice's number.
LEMMA MatchedOrder ==
    ASSUME NEW invoice, NEW os \in SUBSET Orders
    PROVE  LET r == match_po(invoice, os)
           IN  /\ r \in PoMatchResult
               /\ r.po_id # None =>
                     /\ PoHits(invoice, os) = {r.po_id} /\ r.po_id \in os
                     /\ NormalCode(invoice.purchase_order_number) # None
  <1> DEFINE r == match_po(invoice, os)
             hits == PoHits(invoice, os)
             number == NormalCode(invoice.purchase_order_number)
  <1>1. hits \subseteq os
    BY DEF PoHits
  <1>2. CASE r \in {NoOrder("not_provided"), NoOrder("not_found"), NoOrder("ambiguous")}
    BY <1>2 DEF NoOrder, PoMatchResult
  <1>3. CASE r \notin {NoOrder("not_provided"), NoOrder("not_found"), NoOrder("ambiguous")}
    <2>1. number # None /\ Single(hits)
          /\ r = [po_id |-> Only(hits), method |-> "exact_number"]
      BY <1>3 DEF match_po
    <2>2. hits = {r.po_id}
      BY <2>1, OnlyIsOne
    <2> QED BY <1>1, <2>1, <2>2 DEF PoMatchResult
  <1> QED BY <1>2, <1>3
-----------------------------------------------------------------------------
(* The inductive invariant                                                 *)

\* A document has the rows of the stages it has passed, and no others.
RowsOf(d) ==
    /\ status[d] # "absent" => papers[d] \in Paper
    /\ status[d] \in {"absent", "extracted"} <=> match[d] = None
    /\ d \in searched => match[d] # None
    /\ status[d] \notin {"absent", "extracted", "validating"} =>
          /\ d \in searched
          /\ validation[d] # None /\ validation[d].candidates = duplicates[d]
          /\ validation[d].passed =
                ~has_blocking_failure(run_rules(InputOf(d, duplicates[d])))

RowsFollowStatus == \A d \in Documents : RowsOf(d)

\* What the policy asked for.
ApprovalHasGrounds ==
    \A d \in Documents : status[d] = "auto_approved" =>
        /\ validation[d].passed
        /\ match[d].vendor.vendor_id # None /\ match[d].po.po_id # None
        /\ \A field \in CriticalFields : papers[d].field_confidence[field] = "high"

\* A matched order carries the number on the document, and documents that name
\* the same number were matched to the same order.
OrderIsNamed ==
    \A d \in Documents : match[d] # None /\ match[d].po.po_id # None =>
        /\ match[d].po.po_id \in orders
        /\ NormalCode(papers[d].invoice.purchase_order_number) # None
        /\ NormalCode(OrderRow[match[d].po.po_id].po_number)
               = NormalCode(papers[d].invoice.purchase_order_number)

OneOrderPerNumber ==
    \A d, e \in Documents :
        /\ match[d] # None /\ match[d].po.po_id # None
        /\ match[e] # None /\ match[e].po.po_id # None
        /\ NormalCode(papers[d].invoice.purchase_order_number)
              = NormalCode(papers[e].invoice.purchase_order_number)
        => match[d].po.po_id = match[e].po.po_id

\* Both documents are for the same vendor and carry the same number.
SameBill(d, e) ==
    /\ match[d] # None /\ match[e] # None
    /\ match[d].vendor.vendor_id # None
    /\ match[d].vendor.vendor_id = match[e].vendor.vendor_id
    /\ papers[d].invoice.invoice_number \in Numbers
    /\ papers[d].invoice.invoice_number = papers[e].invoice.invoice_number

\* Of two such documents the one that searched last has found the other,
\* unless that one had been rejected.
LastOneSees ==
    \A d, e \in Documents :
        d # e /\ SameBill(d, e) /\ d \in searched /\ e \in searched =>
            \/ e \in duplicates[d] \/ d \in duplicates[e]
            \/ status[d] = "rejected" \/ status[e] = "rejected"

IInv == /\ TypeOK /\ RowsFollowStatus /\ ApprovalHasGrounds
        /\ OrderIsNamed /\ OneOrderPerNumber /\ LastOneSees
-----------------------------------------------------------------------------
(* Every step keeps the types                                              *)

LEMMA InitTypeOK == Init => TypeOK
  BY DecisionAssumption DEF Init, TypeOK, Consistent

\* A document under way has been read, and the rules can judge it.
LEMMA InputIsValid ==
    ASSUME TypeOK, RowsFollowStatus, NEW d \in Documents, match[d] # None, NEW found
    PROVE  /\ papers[d] \in Paper /\ match[d] \in MatchRow
           /\ InputOf(d, found) \in ValidationInput
  <1>1. papers[d] \in Paper
    BY DEF RowsFollowStatus, RowsOf, TypeOK
  <1>2. match[d] \in MatchRow
    BY DEF TypeOK
  <1> DEFINE po == match[d].po.po_id
             vendor == match[d].vendor.vendor_id
             ordered == IF po = None THEN None ELSE OrderRow[po]
  <1>3. po \in Orders \cup {None} /\ vendor \in Vendors \cup {None}
    BY <1>2 DEF MatchRow, VendorMatchResult, PoMatchResult
  <1>4. ordered \in PurchaseOrder \cup {None}
    BY <1>3, DataAssumption
  <1>5. papers[d].invoice \in ExtractedInvoice
    BY <1>1 DEF Paper
  <1>6. (found # {}) \in BOOLEAN
    OBVIOUS
  <1>7. InputOf(d, found) = [invoice |-> papers[d].invoice, matched_po |-> ordered,
                            matched_vendor_id |-> vendor, has_duplicates |-> found # {}]
    BY DEF InputOf
  <1> HIDE DEF ordered, vendor
  <1> QED BY <1>1, <1>2, <1>3, <1>4, <1>5, <1>6, <1>7 DEF ValidationInput

LEMMA NextTypeOK == TypeOK /\ RowsFollowStatus /\ [Next]_vars => TypeOK'
  <1> SUFFICES ASSUME TypeOK, RowsFollowStatus, [Next]_vars PROVE TypeOK'
    OBVIOUS
  <1>1. ASSUME NEW d \in Documents, RunMatching(d) PROVE TypeOK'
    <2> DEFINE row == [vendor |-> vendorResult[d], po |-> match_po(papers[d].invoice, orders)]
    <2>1. row \in MatchRow
      <3>1. vendorResult[d] \in VendorMatchResult
        BY <1>1 DEF RunMatching, TypeOK
      <3>2. match_po(papers[d].invoice, orders) \in PoMatchResult
        BY MatchedOrder DEF TypeOK
      <3> QED BY <3>1, <3>2 DEF MatchRow
    <2>2. match' = [match EXCEPT ![d] = row] /\ status' = [status EXCEPT ![d] = "validating"]
          /\ UNCHANGED <<vendors, orders, papers, vendorResult, searched, duplicates, validation>>
      BY <1>1 DEF RunMatching
    <2> HIDE DEF row
    <2> QED BY <2>1, <2>2 DEF TypeOK
  <1>2. ASSUME NEW d \in Documents, SearchDuplicates(d) PROVE TypeOK'
    <2>1. FindDuplicates(d) \in SUBSET Documents
      BY DEF FindDuplicates
    <2> QED BY <1>2, <2>1 DEF SearchDuplicates, TypeOK
  <1>3. ASSUME NEW d \in Documents, RunValidation(d) PROVE TypeOK'
    <2> DEFINE passed == ~has_blocking_failure(run_rules(InputOf(d, duplicates[d])))
               row == [candidates |-> duplicates[d], passed |-> passed]
    <2>1. passed \in BOOLEAN
      OBVIOUS
    <2>2. row \in ValidationRow
      <3> HIDE DEF passed
      <3> QED BY <2>1 DEF TypeOK, ValidationRow
    <2>3. validation' = [validation EXCEPT ![d] = row] /\ status' = [status EXCEPT ![d] = "validated"]
          /\ UNCHANGED <<vendors, orders, papers, vendorResult, match, searched, duplicates>>
      BY <1>3 DEF RunValidation
    <2> HIDE DEF row
    <2> QED BY <2>2, <2>3 DEF TypeOK
  <1>4. ASSUME NEW d \in Documents, RunApproval(d) PROVE TypeOK'
    <2>1. \E s \in {"auto_approved", "needs_review"} : status' = [status EXCEPT ![d] = s]
      BY <1>4 DEF RunApproval, decide_approval
    <2>2. UNCHANGED <<vendors, orders, papers, vendorResult, match, searched, duplicates,
                      validation>>
      BY <1>4 DEF RunApproval
    <2> QED BY <2>1, <2>2 DEF TypeOK
  <1>5. ASSUME NEW d \in Documents, NEW s \in {"approved", "rejected"}, Review(d, s)
        PROVE TypeOK'
    BY <1>5 DEF Review, TypeOK
  <1>6. ASSUME NEW script \in Scripts, Seed(script) PROVE TypeOK'
    <2>1. script \subseteq Vendors
      BY DecisionAssumption
    <2>2. vendors' \subseteq Vendors /\ orders' \subseteq Orders
      BY <1>6, <2>1 DEF Seed, Missing, TypeOK
    <2>3. UNCHANGED <<papers, status, vendorResult, match, searched, duplicates, validation>>
      BY <1>6 DEF Seed
    <2> QED BY <2>2, <2>3 DEF TypeOK
  <1>7. ASSUME NEW d \in Documents, IdentifyVendor(d) PROVE TypeOK'
    <2>1. match_vendor(papers[d].invoice, vendors) \in VendorMatchResult
      BY AcceptedIsListed DEF TypeOK
    <2> QED BY <1>7, <2>1 DEF IdentifyVendor, TypeOK
  <1>8. ASSUME UNCHANGED vars PROVE TypeOK'
    BY <1>8 DEF vars, TypeOK
  <1> QED BY <1>1, <1>2, <1>3, <1>4, <1>5, <1>6, <1>7, <1>8 DEF Next
-----------------------------------------------------------------------------
(* The initial states, and what each action keeps of the rest              *)

LEMMA InitIInv == Init => IInv
  <1> SUFFICES ASSUME Init PROVE IInv
    OBVIOUS
  <1>1. TypeOK
    BY InitTypeOK
  <1>2. \A d \in Documents : /\ match[d] = None /\ d \notin searched
                             /\ status[d] = IF papers[d] = None THEN "absent" ELSE "extracted"
    BY DEF Init
  <1>3. RowsFollowStatus
    BY <1>1, <1>2 DEF RowsFollowStatus, RowsOf, TypeOK
  <1>4. ApprovalHasGrounds
    BY <1>2 DEF ApprovalHasGrounds
  <1>5. OrderIsNamed /\ OneOrderPerNumber /\ LastOneSees
    BY <1>2 DEF OrderIsNamed, OneOrderPerNumber, LastOneSees
  <1> QED BY <1>1, <1>3, <1>4, <1>5 DEF IInv

LEMMA MatchingKeeps ==
    ASSUME IInv, NEW d \in Documents, RunMatching(d)
    PROVE  RowsFollowStatus' /\ ApprovalHasGrounds' /\ OrderIsNamed'
           /\ OneOrderPerNumber' /\ LastOneSees'
  <1> DEFINE po == match_po(papers[d].invoice, orders)
             row == [vendor |-> vendorResult[d], po |-> po]
  <1>1. /\ match' = [match EXCEPT ![d] = row] /\ status' = [status EXCEPT ![d] = "validating"]
        /\ status[d] = "extracted" /\ vendorResult[d] # None
        /\ UNCHANGED <<vendors, orders, papers, searched, duplicates, validation>>
    BY DEF RunMatching
  <1>2. TypeOK /\ RowsFollowStatus /\ ApprovalHasGrounds /\ OrderIsNamed
        /\ OneOrderPerNumber /\ LastOneSees
    BY DEF IInv
  <1>3. match[d] = None /\ d \notin searched
    BY <1>1, <1>2 DEF RowsFollowStatus, RowsOf
  <1>4. row \in MatchRow /\ row # None
    <2>1. vendorResult[d] \in VendorMatchResult
      BY <1>1, <1>2 DEF TypeOK
    <2>2. po \in PoMatchResult
      BY <1>2, MatchedOrder DEF TypeOK
    <2> QED BY <2>1, <2>2, DecisionAssumption DEF MatchRow
  <1>5. /\ match'[d] = row /\ status'[d] = "validating"
        /\ \A e \in Documents \ {d} : match'[e] = match[e] /\ status'[e] = status[e]
    BY <1>1, <1>2 DEF TypeOK
  <1>6. \A e \in Documents : \A found : e # d => InputOf(e, found)' = InputOf(e, found)
    BY <1>1, <1>5 DEF InputOf
  <1>7. row.po = po
    OBVIOUS
  <1>8. po.po_id # None =>
           /\ PoHits(papers[d].invoice, orders) = {po.po_id} /\ po.po_id \in orders
           /\ NormalCode(papers[d].invoice.purchase_order_number) # None
    BY <1>2, MatchedOrder DEF TypeOK
  <1> HIDE DEF row, po
  <1>9. RowsFollowStatus'
    <2> SUFFICES ASSUME NEW e \in Documents PROVE RowsOf(e)'
      BY DEF RowsFollowStatus
    <2>1. RowsOf(e)
      BY <1>2 DEF RowsFollowStatus
    <2>2. CASE e = d
      BY <2>1, <2>2, <1>1, <1>3, <1>4, <1>5 DEF RowsOf
    <2>3. CASE e # d
      <3>1. InputOf(e, duplicates[e])' = InputOf(e, duplicates[e])
        BY <2>3, <1>1, <1>5 DEF InputOf
      <3> QED BY <2>1, <2>3, <3>1, <1>1, <1>5 DEF RowsOf
    <2> QED BY <2>2, <2>3
  <1>10. ApprovalHasGrounds'
    BY <1>1, <1>2, <1>5 DEF ApprovalHasGrounds
  <1>11. OrderIsNamed'
    <2> SUFFICES ASSUME NEW e \in Documents, match'[e] # None, match'[e].po.po_id # None
                 PROVE  /\ match'[e].po.po_id \in orders
                        /\ NormalCode(papers[e].invoice.purchase_order_number) # None
                        /\ NormalCode(OrderRow[match'[e].po.po_id].po_number)
                              = NormalCode(papers[e].invoice.purchase_order_number)
      BY <1>1 DEF OrderIsNamed
    <2>1. CASE e = d
      BY <2>1, <1>5, <1>7, <1>8 DEF PoHits
    <2>2. CASE e # d
      BY <2>2, <1>2, <1>5 DEF OrderIsNamed
    <2> QED BY <2>1, <2>2
  <1>12. OneOrderPerNumber'
    <2>1. ASSUME NEW e \in Documents \ {d}, match[e] # None, match[e].po.po_id # None,
                 po.po_id # None,
                 NormalCode(papers[d].invoice.purchase_order_number)
                    = NormalCode(papers[e].invoice.purchase_order_number)
          PROVE  match[e].po.po_id = po.po_id
      <3>1. match[e].po.po_id \in PoHits(papers[d].invoice, orders)
        BY <2>1, <1>2 DEF OrderIsNamed, PoHits
      <3> QED BY <3>1, <2>1, <1>8
    <2> SUFFICES ASSUME NEW e \in Documents, NEW f \in Documents,
                        match'[e] # None, match'[e].po.po_id # None,
                        match'[f] # None, match'[f].po.po_id # None,
                        NormalCode(papers[e].invoice.purchase_order_number)
                           = NormalCode(papers[f].invoice.purchase_order_number)
                 PROVE  match'[e].po.po_id = match'[f].po.po_id
      BY <1>1 DEF OneOrderPerNumber
    <2>2. CASE e # d /\ f # d
      BY <2>2, <1>2, <1>5 DEF OneOrderPerNumber
    <2>3. CASE e = d /\ f # d
      BY <2>1, <2>3, <1>5, <1>7
    <2>4. CASE e # d /\ f = d
      BY <2>1, <2>4, <1>5, <1>7
    <2> QED BY <2>2, <2>3, <2>4
  <1>13. LastOneSees'
    <2> SUFFICES ASSUME NEW e \in Documents, NEW f \in Documents, e # f, SameBill(e, f)',
                        e \in searched, f \in searched
                 PROVE  \/ f \in duplicates[e] \/ e \in duplicates[f]
                        \/ status'[e] = "rejected" \/ status'[f] = "rejected"
      BY <1>1 DEF LastOneSees
    <2>1. e # d /\ f # d
      BY <1>3
    <2>2. SameBill(e, f)
      BY <2>1, <1>1, <1>5 DEF SameBill
    <2> QED BY <2>1, <2>2, <1>2, <1>5 DEF LastOneSees
  <1> QED BY <1>9, <1>10, <1>11, <1>12, <1>13

LEMMA SearchKeeps ==
    ASSUME IInv, NEW d \in Documents, SearchDuplicates(d)
    PROVE  RowsFollowStatus' /\ ApprovalHasGrounds' /\ OrderIsNamed'
           /\ OneOrderPerNumber' /\ LastOneSees'
  <1>1. /\ status[d] = "validating" /\ d \notin searched
        /\ searched' = searched \cup {d}
        /\ duplicates' = [duplicates EXCEPT ![d] = FindDuplicates(d)]
        /\ UNCHANGED <<vendors, orders, papers, status, match, validation>>
    BY DEF SearchDuplicates
  <1>2. TypeOK /\ RowsFollowStatus /\ ApprovalHasGrounds /\ OrderIsNamed
        /\ OneOrderPerNumber /\ LastOneSees
    BY DEF IInv
  <1>3. /\ duplicates'[d] = FindDuplicates(d)
        /\ \A e \in Documents \ {d} : duplicates'[e] = duplicates[e]
    BY <1>1, <1>2 DEF TypeOK
  <1>4. RowsFollowStatus'
    <2> SUFFICES ASSUME NEW e \in Documents PROVE RowsOf(e)'
      BY DEF RowsFollowStatus
    <2>1. RowsOf(e) /\ match[d] # None
      BY <1>1, <1>2 DEF RowsFollowStatus, RowsOf
    <2>2. CASE e = d
      BY <2>1, <2>2, <1>1 DEF RowsOf
    <2>3. CASE e # d
      <3>1. InputOf(e, duplicates[e])' = InputOf(e, duplicates[e])
        BY <2>3, <1>1, <1>3 DEF InputOf
      <3> QED BY <2>1, <2>3, <3>1, <1>1, <1>3 DEF RowsOf
    <2> QED BY <2>2, <2>3
  <1>5. ApprovalHasGrounds' /\ OrderIsNamed' /\ OneOrderPerNumber'
    BY <1>1, <1>2 DEF ApprovalHasGrounds, OrderIsNamed, OneOrderPerNumber
  <1>6. LastOneSees'
    <2>1. ASSUME NEW e \in Documents \ {d}, SameBill(d, e) \/ SameBill(e, d), e \in searched
          PROVE  e \in FindDuplicates(d) \/ status[e] = "rejected"
      <3>1. status[e] # "failed"
        BY <1>2 DEF TypeOK
      <3>2. papers[d].invoice.invoice_number \in Numbers
            /\ papers[d].invoice.invoice_number = papers[e].invoice.invoice_number
            /\ match[e] # None /\ match[d].vendor.vendor_id # None
            /\ match[e].vendor.vendor_id = match[d].vendor.vendor_id
        BY <2>1 DEF SameBill
      <3>3. papers[d].invoice.invoice_number \notin {None, Blank}
        BY <3>2, DataAssumption
      <3> QED BY <3>1, <3>2, <3>3 DEF FindDuplicates
    <2> SUFFICES ASSUME NEW e \in Documents, NEW f \in Documents, e # f, SameBill(e, f),
                        e \in searched', f \in searched'
                 PROVE  \/ f \in duplicates'[e] \/ e \in duplicates'[f]
                        \/ status[e] = "rejected" \/ status[f] = "rejected"
      BY <1>1 DEF LastOneSees, SameBill
    <2>2. CASE e = d
      BY <2>1, <2>2, <1>1, <1>3
    <2>3. CASE f = d
      BY <2>1, <2>3, <1>1, <1>3
    <2>4. CASE e # d /\ f # d
      BY <2>4, <1>1, <1>2, <1>3 DEF LastOneSees
    <2> QED BY <2>2, <2>3, <2>4
  <1> QED BY <1>4, <1>5, <1>6

\* The later stages change a status, and RunValidation its own row.
LEMMA LaterStagesKeep ==
    ASSUME IInv, NEW d \in Documents,
           \/ RunValidation(d) \/ RunApproval(d)
           \/ \E s \in {"approved", "rejected"} : Review(d, s)
    PROVE  RowsFollowStatus' /\ ApprovalHasGrounds' /\ OrderIsNamed'
           /\ OneOrderPerNumber' /\ LastOneSees'
  <1>1. TypeOK /\ RowsFollowStatus /\ ApprovalHasGrounds /\ OrderIsNamed
        /\ OneOrderPerNumber /\ LastOneSees
    BY DEF IInv
  <1>2. /\ UNCHANGED <<vendors, orders, papers, match, searched, duplicates>>
        /\ \A e \in Documents \ {d} : status'[e] = status[e] /\ validation'[e] = validation[e]
        /\ status[d] \in {"validating", "validated", "needs_review"}
        /\ status'[d] \in {"validated", "auto_approved", "needs_review", "approved", "rejected"}
    BY <1>1 DEF RunValidation, RunApproval, Review, TypeOK, decide_approval
  <1>3. \A e \in Documents : \A found : InputOf(e, found)' = InputOf(e, found)
    BY <1>2 DEF InputOf
  <1>4. RowsFollowStatus'
    <2> SUFFICES ASSUME NEW e \in Documents PROVE RowsOf(e)'
      BY DEF RowsFollowStatus
    <2>1. RowsOf(e)
      BY <1>1 DEF RowsFollowStatus
    <2>2. InputOf(e, duplicates[e])' = InputOf(e, duplicates[e])
      BY <1>2 DEF InputOf
    <2>3. CASE e # d
      BY <2>1, <2>2, <2>3, <1>2 DEF RowsOf
    <2>4. CASE e = d /\ RunValidation(d)
      <3> DEFINE row == [candidates |-> duplicates[d],
                         passed |-> ~has_blocking_failure(run_rules(InputOf(d, duplicates[d])))]
      <3>1. d \in searched /\ validation'[d] = row
        BY <2>4, <1>1 DEF RunValidation, TypeOK
      <3>2. row \in ValidationRow
        <4>1. row.passed \in BOOLEAN /\ row.candidates \subseteq Documents
          BY <1>1 DEF TypeOK
        <4> QED BY <4>1 DEF ValidationRow
      <3>3. row # None
        BY <3>2, DecisionAssumption
      <3> HIDE DEF row
      <3>4. row.candidates = duplicates[d]
            /\ row.passed = ~has_blocking_failure(run_rules(InputOf(d, duplicates[d])))
        BY DEF row
      <3> QED BY <2>1, <2>2, <2>4, <3>1, <3>3, <3>4, <1>2 DEF RowsOf
    <2>5. CASE e = d /\ ~RunValidation(d)
      <3>1. validation' = validation /\ status[d] # "validating"
        BY <2>5 DEF RunApproval, Review
      <3> QED BY <2>1, <2>2, <2>5, <3>1, <1>2 DEF RowsOf
    <2> QED BY <2>3, <2>4, <2>5
  <1>5. ApprovalHasGrounds'
    <2> SUFFICES ASSUME NEW e \in Documents, status'[e] = "auto_approved"
                 PROVE  /\ validation'[e].passed
                        /\ match[e].vendor.vendor_id # None /\ match[e].po.po_id # None
                        /\ \A field \in CriticalFields :
                              papers[e].field_confidence[field] = "high"
      BY <1>2 DEF ApprovalHasGrounds
    <2>1. CASE e # d
      BY <2>1, <1>1, <1>2 DEF ApprovalHasGrounds
    <2>2. CASE e = d
      <3>1. RunApproval(d)
        BY <2>2, <1>1 DEF RunValidation, Review, TypeOK
      <3> DEFINE identified == match[d].vendor.vendor_id # None
                                 /\ match[d].vendor.method \in IdentifiedMethods
                 outcome == decide_approval(validation[d].passed, identified,
                                            match[d].po.po_id # None, papers[d].field_confidence)
      <3>2. status' = [status EXCEPT ![d] = outcome] /\ validation' = validation
        BY <3>1 DEF RunApproval
      <3>3. outcome = "auto_approved"
        <4> HIDE DEF outcome
        <4> QED BY <3>2, <2>2, <1>1 DEF TypeOK
      <3> QED BY <3>2, <3>3, <2>2 DEF decide_approval
    <2> QED BY <2>1, <2>2
  <1>6. OrderIsNamed' /\ OneOrderPerNumber'
    BY <1>1, <1>2 DEF OrderIsNamed, OneOrderPerNumber
  <1>7. LastOneSees'
    <2>1. \A e \in Documents : status[e] = "rejected" => status'[e] = "rejected"
      BY <1>2
    <2> QED BY <1>1, <1>2, <2>1 DEF LastOneSees, SameBill
  <1> QED BY <1>4, <1>5, <1>6, <1>7

LEMMA SeedKeeps ==
    ASSUME IInv, NEW script \in Scripts, Seed(script)
    PROVE  RowsFollowStatus' /\ ApprovalHasGrounds' /\ OrderIsNamed'
           /\ OneOrderPerNumber' /\ LastOneSees'
  <1>1. /\ orders \subseteq orders'
        /\ UNCHANGED <<papers, status, match, searched, duplicates, validation>>
    BY DEF Seed
  <1>2. RowsFollowStatus'
    <2> SUFFICES ASSUME NEW e \in Documents PROVE RowsOf(e)'
      BY DEF RowsFollowStatus
    <2>1. RowsOf(e) /\ InputOf(e, duplicates[e])' = InputOf(e, duplicates[e])
      BY <1>1 DEF IInv, RowsFollowStatus, InputOf
    <2> QED BY <2>1, <1>1 DEF RowsOf
  <1>3. OrderIsNamed'
    BY <1>1 DEF IInv, OrderIsNamed
  <1>4. ApprovalHasGrounds' /\ OneOrderPerNumber' /\ LastOneSees'
    BY <1>1 DEF IInv, ApprovalHasGrounds, OneOrderPerNumber, LastOneSees, SameBill
  <1> QED BY <1>2, <1>3, <1>4

\* What changes none of the rows the invariant speaks of.
LEMMA OthersKeep ==
    ASSUME IInv,
           UNCHANGED <<vendors, orders, papers, status, match, searched, duplicates, validation>>
    PROVE  RowsFollowStatus' /\ ApprovalHasGrounds' /\ OrderIsNamed'
           /\ OneOrderPerNumber' /\ LastOneSees'
  <1>1. RowsFollowStatus'
    <2> SUFFICES ASSUME NEW e \in Documents PROVE RowsOf(e)'
      BY DEF RowsFollowStatus
    <2>1. RowsOf(e) /\ InputOf(e, duplicates[e])' = InputOf(e, duplicates[e])
      BY DEF IInv, RowsFollowStatus, InputOf
    <2> QED BY <2>1 DEF RowsOf
  <1> QED BY <1>1 DEF IInv, ApprovalHasGrounds, OrderIsNamed, OneOrderPerNumber, LastOneSees,
                      SameBill

LEMMA Inductive == Spec => []IInv
  <1>1. Init => IInv
    BY InitIInv
  <1>2. IInv /\ [Next]_vars => IInv'
    <2> SUFFICES ASSUME IInv, [Next]_vars PROVE IInv'
      OBVIOUS
    <2>1. TypeOK'
      BY NextTypeOK DEF IInv
    <2>2. ASSUME NEW d \in Documents, RunMatching(d) PROVE IInv'
      BY <2>1, <2>2, MatchingKeeps DEF IInv
    <2>3. ASSUME NEW d \in Documents, SearchDuplicates(d) PROVE IInv'
      BY <2>1, <2>3, SearchKeeps DEF IInv
    <2>4. ASSUME NEW d \in Documents,
                 \/ RunValidation(d) \/ RunApproval(d)
                 \/ \E s \in {"approved", "rejected"} : Review(d, s)
          PROVE  IInv'
      BY <2>1, <2>4, LaterStagesKeep DEF IInv
    <2>5. ASSUME NEW script \in Scripts, Seed(script) PROVE IInv'
      BY <2>1, <2>5, SeedKeeps DEF IInv
    <2>6. ASSUME UNCHANGED vars \/ \E d \in Documents : IdentifyVendor(d)
          PROVE  IInv'
      <3>1. UNCHANGED <<vendors, orders, papers, status, match, searched, duplicates, validation>>
        BY <2>6 DEF vars, IdentifyVendor
      <3> QED BY <2>1, <3>1, OthersKeep DEF IInv
    <2> QED BY <2>2, <2>3, <2>4, <2>5, <2>6 DEF Next
  <1> QED BY <1>1, <1>2, PTL DEF Spec
-----------------------------------------------------------------------------
(* The theorems                                                            *)

\* The variables keep their types.
THEOREM DecisionTypeCorrect == Spec => []TypeOK
  <1>1. IInv => TypeOK
    BY DEF IInv
  <1> QED BY <1>1, Inductive, PTL

\* A vendor is accepted by a method the policy counts as identification.
LEMMA AcceptedIsIdentified ==
    ASSUME NEW invoice, NEW vs
    PROVE  LET r == match_vendor(invoice, vs)
           IN  r.vendor_id # None => r.method \in IdentifiedMethods
  <1>1. \A method : NoVendor(method).vendor_id = None
    BY DEF NoVendor
  <1>2. \A v, method : Accept(v, method).method = method
    BY DEF Accept
  <1>3. match_by_similarity(invoice, vs).vendor_id # None
           => match_by_similarity(invoice, vs).method = "fuzzy_name"
    BY <1>1, <1>2 DEF match_by_similarity
  <1> QED BY <1>1, <1>2, <1>3 DEF match_vendor, IdentifiedMethods

\* A vendor a row names was identified; only a number finds duplicates.
Found(d) ==
    /\ vendorResult[d] # None /\ vendorResult[d].vendor_id # None
          => vendorResult[d].method \in IdentifiedMethods
    /\ match[d] # None /\ match[d].vendor.vendor_id # None
          => match[d].vendor.method \in IdentifiedMethods
    /\ duplicates[d] # {} => papers[d].invoice.invoice_number \notin {None, Blank}

AllFound == \A d \in Documents : Found(d)

LEMMA FoundKept ==
    ASSUME TypeOK, AllFound, [Next]_vars
    PROVE  AllFound'
  <1>1. ASSUME NEW d \in Documents, RunMatching(d) PROVE AllFound'
    <2> DEFINE row == [vendor |-> vendorResult[d], po |-> match_po(papers[d].invoice, orders)]
    <2>1. /\ match' = [match EXCEPT ![d] = row]
          /\ UNCHANGED <<papers, vendorResult, duplicates>>
      BY <1>1 DEF RunMatching
    <2>2. row.vendor.vendor_id # None => row.vendor.method \in IdentifiedMethods
      BY <1>1 DEF RunMatching, AllFound, Found
    <2> HIDE DEF row
    <2> SUFFICES ASSUME NEW e \in Documents PROVE Found(e)'
      BY DEF AllFound
    <2>3. match'[e] = IF e = d THEN row ELSE match[e]
      BY <2>1 DEF TypeOK
    <2> QED BY <2>1, <2>2, <2>3 DEF AllFound, Found
  <1>2. ASSUME NEW d \in Documents, SearchDuplicates(d) PROVE AllFound'
    <2> SUFFICES ASSUME NEW e \in Documents PROVE Found(e)'
      BY DEF AllFound
    <2>1. /\ duplicates'[e] = IF e = d THEN FindDuplicates(d) ELSE duplicates[e]
          /\ UNCHANGED <<papers, vendorResult, match>>
      BY <1>2 DEF SearchDuplicates, TypeOK
    <2>2. FindDuplicates(d) # {} => papers[d].invoice.invoice_number \notin {None, Blank}
      BY DEF FindDuplicates
    <2> QED BY <2>1, <2>2 DEF AllFound, Found
  <1>3. ASSUME NEW d \in Documents, IdentifyVendor(d) PROVE AllFound'
    <2> DEFINE result == match_vendor(papers[d].invoice, vendors)
    <2>1. /\ vendorResult' = [vendorResult EXCEPT ![d] = result]
          /\ UNCHANGED <<papers, match, duplicates>>
      BY <1>3 DEF IdentifyVendor
    <2>2. result.vendor_id # None => result.method \in IdentifiedMethods
      BY AcceptedIsIdentified
    <2> HIDE DEF result
    <2> SUFFICES ASSUME NEW e \in Documents PROVE Found(e)'
      BY DEF AllFound
    <2>3. vendorResult'[e] = IF e = d THEN result ELSE vendorResult[e]
      BY <2>1 DEF TypeOK
    <2> QED BY <2>1, <2>2, <2>3 DEF AllFound, Found
  <1>4. CASE UNCHANGED <<papers, vendorResult, match, duplicates>>
    BY <1>4 DEF AllFound, Found
  <1> QED BY <1>1, <1>2, <1>3, <1>4 DEF Next, vars, RunValidation, RunApproval, Review, Seed

LEMMA AlwaysFound == Spec => []AllFound
  <1>1. Init => AllFound
    BY DEF Init, AllFound, Found
  <1>2. TypeOK /\ AllFound /\ [Next]_vars => AllFound'
    BY FoundKept
  <1> QED BY <1>1, <1>2, DecisionTypeCorrect, PTL DEF Spec

\* What an automatic approval rests on, as the rules see it.
LEMMA ApprovedInput ==
    ASSUME IInv, NEW d \in Documents, status[d] = "auto_approved"
    PROVE  LET inp == InputOf(d, validation[d].candidates)
           IN  /\ inp \in ValidationInput /\ ~has_blocking_failure(run_rules(inp))
               /\ inp.invoice = papers[d].invoice
               /\ match[d].po.po_id # None /\ match[d].po.po_id \in orders
               /\ inp.matched_po = OrderRow[match[d].po.po_id] /\ inp.matched_po # None
               /\ inp.matched_vendor_id = match[d].vendor.vendor_id
               /\ inp.matched_vendor_id # None
               /\ inp.has_duplicates = (validation[d].candidates # {})
  <1> DEFINE inp == InputOf(d, validation[d].candidates)
  <1>1. TypeOK /\ RowsFollowStatus /\ ApprovalHasGrounds /\ OrderIsNamed
    BY DEF IInv
  <1>2. /\ match[d] # None /\ validation[d].candidates = duplicates[d]
        /\ validation[d].passed = ~has_blocking_failure(run_rules(InputOf(d, duplicates[d])))
    BY <1>1 DEF RowsFollowStatus, RowsOf
  <1>3. validation[d].passed /\ match[d].vendor.vendor_id # None /\ match[d].po.po_id # None
    BY <1>1 DEF ApprovalHasGrounds
  <1>4. match[d] \in MatchRow /\ inp \in ValidationInput
    BY <1>1, <1>2, InputIsValid
  <1>5. match[d].po.po_id \in Orders /\ match[d].po.po_id \in orders
    BY <1>1, <1>2, <1>3 DEF OrderIsNamed, TypeOK
  <1>6. OrderRow[match[d].po.po_id] \in PurchaseOrder
    BY <1>5, DataAssumption
  <1>7. /\ inp.invoice = papers[d].invoice
        /\ inp.matched_po = OrderRow[match[d].po.po_id]
        /\ inp.matched_vendor_id = match[d].vendor.vendor_id
        /\ inp.has_duplicates = (validation[d].candidates # {})
    BY <1>3 DEF InputOf
  <1>8. inp.matched_po # None
    BY <1>6, <1>7, DataAssumption
  <1> QED BY <1>2, <1>3, <1>4, <1>5, <1>7, <1>8

LEMMA BackedInv == IInv /\ AllFound => PaymentIsBacked
  <1> SUFFICES ASSUME IInv, AllFound, NEW d \in Documents, status[d] = "auto_approved"
               PROVE  LET inv == papers[d].invoice
                          po == OrderRow[match[d].po.po_id]
                      IN  /\ match[d].po.po_id \in orders
                          /\ po.vendor_id = match[d].vendor.vendor_id
                          /\ inv.total # None
                          /\ po.total > 0 => /\ 98 * po.total <= 100 * inv.total
                                             /\ 100 * inv.total <= 102 * po.total
                          /\ po.total > 0 /\ inv.subtotal # None /\ inv.tax_amount # None =>
                                /\ 98 * po.total
                                      <= 100 * (inv.subtotal + inv.tax_amount + AMOUNT_TOLERANCE)
                                /\ 100 * (inv.subtotal + inv.tax_amount - AMOUNT_TOLERANCE)
                                      <= 102 * po.total
                          /\ inv.currency \notin {None, Blank} => inv.currency = po.currency
                          /\ validation[d].candidates = {}
    BY DEF PaymentIsBacked
  <1> DEFINE inp == InputOf(d, validation[d].candidates)
  <1>1. /\ inp \in ValidationInput /\ ~has_blocking_failure(run_rules(inp))
        /\ inp.invoice = papers[d].invoice /\ match[d].po.po_id \in orders
        /\ inp.matched_po = OrderRow[match[d].po.po_id] /\ inp.matched_po # None
        /\ inp.matched_vendor_id = match[d].vendor.vendor_id /\ inp.matched_vendor_id # None
        /\ inp.has_duplicates = (validation[d].candidates # {})
    BY ApprovedInput
  <1> HIDE DEF inp
  <1>2. Backed(inp)
    BY <1>1, RulesBack
  <1>3. validation[d].candidates = {}
    <2>1. validation[d].candidates = duplicates[d]
      BY DEF IInv, RowsFollowStatus, RowsOf
    <2> QED BY <1>1, <1>2, <2>1 DEF Backed, AllFound, Found
  <1> QED BY <1>1, <1>2, <1>3 DEF Backed

\* No payment is approved automatically that its order does not back.
THEOREM PaymentAlwaysBacked == Spec => []PaymentIsBacked
  BY BackedInv, Inductive, AlwaysFound, PTL

\* An automatic approval is inside its order's tolerance wherever every order
\* is of a positive amount: orders of nothing and credits are all that the rule
\* lets through.
THEOREM InsideToleranceOfRealOrders ==
    Spec => []((\A o \in orders : OrderRow[o].total > 0) => InsideOrderTolerance)
  <1>1. IInv /\ AllFound => ((\A o \in orders : OrderRow[o].total > 0) => InsideOrderTolerance)
    <2> SUFFICES ASSUME IInv, AllFound, \A o \in orders : OrderRow[o].total > 0,
                        NEW d \in Documents, status[d] = "auto_approved"
                 PROVE  LET ordered == OrderRow[match[d].po.po_id].total
                        IN  100 * Distance(papers[d].invoice.total, ordered)
                                <= PO_TOLERANCE_PCT * Distance(ordered, 0)
      BY DEF InsideOrderTolerance
    <2> DEFINE ordered == OrderRow[match[d].po.po_id].total
               total == papers[d].invoice.total
    <2>1. /\ match[d].po.po_id \in orders /\ total # None
          /\ ordered > 0 => 98 * ordered <= 100 * total /\ 100 * total <= 102 * ordered
      BY BackedInv DEF PaymentIsBacked
    <2>2. orders \subseteq Orders
      BY DEF IInv, TypeOK
    <2>3. ordered \in Int /\ ordered > 0
      BY <2>1, <2>2, DataAssumption DEF PurchaseOrder
    <2>4. total \in Int
      <3>1. InputOf(d, validation[d].candidates) \in ValidationInput
            /\ InputOf(d, validation[d].candidates).invoice = papers[d].invoice
        BY ApprovedInput
      <3> QED BY <2>1, <3>1 DEF ValidationInput, ExtractedInvoice, Amount
    <2> HIDE DEF ordered, total
    <2>5. 100 * Distance(total, ordered) <= PO_TOLERANCE_PCT * Distance(ordered, 0)
      BY <2>1, <2>3, <2>4 DEF Distance, PO_TOLERANCE_PCT
    <2> QED BY <2>5 DEF ordered, total
  <1> QED BY <1>1, Inductive, AlwaysFound, PTL

\* What a rule lets pass for want of data, another one or the policy stops.
THEOREM GapsAlwaysCaught == Spec => []GapsAreCaught
  <1>1. IInv => GapsAreCaught
    <2> SUFFICES ASSUME IInv, NEW d \in Documents, status[d] = "auto_approved"
                 PROVE  LET inv == papers[d].invoice
                            input == InputOf(d, validation[d].candidates)
                        IN  /\ \A field \in RequiredFields : inv[field] # None
                            /\ \A field \in CriticalFields :
                                  papers[d].field_confidence[field] # None
                            /\ match[d].po.po_id # None
                            /\ rule_po_vendor_mismatch(input).passed
                            /\ ~rule_po_amount_tolerance(input).passed
                                  => input.matched_po.total = 0
                            /\ ~rule_po_currency_match(input).passed
                                  => inv.currency \in {None, Blank}
      BY DEF GapsAreCaught
    <2> DEFINE inp == InputOf(d, validation[d].candidates)
    <2>1. /\ inp \in ValidationInput /\ ~has_blocking_failure(run_rules(inp))
          /\ inp.invoice = papers[d].invoice /\ match[d].po.po_id # None
          /\ inp.matched_po # None /\ inp.matched_vendor_id # None
      BY ApprovedInput
    <2>2. \A field \in CriticalFields : papers[d].field_confidence[field] = "high"
      BY DEF IInv, ApprovalHasGrounds
    <2> HIDE DEF inp
    <2>3. GapsCaught(inp)
      BY <2>1, RulesCatchGaps
    <2> QED BY <2>1, <2>2, <2>3, RulesAssumption DEF GapsCaught, inp
  <1> QED BY <1>1, Inductive, PTL

\* Two documents with one invoice number never both claim the same order
\* without a human: the order gives them one vendor, and then the search for
\* duplicates that came last found the other document.
THEOREM NoOrderPaidTwice == Spec => []NoOrderBilledTwice
  <1>1. IInv /\ AllFound => NoOrderBilledTwice
    <2> SUFFICES ASSUME IInv, AllFound, NEW d \in Documents, NEW e \in Documents, d # e,
                        status[d] = "auto_approved", status[e] = "auto_approved",
                        papers[d].invoice.invoice_number = papers[e].invoice.invoice_number,
                        papers[d].invoice.invoice_number \in Numbers,
                        NormalCode(papers[d].invoice.purchase_order_number)
                           = NormalCode(papers[e].invoice.purchase_order_number)
                 PROVE  FALSE
      BY DEF NoOrderBilledTwice
    <2>1. RowsFollowStatus /\ OneOrderPerNumber /\ LastOneSees /\ PaymentIsBacked
      BY BackedInv DEF IInv
    <2>2. \A f \in {d, e} :
             /\ match[f] # None /\ f \in searched /\ validation[f].candidates = duplicates[f]
             /\ match[f].po.po_id # None /\ match[f].vendor.vendor_id # None
             /\ OrderRow[match[f].po.po_id].vendor_id = match[f].vendor.vendor_id
      BY <2>1 DEF RowsFollowStatus, RowsOf, IInv, ApprovalHasGrounds, PaymentIsBacked
    <2>3. match[d].po.po_id = match[e].po.po_id
      BY <2>1, <2>2 DEF OneOrderPerNumber
    <2>4. SameBill(d, e)
      BY <2>2, <2>3 DEF SameBill
    <2>5. e \in duplicates[d] \/ d \in duplicates[e]
      BY <2>1, <2>2, <2>4 DEF LastOneSees
    <2> QED BY <2>1, <2>2, <2>5 DEF PaymentIsBacked
  <1> QED BY <1>1, Inductive, AlwaysFound, PTL

\* A vendor is only ever recorded when no other one has as good a claim.
THEOREM VendorAlwaysUnrivalled == Spec => VendorIsUnrivalled
  <1> DEFINE Unrivalled(d) ==
        LET v == vendorResult'[d].vendor_id
            invoice == papers[d].invoice
        IN  vendorResult'[d] # vendorResult[d] /\ v # None =>
              /\ \A u \in vendors \ {v} :
                    \/ v \in TaxIdHits(invoice, vendors) /\ u \notin TaxIdHits(invoice, vendors)
                    \/ v \in NameHits(invoice, vendors) /\ u \notin NameHits(invoice, vendors)
                    \/ Leads(invoice, v, u)
                    \/ ~IsLike(invoice, u, FUZZY_FLOOR)
              /\ \A u \in vendors : TaxIdHits(invoice, vendors) = {u} => v = u
  <1>1. TypeOK /\ [Next]_vars => \A d \in Documents : Unrivalled(d)
    <2> SUFFICES ASSUME TypeOK, [Next]_vars, NEW d \in Documents,
                        vendorResult'[d] # vendorResult[d]
                 PROVE  Unrivalled(d)
      OBVIOUS
    <2>1. IdentifyVendor(d)
      BY DEF Next, vars, IdentifyVendor, RunMatching, SearchDuplicates, RunValidation,
             RunApproval, Review, Seed, TypeOK
    <2>2. vendorResult'[d] = match_vendor(papers[d].invoice, vendors)
      BY <2>1 DEF IdentifyVendor, TypeOK
    <2>3. vendors \in SUBSET Vendors
      BY DEF TypeOK
    <2> QED BY <2>2, <2>3, AcceptedIsUnrivalled
  <1>2. TypeOK /\ [Next]_vars =>
          [\A d \in Documents : Unrivalled(d)]_vars
    BY <1>1
  <1>3. Spec => [][\A d \in Documents : Unrivalled(d)]_vars
    BY <1>2, DecisionTypeCorrect, PTL DEF Spec
  <1> QED BY <1>3 DEF VendorIsUnrivalled
-----------------------------------------------------------------------------
(* What InvoicePipeline keeps                                              *)

\* What a session of InvoicePipeline would have loaded of d.
LEMMA LoadedIs ==
    ASSUME NEW d \in Documents, NEW job
    PROVE  LET s == Pipeline!Loaded(job, d)
           IN  /\ s.inv = d /\ s.reading = ReadingOf(d) /\ s.match = MatchOf(d)
               /\ s.verdict = VerdictOf(d)
  BY DEF Pipeline!Loaded

LEMMA RowsAre ==
    ASSUME TypeOK, NEW d \in Documents
    PROVE  /\ papers[d] # None =>
                 /\ ReadingOf(d) # None
                 /\ ReadingOf(d).number = papers[d].invoice.invoice_number
                 /\ ReadingOf(d).confidence = "high" <=>
                       \A field \in CriticalFields : papers[d].field_confidence[field] = "high"
           /\ match[d] # None =>
                 /\ MatchOf(d) # None
                 /\ MatchOf(d).vendor = match[d].vendor.vendor_id
                 /\ MatchOf(d).po = match[d].po.po_id
           /\ validation[d] # None => (VerdictOf(d) = "passed" <=> validation[d].passed)
  <1>1. ASSUME papers[d] # None
        PROVE  /\ ReadingOf(d) # None
               /\ ReadingOf(d).number = papers[d].invoice.invoice_number
               /\ ReadingOf(d).confidence = "high" <=>
                     \A field \in CriticalFields : papers[d].field_confidence[field] = "high"
    <2> DEFINE sure == \A field \in CriticalFields : papers[d].field_confidence[field] = "high"
               level == IF sure THEN "high" ELSE "low"
               number == papers[d].invoice.invoice_number
               r == [number |-> number, confidence |-> level]
    <2>1. number \in Numbers \cup {Blank, None}
      BY <1>1 DEF TypeOK, Paper, ExtractedInvoice
    <2>2. level \in {"high", "low"} /\ (level = "high" <=> sure)
      OBVIOUS
    <2>3. ReadingOf(d) = r
      BY <1>1 DEF ReadingOf
    <2> HIDE DEF sure, level, number
    <2>4. r \in [number : Numbers \cup {Blank, None}, confidence : {"high", "low"}]
      BY <2>1, <2>2
    <2>5. r # None /\ r.number = number /\ r.confidence = level
      BY <2>4, DecisionAssumption
    <2> QED BY <2>2, <2>3, <2>5 DEF sure, number
  <1>2. ASSUME match[d] # None
        PROVE  /\ MatchOf(d) # None
               /\ MatchOf(d).vendor = match[d].vendor.vendor_id
               /\ MatchOf(d).po = match[d].po.po_id
    <2>1. /\ match[d].vendor.vendor_id \in Vendors \cup {None}
          /\ match[d].po.po_id \in Orders \cup {None}
      BY <1>2 DEF TypeOK, MatchRow, VendorMatchResult, PoMatchResult
    <2> QED BY <1>2, <2>1, DecisionAssumption DEF MatchOf
  <1>3. validation[d] # None => (VerdictOf(d) = "passed" <=> validation[d].passed)
    BY DEF VerdictOf, TypeOK, ValidationRow
  <1> QED BY <1>1, <1>2, <1>3

LEMMA SearchFits ==
    ASSUME IInv, NEW d \in Documents, SearchDuplicates(d)
    PROVE  LET s == Pipeline!Loaded("validate_invoice", d)
           IN  duplicates'[d] = {e \in Pipeline!Rivals(s) : Pipeline!IsLive(e) /\
                                  Pipeline!HasNumber(e, s.reading.number)}
  <1> DEFINE s == Pipeline!Loaded("validate_invoice", d)
             vendor == match[d].vendor.vendor_id
             number == papers[d].invoice.invoice_number
  <1>1. TypeOK /\ RowsFollowStatus /\ status[d] = "validating"
        /\ duplicates'[d] = FindDuplicates(d)
    BY DEF IInv, SearchDuplicates, TypeOK
  <1>2. \A e \in Documents : match[e] # None => papers[e] # None
    BY <1>1, DecisionAssumption DEF RowsFollowStatus, RowsOf
  <1>3. match[d] # None /\ papers[d] # None
    BY <1>1, <1>2 DEF RowsFollowStatus, RowsOf
  <1>4. /\ s.inv = d /\ s.reading.number = number
        /\ s.match # None /\ s.match.vendor = vendor
    BY <1>1, <1>3, LoadedIs, RowsAre
  <1> HIDE DEF s
  <1>5. Pipeline!ChecksDuplicates(s) <=> vendor # None /\ number \notin {None, Blank}
    BY <1>4 DEF Pipeline!ChecksDuplicates
  <1>6. ASSUME NEW e \in Documents
        PROVE  e \in Pipeline!Rivals(s) <=>
                  /\ e # d /\ vendor # None /\ number \notin {None, Blank}
                  /\ match[e] # None /\ match[e].vendor.vendor_id = vendor
    BY <1>4, <1>5 DEF Pipeline!Rivals
  <1>7. ASSUME NEW e \in Documents, match[e] # None
        PROVE  Pipeline!IsLive(e) /\ Pipeline!HasNumber(e, s.reading.number) <=>
                  /\ status[e] \notin {"failed", "rejected"}
                  /\ papers[e].invoice.invoice_number = number
    <2>1. ReadingOf(e) # None /\ ReadingOf(e).number = papers[e].invoice.invoice_number
      BY <1>1, <1>2, <1>7, RowsAre
    <2> QED BY <1>4, <2>1 DEF Pipeline!IsLive, Pipeline!HasNumber
  <1>8. Pipeline!Rivals(s) \subseteq Documents
    BY DEF Pipeline!Rivals
  <1>9. FindDuplicates(d) = {e \in Documents \ {d} :
           /\ vendor # None /\ number \notin {None, Blank}
           /\ match[e] # None /\ match[e].vendor.vendor_id = vendor
           /\ status[e] \notin {"failed", "rejected"}
           /\ papers[e].invoice.invoice_number = number}
    BY DEF FindDuplicates
  <1> HIDE DEF vendor, number
  <1> QED BY <1>1, <1>6, <1>7, <1>8, <1>9 DEF s

\* What passes the rules has a number, and none of its duplicates.
LEMMA PassFits ==
    ASSUME IInv, AllFound, NEW d \in Documents, RunValidation(d), validation'[d].passed
    PROVE  /\ duplicates[d] = {}
           /\ Pipeline!Loaded("validate_invoice", d).reading.number # None
  <1> DEFINE inp == InputOf(d, duplicates[d])
  <1>1. TypeOK /\ RowsFollowStatus /\ status[d] = "validating"
    BY DEF IInv, RunValidation
  <1>2. match[d] # None
    BY <1>1 DEF RowsFollowStatus, RowsOf
  <1>3. inp \in ValidationInput /\ papers[d] \in Paper
    BY <1>1, <1>2, InputIsValid
  <1>4. ~has_blocking_failure(run_rules(inp))
    BY <1>1 DEF RunValidation, TypeOK
  <1>5. inp.invoice = papers[d].invoice /\ inp.has_duplicates = (duplicates[d] # {})
    BY DEF InputOf
  <1> HIDE DEF inp
  <1>6. /\ rule_required_fields_present(inp) # Fail("error")
        /\ rule_duplicate_invoice_number(inp) # Fail("error")
    BY <1>4, NothingBlocks DEF BlockingRules
  <1>7. inp.invoice.invoice_number # None
    BY <1>6, CheckHolds DEF rule_required_fields_present, RequiredFields, ValidationInput,
                            ExtractedInvoice
  <1>8. inp.has_duplicates => inp.invoice.invoice_number = Blank
    BY <1>3, <1>6, <1>7, CheckHolds DEF rule_duplicate_invoice_number, ValidationInput
  <1>9. duplicates[d] = {}
    BY <1>5, <1>8 DEF AllFound, Found
  <1>10. papers[d] # None
    BY <1>3, DecisionAssumption
  <1> QED BY <1>1, <1>5, <1>7, <1>9, <1>10, LoadedIs, RowsAre

LEMMA ApprovalFits ==
    ASSUME IInv, AllFound, NEW d \in Documents, RunApproval(d)
    PROVE  status'[d] = Pipeline!Decision(Pipeline!Loaded("approve_invoice", d))
  <1> DEFINE s == Pipeline!Loaded("approve_invoice", d)
             vendor == match[d].vendor
             identified == vendor.vendor_id # None /\ vendor.method \in IdentifiedMethods
             decision == decide_approval(validation[d].passed, identified,
                                         match[d].po.po_id # None, papers[d].field_confidence)
  <1>1. TypeOK /\ RowsFollowStatus /\ status[d] = "validated"
    BY DEF IInv, RunApproval
  <1>2. match[d] # None /\ validation[d] # None /\ papers[d] \in Paper
    BY <1>1 DEF RowsFollowStatus, RowsOf
  <1>3. papers[d] # None
    BY <1>2, DecisionAssumption
  <1>4. identified <=> vendor.vendor_id # None
    BY <1>2 DEF AllFound, Found
  <1>5. status'[d] = decision
    BY <1>1 DEF RunApproval, TypeOK
  <1>6. /\ s.verdict = "passed" <=> validation[d].passed
        /\ s.match # None /\ s.match.vendor = vendor.vendor_id
        /\ s.match.po = match[d].po.po_id
        /\ s.reading.confidence = "high" <=>
              \A field \in CriticalFields : papers[d].field_confidence[field] = "high"
    BY <1>1, <1>2, <1>3, LoadedIs, RowsAre
  <1> HIDE DEF s
  <1>7. Pipeline!Decision(s) =
           IF /\ validation[d].passed /\ vendor.vendor_id # None /\ match[d].po.po_id # None
              /\ \A field \in CriticalFields : papers[d].field_confidence[field] = "high"
           THEN "auto_approved" ELSE "needs_review"
    BY <1>6 DEF Pipeline!Decision
  <1>8. decision =
           IF /\ validation[d].passed /\ vendor.vendor_id # None /\ match[d].po.po_id # None
              /\ \A field \in CriticalFields : papers[d].field_confidence[field] = "high"
           THEN "auto_approved" ELSE "needs_review"
    BY <1>4 DEF decide_approval
  <1> QED BY <1>5, <1>7, <1>8 DEF s

\* What InvoicePipeline takes the stages to find is what the real matcher, rules
\* and policy find, for all documents and tables.
THEOREM FindingsAlwaysFit == Spec => FindingsFitTheStages
  <1> DEFINE Fits(d) ==
        LET s == Pipeline!Loaded("validate_invoice", d)
        IN  /\ d \in searched' \ searched =>
                  duplicates'[d] = {e \in Pipeline!Rivals(s) : Pipeline!IsLive(e) /\
                                     Pipeline!HasNumber(e, s.reading.number)}
            /\ validation'[d] # validation[d] /\ validation'[d].passed =>
                  duplicates[d] = {} /\ s.reading.number # None
            /\ status[d] = "validated" /\ status'[d] # status[d] =>
                  status'[d] = Pipeline!Decision(Pipeline!Loaded("approve_invoice", d))
  <1>1. IInv /\ AllFound /\ [Next]_vars => [\A d \in Documents : Fits(d)]_vars
    <2> SUFFICES ASSUME IInv, AllFound, Next, NEW d \in Documents
                 PROVE  Fits(d)
      OBVIOUS
    <2>1. CASE SearchDuplicates(d)
      <3>1. validation' = validation /\ status' = status
        BY <2>1 DEF SearchDuplicates
      <3> QED BY <2>1, <3>1, SearchFits
    <2>2. CASE RunValidation(d)
      <3>1. searched' = searched /\ status[d] = "validating"
        BY <2>2 DEF RunValidation
      <3> QED BY <2>2, <3>1, PassFits
    <2>3. CASE RunApproval(d)
      <3>1. searched' = searched /\ validation' = validation
        BY <2>3 DEF RunApproval
      <3> QED BY <2>3, <3>1, ApprovalFits
    <2>4. CASE ~SearchDuplicates(d) /\ ~RunValidation(d) /\ ~RunApproval(d)
      <3>1. d \notin searched' \ searched /\ validation'[d] = validation[d]
            /\ (status[d] = "validated" => status'[d] = status[d])
        BY <2>4 DEF Next, IdentifyVendor, RunMatching, SearchDuplicates, RunValidation, RunApproval, Review,
                    Seed, IInv, TypeOK
      <3> QED BY <3>1
    <2> QED BY <2>1, <2>2, <2>3, <2>4
  <1>2. Spec => [][\A d \in Documents : Fits(d)]_vars
    BY <1>1, Inductive, AlwaysFound, PTL DEF Spec
  <1> QED BY <1>2, PTL DEF FindingsFitTheStages
=============================================================================
