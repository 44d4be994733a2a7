---------------------------- MODULE InvoiceData ----------------------------
(***************************************************************************)
(* The data the deterministic stages work on: what was extracted from a    *)
(* document (domain/extraction.py) and the rows of the vendors and         *)
(* purchase_orders tables (models.py).                                     *)
(*                                                                         *)
(* Amounts are integers, in cents: a Decimal is exact, so is an integer.   *)
(* Names and invoice numbers are compared only stripped and lower-cased,   *)
(* so they are written that way; codes (tax ids, order numbers) are also   *)
(* compared as they stand, so they have a raw and a normalised form.       *)
(***************************************************************************)
EXTENDS Integers, Sequences

CONSTANTS
    Vendors,      \* vendor ids
    Orders,       \* purchase order ids
    Names,        \* supplier names
    RawCodes,     \* tax ids and order numbers, as printed or as stored
    Codes,        \* their normal forms: letters and digits, in upper case
    Code,         \* raw code -> its normal form, None if nothing is left
    Numbers,      \* invoice numbers
    Currencies,   \* ISO codes, stripped and upper-cased
    None,         \* a missing value
    Blank,        \* a string that is there and empty
    VendorRow,    \* vendor id -> its row
    OrderRow      \* purchase order id -> its row

Amount == Int \cup {None}

\* _normalize_code: no code and a code without letter or digit are the same.
NormalCode(raw) == IF raw = None THEN None ELSE Code[raw]

ExtractedInvoice ==
    [supplier_name         : Names \cup {Blank, None},
     supplier_tax_id       : RawCodes \cup {None},
     purchase_order_number : RawCodes \cup {None},
     invoice_number        : Numbers \cup {Blank, None},
     invoice_date          : {"given", None},
     currency              : Currencies \cup {Blank, None},
     subtotal              : Amount,
     tax_amount            : Amount,
     total                 : Amount,
     line_totals           : Seq(Amount)]

\* A vendor's legal name and aliases are one set: matching takes them alike.
Vendor == [names : SUBSET Names, tax_id : RawCodes \cup {None}]

PurchaseOrder ==
    [po_number : RawCodes, currency : Currencies, total : Int, vendor_id : Vendors]

ASSUME DataAssumption ==
    /\ Code \in [RawCodes -> Codes \cup {None}]
    /\ VendorRow \in [Vendors -> Vendor]
    /\ OrderRow \in [Orders -> PurchaseOrder]
    /\ None \notin Vendors \cup Orders \cup Names \cup RawCodes \cup Codes
                     \cup Numbers \cup Currencies \cup PurchaseOrder \cup {"given"}
    /\ Blank \notin Names \cup Numbers \cup Currencies \cup {None}
=============================================================================
