------------------------- MODULE MCInvoicePipeline -------------------------
(* Instances of InvoicePipeline small enough to enumerate.                 *)
EXTENDS InvoicePipelineInvariant, TLC

CONSTANTS i1, i2, w1, w2, c1, c2, v1, po1, n1, null, blank

\* What the model may read: everything in order, the same with a doubtful
\* field, no number, an empty number.
Clear == [number |-> n1, confidence |-> "high"]
Doubtful == [number |-> n1, confidence |-> "low"]
Unnumbered == [number |-> null, confidence |-> "high"]
BlankNumber == [number |-> blank, confidence |-> "high"]

\* What the matcher may find: vendor and order, the vendor alone, neither.
FullMatch == [vendor |-> v1, po |-> po1]
VendorOnly == [vendor |-> v1, po |-> null]
NoMatch == [vendor |-> null, po |-> null]

GoodReading == {Clear}
TwoReadings == {Clear, Doubtful}
AllReadings == {Clear, Doubtful, Unnumbered, BlankNumber}

GoodMatch == {FullMatch}
TwoMatches == {FullMatch, VendorOnly}
AllMatches == {FullMatch, VendorOnly, NoMatch}

Symmetry == Permutations({w1, w2}) \cup Permutations({c1, c2})
=============================================================================
