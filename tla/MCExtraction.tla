---------------------------- MODULE MCExtraction ----------------------------
(* An instance of Extraction small enough to enumerate.                    *)
EXTENDS Extraction, TLC

CONSTANTS inv, w1, w2, n1, sure, doubtful, nan, prose, nul, unfit, null, blank

\* Two valid answers, one that holds a NaN; prose, prose with a NUL in it; and
\* JSON that does not fit the schema.
MCKind == (sure :> "valid") @@ (doubtful :> "valid") @@ (nan :> "valid")
          @@ (prose :> "no_json") @@ (nul :> "no_json") @@ (unfit :> "misfit")

MCMeaning == [a \in {sure, doubtful, nan} |->
                 [number |-> n1, confidence |-> IF a = doubtful THEN "low" ELSE "high"]]

Symmetry == Permutations({w1, w2})
=============================================================================
