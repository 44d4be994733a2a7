--------------------------- MODULE UploadRegister ---------------------------
(***************************************************************************)
(* What ingestion promises: "the same file uploaded twice yields the same  *)
(* invoice".  Each document has at most one invoice, for good, and every   *)
(* upload that is answered names it.  An invoice is called by the request  *)
(* that created it.                                                        *)
(***************************************************************************)
CONSTANTS
    Documents,   \* documents' contents
    Requests,    \* uploads
    None         \* no invoice, no document

VARIABLES
    asked,      \* the document a request uploads
    owner,      \* the invoice of a document
    answer      \* the invoice a request is told of, or "error"

vars == <<asked, owner, answer>>

Init ==
    /\ asked = [r \in Requests |-> None]
    /\ owner = [d \in Documents |-> None]
    /\ answer = [r \in Requests |-> None]

Ask(r, d) ==
    /\ asked[r] = None
    /\ asked' = [asked EXCEPT ![r] = d]
    /\ UNCHANGED <<owner, answer>>

Waiting(r) == asked[r] # None /\ answer[r] = None

Create(r) ==
    /\ Waiting(r) /\ owner[asked[r]] = None
    /\ owner' = [owner EXCEPT ![asked[r]] = r]
    /\ UNCHANGED <<asked, answer>>

Answer(r) ==
    /\ Waiting(r) /\ owner[asked[r]] # None
    /\ answer' = [answer EXCEPT ![r] = owner[asked[r]]]
    /\ UNCHANGED <<asked, owner>>

\* Whether it has created an invoice or not, an upload may end in an error.
Fail(r) ==
    /\ Waiting(r)
    /\ answer' = [answer EXCEPT ![r] = "error"]
    /\ UNCHANGED <<asked, owner>>

Next ==
    \E r \in Requests : \/ \E d \in Documents : Ask(r, d)
                        \/ Create(r) \/ Answer(r) \/ Fail(r)

Spec == Init /\ [][Next]_vars
=============================================================================
