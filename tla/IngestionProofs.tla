-------------------------- MODULE IngestionProofs --------------------------
(***************************************************************************)
(* Proofs about Ingestion, for any number of uploads, documents and names, *)
(* and any number of faults.                                               *)
(***************************************************************************)
EXTENDS Ingestion, FiniteSetTheorems, TLAPS

-----------------------------------------------------------------------------
(* The inductive invariant.                                                *)

\* A request has a document and a name once it is made.
GoodRequest(r) ==
    /\ req[r].pc # "new" => req[r].doc \in Documents /\ req[r].name \in Names
    /\ req[r].pc = "new" => req[r].doc = None

\* A document once put under a name is there, if perhaps being rewritten.
Kept(d, n) ==
    /\ objects[<<d, n>>] # "absent"
    /\ objects[<<d, n>>] = "partial" => backend = "local"

DocumentsKept ==
    /\ \A r \in Requests :
          req[r].pc \in {"stored", "inserted"} => Kept(req[r].doc, req[r].name)
    /\ \A d \in Documents : rows[d] # None => Kept(d, rows[d].name)

\* What a request has seen or written of its document's row.
RowSeen(r) ==
    LET row == rows[req[r].doc] IN
    /\ req[r].pc = "inserted" => row = None
    /\ req[r].pc = "conflict" => row # None
    /\ req[r].pc = "committed" => row # None /\ row.by = r /\ queue[req[r].doc] = 0
    /\ req[r].pc \in {"done", "answered"} => row # None /\ req[r].invoice = row.by

OneInserts ==
    \A r, q \in Requests :
        /\ req[r].pc = "inserted" /\ req[q].pc = "inserted"
        /\ req[r].doc = req[q].doc
        => r = q

QueueOK == \A d \in Documents : queue[d] <= 1 /\ (rows[d] = None => queue[d] = 0)

RowsOK == (\A r \in Requests : RowSeen(r)) /\ OneInserts /\ QueueOK

SessionOK == \A r \in Requests : GoodRequest(r)

IInv == TypeOK /\ SessionOK /\ DocumentsKept /\ RowsOK
-----------------------------------------------------------------------------
LEMMA InitInv == ASSUME Init PROVE IInv
  BY IngestionAssumption
  DEF Init, IInv, TypeOK, Request, ProgramCounters, SessionOK, GoodRequest, DocumentsKept,
      RowsOK, RowSeen, OneInserts, QueueOK

\* What Goto, Finish and Submit do to the requests: r moves to pc `to` with the
\* answer `invoice`, no other request changes.
Moved(r, to, invoice) ==
    /\ req' \in [Requests -> Request]
    /\ req'[r].pc = to /\ req'[r].invoice = invoice
    /\ \A q \in Requests \ {r} : req'[q] = req[q]
    /\ req[r].pc # "new" =>
          /\ req[r].doc \in Documents /\ req[r].name \in Names
          /\ req'[r].doc = req[r].doc /\ req'[r].name = req[r].name

LEMMA GotoMoves ==
    ASSUME TypeOK, SessionOK, NEW r \in Requests, NEW to \in ProgramCounters,
           req' = [req EXCEPT ![r].pc = to]
    PROVE  Moved(r, to, req[r].invoice)
  <1>1. req \in [Requests -> Request] /\ req[r] \in Request
    BY DEF TypeOK
  <1>2. req'[r] = [req[r] EXCEPT !.pc = to]
    BY <1>1
  <1>3. req'[r] \in Request /\ \A q \in Requests \ {r} : req'[q] = req[q]
    BY <1>1, <1>2 DEF Request
  <1>4. req' \in [Requests -> Request]
    BY <1>1, <1>3
  <1>5. req[r].pc # "new" => req[r].doc \in Documents /\ req[r].name \in Names
    BY DEF SessionOK, GoodRequest
  <1> QED BY <1>1, <1>2, <1>3, <1>4, <1>5 DEF Request, Moved

LEMMA FinishMoves ==
    ASSUME TypeOK, SessionOK, NEW r \in Requests, NEW invoice \in Requests, Finish(r, invoice)
    PROVE  Moved(r, "done", invoice)
  <1>1. req \in [Requests -> Request] /\ req[r] \in Request
    BY DEF TypeOK
  <1>2. req'[r] = [req[r] EXCEPT !.pc = "done", !.invoice = invoice]
    BY <1>1 DEF Finish
  <1>3. req'[r] \in Request /\ \A q \in Requests \ {r} : req'[q] = req[q]
    BY <1>1, <1>2 DEF Request, ProgramCounters, Finish
  <1>4. req' \in [Requests -> Request]
    BY <1>1, <1>3 DEF Finish
  <1>5. req[r].pc # "new" => req[r].doc \in Documents /\ req[r].name \in Names
    BY DEF SessionOK, GoodRequest
  <1> QED BY <1>1, <1>2, <1>3, <1>4, <1>5 DEF Request, Moved

LEMMA SubmitMoves ==
    ASSUME TypeOK, SessionOK, NEW r \in Requests, NEW d \in Documents, NEW n \in Names,
           Submit(r, d, n)
    PROVE  /\ Moved(r, "open", None)
           /\ req[r].pc = "new" /\ req'[r].doc = d /\ req'[r].name = n
  <1>1. req \in [Requests -> Request] /\ req[r] \in Request
    BY DEF TypeOK
  <1>2. req'[r] = [pc |-> "open", doc |-> d, name |-> n, invoice |-> None]
    BY <1>1 DEF Submit
  <1>3. req'[r] \in Request /\ \A q \in Requests \ {r} : req'[q] = req[q]
    BY <1>1, <1>2 DEF Request, ProgramCounters, Submit
  <1>4. req' \in [Requests -> Request]
    BY <1>1, <1>3 DEF Submit
  <1>5. req[r].pc = "new"
    BY DEF Submit
  <1> QED BY <1>2, <1>3, <1>4, <1>5 DEF Moved

LEMMA MovedSessions ==
    ASSUME SessionOK, NEW r \in Requests, NEW to, NEW invoice, Moved(r, to, invoice),
           req[r].pc # "new", to # "new"
    PROVE  SessionOK'
  BY DEF SessionOK, GoodRequest, Moved

\* Every step of a request, by what it changes.
StepKind(r) ==
    \/ /\ \E d \in Documents, n \in Names : Submit(r, d, n)
       /\ Moved(r, "open", None) /\ req[r].pc = "new"
       /\ req'[r].doc \in Documents /\ req'[r].name \in Names
       /\ UNCHANGED <<backend, rows, objects, queue, faults>>
    \/ /\ req[r].pc = "open" /\ rows[req[r].doc] = None
       /\ Moved(r, "missed", req[r].invoice)
       /\ UNCHANGED <<backend, rows, objects, queue, faults>>
    \/ /\ req[r].pc = "conflict" /\ rows[req[r].doc] = None
       /\ Moved(r, "failed", req[r].invoice)
       /\ UNCHANGED <<backend, rows, objects, queue, faults>>
    \/ /\ req[r].pc \in {"open", "conflict"} /\ rows[req[r].doc] # None
       /\ Moved(r, "done", rows[req[r].doc].by)
       /\ UNCHANGED <<backend, rows, objects, queue, faults>>
    \/ /\ req[r].pc \in {"missed", "writing"}
       /\ \E to \in {"writing", "stored"}, content \in {"partial", "whole"} :
             /\ Moved(r, to, req[r].invoice) /\ PutInto(r, content)
             /\ content = "partial" => backend = "local"
       /\ UNCHANGED <<backend, rows, queue, faults>>
    \/ /\ req[r].pc = "stored" /\ ~Locked(req[r].doc, r)
       /\ Moved(r, IF rows[req[r].doc] = None THEN "inserted" ELSE "conflict", req[r].invoice)
       /\ UNCHANGED <<backend, rows, objects, queue, faults>>
    \/ /\ req[r].pc = "inserted" /\ Moved(r, "committed", req[r].invoice)
       /\ rows' = [rows EXCEPT ![req[r].doc] = [by |-> r, name |-> req[r].name]]
       /\ UNCHANGED <<backend, objects, queue, faults>>
    \/ /\ req[r].pc = "committed" /\ Moved(r, "done", r)
       /\ queue' = [queue EXCEPT ![req[r].doc] = @ + 1]
       /\ UNCHANGED <<backend, rows, objects, faults>>
    \/ /\ req[r].pc = "done" /\ Moved(r, "answered", req[r].invoice)
       /\ UNCHANGED <<backend, rows, objects, queue, faults>>
    \/ /\ req[r].pc \in Open /\ Moved(r, "failed", req[r].invoice)
       /\ faults < MaxFaults /\ faults' = faults + 1
       /\ UNCHANGED <<backend, rows, objects, queue>>

LEMMA StepKinds ==
    ASSUME TypeOK, SessionOK, NEW r \in Requests,
           \/ \E d \in Documents, n \in Names : Submit(r, d, n)
           \/ RequestStep(r)
           \/ Fail(r)
    PROVE  StepKind(r)
  <1>1. ASSUME NEW d \in Documents, NEW n \in Names, Submit(r, d, n)
        PROVE  StepKind(r)
    BY <1>1, SubmitMoves DEF StepKind, Submit
  <1>2. ASSUME NEW from, NEW missing \in ProgramCounters, FindRow(r, from, missing),
               from \in {"open", "conflict"},
               missing = IF from = "open" THEN "missed" ELSE "failed"
        PROVE  StepKind(r)
    <2>1. req[r].pc = from /\ UNCHANGED <<backend, rows, objects, queue, faults>>
      BY <1>2 DEF FindRow
    <2>2. CASE rows[req[r].doc] = None
      <3>1. Moved(r, missing, req[r].invoice)
        BY <1>2, <2>2, GotoMoves DEF FindRow, Goto
      <3> QED BY <1>2, <2>1, <2>2, <3>1 DEF StepKind
    <2>3. CASE rows[req[r].doc] # None
      <3>1. req[r].doc \in Documents
        BY <1>2, <2>1 DEF SessionOK, GoodRequest
      <3>2. rows[req[r].doc].by \in Requests
        BY <2>3, <3>1 DEF TypeOK, Row
      <3>3. Moved(r, "done", rows[req[r].doc].by)
        BY <1>2, <2>3, <3>2, FinishMoves DEF FindRow
      <3> QED BY <1>2, <2>1, <2>3, <3>3 DEF StepKind
    <2> QED BY <2>2, <2>3
  <1>3. ASSUME PutObject(r) \/ OpenFile(r) \/ WriteFile(r)
        PROVE  StepKind(r)
    <2>1. CASE PutObject(r)
      <3>1. Moved(r, "stored", req[r].invoice)
        BY <2>1, GotoMoves DEF PutObject, Goto, ProgramCounters
      <3> QED BY <2>1, <3>1 DEF PutObject, Goto, StepKind
    <2>2. CASE OpenFile(r)
      <3>1. Moved(r, "writing", req[r].invoice)
        BY <2>2, GotoMoves DEF OpenFile, Goto, ProgramCounters
      <3> QED BY <2>2, <3>1 DEF OpenFile, Goto, StepKind
    <2>3. CASE WriteFile(r)
      <3>1. Moved(r, "stored", req[r].invoice)
        BY <2>3, GotoMoves DEF WriteFile, Goto, ProgramCounters
      <3> QED BY <2>3, <3>1 DEF WriteFile, Goto, StepKind
    <2> QED BY <1>3, <2>1, <2>2, <2>3
  <1>4. ASSUME Insert(r)
        PROVE  StepKind(r)
    <2>1. Moved(r, IF rows[req[r].doc] = None THEN "inserted" ELSE "conflict", req[r].invoice)
      BY <1>4, GotoMoves DEF Insert, Goto, ProgramCounters
    <2> QED BY <1>4, <2>1 DEF Insert, StepKind
  <1>5. ASSUME Commit(r)
        PROVE  StepKind(r)
    <2>1. Moved(r, "committed", req[r].invoice)
      BY <1>5, GotoMoves DEF Commit, Goto, ProgramCounters
    <2> QED BY <1>5, <2>1 DEF Commit, Goto, StepKind
  <1>6. ASSUME Enqueue(r)
        PROVE  StepKind(r)
    <2>1. Moved(r, "done", r)
      BY <1>6, FinishMoves DEF Enqueue
    <2> QED BY <1>6, <2>1 DEF Enqueue, StepKind
  <1>7. ASSUME Respond(r)
        PROVE  StepKind(r)
    <2>1. Moved(r, "answered", req[r].invoice)
      BY <1>7, GotoMoves DEF Respond, Goto, ProgramCounters
    <2> QED BY <1>7, <2>1 DEF Respond, Goto, StepKind
  <1>8. ASSUME Fail(r)
        PROVE  StepKind(r)
    <2>1. Moved(r, "failed", req[r].invoice)
      BY <1>8, GotoMoves DEF Fail, ProgramCounters
    <2> QED BY <1>8, <2>1 DEF Fail, StepKind
  <1>9. ASSUME Lookup(r)
        PROVE  StepKind(r)
    <2>1. FindRow(r, "open", "missed") /\ "missed" \in ProgramCounters
      BY <1>9 DEF Lookup, ProgramCounters
    <2> QED BY <1>2, <2>1
  <1>10. ASSUME Reread(r)
         PROVE  StepKind(r)
    <2>1. FindRow(r, "conflict", "failed") /\ "failed" \in ProgramCounters
      BY <1>10 DEF Reread, ProgramCounters
    <2> QED BY <1>2, <2>1
  <1>11. CASE RequestStep(r)
    BY <1>3, <1>4, <1>5, <1>6, <1>7, <1>9, <1>10, <1>11 DEF RequestStep
  <1> QED BY <1>1, <1>8, <1>11
-----------------------------------------------------------------------------
LEMMA TypeStep ==
    ASSUME TypeOK, SessionOK, NEW r \in Requests, StepKind(r)
    PROVE  TypeOK' /\ SessionOK'
  <1>1. req' \in [Requests -> Request]
    BY DEF StepKind, Moved
  <1>2. /\ backend' \in {"s3", "local"}
        /\ rows' \in [Documents -> Row \cup {None}]
    <2>1. CASE UNCHANGED <<backend, rows>>
      BY <2>1 DEF TypeOK
    <2>2. CASE /\ req[r].pc = "inserted" /\ backend' = backend
               /\ rows' = [rows EXCEPT ![req[r].doc] = [by |-> r, name |-> req[r].name]]
      <3>1. req[r].name \in Names
        BY <2>2 DEF SessionOK, GoodRequest
      <3> QED BY <2>2, <3>1 DEF TypeOK, Row
    <2> QED BY <2>1, <2>2 DEF StepKind
  <1>3. objects' \in [Documents \X Names -> {"absent", "partial", "whole"}]
    BY DEF StepKind, PutInto, TypeOK
  <1>4. queue' \in [Documents -> Nat]
    BY DEF StepKind, TypeOK
  <1>5. faults' \in Nat
    BY DEF StepKind, TypeOK
  <1>6. SessionOK'
    <2>1. CASE req[r].pc = "new"
      BY <2>1 DEF StepKind, Moved, SessionOK, GoodRequest, Open
    <2>2. CASE req[r].pc # "new"
      BY <2>2, MovedSessions DEF StepKind
    <2> QED BY <2>1, <2>2
  <1> QED BY <1>1, <1>2, <1>3, <1>4, <1>5, <1>6 DEF TypeOK

LEMMA KeptStep ==
    ASSUME TypeOK, SessionOK, DocumentsKept, NEW r \in Requests, StepKind(r)
    PROVE  DocumentsKept'
  <1>1. ASSUME NEW d \in Documents, NEW n \in Names, Kept(d, n)
        PROVE  Kept(d, n)'
    BY <1>1 DEF StepKind, PutInto, Kept, TypeOK
  <1>2. ASSUME NEW q \in Requests, req'[q].pc \in {"stored", "inserted"}
        PROVE  Kept(req[q].doc, req[q].name)'
    <2>1. CASE req'[q] = req[q]
      <3>1. req[q].doc \in Documents /\ req[q].name \in Names /\ Kept(req[q].doc, req[q].name)
        BY <1>2, <2>1 DEF DocumentsKept, SessionOK, GoodRequest
      <3> QED BY <1>1, <2>1, <3>1 DEF Kept
    <2>2. CASE q = r /\ req[r].pc = "stored"
      <3>1. /\ req'[r].doc = req[r].doc /\ req'[r].name = req[r].name
            /\ req[r].doc \in Documents /\ req[r].name \in Names
        BY <2>2 DEF StepKind, Moved
      <3>2. Kept(req[r].doc, req[r].name)
        BY <2>2 DEF DocumentsKept
      <3> QED BY <1>1, <2>2, <3>1, <3>2 DEF Kept
    <2>3. CASE q = r /\ req[r].pc \in {"missed", "writing"}
      <3>1. /\ req'[r].doc = req[r].doc /\ req'[r].name = req[r].name
            /\ req[r].doc \in Documents /\ req[r].name \in Names
        BY <2>3 DEF StepKind, Moved
      <3>2. PICK content \in {"partial", "whole"} :
               PutInto(r, content) /\ (content = "partial" => backend = "local")
        BY <1>2, <2>3 DEF StepKind, Moved, Open
      <3>3. objects'[<<req[r].doc, req[r].name>>] = content
        BY <3>1, <3>2 DEF PutInto, TypeOK
      <3> QED BY <2>3, <3>1, <3>2, <3>3 DEF Kept, StepKind
    <2> QED BY <1>2, <2>1, <2>2, <2>3 DEF StepKind, Moved, Open
  <1>3. ASSUME NEW d \in Documents, rows'[d] # None
        PROVE  Kept(d, rows[d].name)'
    <2>1. CASE rows'[d] = rows[d]
      <3>1. rows[d].name \in Names /\ Kept(d, rows[d].name)
        BY <1>3, <2>1 DEF DocumentsKept, TypeOK, Row
      <3> QED BY <1>1, <2>1, <3>1 DEF Kept
    <2>2. CASE req[r].pc = "inserted" /\ d = req[r].doc /\ rows'[d].name = req[r].name
      <3>1. req[r].name \in Names /\ Kept(req[r].doc, req[r].name)
        BY <2>2 DEF DocumentsKept, SessionOK, GoodRequest
      <3> QED BY <1>1, <2>2, <3>1 DEF Kept
    <2> QED BY <2>1, <2>2 DEF StepKind, TypeOK
  <1> QED BY <1>2, <1>3 DEF DocumentsKept

\* Only an insert makes a second request inserting, and it has waited.
LEMMA OneInsertsStep ==
    ASSUME TypeOK, SessionOK, OneInserts, NEW r \in Requests, StepKind(r)
    PROVE  OneInserts'
  <1>1. ASSUME NEW q \in Requests, q # r, req'[q].pc = "inserted", req'[r].pc = "inserted",
               req'[q].doc = req'[r].doc
        PROVE  FALSE
    <2>1. req[r].pc = "stored" /\ ~Locked(req[r].doc, r) /\ req'[r].doc = req[r].doc
      BY <1>1 DEF StepKind, Moved
    <2>2. req'[q] = req[q]
      BY <1>1 DEF StepKind, Moved
    <2> QED BY <1>1, <2>1, <2>2 DEF Locked
  <1>2. \A q \in Requests \ {r} : req'[q] = req[q]
    BY DEF StepKind, Moved
  <1> QED BY <1>1, <1>2 DEF OneInserts

LEMMA RowsStep ==
    ASSUME TypeOK, SessionOK, RowsOK, NEW r \in Requests, StepKind(r)
    PROVE  RowsOK'
  <1>others. \A q \in Requests \ {r} : req'[q] = req[q]
    BY DEF StepKind, Moved
  <1>docs. \A q \in Requests : req[q].pc # "new" => req[q].doc \in Documents
    BY DEF SessionOK, GoodRequest
  <1>1. OneInserts'
    BY OneInsertsStep DEF RowsOK
  <1>2. CASE UNCHANGED <<rows, queue>> /\ req'[r].pc # "committed"
             /\ ~(req[r].pc = "committed" /\ req'[r].pc = "done")
    <2>1. QueueOK'
      BY <1>2 DEF RowsOK, QueueOK
    <2>2. ASSUME NEW q \in Requests, q # r
          PROVE  RowSeen(q)'
      BY <1>2, <1>others, <2>2 DEF RowsOK, RowSeen
    <2>3. RowSeen(r)'
      <3>1. CASE req[r].pc = "new"
        BY <3>1 DEF StepKind, Moved, RowSeen, Open
      <3>2. CASE req[r].pc # "new"
        <4>1. req'[r].doc = req[r].doc /\ RowSeen(r)
          BY <3>2 DEF StepKind, Moved, RowsOK
        <4> QED BY <1>2, <3>2, <4>1 DEF StepKind, Moved, RowSeen
      <3> QED BY <3>1, <3>2
    <2> QED BY <1>1, <2>1, <2>2, <2>3 DEF RowsOK
  <1>3. CASE /\ req[r].pc = "inserted" /\ Moved(r, "committed", req[r].invoice)
             /\ rows' = [rows EXCEPT ![req[r].doc] = [by |-> r, name |-> req[r].name]]
             /\ queue' = queue
    <2> DEFINE d == req[r].doc
    <2>1. /\ d \in Documents /\ req[r].name \in Names
          /\ req'[r].doc = d /\ req'[r].pc = "committed"
          /\ rows[d] = None /\ queue[d] = 0
      BY <1>3, <1>docs DEF Moved, RowsOK, RowSeen, QueueOK
    <2>2. /\ rows'[d] # None /\ rows'[d].by = r
          /\ \A e \in Documents \ {d} : rows'[e] = rows[e]
      <3>1. rows'[d] = [by |-> r, name |-> req[r].name] /\ [by |-> r, name |-> req[r].name] \in Row
        BY <1>3, <2>1 DEF TypeOK, Row
      <3> QED BY <1>3, <2>1, <3>1, IngestionAssumption DEF TypeOK
    <2>3. QueueOK'
      BY <1>3, <2>1, <2>2 DEF RowsOK, QueueOK
    <2>4. RowSeen(r)'
      BY <1>3, <2>1, <2>2 DEF RowSeen
    <2>5. ASSUME NEW q \in Requests, q # r
          PROVE  RowSeen(q)'
      <3>1. req'[q] = req[q] /\ RowSeen(q)
        BY <1>others, <2>5 DEF RowsOK
      <3>2. CASE req[q].pc = "inserted" /\ req[q].doc = d
        BY <1>3, <2>5, <3>2 DEF RowsOK, OneInserts
      <3>3. CASE req[q].pc \in {"inserted", "conflict", "committed", "done", "answered"}
                 /\ req[q].doc # d
        BY <1>3, <1>docs, <2>2, <3>1, <3>3 DEF RowSeen
      <3>4. CASE req[q].pc \in {"conflict", "committed", "done", "answered"}
                 /\ req[q].doc = d
        BY <2>1, <2>2, <3>1, <3>4 DEF RowSeen
      <3> QED BY <3>1, <3>2, <3>3, <3>4 DEF RowSeen
    <2> QED BY <1>1, <2>3, <2>4, <2>5 DEF RowsOK
  <1>4. CASE /\ req[r].pc = "committed" /\ Moved(r, "done", r)
             /\ queue' = [queue EXCEPT ![req[r].doc] = @ + 1]
             /\ rows' = rows
    <2> DEFINE d == req[r].doc
    <2>1. /\ d \in Documents /\ req'[r].doc = d /\ req'[r].pc = "done" /\ req'[r].invoice = r
          /\ rows[d] # None /\ rows[d].by = r /\ queue[d] = 0
      BY <1>4, <1>docs DEF Moved, RowsOK, RowSeen
    <2>2. queue'[d] = 1 /\ \A e \in Documents \ {d} : queue'[e] = queue[e]
      BY <1>4, <2>1 DEF TypeOK
    <2>3. QueueOK'
      BY <1>4, <2>1, <2>2 DEF RowsOK, QueueOK
    <2>4. RowSeen(r)'
      BY <1>4, <2>1 DEF RowSeen
    <2>5. ASSUME NEW q \in Requests, q # r
          PROVE  RowSeen(q)'
      <3>1. req'[q] = req[q] /\ RowSeen(q)
        BY <1>others, <2>5 DEF RowsOK
      <3>2. CASE req[q].pc = "committed"
        BY <1>4, <1>docs, <2>1, <2>2, <2>5, <3>1, <3>2 DEF RowSeen
      <3>3. CASE req[q].pc # "committed"
        BY <1>4, <3>1, <3>3 DEF RowSeen
      <3> QED BY <3>2, <3>3
    <2> QED BY <1>1, <2>3, <2>4, <2>5 DEF RowsOK
  <1> QED BY <1>2, <1>3, <1>4 DEF StepKind, Moved
-----------------------------------------------------------------------------
LEMMA InvStep == ASSUME IInv, [Next]_vars PROVE IInv'
  <1>1. CASE Next
    <2>1. PICK r \in Requests : \/ \E d \in Documents, n \in Names : Submit(r, d, n)
                                \/ RequestStep(r)
                                \/ Fail(r)
      BY <1>1 DEF Next
    <2>2. StepKind(r)
      BY <2>1, StepKinds DEF IInv
    <2> QED BY <2>2, TypeStep, KeptStep, RowsStep DEF IInv
  <1>2. CASE UNCHANGED vars
    BY <1>2 DEF vars, IInv, TypeOK, SessionOK, GoodRequest, DocumentsKept, Kept,
                RowsOK, RowSeen, OneInserts, QueueOK
  <1> QED BY <1>1, <1>2

LEMMA Invariance == Spec => []IInv
  BY InitInv, InvStep, PTL DEF Spec

\* However uploads of the same bytes race, and however many faults there are,
\* an invoice's document is in the store, and whole if the store is S3.
THEOREM DocumentsAlwaysKept == Spec => []RowHasDocument
  <1>1. IInv => RowHasDocument
    BY DEF IInv, DocumentsKept, Kept, RowHasDocument
  <1> QED BY <1>1, Invariance, PTL
-----------------------------------------------------------------------------
(* Refinement.                                                             *)

LEMMA RegisterInit == ASSUME Init PROVE Register!Init
  BY DEF Init, Register!Init, OwnerOf, ToldOf

LEMMA RegisterStep ==
    ASSUME IInv, NEW r \in Requests, StepKind(r)
    PROVE  [Register!Next]_Register!vars
  <1> DEFINE asked  == [q \in Requests |-> req[q].doc]
             owner  == [d \in Documents |-> OwnerOf(d)]
             answer == [q \in Requests |-> ToldOf(q)]
  <1>others. \A q \in Requests \ {r} : req'[q] = req[q] /\ (ToldOf(q))' = ToldOf(q)
    BY DEF StepKind, Moved, ToldOf
  <1>docs. req[r].pc # "new" => req[r].doc \in Documents /\ req'[r].doc = req[r].doc
    BY DEF StepKind, Moved
  <1>waits. req[r].pc \in Open => Register!Waiting(r)
    BY <1>docs, IngestionAssumption DEF Register!Waiting, ToldOf, Open
  <1>1. CASE req[r].pc = "new"
    <2>1. /\ req'[r].pc = "open" /\ req'[r].doc \in Documents /\ req[r].doc = None
          /\ UNCHANGED rows
      BY <1>1 DEF StepKind, Moved, Open, IInv, SessionOK, GoodRequest
    <2>2. asked' = [asked EXCEPT ![r] = req'[r].doc]
      BY <1>others
    <2>3. answer' = answer
      <3>1. (ToldOf(r))' = ToldOf(r)
        BY <1>1, <2>1 DEF ToldOf
      <3> QED BY <1>others, <3>1
    <2>4. owner' = owner
      BY <2>1 DEF OwnerOf
    <2>5. PICK d \in Documents : d = req'[r].doc
      BY <2>1
    <2>6. Register!Ask(r, d)
      BY <2>1, <2>2, <2>3, <2>4, <2>5 DEF Register!Ask
    <2> QED BY <2>6 DEF Register!Next
  <1>2. CASE req[r].pc \in Open
    <2>1. asked' = asked
      BY <1>2, <1>docs, <1>others DEF Open
    <2>2. CASE UNCHANGED rows /\ req'[r].pc \notin {"answered", "failed"}
      <3>1. (ToldOf(r))' = ToldOf(r)
        BY <1>2, <2>2 DEF ToldOf, Open
      <3>2. answer' = answer
        BY <1>others, <3>1
      <3>3. owner' = owner
        BY <2>2 DEF OwnerOf
      <3> QED BY <2>1, <3>2, <3>3 DEF Register!vars
    <2>3. CASE req[r].pc = "inserted" /\ req'[r].pc = "committed"
      <3>doc. PICK d \in Documents : d = req[r].doc
        BY <1>docs, <2>3
      <3>1. /\ rows[d] = None
            /\ rows' = [rows EXCEPT ![d] = [by |-> r, name |-> req[r].name]]
            /\ req[r].name \in Names
        BY <2>3, <3>doc
        DEF StepKind, Moved, Open, IInv, RowsOK, RowSeen, SessionOK, GoodRequest
      <3>2. /\ rows'[d] # None /\ rows'[d].by = r
            /\ \A e \in Documents \ {d} : rows'[e] = rows[e]
        BY <3>1, IngestionAssumption DEF IInv, TypeOK, Row
      <3>3. owner' = [owner EXCEPT ![d] = r]
        <4>1. (OwnerOf(d))' = r
          BY <3>2 DEF OwnerOf
        <4>2. \A e \in Documents \ {d} : (OwnerOf(e))' = OwnerOf(e)
          BY <3>2 DEF OwnerOf
        <4> QED BY <4>1, <4>2
      <3>4. answer' = answer
        <4>1. (ToldOf(r))' = ToldOf(r)
          BY <2>3 DEF ToldOf
        <4> QED BY <1>others, <4>1
      <3>5. owner[asked[r]] = None
        BY <3>doc, <3>1 DEF OwnerOf
      <3>6. Register!Create(r)
        BY <1>2, <1>waits, <2>1, <3>doc, <3>3, <3>4, <3>5 DEF Register!Create
      <3> QED BY <3>6 DEF Register!Next
    <2>4. CASE req[r].pc = "done" /\ req'[r].pc = "answered"
      <3>1. /\ rows[req[r].doc] # None /\ rows[req[r].doc].by \in Requests
            /\ req[r].invoice = rows[req[r].doc].by
            /\ UNCHANGED rows /\ req'[r].invoice = req[r].invoice
        BY <1>docs, <2>4 DEF StepKind, Moved, Open, IInv, RowsOK, RowSeen, TypeOK, Row
      <3>2. owner[asked[r]] = req[r].invoice /\ owner[asked[r]] # None
        BY <1>docs, <2>4, <3>1, IngestionAssumption DEF OwnerOf
      <3>3. answer' = [answer EXCEPT ![r] = owner[asked[r]]]
        <4>1. (ToldOf(r))' = req[r].invoice
          BY <2>4, <3>1 DEF ToldOf
        <4> QED BY <1>others, <3>2, <4>1
      <3>4. owner' = owner
        BY <3>1 DEF OwnerOf
      <3>5. Register!Answer(r)
        BY <1>2, <1>waits, <2>1, <3>2, <3>3, <3>4 DEF Register!Answer
      <3> QED BY <3>5 DEF Register!Next
    <2>5. CASE UNCHANGED rows /\ req'[r].pc = "failed"
      <3>1. answer' = [answer EXCEPT ![r] = "error"]
        <4>1. (ToldOf(r))' = "error"
          BY <2>5 DEF ToldOf
        <4> QED BY <1>others, <4>1
      <3>2. owner' = owner
        BY <2>5 DEF OwnerOf
      <3>3. Register!Fail(r)
        BY <1>2, <1>waits, <2>1, <3>1, <3>2 DEF Register!Fail
      <3> QED BY <3>3 DEF Register!Next
    <2> QED BY <1>2, <2>2, <2>3, <2>4, <2>5 DEF StepKind, Moved, Open
  <1> QED BY <1>1, <1>2 DEF StepKind, Open, ProgramCounters

\* The same bytes yield the same invoice: whatever the interleaving and the
\* faults, uploads behave as accesses to a register written once per document.
THEOREM UploadsImplementRegister == Spec => SameBytesSameInvoice
  <1>1. IInv /\ [Next]_vars => [Register!Next]_Register!vars
    <2> SUFFICES ASSUME IInv, [Next]_vars
                 PROVE  [Register!Next]_Register!vars
      OBVIOUS
    <2>1. CASE Next
      <3>1. PICK r \in Requests : \/ \E d \in Documents, n \in Names : Submit(r, d, n)
                                  \/ RequestStep(r)
                                  \/ Fail(r)
        BY <2>1 DEF Next
      <3>2. StepKind(r)
        BY <3>1, StepKinds DEF IInv
      <3> QED BY <3>2, RegisterStep
    <2>2. CASE UNCHANGED vars
      BY <2>2 DEF vars, Register!vars, OwnerOf, ToldOf
    <2> QED BY <2>1, <2>2
  <1> QED
    BY RegisterInit, Invariance, <1>1, PTL DEF Spec, SameBytesSameInvoice, Register!Spec
-----------------------------------------------------------------------------
(* Counting against the faults.                                            *)

FailedRequests == {r \in Requests : req[r].pc = "failed"}

AtMost(S, n) == IsFiniteSet(S) /\ Cardinality(S) <= n

\* A set that grows by at most one element.
LEMMA GrowsByOne ==
    ASSUME NEW S, NEW T, NEW x, NEW n \in Nat, AtMost(S, n), T \subseteq S \cup {x}
    PROVE  AtMost(T, n + 1)
  <1>1. /\ IsFiniteSet(S \cup {x}) /\ Cardinality(S) \in Nat
        /\ Cardinality(S \cup {x}) = Cardinality(S) \/ Cardinality(S \cup {x}) = Cardinality(S) + 1
    BY FS_AddElement, FS_CardinalityType DEF AtMost
  <1>2. IsFiniteSet(T) /\ Cardinality(T) <= Cardinality(S \cup {x}) /\ Cardinality(T) \in Nat
    BY <1>1, FS_Subset, FS_CardinalityType
  <1> QED BY <1>1, <1>2 DEF AtMost

LEMMA NoMore ==
    ASSUME NEW S, NEW T, NEW n \in Nat, AtMost(S, n), T \subseteq S
    PROVE  AtMost(T, n)
  <1>1. IsFiniteSet(T) /\ Cardinality(T) <= Cardinality(S)
        /\ Cardinality(T) \in Nat /\ Cardinality(S) \in Nat
    BY FS_Subset, FS_CardinalityType DEF AtMost
  <1> QED BY <1>1 DEF AtMost

Counted == AtMost(FailedRequests, faults) /\ AtMost(ForgottenDocuments, faults)

LEMMA CountedInit == ASSUME Init PROVE Counted
  <1>1. FailedRequests = {} /\ ForgottenDocuments = {} /\ faults = 0
    BY DEF Init, FailedRequests, ForgottenDocuments, Forgotten
  <1> QED BY <1>1, FS_EmptySet DEF Counted, AtMost

LEMMA CountedStep ==
    ASSUME IInv, Counted, NEW r \in Requests, StepKind(r)
    PROVE  Counted'
  <1>types. faults \in Nat
    BY DEF IInv, TypeOK
  <1>others. \A q \in Requests \ {r} : req'[q] = req[q]
    BY DEF StepKind, Moved
  <1>1. CASE faults' = faults + 1 /\ UNCHANGED <<rows, queue>> /\ req'[r].pc = "failed"
    <2>1. (FailedRequests)' \subseteq FailedRequests \cup {r}
      BY <1>others DEF FailedRequests
    <2>2. (ForgottenDocuments)' \subseteq ForgottenDocuments \cup {req[r].doc}
      BY <1>others, <1>1 DEF ForgottenDocuments, Forgotten
    <2> QED BY <1>types, <1>1, <2>1, <2>2, GrowsByOne DEF Counted
  <1>2. CASE UNCHANGED faults
    <2>1. (FailedRequests)' \subseteq FailedRequests
      BY <1>others, <1>2, <1>types
      DEF FailedRequests, StepKind, Moved, IInv, RowsOK, RowSeen
    <2>2. ASSUME NEW d \in Documents, (Forgotten(d))'
          PROVE  Forgotten(d)
      <3>1. CASE UNCHANGED <<rows, queue>> /\ req[r].pc # "committed"
        BY <1>others, <2>2, <3>1 DEF Forgotten
      <3>2. CASE req[r].pc = "inserted" /\ queue' = queue /\ req'[r].pc = "committed"
        <4>1. d # req[r].doc
          BY <2>2, <3>2 DEF Forgotten, StepKind, Moved
        <4>2. rows'[d] = rows[d]
          BY <3>2, <4>1 DEF StepKind, Moved, IInv, TypeOK
        <4> QED BY <1>others, <2>2, <3>2, <4>2 DEF Forgotten
      <3>3. CASE req[r].pc = "committed" /\ rows' = rows
        <4>1. req[r].doc \in Documents /\ queue' = [queue EXCEPT ![req[r].doc] = @ + 1]
          BY <1>2, <1>types, <3>3 DEF StepKind, Moved
        <4>2. d # req[r].doc
          BY <2>2, <4>1 DEF Forgotten, IInv, TypeOK
        <4> QED BY <1>others, <2>2, <3>3, <4>1, <4>2 DEF Forgotten, IInv, TypeOK
      <3> QED BY <3>1, <3>2, <3>3 DEF StepKind, Moved
    <2>3. (ForgottenDocuments)' \subseteq ForgottenDocuments
      BY <2>2 DEF ForgottenDocuments
    <2> QED BY <1>types, <1>2, <2>1, <2>3, NoMore DEF Counted
  <1> QED BY <1>1, <1>2 DEF StepKind, Moved

LEMMA AlwaysCounted == Spec => []Counted
  <1>1. ASSUME IInv, Counted, [Next]_vars
        PROVE  Counted'
    <2>1. CASE Next
      <3>1. PICK r \in Requests : \/ \E d \in Documents, n \in Names : Submit(r, d, n)
                                  \/ RequestStep(r)
                                  \/ Fail(r)
        BY <2>1 DEF Next
      <3>2. StepKind(r)
        BY <1>1, <3>1, StepKinds DEF IInv
      <3> QED BY <1>1, <3>2, CountedStep
    <2>2. CASE UNCHANGED vars
      BY <1>1, <2>2 DEF vars, Counted, FailedRequests, ForgottenDocuments, Forgotten
    <2> QED BY <1>1, <2>1, <2>2
  <1> QED BY CountedInit, Invariance, <1>1, PTL DEF Spec

\* Every lost race is resolved: uploads end in an error only by a fault.
THEOREM RacesAlwaysResolved == Spec => []RacesAreResolved
  <1>1. Counted => RacesAreResolved
    BY DEF Counted, AtMost, FailedRequests, RacesAreResolved
  <1> QED BY <1>1, AlwaysCounted, PTL

\* One message per invoice, however many uploads of its bytes race; each fault
\* loses at most one.
THEOREM OneMessageAlways == Spec => []OneMessagePerInvoice
  <1>1. IInv /\ Counted => OneMessagePerInvoice
    <2> SUFFICES ASSUME IInv, Counted
                 PROVE  OneMessagePerInvoice
      OBVIOUS
    <2>1. \A d \in Documents : queue[d] <= 1 /\ (queue[d] > 0 => rows[d] # None)
      BY DEF IInv, RowsOK, QueueOK, TypeOK
    <2>2. Cardinality(ForgottenDocuments) <= faults
      BY DEF Counted, AtMost
    <2> QED BY <2>1, <2>2 DEF OneMessagePerInvoice
  <1> QED BY <1>1, Invariance, AlwaysCounted, PTL
-----------------------------------------------------------------------------
(* Uploads as InvoicePipeline sees them.                                   *)

LEMMA SessionIs ==
    /\ \A request : request.pc # "committed" => SessionOf(request) = Pipeline!Idle
    /\ \A request : request.pc = "committed" =>
          SessionOf(request) = Pipeline!Sending("extract_invoice", request.doc)
  BY DEF SessionOf, Pipeline!Idle, Pipeline!Sending

\* The sessions and the messages of InvoicePipeline change where those of the
\* uploads do.
LEMMA OneSessionMoves ==
    ASSUME NEW r \in Requests, \A q \in Requests \ {r} : req'[q] = req[q]
    PROVE  [q \in Requests |-> SessionOf(req[q])]'
               = [[q \in Requests |-> SessionOf(req[q])] EXCEPT ![r] = SessionOf(req'[r])]
  BY DEF SessionOf

LEMMA MessagesGrow ==
    ASSUME TypeOK, NEW d \in Documents, queue' = [queue EXCEPT ![d] = @ + 1]
    PROVE  Messages' = [Messages EXCEPT !["extract_invoice"][d] = @ + 1]
  BY DEF TypeOK, Messages

LEMMA SendsOneMessage ==
    ASSUME IInv, NEW d \in Documents, NEW r \in Requests, req[r].pc = "committed", req[r].doc = d
    PROVE  /\ rows[d] # None /\ queue[d] = 0
           /\ \A q \in Requests : req[q].pc = "committed" /\ req[q].doc = d => q = r
  BY DEF IInv, RowsOK, RowSeen

\* The faults the pipeline knows of: a fault after a commit is one more.
LEMMA FaultSeen ==
    ASSUME IInv, Counted, NEW r \in Requests, req[r].pc = "committed", StepKind(r),
           req'[r].pc = "failed"
    PROVE  /\ Cardinality(ForgottenDocuments) < MaxFaults
           /\ Cardinality(ForgottenDocuments') = Cardinality(ForgottenDocuments) + 1
  <1>1. /\ faults < MaxFaults /\ UNCHANGED <<rows, queue>>
        /\ \A q \in Requests \ {r} : req'[q] = req[q]
    BY DEF StepKind, Moved
  <1>2. PICK d \in Documents : d = req[r].doc
    BY DEF IInv, SessionOK, GoodRequest
  <1>3. /\ rows[d] # None /\ queue[d] = 0
        /\ \A q \in Requests : req[q].pc = "committed" /\ req[q].doc = d => q = r
    BY <1>2, SendsOneMessage
  <1>4. ForgottenDocuments' = ForgottenDocuments \cup {d} /\ d \notin ForgottenDocuments
    <2>1. ~Forgotten(d)
      BY <1>2 DEF Forgotten
    <2>2. Forgotten(d)'
      BY <1>1, <1>3 DEF Forgotten
    <2>3. ASSUME NEW e \in Documents, e # d
          PROVE  Forgotten(e)' <=> Forgotten(e)
      BY <1>1, <1>2, <2>3 DEF Forgotten
    <2> QED BY <2>1, <2>2, <2>3 DEF ForgottenDocuments
  <1>5. /\ IsFiniteSet(ForgottenDocuments) /\ Cardinality(ForgottenDocuments) <= faults
        /\ Cardinality(ForgottenDocuments) \in Nat /\ faults \in Nat
    BY FS_CardinalityType DEF Counted, AtMost, IInv, TypeOK
  <1>6. Cardinality(ForgottenDocuments') = Cardinality(ForgottenDocuments) + 1
    BY <1>4, <1>5, FS_AddElement
  <1> QED BY <1>1, <1>5, <1>6, IngestionAssumption

LEMMA UploadIsPipelines ==
    ASSUME IInv, NEW r \in Requests, StepKind(r), req[r].pc = "inserted", req'[r].pc = "committed"
    PROVE  Pipeline!Next
  <1> DEFINE sessions == [q \in Requests |-> SessionOf(req[q])]
             statuses == [d \in Documents |-> StatusOf(d)]
  <1>1. PICK d \in Documents : d = req[r].doc
    BY DEF IInv, SessionOK, GoodRequest
  <1>2. /\ \A q \in Requests \ {r} : req'[q] = req[q]
        /\ req'[r].doc = d /\ queue' = queue
        /\ rows' = [rows EXCEPT ![d] = [by |-> r, name |-> req[r].name]]
        /\ req[r].name \in Names /\ rows[d] = None
    BY <1>1 DEF StepKind, Moved, IInv, RowsOK, RowSeen, Open
  <1>3. /\ rows'[d] # None /\ \A e \in Documents \ {d} : rows'[e] = rows[e]
    BY <1>2, IngestionAssumption DEF IInv, TypeOK, Row
  <1>4. statuses[d] = "absent" /\ statuses' = [statuses EXCEPT ![d] = "received"]
    <2>1. StatusOf(d) = "absent" /\ StatusOf(d)' = "received"
      BY <1>2, <1>3 DEF StatusOf
    <2>2. \A e \in Documents \ {d} : StatusOf(e)' = StatusOf(e)
      BY <1>3 DEF StatusOf
    <2> QED BY <2>1, <2>2
  <1>5. /\ sessions[r].pc = "idle"
        /\ sessions' = [sessions EXCEPT ![r] = Pipeline!Committed(d, "received")]
    <2>1. Pipeline!Committed(d, "received") = Pipeline!Sending("extract_invoice", d)
      BY DEF Pipeline!Committed, Pipeline!FollowUp, Pipeline!Chain
    <2>2. SessionOf(req[r]) = Pipeline!Idle /\ Pipeline!Idle.pc = "idle"
      BY SessionIs DEF Pipeline!Idle
    <2>3. SessionOf(req'[r]) = Pipeline!Sending("extract_invoice", d)
      BY <1>2, SessionIs
    <2> QED BY <1>2, <2>1, <2>2, <2>3, OneSessionMoves
  <1>6. ForgottenDocuments' = ForgottenDocuments
    <2>1. ~Forgotten(d) /\ ~Forgotten(d)'
      BY <1>2 DEF Forgotten
    <2>2. \A e \in Documents \ {d} : Forgotten(e)' <=> Forgotten(e)
      BY <1>2, <1>3 DEF Forgotten
    <2> QED BY <2>1, <2>2 DEF ForgottenDocuments
  <1>7. Messages' = Messages
    BY <1>2 DEF Messages
  <1> HIDE DEF sessions, statuses
  <1>8. Pipeline!Upload(r, d)
    BY <1>4, <1>5, <1>6, <1>7 DEF Pipeline!Upload, Pipeline!counters, sessions, statuses
  <1> QED BY <1>8 DEF Pipeline!Next, Pipeline!RequestArrives

\* A request that has committed its row sends the message, or dies first.
LEMMA SendIsPipelines ==
    ASSUME IInv, Counted, NEW r \in Requests, StepKind(r), req[r].pc = "committed"
    PROVE  Pipeline!Next
  <1> DEFINE sessions == [q \in Requests |-> SessionOf(req[q])]
  <1>1. PICK d \in Documents : d = req[r].doc
    BY DEF IInv, SessionOK, GoodRequest
  <1>2. /\ \A q \in Requests \ {r} : req'[q] = req[q]
        /\ rows' = rows /\ req'[r].pc \in {"done", "failed"}
        /\ req'[r].pc = "done" => queue' = [queue EXCEPT ![d] = @ + 1]
        /\ req'[r].pc = "failed" => queue' = queue
    BY <1>1 DEF StepKind, Moved
  <1>3. /\ sessions[r] = Pipeline!Sending("extract_invoice", d)
        /\ sessions' = [sessions EXCEPT ![r] = Pipeline!Idle]
    BY <1>1, <1>2, SessionIs, OneSessionMoves
  <1>4. /\ sessions[r].pc = "sending" /\ sessions[r].job = "extract_invoice"
        /\ sessions[r].inv = d
    BY <1>3 DEF Pipeline!Sending
  <1>5. UNCHANGED Pipeline!database
    BY <1>2 DEF Pipeline!database, StatusOf
  <1> HIDE DEF sessions
  <1>6. CASE req'[r].pc = "done"
    <2>1. Messages' = [Messages EXCEPT !["extract_invoice"][d] = @ + 1]
      BY <1>2, <1>6, MessagesGrow DEF IInv
    <2>2. ForgottenDocuments' = ForgottenDocuments
      <3>1. ~Forgotten(d)
        BY <1>1 DEF Forgotten
      <3>2. queue'[d] = 1 /\ \A e \in Documents \ {d} : queue'[e] = queue[e]
        BY <1>1, <1>2, <1>6, SendsOneMessage DEF IInv, TypeOK
      <3>3. ~Forgotten(d)'
        BY <3>2 DEF Forgotten
      <3>4. \A e \in Documents \ {d} : Forgotten(e)' <=> Forgotten(e)
        BY <1>1, <1>2, <1>6, <3>2 DEF Forgotten
      <3> QED BY <3>1, <3>3, <3>4 DEF ForgottenDocuments
    <2>3. Pipeline!Send(r)
      BY <1>3, <1>4, <1>5, <2>1, <2>2 DEF Pipeline!Send, Pipeline!counters, sessions
    <2> QED BY <2>3 DEF Pipeline!Next, Pipeline!RequestStep
  <1>7. CASE req'[r].pc = "failed"
    <2>1. Messages' = Messages
      BY <1>2, <1>7 DEF Messages
    <2>2. /\ Cardinality(ForgottenDocuments) < MaxFaults
          /\ Cardinality(ForgottenDocuments') = Cardinality(ForgottenDocuments) + 1
      BY <1>7, FaultSeen
    <2>3. Pipeline!DropSend(r)
      BY <1>3, <1>4, <1>5, <2>1, <2>2 DEF Pipeline!DropSend, sessions
    <2> QED BY <2>3 DEF Pipeline!Next, Pipeline!Failure, Pipeline!Processes
  <1> QED BY <1>2, <1>6, <1>7

\* Everything else an upload does is invisible there.
LEMMA RestIsInvisible ==
    ASSUME NEW r \in Requests, StepKind(r),
           req[r].pc # "committed", req'[r].pc # "committed"
    PROVE  UNCHANGED Pipeline!vars
  <1>1. UNCHANGED <<rows, queue>> /\ \A q \in Requests \ {r} : req'[q] = req[q]
    BY DEF StepKind, Moved
  <1>2. [q \in Requests |-> SessionOf(req[q])]' = [q \in Requests |-> SessionOf(req[q])]
    BY <1>1, SessionIs DEF SessionOf
  <1>3. ForgottenDocuments' = ForgottenDocuments
    BY <1>1 DEF ForgottenDocuments, Forgotten
  <1> QED BY <1>1, <1>2, <1>3 DEF Pipeline!vars, StatusOf, Messages

\* The pipeline's one-step upload is what racing uploads come to: whatever the
\* interleaving and the faults, a document's row is committed once, by one of
\* them, and its one message follows unless a fault takes it.
THEOREM UploadsImplementThePipeline == Spec => UploadsArePipelineSteps
  <1>1. Init => Pipeline!Init
    <2>1. ASSUME Init
          PROVE  ForgottenDocuments = {} /\ \A d \in Documents : StatusOf(d) = "absent"
      BY <2>1 DEF Init, ForgottenDocuments, Forgotten, StatusOf
    <2>2. ASSUME Init
          PROVE  [r \in Requests |-> SessionOf(req[r])] = [r \in {} \cup Requests |-> Pipeline!Idle]
      BY <2>2, SessionIs DEF Init
    <2>3. Init => Messages = [t \in Pipeline!Tasks |-> [d \in Documents |-> 0]]
      BY DEF Init, Messages, Pipeline!Tasks
    <2> QED BY <2>1, <2>2, <2>3, FS_EmptySet DEF Init, Pipeline!Init, Pipeline!Processes
  <1>2. ASSUME IInv, Counted, [Next]_vars
        PROVE  [Pipeline!Next]_(Pipeline!vars)
    <2>1. CASE Next
      <3>1. PICK r \in Requests : \/ \E d \in Documents, n \in Names : Submit(r, d, n)
                                  \/ RequestStep(r)
                                  \/ Fail(r)
        BY <2>1 DEF Next
      <3>2. StepKind(r)
        BY <1>2, <3>1, StepKinds DEF IInv
      <3>3. CASE req[r].pc = "committed"
        BY <1>2, <3>2, <3>3, SendIsPipelines
      <3>4. CASE req[r].pc # "committed" /\ req'[r].pc = "committed"
        <4>1. req[r].pc = "inserted"
          BY <3>2, <3>4 DEF StepKind, Moved
        <4> QED BY <1>2, <3>2, <3>4, <4>1, UploadIsPipelines
      <3>5. CASE req[r].pc # "committed" /\ req'[r].pc # "committed"
        BY <3>2, <3>5, RestIsInvisible
      <3> QED BY <3>3, <3>4, <3>5
    <2>2. CASE UNCHANGED vars
      BY <2>2 DEF vars, Pipeline!vars, StatusOf, SessionOf, Messages, ForgottenDocuments, Forgotten
    <2> QED BY <1>2, <2>1, <2>2
  <1> QED
    BY <1>1, <1>2, Invariance, AlwaysCounted, PTL DEF Spec, UploadsArePipelineSteps, Pipeline!Spec
=============================================================================
