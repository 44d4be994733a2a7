----------------------- MODULE InvoicePipelineProofs -----------------------
(***************************************************************************)
(* Proofs about InvoicePipeline, for every value of its constants.         *)
(***************************************************************************)
EXTENDS InvoicePipelineInvariant, TLAPS

-----------------------------------------------------------------------------
(* Sequences.                                                              *)

\* What a log leads to once entries are appended.
LEMMA ConcatLeadsTo ==
    ASSUME NEW S, NEW s \in Seq(S), NEW t \in Seq(S), NEW x
    PROVE  LeadsTo(s \o t, x) <=> LeadsTo(s, x) \/ LeadsTo(t, x)
  <1>1. /\ Len(s) \in Nat /\ Len(t) \in Nat /\ DOMAIN s = 1 .. Len(s) /\ DOMAIN t = 1 .. Len(t)
        /\ s \o t \in Seq(S) /\ Len(s \o t) = Len(s) + Len(t)
        /\ DOMAIN (s \o t) = 1 .. Len(s) + Len(t)
    OBVIOUS
  <1>2. \A k \in 1 .. Len(s) : (s \o t)[k] = s[k]
    OBVIOUS
  <1>3. \A k \in Len(s) + 1 .. Len(s) + Len(t) : (s \o t)[k] = t[k - Len(s)]
    OBVIOUS
  <1>4. ASSUME NEW k \in DOMAIN (s \o t), (s \o t)[k].to = x
        PROVE  (\E l \in DOMAIN s : s[l].to = x) \/ (\E l \in DOMAIN t : t[l].to = x)
    <2>1. CASE k \in 1 .. Len(s)
      BY <1>1, <1>2, <1>4, <2>1
    <2>2. CASE k \in Len(s) + 1 .. Len(s) + Len(t)
      BY <1>1, <1>3, <1>4, <2>2
    <2> QED BY <1>1, <2>1, <2>2
  <1>5. ASSUME NEW k \in DOMAIN s, s[k].to = x
        PROVE  \E l \in DOMAIN (s \o t) : (s \o t)[l].to = x
    BY <1>1, <1>2, <1>5
  <1>6. ASSUME NEW k \in DOMAIN t, t[k].to = x
        PROVE  \E l \in DOMAIN (s \o t) : (s \o t)[l].to = x
    <2>1. Len(s) + k \in DOMAIN (s \o t) /\ Len(s) + k \in Len(s) + 1 .. Len(s) + Len(t)
      BY <1>1
    <2>2. (s \o t)[Len(s) + k] = t[Len(s) + k - Len(s)] /\ Len(s) + k - Len(s) = k
      BY <1>1, <1>3, <2>1
    <2> QED BY <1>6, <2>1, <2>2
  <1> QED BY <1>4, <1>5, <1>6 DEF LeadsTo
-----------------------------------------------------------------------------
(* The transition table.                                                   *)

\* can_transition relates statuses only.
LEMMA TransitionStatuses ==
    ASSUME NEW a, NEW b, CanTransition(a, b)
    PROVE  a \in Statuses /\ b \in Statuses
  BY DEF CanTransition, AllowedTransitions, Statuses

\* The message that follows a commit is one of the five tasks.
LEMMA FollowUpTask ==
    ASSUME NEW new
    PROVE  FollowUp(new) \in Tasks \cup {"none"}
  BY DEF FollowUp, Chain, Tasks

\* What a commit leaves of its session is a session.
LEMMA CommittedType ==
    ASSUME NEW i \in Invoices, NEW new
    PROVE  /\ Committed(i, new) \in Session
           /\ FollowUp(new) = "none" => Committed(i, new) = Idle
           /\ FollowUp(new) # "none" => Committed(i, new) = Sending(FollowUp(new), i)
  BY FollowUpTask DEF Committed, Sending, Idle, Session, ProgramCounters, Outcomes, Tasks

LEMMA LoadedType ==
    ASSUME TypeOK, NEW i \in Invoices, NEW job \in Tasks \cup Decisions
    PROVE  Loaded(job, i) \in Session
  BY DEF TypeOK, Loaded, Session, ProgramCounters, Outcomes

-----------------------------------------------------------------------------
(* Types, and what a session may be.                                       *)

LEMMA GoodCommitted ==
    ASSUME NEW i \in Invoices, NEW new
    PROVE  GoodSession(Committed(i, new))
  BY FollowUpTask, CommittedType
  DEF GoodSession, Sending, Idle, Tasks, Decisions

LEMMA SessionUpdate ==
    ASSUME TypeOK, SessionOK, NEW p \in Processes, NEW s \in Session, GoodSession(s),
           sess' = [sess EXCEPT ![p] = s]
    PROVE  sess' \in [Processes -> Session] /\ SessionOK'
  BY DEF TypeOK, SessionOK

LEMMA GoodIdle == Idle \in Session /\ GoodSession(Idle)
  BY DEF Idle, Session, GoodSession, ProgramCounters, Outcomes

\* What a commit does: to the types, to its invoice's status and log, to its
\* session, and to nothing of any other invoice.
LEMMA CommitEffect ==
    ASSUME TypeOK, SessionOK, NEW p \in Processes, sess[p].pc # "idle",
           NEW path \in Seq(Statuses), path # <<>>,
           NEW actor \in {"system"} \cup Clients, Commit(p, path, actor)
    PROVE  /\ sess[p].inv \in Invoices
           /\ CanTransition(sess[p].base, path[1])
           /\ status' \in [Invoices -> Statuses \cup {"absent"}]
           /\ status' = [status EXCEPT ![sess[p].inv] = path[Len(path)]]
           /\ audit' \in [Invoices -> Seq(AuditEntry)]
           /\ \A i \in Invoices, x \in Statuses :
                 Logged(i, x)' <=> \/ Logged(i, x)
                                   \/ i = sess[p].inv /\ \E k \in DOMAIN path : path[k] = x
           /\ sess' \in [Processes -> Session]
           /\ sess' = [sess EXCEPT ![p] = Committed(sess[p].inv, path[Len(path)])]
           /\ SessionOK'
  <1>1. PICK inv \in Invoices : inv = sess[p].inv
    BY DEF SessionOK, GoodSession
  <1> DEFINE from(k) == IF k = 1 THEN sess[p].base ELSE path[k - 1]
             trail == [k \in DOMAIN path |->
                          [from |-> from(k), to |-> path[k], actor |-> actor]]
  <1>2. Advance(inv, sess[p].base, path, actor)
    BY <1>1 DEF Commit
  <1>3. sess' = [sess EXCEPT ![p] = Committed(inv, path[Len(path)])]
    BY <1>1 DEF Commit
  <1>4. /\ DOMAIN path = 1 .. Len(path) /\ Len(path) \in DOMAIN path /\ 1 \in DOMAIN path
        /\ Len(path) \in Nat
    OBVIOUS
  <1>5. \A k \in DOMAIN path : from(k) \in Statuses /\ path[k] \in Statuses
    BY <1>2, TransitionStatuses DEF Advance
  <1>6. CanTransition(sess[p].base, path[1])
    BY <1>2, <1>4 DEF Advance
  <1>7. status' = [status EXCEPT ![inv] = path[Len(path)]]
    BY <1>2 DEF Advance
  <1>8. audit' = [audit EXCEPT ![inv] = @ \o trail]
    BY <1>2 DEF Advance
  <1>9. trail \in Seq(AuditEntry) /\ Len(trail) = Len(path)
    BY <1>4, <1>5 DEF AuditEntry
  <1>10. audit[inv] \in Seq(AuditEntry) /\ audit[inv] \o trail \in Seq(AuditEntry)
    BY <1>1, <1>9 DEF TypeOK
  <1>11. audit' \in [Invoices -> Seq(AuditEntry)]
    BY <1>8, <1>10 DEF TypeOK
  <1>12. ASSUME NEW x \in Statuses
         PROVE  Logged(inv, x)' <=> Logged(inv, x) \/ (\E k \in DOMAIN path : path[k] = x)
    <2>1. \A k \in DOMAIN trail : trail[k].to = path[k]
      OBVIOUS
    <2>2. DOMAIN trail = DOMAIN path
      OBVIOUS
    <2> HIDE DEF trail, from
    <2>3. audit'[inv] = audit[inv] \o trail
      BY <1>1, <1>8 DEF TypeOK
    <2>4. LeadsTo(trail, x) <=> \E k \in DOMAIN path : path[k] = x
      BY <2>1, <2>2 DEF LeadsTo
    <2>5. LeadsTo(audit[inv] \o trail, x) <=> LeadsTo(audit[inv], x) \/ LeadsTo(trail, x)
      BY <1>9, <1>10, ConcatLeadsTo
    <2> QED BY <2>3, <2>4, <2>5 DEF Logged
  <1>13. \A i \in Invoices, x \in Statuses : i # inv => (Logged(i, x)' <=> Logged(i, x))
    BY <1>8 DEF TypeOK, Logged
  <1>14. status' \in [Invoices -> Statuses \cup {"absent"}]
    BY <1>4, <1>5, <1>7 DEF TypeOK
  <1>15. sess' \in [Processes -> Session] /\ SessionOK'
    BY <1>1, <1>3, CommittedType, GoodCommitted, SessionUpdate
  <1>16. \A i \in Invoices, x \in Statuses :
            Logged(i, x)' <=> \/ Logged(i, x)
                              \/ i = inv /\ \E k \in DOMAIN path : path[k] = x
    BY <1>12, <1>13
  <1> QED BY <1>1, <1>3, <1>6, <1>7, <1>11, <1>14, <1>15, <1>16

\* The two shapes a stage's path has.
LEMMA CommitOne ==
    ASSUME TypeOK, SessionOK, NEW p \in Processes, sess[p].pc # "idle", NEW new \in Statuses,
           NEW actor \in {"system"} \cup Clients, Commit(p, <<new>>, actor)
    PROVE  /\ sess[p].inv \in Invoices
           /\ CanTransition(sess[p].base, new)
           /\ status' \in [Invoices -> Statuses \cup {"absent"}]
           /\ status' = [status EXCEPT ![sess[p].inv] = new]
           /\ audit' \in [Invoices -> Seq(AuditEntry)]
           /\ \A i \in Invoices, x \in Statuses :
                 Logged(i, x)' <=> Logged(i, x) \/ (i = sess[p].inv /\ x = new)
           /\ sess' \in [Processes -> Session]
           /\ sess' = [sess EXCEPT ![p] = Committed(sess[p].inv, new)]
           /\ SessionOK'
  <1> DEFINE path == <<new>>
  <1>1. /\ path \in Seq(Statuses) /\ path # <<>> /\ Len(path) = 1
        /\ DOMAIN path = {1} /\ path[1] = new
    OBVIOUS
  <1>2. Commit(p, path, actor)
    OBVIOUS
  <1> HIDE DEF path
  <1> QED BY <1>1, <1>2, CommitEffect

LEMMA CommitTwo ==
    ASSUME TypeOK, SessionOK, NEW p \in Processes, sess[p].pc # "idle",
           NEW mid \in Statuses, NEW new \in Statuses,
           NEW actor \in {"system"} \cup Clients, Commit(p, <<mid, new>>, actor)
    PROVE  /\ sess[p].inv \in Invoices
           /\ CanTransition(sess[p].base, mid)
           /\ status' \in [Invoices -> Statuses \cup {"absent"}]
           /\ status' = [status EXCEPT ![sess[p].inv] = new]
           /\ audit' \in [Invoices -> Seq(AuditEntry)]
           /\ \A i \in Invoices, x \in Statuses :
                 Logged(i, x)' <=> Logged(i, x) \/ (i = sess[p].inv /\ x \in {mid, new})
           /\ sess' \in [Processes -> Session]
           /\ sess' = [sess EXCEPT ![p] = Committed(sess[p].inv, new)]
           /\ SessionOK'
  <1> DEFINE path == <<mid, new>>
  <1>1. /\ path \in Seq(Statuses) /\ path # <<>> /\ Len(path) = 2
        /\ DOMAIN path = {1, 2} /\ path[1] = mid /\ path[2] = new
    OBVIOUS
  <1>2. Commit(p, path, actor)
    OBVIOUS
  <1> HIDE DEF path
  <1>3. \A x : (\E k \in DOMAIN path : path[k] = x) <=> x \in {mid, new}
    BY <1>1
  <1>4. path[1] = mid /\ path[Len(path)] = new
    BY <1>1
  <1>5. \A i \in Invoices, x \in Statuses :
           Logged(i, x)' <=> Logged(i, x) \/ (i = sess[p].inv /\ \E k \in DOMAIN path : path[k] = x)
    BY <1>1, <1>2, CommitEffect
  <1>6. \A i \in Invoices, x \in Statuses :
           Logged(i, x)' <=> Logged(i, x) \/ (i = sess[p].inv /\ x \in {mid, new})
    BY <1>3, <1>5
  <1>7. /\ sess[p].inv \in Invoices
        /\ CanTransition(sess[p].base, path[1])
        /\ status' \in [Invoices -> Statuses \cup {"absent"}]
        /\ status' = [status EXCEPT ![sess[p].inv] = path[Len(path)]]
        /\ audit' \in [Invoices -> Seq(AuditEntry)]
        /\ sess' \in [Processes -> Session]
        /\ sess' = [sess EXCEPT ![p] = Committed(sess[p].inv, path[Len(path)])]
        /\ SessionOK'
    BY <1>1, <1>2, CommitEffect
  <1> QED BY <1>4, <1>6, <1>7

\* Taking a message changes one counter of the queue.
LEMMA ReceiveQueue ==
    ASSUME TypeOK, NEW w, NEW task \in Tasks, NEW i \in Invoices, Receive(w, task, i)
    PROVE  /\ queue' \in [Tasks -> [Invoices -> Nat]]
           /\ queue[task][i] > 0
           /\ queue'[task][i] = queue[task][i] - 1
           /\ \A t \in Tasks, j \in Invoices :
                 t # task \/ j # i => queue'[t][j] = queue[t][j]
  <1> DEFINE row == [queue[task] EXCEPT ![i] = @ - 1]
  <1>1. queue \in [Tasks -> [Invoices -> Nat]] /\ queue[task][i] > 0
    BY DEF TypeOK, Receive
  <1>2. queue[task] \in [Invoices -> Nat] /\ queue[task][i] - 1 \in Nat
    BY <1>1
  <1>3. row \in [Invoices -> Nat]
    BY <1>2
  <1>4. queue' = [queue EXCEPT ![task] = row]
    BY DEF Receive
  <1>5. queue'[task] = row
    BY <1>1, <1>4
  <1>6. \A t \in Tasks : t # task => queue'[t] = queue[t]
    BY <1>1, <1>4
  <1> HIDE DEF row
  <1>7. queue' \in [Tasks -> [Invoices -> Nat]]
    BY <1>1, <1>3, <1>4
  <1> QED BY <1>1, <1>2, <1>5, <1>6, <1>7 DEF row

\* So does putting one.
LEMMA PutQueue ==
    ASSUME TypeOK, NEW task \in Tasks, NEW i \in Invoices,
           queue' = [queue EXCEPT ![task][i] = @ + 1]
    PROVE  /\ queue' \in [Tasks -> [Invoices -> Nat]]
           /\ queue'[task][i] = queue[task][i] + 1
           /\ \A t \in Tasks, j \in Invoices :
                 t # task \/ j # i => queue'[t][j] = queue[t][j]
  <1> DEFINE row == [queue[task] EXCEPT ![i] = @ + 1]
  <1>1. queue \in [Tasks -> [Invoices -> Nat]]
    BY DEF TypeOK
  <1>2. queue[task] \in [Invoices -> Nat] /\ queue[task][i] + 1 \in Nat
    BY <1>1
  <1>3. row \in [Invoices -> Nat]
    BY <1>2
  <1>4. queue' = [queue EXCEPT ![task] = row]
    OBVIOUS
  <1>5. queue'[task] = row
    BY <1>1, <1>4
  <1>6. \A t \in Tasks : t # task => queue'[t] = queue[t]
    BY <1>1, <1>4
  <1> HIDE DEF row
  <1>7. queue' \in [Tasks -> [Invoices -> Nat]]
    BY <1>1, <1>3, <1>4
  <1> QED BY <1>1, <1>2, <1>5, <1>6, <1>7 DEF row

LEMMA BeginType ==
    ASSUME TypeOK, SessionOK, NEW w \in Processes, NEW task \in Tasks, NEW i \in Invoices,
           Begin(w, task, i), status[i] \in StartStatuses(task),
           task # "extract_invoice" => reading[i] # None
    PROVE  TypeOK' /\ SessionOK'
  <1>1. Loaded(task, i) \in Session
    BY LoadedType
  <1>2. GoodSession(Loaded(task, i))
    BY DEF GoodSession, Loaded, Tasks, Decisions
  <1>3. sess' \in [Processes -> Session] /\ SessionOK'
    BY <1>1, <1>2, SessionUpdate DEF Begin
  <1> QED BY <1>3, ReceiveQueue DEF Begin, TypeOK, database, counters

LEMMA FlushType ==
    ASSUME TypeOK, SessionOK, NEW w \in Processes,
           NEW task \in {"extract_invoice", "match_invoice", "export_invoice", "reject"},
           NEW working,
           Flush(w, task, working)
    PROVE  TypeOK' /\ SessionOK'
  <1> DEFINE s == [sess[w] EXCEPT !.pc = "flushed"]
  <1>1. s \in Session
    BY DEF TypeOK, Session, ProgramCounters
  <1>2. sess[w] \in Session /\ GoodSession(sess[w]) /\ sess[w].pc = "loaded" /\ sess[w].job = task
    BY DEF TypeOK, SessionOK, Flush, Doing
  <1>3. GoodSession(s)
    BY <1>2 DEF GoodSession, Session, Tasks, Decisions
  <1>4. sess' = [sess EXCEPT ![w] = s]
    BY DEF Flush
  <1> QED BY <1>1, <1>3, <1>4, SessionUpdate DEF Flush, TypeOK, database, counters

\* The flushes that are not followed by a commit at once.
FlushStep(p) == FlushExtraction(p) \/ FlushMatching(p) \/ FlushExport(p) \/ FlushRejection(p)

\* A statement about one step of the system follows once it holds of every
\* action; the proofs below go through them in this order.
LEMMA TypeStep ==
    ASSUME TypeOK, SessionOK, [Next]_vars
    PROVE  TypeOK' /\ SessionOK'
  <1> USE DEF Processes
  <1>names. /\ "extracting" \in Statuses /\ "extracted" \in Statuses /\ "failed" \in Statuses
            /\ "matching" \in Statuses /\ "validating" \in Statuses
            /\ "exporting" \in Statuses /\ "exported" \in Statuses
    BY DEF Statuses
  <1>stutter. CASE UNCHANGED vars
    BY <1>stutter DEF vars, TypeOK, SessionOK
  <1>skip. ASSUME NEW w \in Workers, NEW task \in Tasks, NEW i \in Invoices, Skip(w, task, i)
           PROVE  TypeOK' /\ SessionOK'
    BY <1>skip, ReceiveQueue DEF Skip, TypeOK, SessionOK, database, counters
  <1>beginExtraction. ASSUME NEW w \in Workers, NEW i \in Invoices, BeginExtraction(w, i)
                      PROVE  TypeOK' /\ SessionOK'
    BY <1>beginExtraction, BeginType DEF BeginExtraction, StartStatuses, Tasks
  <1>beginMatching. ASSUME NEW w \in Workers, NEW i \in Invoices, BeginMatching(w, i)
                    PROVE  TypeOK' /\ SessionOK'
    BY <1>beginMatching, BeginType DEF BeginMatching, StartStatuses, Tasks
  <1>beginValidation. ASSUME NEW w \in Workers, NEW i \in Invoices, BeginValidation(w, i)
                      PROVE  TypeOK' /\ SessionOK'
    BY <1>beginValidation, BeginType DEF BeginValidation, StartStatuses, Tasks
  <1>beginApproval. ASSUME NEW w \in Workers, NEW i \in Invoices, BeginApproval(w, i)
                    PROVE  TypeOK' /\ SessionOK'
    BY <1>beginApproval, BeginType DEF BeginApproval, StartStatuses, Tasks
  <1>beginExport. ASSUME NEW w \in Workers, NEW i \in Invoices, BeginExport(w, i)
                  PROVE  TypeOK' /\ SessionOK'
    BY <1>beginExport, BeginType DEF BeginExport, StartStatuses, Tasks
  <1>flush. ASSUME NEW w \in Processes, FlushStep(w)
            PROVE  TypeOK' /\ SessionOK'
    BY <1>flush, FlushType DEF FlushStep, FlushExtraction, FlushMatching, FlushExport,
                               FlushRejection
  <1>completeExtraction. ASSUME NEW w \in Workers, NEW r \in Readings, CompleteExtraction(w, r)
                         PROVE  TypeOK' /\ SessionOK'
    <2>1. Commit(w, <<"extracting", "extracted">>, "system") /\ sess[w].pc # "idle"
      BY <1>completeExtraction DEF CompleteExtraction, Doing
    <2>2. /\ status' \in [Invoices -> Statuses \cup {"absent"}]
          /\ audit' \in [Invoices -> Seq(AuditEntry)]
          /\ sess' \in [Processes -> Session] /\ SessionOK'
          /\ sess[w].inv \in Invoices
      BY <2>1, <1>names, CommitTwo
    <2>3. reading' \in [Invoices -> Readings \cup {None}]
      BY <2>2, <1>completeExtraction DEF CompleteExtraction, TypeOK, Latest
    <2> QED BY <2>2, <2>3, <1>completeExtraction DEF CompleteExtraction, TypeOK, counters
  <1>failExtraction. ASSUME NEW w \in Workers, FailExtraction(w)
                     PROVE  TypeOK' /\ SessionOK'
    <2>1. Commit(w, <<"extracting", "failed">>, "system") /\ sess[w].pc # "idle"
      BY <1>failExtraction DEF FailExtraction, Doing
    <2>2. /\ status' \in [Invoices -> Statuses \cup {"absent"}]
          /\ audit' \in [Invoices -> Seq(AuditEntry)]
          /\ sess' \in [Processes -> Session] /\ SessionOK'
          /\ sess[w].inv \in Invoices
      BY <2>1, <1>names, CommitTwo
    <2> QED BY <2>2, <1>failExtraction DEF FailExtraction, TypeOK, counters
  <1>raiseLlmError. ASSUME NEW w \in Workers, RaiseLlmError(w)
                    PROVE  TypeOK' /\ SessionOK'
    <2>1. sess' \in [Processes -> Session] /\ SessionOK'
      BY <1>raiseLlmError, GoodIdle, SessionUpdate DEF RaiseLlmError
    <2> QED BY <2>1, <1>raiseLlmError DEF RaiseLlmError, TypeOK, database
  <1>completeMatching. ASSUME NEW w \in Workers, NEW m \in Matches, CompleteMatching(w, m)
                       PROVE  TypeOK' /\ SessionOK'
    <2>1. Commit(w, <<"matching", "validating">>, "system") /\ sess[w].pc # "idle"
      BY <1>completeMatching DEF CompleteMatching, Doing
    <2>2. /\ status' \in [Invoices -> Statuses \cup {"absent"}]
          /\ audit' \in [Invoices -> Seq(AuditEntry)]
          /\ sess' \in [Processes -> Session] /\ SessionOK'
          /\ sess[w].inv \in Invoices
      BY <2>1, <1>names, CommitTwo
    <2>3. match' \in [Invoices -> Matches \cup {None}]
      BY <2>2, <1>completeMatching DEF CompleteMatching, TypeOK, Latest
    <2>4. VendorsNamed(m) \subseteq Vendors
      BY PipelineAssumption DEF VendorsNamed, Match
    <2>5. matchedVendors' \in [Invoices -> SUBSET Vendors]
      BY <2>4, <1>completeMatching DEF CompleteMatching, TypeOK
    <2> QED BY <2>2, <2>3, <2>5, <1>completeMatching DEF CompleteMatching, TypeOK, counters
  <1>listRivals. ASSUME NEW w \in Workers, ListRivals(w)
                 PROVE  TypeOK' /\ SessionOK'
    <2> DEFINE s == [sess[w] EXCEPT !.pc = "scanning", !.rivals = Rivals(sess[w]),
                                    !.verdict = "passed"]
    <2>0. sess[w] \in Session /\ Rivals(sess[w]) \subseteq Invoices
      BY DEF TypeOK, Rivals
    <2>1. s \in Session
      BY <2>0 DEF Session, ProgramCounters, Outcomes
    <2>2. /\ sess[w] \in Session /\ GoodSession(sess[w])
          /\ sess[w].pc = "loaded" /\ sess[w].job = "validate_invoice"
      BY <1>listRivals DEF TypeOK, SessionOK, ListRivals, Doing
    <2>3. GoodSession(s)
      BY <2>2 DEF GoodSession, Session, Tasks, Decisions
    <2>4. sess' = [sess EXCEPT ![w] = s]
      BY <1>listRivals DEF ListRivals
    <2> QED BY <2>1, <2>3, <2>4, <1>listRivals, SessionUpdate
            DEF ListRivals, TypeOK, database, counters
  <1>getRival. ASSUME NEW w \in Workers, NEW j \in Invoices, GetRival(w, j)
               PROVE  TypeOK' /\ SessionOK'
    <2> DEFINE s == [sess[w] EXCEPT !.rivals = @ \ {j},
                                    !.rival = IF IsLive(j) THEN j ELSE None]
    <2>0. /\ sess[w] \in Session /\ GoodSession(sess[w]) /\ sess[w].pc = "scanning"
          /\ sess' = [sess EXCEPT ![w] = s]
      BY <1>getRival DEF TypeOK, SessionOK, GetRival
    <2>1. s \in Session
      <3>1. PICK rival \in Invoices \cup {None} : rival = IF IsLive(j) THEN j ELSE None
        OBVIOUS
      <3>2. s = [sess[w] EXCEPT !.rivals = sess[w].rivals \ {j}, !.rival = rival]
        BY <2>0, <3>1 DEF Session
      <3> QED BY <2>0, <3>2 DEF Session
    <2>2. GoodSession(s)
      BY <2>0 DEF GoodSession, Session, Tasks, Decisions
    <2> QED BY <2>0, <2>1, <2>2, <1>getRival, SessionUpdate
            DEF GetRival, TypeOK, database, counters
  <1>readRival. ASSUME NEW w \in Workers, ReadRival(w)
                PROVE  TypeOK' /\ SessionOK'
    <2> DEFINE found == HasNumber(sess[w].rival, sess[w].reading.number)
               s == [sess[w] EXCEPT !.rival = None,
                                    !.verdict = IF found THEN "failed" ELSE @]
    <2>0. /\ sess[w] \in Session /\ GoodSession(sess[w]) /\ sess[w].pc = "scanning"
          /\ sess' = [sess EXCEPT ![w] = s]
      BY <1>readRival DEF TypeOK, SessionOK, ReadRival
    <2>1. s \in Session
      <3>1. PICK verdict \in Outcomes : verdict = IF found THEN "failed" ELSE sess[w].verdict
        BY <2>0 DEF Session, Outcomes
      <3>2. s = [sess[w] EXCEPT !.rival = None, !.verdict = verdict]
        BY <2>0, <3>1 DEF Session
      <3> QED BY <2>0, <3>2 DEF Session
    <2>2. GoodSession(s)
      BY <2>0 DEF GoodSession, Session, Tasks, Decisions
    <2> QED BY <2>0, <2>1, <2>2, <1>readRival, SessionUpdate
            DEF ReadRival, TypeOK, database, counters
  <1>completeValidation. ASSUME NEW w \in Workers, NEW passed \in {"passed", "failed"},
                                CompleteValidation(w, passed)
                         PROVE  TypeOK' /\ SessionOK'
    <2>1. Commit(w, <<"validated">>, "system") /\ sess[w].pc # "idle"
      BY <1>completeValidation DEF CompleteValidation, Doing
    <2>2. /\ status' \in [Invoices -> Statuses \cup {"absent"}]
          /\ audit' \in [Invoices -> Seq(AuditEntry)]
          /\ sess' \in [Processes -> Session] /\ SessionOK'
          /\ sess[w].inv \in Invoices
      BY <2>1, CommitOne DEF Statuses
    <2>3. validation' \in [Invoices -> Outcomes]
      BY <2>2, <1>completeValidation DEF CompleteValidation, TypeOK, Latest, Outcomes
    <2> QED BY <2>2, <2>3, <1>completeValidation DEF CompleteValidation, TypeOK, counters
  <1>completeApproval. ASSUME NEW w \in Workers, CompleteApproval(w)
                       PROVE  TypeOK' /\ SessionOK'
    <2>1. Commit(w, <<Decision(sess[w])>>, "system") /\ sess[w].pc # "idle"
      BY <1>completeApproval DEF CompleteApproval, Doing
    <2>2. /\ status' \in [Invoices -> Statuses \cup {"absent"}]
          /\ audit' \in [Invoices -> Seq(AuditEntry)]
          /\ sess' \in [Processes -> Session] /\ SessionOK'
          /\ sess[w].inv \in Invoices
      BY <2>1, CommitOne DEF Statuses, Decision
    <2> QED BY <2>2, <1>completeApproval DEF CompleteApproval, TypeOK, counters
  <1>storeArtifact. ASSUME NEW w \in Workers, StoreArtifact(w)
                    PROVE  TypeOK' /\ SessionOK'
    <2> DEFINE s == [sess[w] EXCEPT !.pc = "stored"]
    <2>1. s \in Session
      BY DEF TypeOK, Session, ProgramCounters
    <2>2. /\ sess[w] \in Session /\ GoodSession(sess[w])
          /\ sess[w].pc = "flushed" /\ sess[w].job = "export_invoice"
      BY <1>storeArtifact DEF TypeOK, SessionOK, StoreArtifact, Doing
    <2>3. GoodSession(s)
      BY <2>2 DEF GoodSession, Session, Tasks, Decisions
    <2>4. sess' = [sess EXCEPT ![w] = s]
      BY <1>storeArtifact DEF StoreArtifact
    <2>5. /\ sess[w].inv \in Invoices /\ sess[w].base \in Statuses
          /\ sess[w].reading \in Readings
      BY <2>2 DEF GoodSession, Session, Tasks, StartStatuses, Statuses
    <2>6. LatestApproval(sess[w].inv) \subseteq AuditEntry \cup {None}
      BY <2>5 DEF LatestApproval, ApprovalEntries, TypeOK
    <2>7. PICK approval \in AuditEntry \cup {None} :
             artifacts' = [artifacts EXCEPT ![sess[w].inv] = Append(@,
                 [status |-> sess[w].base, approval |-> approval,
                  reading |-> sess[w].reading, match |-> match[sess[w].inv]])]
      BY <2>6, <1>storeArtifact DEF StoreArtifact
    <2>8. [status |-> sess[w].base, approval |-> approval,
           reading |-> sess[w].reading, match |-> match[sess[w].inv]] \in Artifact
      BY <2>5 DEF Artifact, TypeOK
    <2>9. artifacts' \in [Invoices -> Seq(Artifact)]
      <3>1. artifacts[sess[w].inv] \in Seq(Artifact)
        BY <2>5 DEF TypeOK
      <3>2. Append(artifacts[sess[w].inv],
                   [status |-> sess[w].base, approval |-> approval,
                    reading |-> sess[w].reading, match |-> match[sess[w].inv]]) \in Seq(Artifact)
        BY <2>8, <3>1
      <3> QED BY <2>7, <3>2 DEF TypeOK
    <2> QED BY <2>1, <2>3, <2>4, <2>9, <1>storeArtifact, SessionUpdate
            DEF StoreArtifact, TypeOK, database, counters
  <1>completeExport. ASSUME NEW w \in Workers, CompleteExport(w)
                     PROVE  TypeOK' /\ SessionOK'
    <2>1. Commit(w, <<"exporting", "exported">>, "system") /\ sess[w].pc # "idle"
      BY <1>completeExport DEF CompleteExport, Doing
    <2>2. /\ status' \in [Invoices -> Statuses \cup {"absent"}]
          /\ audit' \in [Invoices -> Seq(AuditEntry)]
          /\ sess' \in [Processes -> Session] /\ SessionOK'
          /\ sess[w].inv \in Invoices
      BY <2>1, <1>names, CommitTwo
    <2>3. Len(artifacts[sess[w].inv]) \in Nat
      BY <2>2 DEF TypeOK
    <2>4. exports' \in [Invoices -> SUBSET Nat]
      BY <2>3, <1>completeExport DEF CompleteExport, TypeOK
    <2> QED BY <2>2, <2>4, <1>completeExport DEF CompleteExport, TypeOK, counters
  <1>send. ASSUME NEW p \in Processes, Send(p)
           PROVE  TypeOK' /\ SessionOK'
    <2>1. sess[p].inv \in Invoices /\ sess[p].job \in Tasks
      BY <1>send DEF Send, SessionOK, GoodSession
    <2> QED BY <2>1, <1>send, PutQueue, GoodIdle, SessionUpdate
            DEF Send, TypeOK, database, counters
  <1>recordDecision. ASSUME NEW c \in Clients, RecordDecision(c)
                     PROVE  TypeOK' /\ SessionOK'
    <2>1. Commit(c, <<Target(sess[c].job)>>, c) /\ sess[c].pc # "idle"
      BY <1>recordDecision DEF RecordDecision, Doing
    <2>2. /\ status' \in [Invoices -> Statuses \cup {"absent"}]
          /\ audit' \in [Invoices -> Seq(AuditEntry)]
          /\ sess' \in [Processes -> Session] /\ SessionOK'
          /\ sess[c].inv \in Invoices
      BY <2>1, CommitOne DEF Statuses, Target
    <2> QED BY <2>2, <1>recordDecision DEF RecordDecision, TypeOK, counters
  <1>upload. ASSUME NEW c \in Clients, NEW i \in Invoices, Upload(c, i)
             PROVE  TypeOK' /\ SessionOK'
    <2>1. sess' \in [Processes -> Session] /\ SessionOK'
      BY <1>upload, CommittedType, GoodCommitted, SessionUpdate DEF Upload
    <2> QED BY <2>1, <1>upload DEF Upload, TypeOK, Statuses, counters
  <1>openDecision. ASSUME NEW c \in Clients, NEW i \in Invoices, NEW d \in Decisions,
                          OpenDecision(c, i, d)
                   PROVE  TypeOK' /\ SessionOK'
    <2>1. status[i] = "needs_review"
      BY <1>openDecision DEF OpenDecision, Target, CanTransition, AllowedTransitions
    <2>2. GoodSession(Loaded(d, i))
      BY <2>1 DEF GoodSession, Loaded, Tasks, Decisions
    <2> QED BY <2>2, <1>openDecision, LoadedType, SessionUpdate
            DEF OpenDecision, TypeOK, database, counters
  <1>abort. ASSUME NEW p \in Processes, Abort(p) \/ DropSend(p)
            PROVE  TypeOK' /\ SessionOK'
    <2>1. sess' \in [Processes -> Session] /\ SessionOK'
      BY <1>abort, GoodIdle, SessionUpdate DEF Abort, DropSend
    <2> QED BY <2>1, <1>abort DEF Abort, DropSend, TypeOK, database
  <1>redeliver. ASSUME NEW task \in Tasks, NEW i \in Invoices, Redeliver(task, i)
                PROVE  TypeOK' /\ SessionOK'
    BY <1>redeliver, PutQueue DEF Redeliver, TypeOK, SessionOK, database
  <1> QED
    BY <1>stutter, <1>skip, <1>beginExtraction, <1>beginMatching, <1>beginValidation,
       <1>beginApproval, <1>beginExport, <1>flush, <1>completeExtraction, <1>failExtraction,
       <1>raiseLlmError, <1>completeMatching, <1>listRivals, <1>getRival, <1>readRival,
       <1>completeValidation, <1>completeApproval, <1>storeArtifact, <1>completeExport,
       <1>send, <1>recordDecision, <1>upload, <1>openDecision, <1>abort, <1>redeliver
    DEF Next, WorkerStep, RequestStep, RequestArrives, Failure, FlushStep

LEMMA TypeInit == ASSUME Init PROVE TypeOK /\ SessionOK
  BY PipelineAssumption, GoodIdle DEF Init, TypeOK, SessionOK, Outcomes, Tasks

\* The variables hold what their comments say, for any number of invoices,
\* processes, crashes, redeliveries and LLM errors.
THEOREM TypeCorrect == Spec => []TypeOK
  <1>1. Init => TypeOK /\ SessionOK
    BY TypeInit
  <1>2. TypeOK /\ SessionOK /\ [Next]_vars => TypeOK' /\ SessionOK'
    BY TypeStep
  <1> QED BY <1>1, <1>2, PTL DEF Spec

\* The sessions of the processes are always good ones.
THEOREM SessionsGood == Spec => [](TypeOK /\ SessionOK)
  <1>1. Init => TypeOK /\ SessionOK
    BY TypeInit
  <1>2. TypeOK /\ SessionOK /\ [Next]_vars => TypeOK' /\ SessionOK'
    BY TypeStep
  <1> QED BY <1>1, <1>2, PTL DEF Spec
-----------------------------------------------------------------------------
(* The kinds of step, as far as the database is concerned.                 *)

\* Nothing is committed; a session is dropped or goes on with what it loaded.
Quiet ==
    /\ UNCHANGED database
    /\ \A q \in Processes :
          \/ sess'[q] = sess[q]
          \/ sess'[q] = Idle
          \/ /\ sess[q].pc \notin {"idle", "sending"}
             /\ sess'[q].pc \notin {"idle", "loaded", "sending"}
             /\ \A field \in {"job", "inv", "base", "reading", "match"} :
                   sess'[q][field] = sess[q][field]

QueueShrinks == \A t \in Tasks, i \in Invoices : queue'[t][i] <= queue[t][i]

\* Nothing is committed; process p opens a session for job on invoice i.
Load(p, job, i) ==
    /\ UNCHANGED database
    /\ sess[p].pc = "idle"
    /\ sess' = [sess EXCEPT ![p] = Loaded(job, i)]
    /\ job \in Tasks => Receive(p, job, i) /\ status[i] \in StartStatuses(job)
    /\ job \in Decisions => UNCHANGED queue /\ status[i] = "needs_review"
    /\ job \notin {"extract_invoice"} \cup Decisions => reading[i] # None

\* The actions that commit a change of an existing invoice's status.
CommitStep ==
    \/ \E w \in Workers :
          \/ \E r \in Readings : CompleteExtraction(w, r)
          \/ FailExtraction(w)
          \/ \E m \in Matches : CompleteMatching(w, m)
          \/ \E passed \in {"passed", "failed"} : CompleteValidation(w, passed)
          \/ CompleteApproval(w)
          \/ CompleteExport(w)
    \/ \E c \in Clients : RecordDecision(c)

\* Every step is of one of four kinds.
LEMMA StepKinds ==
    ASSUME TypeOK, SessionOK, [Next]_vars
    PROVE  \/ Quiet /\ QueueShrinks
           \/ Quiet /\ \E p \in Processes : Send(p)
           \/ Quiet /\ \E task \in Tasks, i \in Invoices : Redeliver(task, i)
           \/ \E p \in Processes, job \in Tasks \cup Decisions, i \in Invoices : Load(p, job, i)
           \/ \E c \in Clients, i \in Invoices : Upload(c, i)
           \/ CommitStep
  <1> USE DEF Quiet
  <1> DEFINE Goal == \/ Quiet /\ QueueShrinks
                     \/ Quiet /\ \E p \in Processes : Send(p)
                     \/ Quiet /\ \E task \in Tasks, i \in Invoices : Redeliver(task, i)
                     \/ \E p \in Processes, job \in Tasks \cup Decisions, i \in Invoices :
                           Load(p, job, i)
                     \/ \E c \in Clients, i \in Invoices : Upload(c, i)
                     \/ CommitStep
  <1>processes. Workers \subseteq Processes /\ Clients \subseteq Processes
    BY DEF Processes
  <1>queue. ASSUME queue' = queue PROVE QueueShrinks
    BY <1>queue DEF QueueShrinks, TypeOK
  <1>dropped. ASSUME NEW p \in Processes, UNCHANGED database, sess' = [sess EXCEPT ![p] = Idle]
              PROVE  Quiet
    BY <1>dropped DEF TypeOK
  <1>same. ASSUME UNCHANGED database, sess' = sess
           PROVE  Quiet
    BY <1>same
  <1>goesOn. ASSUME NEW p \in Processes, UNCHANGED database, NEW s,
                    sess[p].pc \notin {"idle", "sending"},
                    s.pc \notin {"idle", "loaded", "sending"},
                    sess' = [sess EXCEPT ![p] = s],
                    \A field \in {"job", "inv", "base", "reading", "match"} :
                       s[field] = sess[p][field]
             PROVE  Quiet
    BY <1>goesOn DEF TypeOK
  <1>begin. ASSUME NEW w \in Workers, NEW i \in Invoices, NEW job \in Tasks, Begin(w, job, i),
                   status[i] \in StartStatuses(job),
                   job # "extract_invoice" => reading[i] # None
            PROVE  Goal
    <2>1. Load(w, job, i)
      BY <1>begin DEF Load, Begin, Receive, Tasks, Decisions
    <2> QED BY <2>1, <1>processes
  <1>flush. ASSUME NEW w \in Processes, FlushStep(w)
            PROVE  Quiet /\ QueueShrinks
    <2> DEFINE s == [sess[w] EXCEPT !.pc = "flushed"]
    <2>1. /\ UNCHANGED database /\ queue' = queue
          /\ sess' = [sess EXCEPT ![w] = s] /\ sess[w].pc \notin {"idle", "sending"}
      BY <1>flush DEF FlushStep, FlushExtraction, FlushMatching, FlushExport, FlushRejection, Flush, Doing
    <2>2. sess[w] \in Session
      BY <1>processes DEF TypeOK
    <2>3. /\ s.pc \notin {"idle", "loaded", "sending"}
          /\ \A field \in {"job", "inv", "base", "reading", "match"} : s[field] = sess[w][field]
      BY <2>2 DEF Session
    <2> HIDE DEF Quiet, s
    <2> QED BY <2>1, <2>3, <1>goesOn, <1>processes, <1>queue
  <1>listRivals. ASSUME NEW w \in Workers, ListRivals(w)
                 PROVE  Quiet /\ QueueShrinks
    <2> DEFINE s == [sess[w] EXCEPT !.pc = "scanning", !.rivals = Rivals(sess[w]),
                                    !.verdict = "passed"]
    <2>1. /\ UNCHANGED database /\ queue' = queue
          /\ sess' = [sess EXCEPT ![w] = s] /\ sess[w].pc \notin {"idle", "sending"}
      BY <1>listRivals DEF ListRivals, Doing
    <2>2. sess[w] \in Session
      BY <1>processes DEF TypeOK
    <2>3. /\ s.pc \notin {"idle", "loaded", "sending"}
          /\ \A field \in {"job", "inv", "base", "reading", "match"} : s[field] = sess[w][field]
      BY <2>2 DEF Session
    <2> HIDE DEF Quiet, s
    <2> QED BY <2>1, <2>3, <1>goesOn, <1>processes, <1>queue
  <1>getRival. ASSUME NEW w \in Workers, NEW j \in Invoices, GetRival(w, j)
               PROVE  Quiet /\ QueueShrinks
    <2> DEFINE s == [sess[w] EXCEPT !.rivals = @ \ {j},
                                    !.rival = IF IsLive(j) THEN j ELSE None]
    <2>1. /\ UNCHANGED database /\ queue' = queue
          /\ sess' = [sess EXCEPT ![w] = s] /\ sess[w].pc \notin {"idle", "sending"}
      BY <1>getRival DEF GetRival
    <2>2. sess[w] \in Session
      BY <1>processes DEF TypeOK
    <2>3. /\ s.pc \notin {"idle", "loaded", "sending"}
          /\ \A field \in {"job", "inv", "base", "reading", "match"} : s[field] = sess[w][field]
      BY <2>2, <1>getRival DEF Session, GetRival
    <2> HIDE DEF Quiet, s
    <2> QED BY <2>1, <2>3, <1>goesOn, <1>processes, <1>queue
  <1>readRival. ASSUME NEW w \in Workers, ReadRival(w)
                PROVE  Quiet /\ QueueShrinks
    <2> DEFINE found == HasNumber(sess[w].rival, sess[w].reading.number)
               s == [sess[w] EXCEPT !.rival = None,
                                    !.verdict = IF found THEN "failed" ELSE @]
    <2>1. /\ UNCHANGED database /\ queue' = queue
          /\ sess' = [sess EXCEPT ![w] = s] /\ sess[w].pc \notin {"idle", "sending"}
      BY <1>readRival DEF ReadRival
    <2>2. sess[w] \in Session
      BY <1>processes DEF TypeOK
    <2>3. /\ s.pc \notin {"idle", "loaded", "sending"}
          /\ \A field \in {"job", "inv", "base", "reading", "match"} : s[field] = sess[w][field]
      BY <2>2, <1>readRival DEF Session, ReadRival
    <2> HIDE DEF Quiet, s
    <2> QED BY <2>1, <2>3, <1>goesOn, <1>processes, <1>queue
  <1>storeArtifact. ASSUME NEW w \in Workers, StoreArtifact(w)
                    PROVE  Quiet /\ QueueShrinks
    <2> DEFINE s == [sess[w] EXCEPT !.pc = "stored"]
    <2>1. /\ UNCHANGED database /\ queue' = queue
          /\ sess' = [sess EXCEPT ![w] = s] /\ sess[w].pc \notin {"idle", "sending"}
      BY <1>storeArtifact DEF StoreArtifact, Doing
    <2>2. sess[w] \in Session
      BY <1>processes DEF TypeOK
    <2>3. /\ s.pc \notin {"idle", "loaded", "sending"}
          /\ \A field \in {"job", "inv", "base", "reading", "match"} : s[field] = sess[w][field]
      BY <2>2 DEF Session
    <2> HIDE DEF Quiet, s
    <2> QED BY <2>1, <2>3, <1>goesOn, <1>processes, <1>queue
  <1> HIDE DEF Quiet
  <1>stutter. ASSUME UNCHANGED vars PROVE Quiet /\ QueueShrinks
    BY <1>stutter, <1>same, <1>queue DEF vars, database
  <1>skip. ASSUME NEW w \in Workers, NEW task \in Tasks, NEW i \in Invoices, Skip(w, task, i)
           PROVE  Quiet /\ QueueShrinks
    <2>1. \A t \in Tasks, j \in Invoices : queue[t][j] - 1 <= queue[t][j]
      BY DEF TypeOK
    <2>2. QueueShrinks
      BY <2>1, <1>skip DEF Skip, Receive, QueueShrinks, TypeOK
    <2> QED BY <2>2, <1>skip, <1>same DEF Skip
  <1>extraction. ASSUME NEW w \in Workers, NEW i \in Invoices, BeginExtraction(w, i)
                 PROVE  Goal
    BY <1>extraction, <1>begin DEF BeginExtraction, StartStatuses, Tasks
  <1>matching. ASSUME NEW w \in Workers, NEW i \in Invoices, BeginMatching(w, i)
               PROVE  Goal
    BY <1>matching, <1>begin DEF BeginMatching, StartStatuses, Tasks
  <1>validation. ASSUME NEW w \in Workers, NEW i \in Invoices, BeginValidation(w, i)
                 PROVE  Goal
    BY <1>validation, <1>begin DEF BeginValidation, StartStatuses, Tasks
  <1>approval. ASSUME NEW w \in Workers, NEW i \in Invoices, BeginApproval(w, i)
               PROVE  Goal
    BY <1>approval, <1>begin DEF BeginApproval, StartStatuses, Tasks
  <1>export. ASSUME NEW w \in Workers, NEW i \in Invoices, BeginExport(w, i)
             PROVE  Goal
    BY <1>export, <1>begin DEF BeginExport, StartStatuses, Tasks
  <1>raise. ASSUME NEW w \in Workers, RaiseLlmError(w) PROVE Quiet /\ QueueShrinks
    BY <1>raise, <1>dropped, <1>queue, <1>processes DEF RaiseLlmError
  <1>send. ASSUME NEW p \in Processes, Send(p) PROVE Quiet
    BY <1>send, <1>dropped DEF Send
  <1>open. ASSUME NEW c \in Clients, NEW i \in Invoices, NEW d \in Decisions, OpenDecision(c, i, d)
           PROVE  Goal
    <2>1. status[i] = "needs_review"
      BY <1>open DEF OpenDecision, Target, CanTransition, AllowedTransitions
    <2>2. Load(c, d, i)
      BY <2>1, <1>open DEF Load, OpenDecision, Tasks, Decisions
    <2> QED BY <2>2, <1>processes
  <1>abort. ASSUME NEW p \in Processes, Abort(p) \/ DropSend(p) PROVE Quiet /\ QueueShrinks
    BY <1>abort, <1>dropped, <1>queue DEF Abort, DropSend
  <1>redeliver. ASSUME NEW task \in Tasks, NEW i \in Invoices, Redeliver(task, i) PROVE Quiet
    BY <1>redeliver, <1>same DEF Redeliver
  <1> QED
    BY <1>processes, <1>stutter, <1>skip, <1>extraction, <1>matching, <1>validation, <1>approval,
       <1>export, <1>flush, <1>raise, <1>listRivals, <1>getRival, <1>readRival, <1>storeArtifact,
       <1>send, <1>open, <1>abort, <1>redeliver
    DEF Next, WorkerStep, RequestStep, RequestArrives, Failure, FlushStep, CommitStep

\* Only a redelivery counts one ...
LEMMA CountedRedeliveries ==
    ASSUME TypeOK, [Next]_vars
    PROVE  \/ redeliveries' = redeliveries
           \/ /\ redeliveries' = redeliveries + 1
              /\ \E task \in Tasks, i \in Invoices : Redeliver(task, i)
  <1>1. ASSUME NEW task \in Tasks, NEW i \in Invoices, Redeliver(task, i)
        PROVE  redeliveries' = redeliveries + 1
    BY <1>1 DEF Redeliver
  <1>2. ASSUME NEW w \in Workers, WorkerStep(w)
        PROVE  redeliveries' = redeliveries
    BY <1>2 DEF WorkerStep, Skip, BeginExtraction, BeginMatching, BeginValidation, BeginApproval,
                BeginExport, Begin, GetRival, ReadRival, FlushExtraction, FlushMatching, FlushExport,
                Flush, CompleteExtraction, FailExtraction, RaiseLlmError, CompleteMatching,
                ListRivals, CompleteValidation, CompleteApproval, StoreArtifact, CompleteExport, Send, counters
  <1>3. ASSUME NEW c \in Clients, RequestStep(c) \/ RequestArrives(c)
        PROVE  redeliveries' = redeliveries
    BY <1>3 DEF RequestStep, RequestArrives, FlushRejection, Flush, RecordDecision, Send, Upload,
                OpenDecision, counters
  <1>4. ASSUME NEW p \in Processes, Abort(p) \/ DropSend(p)
        PROVE  redeliveries' = redeliveries
    BY <1>4 DEF Abort, DropSend
  <1>5. CASE UNCHANGED vars
    BY <1>5 DEF vars
  <1> QED BY <1>1, <1>2, <1>3, <1>4, <1>5 DEF Next, Failure

\* ... and none is ever taken back.
LEMMA OnceBefore ==
    ASSUME TypeOK, [Next]_vars, OnceDelivered'
    PROVE  /\ OnceDelivered
           /\ \A task \in Tasks, i \in Invoices : ~Redeliver(task, i)
  <1>1. redeliveries \in Nat /\ redeliveries' = 0
    BY DEF TypeOK, OnceDelivered
  <1>2. \A task \in Tasks, i \in Invoices : Redeliver(task, i) => redeliveries' = redeliveries + 1
    BY DEF Redeliver
  <1> QED BY <1>1, <1>2, CountedRedeliveries DEF OnceDelivered
-----------------------------------------------------------------------------
(* The rows a stage reads are there.                                       *)

DataInv == StatusHasData /\ SessionHasData

\* A commit that leaves its invoice with the rows its new status calls for.
LEMMA DataCommit ==
    ASSUME TypeOK, DataInv, NEW p \in Processes, NEW inv \in Invoices, NEW new \in Statuses,
           status' = [status EXCEPT ![inv] = new],
           sess' = [sess EXCEPT ![p] = Committed(inv, new)],
           \A i \in Invoices : reading[i] # None => reading'[i] # None,
           \A i \in Invoices : validation[i] # "none" => validation'[i] # "none",
           new \notin {"received", "failed"} => reading'[inv] # None,
           new = "validated" => validation'[inv] # "none", SessionOK
    PROVE  DataInv'
  <1>1. StatusHasData'
    BY DEF TypeOK, DataInv, StatusHasData
  <1>2. ASSUME NEW q \in Processes, sess'[q].pc # "idle",
               sess'[q].job \notin {"extract_invoice", "none"}
        PROVE  reading'[sess'[q].inv] # None
    <2>1. CASE q = p
      <3>1. sess'[q] = Committed(inv, new)
        BY <2>1 DEF TypeOK
      <3>2. FollowUp(new) # "none" /\ sess'[q].job = FollowUp(new) /\ sess'[q].inv = inv
        BY <1>2, <3>1, CommittedType DEF Idle, Sending
      <3>3. new \notin {"received", "failed"}
        BY <1>2, <3>2 DEF FollowUp, Chain
      <3> QED BY <3>2, <3>3
    <2>2. CASE q # p
      BY <1>2, <2>2 DEF TypeOK, DataInv, SessionHasData, SessionOK, GoodSession
    <2> QED BY <2>1, <2>2
  <1> QED BY <1>1, <1>2 DEF DataInv, SessionHasData

LEMMA DataStep ==
    ASSUME TypeOK, SessionOK, DataInv, [Next]_vars
    PROVE  DataInv'
  <1>processes. Workers \subseteq Processes /\ Clients \subseteq Processes
    BY DEF Processes
  <1>names. {"extracting", "extracted", "failed", "matching", "validating", "validated",
             "exporting", "exported", "received", "approved", "rejected", "auto_approved",
             "needs_review"} \subseteq Statuses
    BY DEF Statuses
  <1>quiet. ASSUME Quiet PROVE DataInv'
    BY <1>quiet DEF Quiet, database, Idle, DataInv, StatusHasData, SessionHasData
  <1>load. ASSUME NEW p \in Processes, NEW job \in Tasks \cup Decisions, NEW i \in Invoices,
                  Load(p, job, i)
           PROVE  DataInv'
    <2>1. job # "extract_invoice" => reading[i] # None
      BY <1>load DEF Load, DataInv, StatusHasData, Tasks, Decisions
    <2> QED BY <2>1, <1>load
            DEF Load, Loaded, database, TypeOK, DataInv, StatusHasData, SessionHasData
  <1>upload. ASSUME NEW c \in Clients, NEW i \in Invoices, Upload(c, i)
             PROVE  DataInv'
    BY <1>upload, <1>processes, <1>names, DataCommit DEF Upload
  <1>completeExtraction. ASSUME NEW w \in Workers, NEW r \in Readings, CompleteExtraction(w, r)
                         PROVE  DataInv'
    <2>1. Commit(w, <<"extracting", "extracted">>, "system") /\ sess[w].pc # "idle"
      BY <1>completeExtraction DEF CompleteExtraction, Doing
    <2>2. PICK inv \in Invoices : inv = sess[w].inv
      BY <2>1, <1>processes DEF SessionOK, GoodSession
    <2>3. status' = [status EXCEPT ![inv] = "extracted"]
          /\ sess' = [sess EXCEPT ![w] = Committed(inv, "extracted")]
      BY <2>1, <2>2, <1>names, <1>processes, CommitTwo
    <2>4. /\ \A i \in Invoices : reading[i] # None => reading'[i] # None
          /\ reading'[inv] # None
      BY <2>2, <1>completeExtraction, PipelineAssumption DEF CompleteExtraction, TypeOK, Latest
    <2>5. validation' = validation
      BY <1>completeExtraction DEF CompleteExtraction
    <2> QED BY <2>3, <2>4, <2>5, <1>names, <1>processes, DataCommit
  <1>failExtraction. ASSUME NEW w \in Workers, FailExtraction(w)
                     PROVE  DataInv'
    <2>1. Commit(w, <<"extracting", "failed">>, "system") /\ sess[w].pc # "idle"
      BY <1>failExtraction DEF FailExtraction, Doing
    <2>2. PICK inv \in Invoices : inv = sess[w].inv
      BY <2>1, <1>processes DEF SessionOK, GoodSession
    <2>3. status' = [status EXCEPT ![inv] = "failed"]
          /\ sess' = [sess EXCEPT ![w] = Committed(inv, "failed")]
      BY <2>1, <2>2, <1>names, <1>processes, CommitTwo
    <2>4. UNCHANGED <<reading, validation>>
      BY <1>failExtraction DEF FailExtraction
    <2> QED BY <2>3, <2>4, <1>names, <1>processes, DataCommit
  <1>completeMatching. ASSUME NEW w \in Workers, NEW m \in Matches, CompleteMatching(w, m)
                       PROVE  DataInv'
    <2>1. /\ Commit(w, <<"matching", "validating">>, "system")
          /\ sess[w].pc # "idle" /\ sess[w].job = "match_invoice"
      BY <1>completeMatching DEF CompleteMatching, Doing
    <2>2. PICK inv \in Invoices : inv = sess[w].inv
      BY <2>1, <1>processes DEF SessionOK, GoodSession
    <2>3. status' = [status EXCEPT ![inv] = "validating"]
          /\ sess' = [sess EXCEPT ![w] = Committed(inv, "validating")]
      BY <2>1, <2>2, <1>names, <1>processes, CommitTwo
    <2>4. UNCHANGED <<reading, validation>>
      BY <1>completeMatching DEF CompleteMatching
    <2>5. reading[inv] # None
      BY <2>1, <2>2, <1>processes DEF DataInv, SessionHasData
    <2> QED BY <2>3, <2>4, <2>5, <1>names, <1>processes, DataCommit
  <1>completeValidation. ASSUME NEW w \in Workers, NEW passed \in {"passed", "failed"},
                                CompleteValidation(w, passed)
                         PROVE  DataInv'
    <2>1. /\ Commit(w, <<"validated">>, "system") /\ sess[w].pc # "idle"
          /\ sess[w].job = "validate_invoice"
      BY <1>completeValidation, <1>processes DEF CompleteValidation, SessionOK, GoodSession
    <2>2. PICK inv \in Invoices : inv = sess[w].inv
      BY <2>1, <1>processes DEF SessionOK, GoodSession
    <2>3. status' = [status EXCEPT ![inv] = "validated"]
          /\ sess' = [sess EXCEPT ![w] = Committed(inv, "validated")]
      BY <2>1, <2>2, <1>names, <1>processes, CommitOne
    <2>4. reading' = reading
      BY <1>completeValidation DEF CompleteValidation
    <2>5. /\ \A i \in Invoices : validation[i] # "none" => validation'[i] # "none"
          /\ validation'[inv] # "none"
      BY <2>2, <1>completeValidation DEF CompleteValidation, TypeOK, Latest
    <2>6. reading[inv] # None
      BY <2>1, <2>2, <1>processes DEF DataInv, SessionHasData
    <2> QED BY <2>3, <2>4, <2>5, <2>6, <1>names, <1>processes, DataCommit
  <1>completeApproval. ASSUME NEW w \in Workers, CompleteApproval(w)
                       PROVE  DataInv'
    <2>1. /\ Commit(w, <<Decision(sess[w])>>, "system") /\ sess[w].pc # "idle"
          /\ sess[w].job = "approve_invoice"
      BY <1>completeApproval DEF CompleteApproval, Doing
    <2>2. PICK inv \in Invoices : inv = sess[w].inv
      BY <2>1, <1>processes DEF SessionOK, GoodSession
    <2>3. PICK new \in {"auto_approved", "needs_review"} : new = Decision(sess[w])
      BY DEF Decision
    <2>4. status' = [status EXCEPT ![inv] = new]
          /\ sess' = [sess EXCEPT ![w] = Committed(inv, new)]
      BY <2>1, <2>2, <2>3, <1>names, <1>processes, CommitOne
    <2>5. UNCHANGED <<reading, validation>>
      BY <1>completeApproval DEF CompleteApproval
    <2>6. reading[inv] # None
      BY <2>1, <2>2, <1>processes DEF DataInv, SessionHasData
    <2> QED BY <2>3, <2>4, <2>5, <2>6, <1>names, <1>processes, DataCommit
  <1>completeExport. ASSUME NEW w \in Workers, CompleteExport(w)
                     PROVE  DataInv'
    <2>1. /\ Commit(w, <<"exporting", "exported">>, "system") /\ sess[w].pc # "idle"
          /\ sess[w].job = "export_invoice"
      BY <1>completeExport DEF CompleteExport, Doing
    <2>2. PICK inv \in Invoices : inv = sess[w].inv
      BY <2>1, <1>processes DEF SessionOK, GoodSession
    <2>3. status' = [status EXCEPT ![inv] = "exported"]
          /\ sess' = [sess EXCEPT ![w] = Committed(inv, "exported")]
      BY <2>1, <2>2, <1>names, <1>processes, CommitTwo
    <2>4. UNCHANGED <<reading, validation>>
      BY <1>completeExport DEF CompleteExport
    <2>5. reading[inv] # None
      BY <2>1, <2>2, <1>processes DEF DataInv, SessionHasData
    <2> QED BY <2>3, <2>4, <2>5, <1>names, <1>processes, DataCommit
  <1>recordDecision. ASSUME NEW c \in Clients, RecordDecision(c)
                     PROVE  DataInv'
    <2>1. /\ Commit(c, <<Target(sess[c].job)>>, c) /\ sess[c].pc # "idle"
          /\ sess[c].job \in {"approve", "reject"}
      BY <1>recordDecision DEF RecordDecision, Doing, Decisions
    <2>2. PICK inv \in Invoices : inv = sess[c].inv
      BY <2>1, <1>processes DEF SessionOK, GoodSession
    <2>3. PICK new \in {"approved", "rejected"} : new = Target(sess[c].job)
      BY DEF Target
    <2>4. status' = [status EXCEPT ![inv] = new]
          /\ sess' = [sess EXCEPT ![c] = Committed(inv, new)]
      BY <2>1, <2>2, <2>3, <1>names, <1>processes, CommitOne
    <2>5. UNCHANGED <<reading, validation>>
      BY <1>recordDecision DEF RecordDecision
    <2>6. reading[inv] # None
      BY <2>1, <2>2, <1>processes DEF DataInv, SessionHasData
    <2> QED BY <2>3, <2>4, <2>5, <2>6, <1>names, <1>processes, DataCommit
  <1> QED
    BY StepKinds, <1>quiet, <1>load, <1>upload, <1>completeExtraction, <1>failExtraction,
       <1>completeMatching, <1>completeValidation, <1>completeApproval, <1>completeExport,
       <1>recordDecision
    DEF CommitStep

\* An invoice that a stage may start on has the rows that stage reads, however
\* often processes die, messages are delivered twice and LLM calls fail: the
\* missing-data branches of services/matching.py, validation.py, approval.py
\* and export.py are never taken.
THEOREM StageDataAlwaysPresent == Spec => []StageDataPresent
  <1>1. Init => TypeOK /\ SessionOK /\ DataInv
    <2>1. Init => DataInv
      BY DEF Init, DataInv, StatusHasData, SessionHasData, Idle
    <2> QED BY <2>1, TypeInit
  <1>2. TypeOK /\ SessionOK /\ DataInv /\ [Next]_vars => (TypeOK /\ SessionOK /\ DataInv)'
    BY TypeStep, DataStep
  <1>3. DataInv => StageDataPresent
    BY DEF DataInv, StatusHasData, StageDataPresent, StartStatuses, Tasks
  <1> QED BY <1>1, <1>2, <1>3, PTL DEF Spec
-----------------------------------------------------------------------------
(* One message per invoice, when the broker delivers each message once.    *)

\* The statuses a session's job may commit.
Results(job) ==
    CASE job = "extract_invoice"  -> {"extracted", "failed"}
      [] job = "match_invoice"    -> {"validating"}
      [] job = "validate_invoice" -> {"validated"}
      [] job = "approve_invoice"  -> {"auto_approved", "needs_review"}
      [] job \in Decisions        -> {"approved", "rejected"}
      [] job = "export_invoice"   -> {"exported"}

\* Process p commits invoice inv with status new.
CommitOf(p, inv, new) ==
    /\ inv \in Invoices /\ sess[p].inv = inv /\ sess[p].pc \notin {"idle", "sending"}
    /\ new \in Statuses /\ new \in Results(sess[p].job)
    /\ status' = [status EXCEPT ![inv] = new]
    /\ sess' = [sess EXCEPT ![p] = Committed(inv, new)]
    /\ queue' = queue
    /\ \A i \in Invoices, x \in {"auto_approved", "needs_review"} :
          Logged(i, x)' <=> Logged(i, x) \/ (i = inv /\ x = new)

\* Every commit is of that form.
LEMMA CommitKinds ==
    ASSUME TypeOK, SessionOK, NEW p \in Processes
    PROVE  /\ \A r \in Readings : CompleteExtraction(p, r) => CommitOf(p, sess[p].inv, "extracted")
           /\ FailExtraction(p) => CommitOf(p, sess[p].inv, "failed")
           /\ \A m \in Matches : CompleteMatching(p, m) => CommitOf(p, sess[p].inv, "validating")
           /\ \A passed \in {"passed", "failed"} :
                 CompleteValidation(p, passed) => CommitOf(p, sess[p].inv, "validated")
           /\ CompleteApproval(p) => CommitOf(p, sess[p].inv, Decision(sess[p]))
           /\ CompleteExport(p) => CommitOf(p, sess[p].inv, "exported")
           /\ p \in Clients /\ RecordDecision(p) => CommitOf(p, sess[p].inv, Target(sess[p].job))
  <1>names. {"extracting", "extracted", "failed", "matching", "validating", "validated",
             "exporting", "exported", "approved", "rejected", "auto_approved",
             "needs_review"} \subseteq Statuses
    BY DEF Statuses
  <1>one. ASSUME NEW new \in Statuses, NEW actor \in {"system"} \cup Clients,
                 Commit(p, <<new>>, actor), sess[p].pc \notin {"idle", "sending"},
                 new \in Results(sess[p].job), queue' = queue
          PROVE  CommitOf(p, sess[p].inv, new)
    BY <1>one, <1>names, CommitOne DEF CommitOf
  <1>two. ASSUME NEW mid \in {"extracting", "matching", "exporting"}, NEW new \in Statuses,
                 Commit(p, <<mid, new>>, "system"), sess[p].pc \notin {"idle", "sending"},
                 new \in Results(sess[p].job), queue' = queue
          PROVE  CommitOf(p, sess[p].inv, new)
    BY <1>two, <1>names, CommitTwo DEF CommitOf
  <1>1. ASSUME NEW r \in Readings, CompleteExtraction(p, r)
        PROVE  CommitOf(p, sess[p].inv, "extracted")
    BY <1>1, <1>two, <1>names DEF CompleteExtraction, Doing, Results, Decisions
  <1>2. ASSUME FailExtraction(p)
        PROVE  CommitOf(p, sess[p].inv, "failed")
    BY <1>2, <1>two, <1>names DEF FailExtraction, Doing, Results, Decisions
  <1>3. ASSUME NEW m \in Matches, CompleteMatching(p, m)
        PROVE  CommitOf(p, sess[p].inv, "validating")
    BY <1>3, <1>two, <1>names DEF CompleteMatching, Doing, Results, Decisions
  <1>4. ASSUME NEW passed \in {"passed", "failed"}, CompleteValidation(p, passed)
        PROVE  CommitOf(p, sess[p].inv, "validated")
    <2>1. sess[p].pc = "scanning" /\ sess[p].job = "validate_invoice"
      BY <1>4 DEF CompleteValidation, SessionOK, GoodSession
    <2> QED BY <2>1, <1>4, <1>one, <1>names DEF CompleteValidation, Results, Decisions
  <1>5. ASSUME CompleteApproval(p)
        PROVE  CommitOf(p, sess[p].inv, Decision(sess[p]))
    <2>1. Decision(sess[p]) \in {"auto_approved", "needs_review"}
      BY DEF Decision
    <2> QED BY <2>1, <1>5, <1>one, <1>names DEF CompleteApproval, Doing, Results, Decisions
  <1>6. ASSUME CompleteExport(p)
        PROVE  CommitOf(p, sess[p].inv, "exported")
    BY <1>6, <1>two, <1>names DEF CompleteExport, Doing, Results, Decisions
  <1>7. ASSUME p \in Clients, RecordDecision(p)
        PROVE  CommitOf(p, sess[p].inv, Target(sess[p].job))
    <2>1. Target(sess[p].job) \in {"approved", "rejected"}
      BY DEF Target
    <2> QED BY <2>1, <1>7, <1>one, <1>names DEF RecordDecision, Doing, Results, Decisions
  <1> QED BY <1>1, <1>2, <1>3, <1>4, <1>5, <1>6, <1>7

LEMMA CommitIsCommitOf ==
    ASSUME TypeOK, SessionOK, CommitStep
    PROVE  \E p \in Processes, inv \in Invoices, new \in Statuses : CommitOf(p, inv, new)
  <1>1. ASSUME NEW p, NEW inv, NEW new, CommitOf(p, inv, new)
        PROVE  inv \in Invoices /\ new \in Statuses
    BY <1>1 DEF CommitOf
  <1>2. \E p \in Processes : \E inv, new : CommitOf(p, inv, new)
    <2>1. ASSUME NEW w \in Workers, \E r \in Readings : CompleteExtraction(w, r)
          PROVE  \E p \in Processes : \E inv, new : CommitOf(p, inv, new)
      BY <2>1, CommitKinds DEF Processes
    <2>2. ASSUME NEW w \in Workers, FailExtraction(w)
          PROVE  \E p \in Processes : \E inv, new : CommitOf(p, inv, new)
      BY <2>2, CommitKinds DEF Processes
    <2>3. ASSUME NEW w \in Workers, \E m \in Matches : CompleteMatching(w, m)
          PROVE  \E p \in Processes : \E inv, new : CommitOf(p, inv, new)
      BY <2>3, CommitKinds DEF Processes
    <2>4. ASSUME NEW w \in Workers, \E passed \in {"passed", "failed"} : CompleteValidation(w, passed)
          PROVE  \E p \in Processes : \E inv, new : CommitOf(p, inv, new)
      BY <2>4, CommitKinds DEF Processes
    <2>5. ASSUME NEW w \in Workers, CompleteApproval(w)
          PROVE  \E p \in Processes : \E inv, new : CommitOf(p, inv, new)
      BY <2>5, CommitKinds DEF Processes
    <2>6. ASSUME NEW w \in Workers, CompleteExport(w)
          PROVE  \E p \in Processes : \E inv, new : CommitOf(p, inv, new)
      BY <2>6, CommitKinds DEF Processes
    <2>7. ASSUME NEW c \in Clients, RecordDecision(c)
          PROVE  \E p \in Processes : \E inv, new : CommitOf(p, inv, new)
      BY <2>7, CommitKinds DEF Processes
    <2> QED BY <2>1, <2>2, <2>3, <2>4, <2>5, <2>6, <2>7 DEF CommitStep
  <1> QED BY <1>1, <1>2

Tokens == OneToken /\ DecidedFirst

\* Before and after the decision: the statuses the stages start from are apart.
LEMMA StartsApart ==
    /\ \A t \in PreTasks : StartStatuses(t) \cap Decided = {} /\ "absent" \notin StartStatuses(t)
    /\ \A t, u \in PreTasks : t # u => StartStatuses(t) \cap StartStatuses(u) = {}
    /\ StartStatuses("export_invoice") \subseteq Decided
    /\ \A job \in Tasks \cup Decisions : \A new \in Results(job) :
          /\ FollowUp(new) \in PreTasks => new \in StartStatuses(FollowUp(new))
          /\ FollowUp(new) = "export_invoice" => new \in Decided
          /\ job \notin PreTasks => new \in Decided /\ FollowUp(new) \notin PreTasks
  BY DEF PreTasks, Tasks, Decisions, StartStatuses, Decided, Results, FollowUp, Chain

\* Who holds what once a process has committed inv with status new.
LEMMA CommitHolders ==
    ASSUME TypeOK, SessionOK, NEW p \in Processes, NEW inv \in Invoices, NEW new \in Statuses,
           CommitOf(p, inv, new),
           NEW q \in Processes, NEW t \in Tasks \cup Decisions, NEW i \in Invoices
    PROVE  Holder(q, t, i)' <=> \/ q # p /\ Holder(q, t, i)
                                \/ q = p /\ i = inv /\ t = FollowUp(new)
  <1>1. sess' = [sess EXCEPT ![p] = Committed(inv, new)]
    BY DEF CommitOf
  <1>2. FollowUp(new) = "none" => ~Holder(p, t, i)' /\ t # FollowUp(new)
    BY <1>1, CommittedType DEF Holder, Idle, TypeOK, Tasks, Decisions
  <1>3. FollowUp(new) # "none" => (Holder(p, t, i)' <=> i = inv /\ t = FollowUp(new))
    BY <1>1, CommittedType DEF Holder, Sending, TypeOK
  <1>4. q # p => (Holder(q, t, i)' <=> Holder(q, t, i))
    BY <1>1 DEF Holder, TypeOK
  <1> QED BY <1>2, <1>3, <1>4

LEMMA TokenStep ==
    ASSUME TypeOK, SessionOK, Tokens, [Next]_vars, OnceDelivered'
    PROVE  Tokens'
  <1> DEFINE TokenOf(i, t) ==
                /\ queue[t][i] <= 1
                /\ queue[t][i] > 0 => status[i] \in StartStatuses(t)
                /\ \A p \in Processes : Holder(p, t, i) =>
                      /\ status[i] \in StartStatuses(t)
                      /\ queue[t][i] = 0
                      /\ \A q \in Processes : Holder(q, t, i) => p = q
             DecidedOf(i) ==
                /\ queue["export_invoice"][i] > 0 => status[i] \in Decided
                /\ \A p \in Processes : \A job \in {"export_invoice"} \cup Decisions :
                      Holder(p, job, i) => status[i] \in Decided
  <1>tokens. \A i \in Invoices : DecidedOf(i) /\ \A t \in PreTasks : TokenOf(i, t)
    BY DEF Tokens, OneToken, DecidedFirst
  <1>tasks. PreTasks \subseteq Tasks /\ "export_invoice" \in Tasks \ PreTasks
            /\ Decisions \cap Tasks = {} /\ Tasks = PreTasks \cup {"export_invoice"}
    BY DEF PreTasks, Tasks, Decisions
  <1>types. /\ \A t \in Tasks, i \in Invoices : queue[t][i] \in Nat
            /\ \A t \in Tasks, i \in Invoices : queue'[t][i] \in Nat
    BY TypeStep DEF TypeOK
  <1>shrink. ASSUME Quiet, QueueShrinks
             PROVE  Tokens'
    <2>1. \A q \in Processes, t \in Tasks \cup Decisions, i \in Invoices :
             Holder(q, t, i)' => Holder(q, t, i)
      BY <1>shrink DEF Quiet, Holder, Idle
    <2>2. status' = status
      BY <1>shrink DEF Quiet, database
    <2>3. \A t \in Tasks, i \in Invoices : queue'[t][i] <= queue[t][i]
      BY <1>shrink DEF QueueShrinks
    <2>4. ASSUME NEW i \in Invoices, NEW t \in PreTasks PROVE TokenOf(i, t)'
      <3>1. TokenOf(i, t) /\ queue[t][i] \in Nat /\ queue'[t][i] \in Nat
            /\ queue'[t][i] <= queue[t][i]
        BY <1>tokens, <1>types, <1>tasks, <2>3
      <3> QED BY <2>1, <2>2, <3>1, <1>tasks
    <2>5. ASSUME NEW i \in Invoices PROVE DecidedOf(i)'
      <3>1. DecidedOf(i) /\ queue["export_invoice"][i] \in Nat
            /\ queue'["export_invoice"][i] \in Nat
            /\ queue'["export_invoice"][i] <= queue["export_invoice"][i]
        BY <1>tokens, <1>types, <1>tasks, <2>3
      <3> QED BY <2>1, <2>2, <3>1, <1>tasks
    <2> QED BY <2>4, <2>5 DEF Tokens, OneToken, DecidedFirst
  <1>send. ASSUME Quiet, NEW p \in Processes, Send(p)
           PROVE  Tokens'
    <2>1. PICK task \in Tasks, inv \in Invoices : task = sess[p].job /\ inv = sess[p].inv
      BY <1>send DEF Send, SessionOK, GoodSession
    <2>2. Holder(p, task, inv)
      BY <1>send, <2>1 DEF Send, Holder
    <2>3. \A q \in Processes, t \in Tasks \cup Decisions, i \in Invoices :
             Holder(q, t, i)' <=> q # p /\ Holder(q, t, i)
      BY <1>send DEF Send, Holder, Idle, TypeOK
    <2>4. status' = status
      BY <1>send DEF Quiet, database
    <2>5. /\ queue'[task][inv] = queue[task][inv] + 1
          /\ \A t \in Tasks, i \in Invoices :
                t # task \/ i # inv => queue'[t][i] = queue[t][i]
      BY <1>send, <2>1 DEF Send, TypeOK
    <2>6. ASSUME NEW i \in Invoices, NEW t \in PreTasks PROVE TokenOf(i, t)'
      <3>1. TokenOf(i, t) /\ queue[t][i] \in Nat
        BY <1>tokens, <1>types, <1>tasks
      <3>2. CASE t = task /\ i = inv
        BY <2>2, <2>3, <2>4, <2>5, <3>1, <3>2, <1>tasks
      <3>3. CASE ~(t = task /\ i = inv)
        BY <2>3, <2>4, <2>5, <3>1, <3>3, <1>tasks
      <3> QED BY <3>2, <3>3
    <2>7. ASSUME NEW i \in Invoices PROVE DecidedOf(i)'
      <3>1. DecidedOf(i)
        BY <1>tokens
      <3>2. CASE task = "export_invoice" /\ i = inv
        BY <2>2, <2>3, <2>4, <3>1, <3>2, <1>tasks
      <3>3. CASE ~(task = "export_invoice" /\ i = inv)
        BY <2>3, <2>4, <2>5, <3>1, <3>3, <1>tasks
      <3> QED BY <3>2, <3>3
    <2> QED BY <2>6, <2>7 DEF Tokens, OneToken, DecidedFirst
  <1>redeliver. ASSUME NEW task \in Tasks, NEW i \in Invoices, Redeliver(task, i)
                PROVE  FALSE
    BY <1>redeliver, OnceBefore
  <1>load. ASSUME NEW p \in Processes, NEW job \in Tasks \cup Decisions, NEW inv \in Invoices,
                  Load(p, job, inv)
           PROVE  Tokens'
    <2>1. status' = status
      BY <1>load DEF Load, database
    <2>2. \A q \in Processes, t \in Tasks \cup Decisions, i \in Invoices :
             Holder(q, t, i)' <=> Holder(q, t, i) \/ (q = p /\ t = job /\ i = inv)
      BY <1>load DEF Load, Loaded, Holder, TypeOK
    <2>3. job \in Tasks => /\ queue[job][inv] > 0 /\ queue'[job][inv] = queue[job][inv] - 1
                           /\ \A t \in Tasks, i \in Invoices :
                                 t # job \/ i # inv => queue'[t][i] = queue[t][i]
      BY <1>load DEF Load, Receive, TypeOK
    <2>4. job \in Decisions => queue' = queue /\ status[inv] = "needs_review"
      BY <1>load DEF Load
    <2>5. ASSUME NEW i \in Invoices, NEW t \in PreTasks PROVE TokenOf(i, t)'
      <3>1. TokenOf(i, t) /\ queue[t][i] \in Nat
        BY <1>tokens, <1>types, <1>tasks
      <3>2. CASE t = job /\ i = inv
        BY <2>1, <2>2, <2>3, <3>1, <3>2, <1>tasks
      <3>3. CASE ~(t = job /\ i = inv)
        BY <2>1, <2>2, <2>3, <2>4, <3>1, <3>3, <1>tasks
      <3> QED BY <3>2, <3>3
    <2>6. ASSUME NEW i \in Invoices PROVE DecidedOf(i)'
      <3>1. DecidedOf(i) /\ queue["export_invoice"][i] \in Nat
        BY <1>tokens, <1>types, <1>tasks
      <3>2. CASE job = "export_invoice" /\ i = inv
        <4>1. status[i] \in Decided
          BY <1>load, <3>2, <1>tasks, StartsApart DEF Load
        <4> QED BY <2>1, <4>1
      <3>3. CASE job \in Decisions /\ i = inv
        <4>1. status[i] \in Decided
          BY <2>4, <3>3 DEF Decided
        <4> QED BY <2>1, <4>1
      <3>4. CASE job \in PreTasks \/ i # inv
        <4>1. queue'["export_invoice"][i] = queue["export_invoice"][i]
          BY <2>3, <2>4, <3>4, <1>tasks
        <4>2. \A q \in Processes, t \in {"export_invoice"} \cup Decisions :
                 Holder(q, t, i)' => Holder(q, t, i)
          BY <2>2, <3>4, <1>tasks
        <4> QED BY <2>1, <3>1, <4>1, <4>2
      <3> QED BY <3>2, <3>3, <3>4, <1>tasks
    <2> QED BY <2>5, <2>6 DEF Tokens, OneToken, DecidedFirst
  <1>upload. ASSUME NEW c \in Clients, NEW inv \in Invoices, Upload(c, inv)
             PROVE  Tokens'
    <2>1. /\ status[inv] = "absent" /\ queue' = queue /\ c \in Processes
          /\ status'[inv] = "received"
          /\ \A i \in Invoices : i # inv => status'[i] = status[i]
      BY <1>upload DEF Upload, TypeOK, Processes
    <2>2. \A q \in Processes, t \in Tasks \cup Decisions, i \in Invoices :
             Holder(q, t, i)' <=> \/ q # c /\ Holder(q, t, i)
                                  \/ q = c /\ i = inv /\ t = "extract_invoice"
      BY <1>upload DEF Upload, Holder, TypeOK, Committed, FollowUp, Chain, Sending
    <2>3. ASSUME NEW i \in Invoices, NEW t \in PreTasks PROVE TokenOf(i, t)'
      <3>1. TokenOf(i, t) /\ queue[t][i] \in Nat /\ "absent" \notin StartStatuses(t)
        BY <1>tokens, <1>types, <1>tasks, StartsApart
      <3>2. CASE i = inv
        <4>1. queue[t][i] = 0 /\ \A q \in Processes : ~Holder(q, t, i)
          BY <2>1, <3>1, <3>2
        <4>2. "received" \in StartStatuses("extract_invoice")
          BY DEF StartStatuses
        <4> QED BY <2>1, <2>2, <3>2, <4>1, <4>2, <1>tasks
      <3>3. CASE i # inv
        BY <2>1, <2>2, <3>1, <3>3, <1>tasks
      <3> QED BY <3>2, <3>3
    <2>4. ASSUME NEW i \in Invoices PROVE DecidedOf(i)'
      <3>1. DecidedOf(i) /\ queue["export_invoice"][i] \in Nat
            /\ "extract_invoice" \notin {"export_invoice"} \cup Decisions
        BY <1>tokens, <1>types, <1>tasks DEF Decisions
      <3>2. CASE i = inv
        <4>1. status[i] \notin Decided
          BY <2>1, <3>2 DEF Decided
        <4> QED BY <2>1, <2>2, <3>1, <3>2, <4>1, <1>tasks
      <3>3. CASE i # inv
        BY <2>1, <2>2, <3>1, <3>3, <1>tasks
      <3> QED BY <3>2, <3>3
    <2> QED BY <2>3, <2>4 DEF Tokens, OneToken, DecidedFirst
  <1>commit. ASSUME NEW p \in Processes, NEW inv \in Invoices, NEW new \in Statuses,
                    CommitOf(p, inv, new)
             PROVE  Tokens'
    <2>1. PICK job \in Tasks \cup Decisions : job = sess[p].job
      BY <1>commit DEF CommitOf, SessionOK, GoodSession
    <2>2. /\ Holder(p, job, inv) /\ new \in Results(job) /\ queue' = queue
          /\ status'[inv] = new
          /\ \A i \in Invoices : i # inv => status'[i] = status[i]
      BY <1>commit, <2>1 DEF CommitOf, Holder, TypeOK
    <2>3. \A q \in Processes, t \in Tasks \cup Decisions, i \in Invoices :
             Holder(q, t, i)' <=> \/ q # p /\ Holder(q, t, i)
                                  \/ q = p /\ i = inv /\ t = FollowUp(new)
      BY <1>commit, CommitHolders
    <2>4. \A q \in Processes : \A t, u : Holder(q, t, inv) /\ Holder(q, u, inv) => t = u
      BY DEF Holder
    <2>5. ASSUME NEW i \in Invoices, NEW t \in PreTasks PROVE TokenOf(i, t)'
      <3>1. TokenOf(i, t) /\ queue[t][i] \in Nat
        BY <1>tokens, <1>types, <1>tasks
      <3>2. CASE i # inv
        BY <2>2, <2>3, <3>1, <3>2, <1>tasks
      <3>3. CASE i = inv
        <4>1. queue[t][i] = 0 /\ \A q \in Processes : q # p => ~Holder(q, t, i)
          <5>1. CASE job = t
            BY <2>2, <3>1, <3>3, <5>1
          <5>2. CASE job \in PreTasks /\ job # t
            <6>1. status[inv] \in StartStatuses(job)
              BY <2>2, <5>2, <1>tokens
            <6>2. status[i] \notin StartStatuses(t)
              BY <3>3, <5>2, <6>1, StartsApart
            <6> QED BY <3>1, <6>2
          <5>3. CASE job \notin PreTasks
            <6>1. status[inv] \in Decided
              BY <2>2, <5>3, <1>tokens, <1>tasks
            <6>2. status[i] \notin StartStatuses(t)
              BY <3>3, <6>1, StartsApart
            <6> QED BY <3>1, <6>2
          <5> QED BY <5>1, <5>2, <5>3
        <4>2. t = FollowUp(new) => new \in StartStatuses(t)
          BY <2>2, StartsApart
        <4> QED BY <2>2, <2>3, <3>3, <4>1, <4>2, <1>tasks
      <3> QED BY <3>2, <3>3
    <2>6. ASSUME NEW i \in Invoices PROVE DecidedOf(i)'
      <3>1. DecidedOf(i) /\ queue["export_invoice"][i] \in Nat
        BY <1>tokens, <1>types, <1>tasks
      <3>2. CASE i # inv
        BY <2>2, <2>3, <3>1, <3>2, <1>tasks
      <3>3. CASE i = inv /\ job \notin PreTasks
        <4>1. new \in Decided
          BY <2>2, <3>3, StartsApart
        <4> QED BY <2>2, <3>3, <4>1
      <3>4. CASE i = inv /\ job \in PreTasks
        <4>1. status[inv] \in StartStatuses(job)
          BY <2>2, <3>4, <1>tokens
        <4>2. status[i] \notin Decided
          BY <3>4, <4>1, StartsApart
        <4>3. FollowUp(new) = "export_invoice" => new \in Decided
          BY <2>2, StartsApart
        <4>4. FollowUp(new) \notin Decisions
          BY FollowUpTask DEF Tasks, Decisions
        <4> QED BY <2>2, <2>3, <3>1, <3>4, <4>2, <4>3, <4>4, <1>tasks
      <3> QED BY <3>2, <3>3, <3>4
    <2> QED BY <2>5, <2>6 DEF Tokens, OneToken, DecidedFirst
  <1> QED
    BY StepKinds, CommitIsCommitOf, <1>shrink, <1>send, <1>redeliver, <1>load, <1>upload, <1>commit
-----------------------------------------------------------------------------
(* Rows, loaded rows and the audit log, when messages arrive once.         *)

RowsInv == RowsFollowStatus /\ LoadedIsCurrent /\ DecisionLogged

\* Nobody else works on an invoice that is in the hands of a stage before the
\* decision.
LEMMA TokenAlone ==
    ASSUME Tokens, NEW p \in Processes, NEW q \in Processes, NEW i \in Invoices,
           NEW t \in PreTasks, NEW u \in Tasks \cup Decisions,
           Holder(p, t, i), Holder(q, u, i)
    PROVE  p = q /\ t = u /\ status[i] \in StartStatuses(t)
  <1>1. status[i] \in StartStatuses(t)
    BY DEF Tokens, OneToken
  <1>2. u \in PreTasks
    <2>1. ASSUME u \notin PreTasks PROVE status[i] \in Decided
      BY <2>1 DEF Tokens, DecidedFirst, PreTasks
    <2> QED BY <1>1, <2>1, StartsApart
  <1>3. status[i] \in StartStatuses(u)
    BY <1>2 DEF Tokens, OneToken
  <1>4. t = u
    BY <1>1, <1>2, <1>3, StartsApart
  <1> QED BY <1>1, <1>4 DEF Tokens, OneToken

RowsUnchangedAt(i) ==
    /\ reading'[i] = reading[i] /\ match'[i] = match[i] /\ validation'[i] = validation[i]

\* A commit changes the rows of the invoice its process holds alone.
LEMMA LoadedCommit ==
    ASSUME TypeOK, SessionOK, Tokens, LoadedIsCurrent,
           NEW p \in Processes, NEW inv \in Invoices, NEW new \in Statuses,
           CommitOf(p, inv, new),
           \A i \in Invoices \ {inv} : RowsUnchangedAt(i),
           sess[p].job \notin PreTasks => RowsUnchangedAt(inv)
    PROVE  LoadedIsCurrent'
  <1>1. SUFFICES ASSUME NEW q \in Processes, sess'[q].pc \in {"loaded", "scanning"},
                        sess'[q].job \in {"validate_invoice", "approve_invoice"}
                 PROVE  /\ sess'[q].reading = reading'[sess'[q].inv]
                        /\ sess'[q].match = match'[sess'[q].inv]
                        /\ sess'[q].pc = "loaded" /\ sess'[q].job = "approve_invoice"
                              => sess'[q].verdict = validation'[sess'[q].inv]
    BY DEF LoadedIsCurrent
  <1>2. q # p
    <2>1. Committed(inv, new).pc \in {"idle", "sending"}
      BY CommittedType DEF Idle, Sending
    <2>2. sess'[p] = Committed(inv, new)
      BY DEF CommitOf, TypeOK
    <2> QED BY <1>1, <2>1, <2>2
  <1>3. sess'[q] = sess[q]
    BY <1>2 DEF CommitOf, TypeOK
  <1>4. PICK i \in Invoices : i = sess[q].inv
    BY <1>1, <1>3 DEF SessionOK, GoodSession
  <1>5. RowsUnchangedAt(i)
    <2>1. CASE i # inv
      BY <2>1
    <2>2. CASE i = inv
      <3>1. Holder(q, sess[q].job, inv) /\ sess[q].job \in PreTasks
        BY <1>1, <1>3, <1>4, <2>2 DEF Holder, PreTasks, Tasks
      <3>2. Holder(p, sess[p].job, inv) /\ sess[p].job \in Tasks \cup Decisions
        BY DEF CommitOf, Holder, SessionOK, GoodSession
      <3> QED BY <1>2, <3>1, <3>2, TokenAlone
    <2> QED BY <2>1, <2>2
  <1> QED BY <1>1, <1>3, <1>4, <1>5 DEF LoadedIsCurrent, RowsUnchangedAt

\* A commit keeps machine decisions and human ones apart.
LEMMA LoggedCommit ==
    ASSUME TypeOK, SessionOK, Tokens, DecisionLogged,
           NEW p \in Processes, NEW inv \in Invoices, NEW new \in Statuses,
           CommitOf(p, inv, new),
           \A i \in Invoices \ {inv} : RowsUnchangedAt(i),
           sess[p].job \notin PreTasks => RowsUnchangedAt(inv),
           new = "auto_approved" => validation'[inv] = "passed"
    PROVE  DecisionLogged'
  <1> DEFINE LoggedOK(i) ==
                /\ status[i] \notin Decided => ~AutoApproved(i) /\ ~Reviewed(i)
                /\ status[i] \in {"needs_review", "rejected"} => Reviewed(i)
                /\ AutoApproved(i) => validation[i] = "passed" /\ ~Reviewed(i)
                /\ \A q \in Processes : \A d \in Decisions : Holder(q, d, i) => Reviewed(i)
  <1>1. SUFFICES ASSUME NEW i \in Invoices PROVE LoggedOK(i)'
    BY DEF DecisionLogged
  <1>2. LoggedOK(i)
    BY DEF DecisionLogged
  <1>3. \A q \in Processes : \A d \in Decisions : Holder(q, d, i)' => q # p /\ Holder(q, d, i)
    <2>1. FollowUp(new) \notin Decisions
      BY FollowUpTask DEF Tasks, Decisions
    <2> QED BY <2>1, CommitHolders
  <1>4. /\ AutoApproved(i)' <=> AutoApproved(i) \/ (i = inv /\ new = "auto_approved")
        /\ Reviewed(i)' <=> Reviewed(i) \/ (i = inv /\ new = "needs_review")
    BY DEF CommitOf, AutoApproved, Reviewed
  <1>5. status'[i] = IF i = inv THEN new ELSE status[i]
    BY DEF CommitOf, TypeOK
  <1>6. CASE i # inv
    BY <1>2, <1>3, <1>4, <1>5, <1>6 DEF RowsUnchangedAt
  <1>7. PICK job \in Tasks \cup Decisions : job = sess[p].job
    BY DEF CommitOf, SessionOK, GoodSession
  <1>8. Holder(p, job, inv) /\ new \in Results(job)
    BY <1>7 DEF Holder, CommitOf
  <1>9. CASE i = inv /\ job \in PreTasks
    <2>1. status[i] \notin Decided
      <3>1. status[inv] \in StartStatuses(job)
        BY <1>8, <1>9 DEF Tokens, OneToken
      <3> QED BY <1>9, <3>1, StartsApart
    <2>2. ~AutoApproved(i) /\ ~Reviewed(i) /\ \A q \in Processes : \A d \in Decisions : ~Holder(q, d, i)
      BY <1>2, <2>1
    <2>3. new # "rejected" /\ (new = "needs_review" \/ new = "auto_approved" \/ new \notin Decided)
      BY <1>8, <1>9 DEF Results, PreTasks, Tasks, Decisions, Decided
    <2> QED BY <1>3, <1>4, <1>5, <1>9, <2>2, <2>3 DEF Decided
  <1>10. CASE i = inv /\ job \notin PreTasks
    <2>1. new \in {"approved", "rejected", "exported"} /\ (new = "rejected" => job \in Decisions)
      BY <1>8, <1>10 DEF Results, PreTasks, Tasks, Decisions
    <2>2. job \in Decisions => Reviewed(i)
      BY <1>2, <1>8, <1>10
    <2>3. validation'[i] = validation[i]
      BY <1>7, <1>10 DEF RowsUnchangedAt
    <2> QED BY <1>2, <1>3, <1>4, <1>5, <1>10, <2>1, <2>2, <2>3 DEF Decided
  <1> QED BY <1>6, <1>9, <1>10

\* What is committed for an invoice and the vendors it is found by.
RowsOK(i) ==
    /\ status[i] \in {"absent", "received", "failed"} => reading[i] = None
    /\ status[i] \in {"absent", "received", "failed", "extracted"} => match[i] = None
    /\ status[i] \in {"absent", "received", "failed", "extracted", "validating"}
          => validation[i] = "none"
    /\ match[i] # None /\ match[i].vendor # None => match[i].vendor \in matchedVendors[i]

\* A commit that leaves the rows of all other invoices alone.
LEMMA RowsCommit ==
    ASSUME TypeOK, SessionOK, Tokens, RowsInv,
           NEW p \in Processes, NEW inv \in Invoices, NEW new \in Statuses,
           CommitOf(p, inv, new),
           \A i \in Invoices \ {inv} : RowsUnchangedAt(i) /\ matchedVendors'[i] = matchedVendors[i],
           sess[p].job \notin PreTasks => RowsUnchangedAt(inv),
           new = "auto_approved" => validation'[inv] = "passed",
           RowsOK(inv)'
    PROVE  RowsInv'
  <1>1. LoadedIsCurrent' /\ DecisionLogged'
    BY LoadedCommit, LoggedCommit DEF RowsInv
  <1>2. ASSUME NEW i \in Invoices, i # inv PROVE RowsOK(i)'
    <2>1. RowsOK(i)
      BY DEF RowsInv, RowsFollowStatus, RowsOK
    <2>2. RowsUnchangedAt(i) /\ matchedVendors'[i] = matchedVendors[i] /\ status'[i] = status[i]
      BY <1>2 DEF CommitOf, TypeOK
    <2> QED BY <2>1, <2>2 DEF RowsOK, RowsUnchangedAt
  <1> QED BY <1>1, <1>2 DEF RowsInv, RowsFollowStatus, RowsOK

\* A stage before the decision commits an invoice that is where it started.
LEMMA StageStart ==
    ASSUME SessionOK, Tokens, NEW p \in Processes, NEW inv \in Invoices, sess[p].inv = inv,
           sess[p].pc # "idle", sess[p].job \in PreTasks
    PROVE  status[inv] \in StartStatuses(sess[p].job)
  BY DEF Tokens, OneToken, Holder

LEMMA RowsStep ==
    ASSUME TypeOK, SessionOK, Tokens, RowsInv, [Next]_vars
    PROVE  RowsInv'
  <1>processes. Workers \subseteq Processes /\ Clients \subseteq Processes
    BY DEF Processes
  <1>names. {"extracting", "extracted", "failed", "matching", "validating", "validated",
             "exporting", "exported", "received", "approved", "rejected", "auto_approved",
             "needs_review"} \subseteq Statuses
    BY DEF Statuses
  <1>now. RowsFollowStatus /\ LoadedIsCurrent /\ DecisionLogged /\ \A i \in Invoices : RowsOK(i)
    BY DEF RowsInv, RowsFollowStatus, RowsOK
  <1>quiet. ASSUME Quiet PROVE RowsInv'
    <2>1. RowsFollowStatus'
      BY <1>now, <1>quiet DEF Quiet, database, RowsFollowStatus
    <2>2. LoadedIsCurrent'
      <3>1. SUFFICES ASSUME NEW q \in Processes, sess'[q].pc \in {"loaded", "scanning"},
                            sess'[q].job \in {"validate_invoice", "approve_invoice"}
                     PROVE  /\ sess'[q].reading = reading[sess'[q].inv]
                            /\ sess'[q].match = match[sess'[q].inv]
                            /\ sess'[q].pc = "loaded" /\ sess'[q].job = "approve_invoice"
                                  => sess'[q].verdict = validation[sess'[q].inv]
        BY <1>quiet DEF Quiet, database, LoadedIsCurrent
      <3>2. CASE sess'[q] = sess[q]
        BY <3>1, <3>2, <1>now DEF LoadedIsCurrent
      <3>3. CASE sess'[q] # sess[q]
        <4>1. /\ sess[q].pc \notin {"idle", "sending"} /\ sess'[q].pc # "loaded"
              /\ sess'[q].job = sess[q].job /\ sess'[q].inv = sess[q].inv
              /\ sess'[q].reading = sess[q].reading /\ sess'[q].match = sess[q].match
          BY <1>quiet, <3>1, <3>3 DEF Quiet, Idle
        <4>2. sess[q].pc \in {"loaded", "scanning"}
          BY <3>1, <4>1 DEF SessionOK, GoodSession, TypeOK, Session, ProgramCounters
        <4> QED BY <3>1, <4>1, <4>2, <1>now DEF LoadedIsCurrent
      <3> QED BY <3>2, <3>3
    <2>3. DecisionLogged'
      <3>1. \A q \in Processes, d \in Decisions, i \in Invoices :
               Holder(q, d, i)' => Holder(q, d, i)
        BY <1>quiet DEF Quiet, Holder, Idle
      <3>2. UNCHANGED database
        BY <1>quiet DEF Quiet
      <3> QED BY <3>1, <3>2, <1>now DEF DecisionLogged, database, AutoApproved, Reviewed, Logged
    <2> QED BY <2>1, <2>2, <2>3 DEF RowsInv
  <1>load. ASSUME NEW p \in Processes, NEW job \in Tasks \cup Decisions, NEW inv \in Invoices,
                  Load(p, job, inv)
           PROVE  RowsInv'
    <2>1. UNCHANGED database /\ sess' = [sess EXCEPT ![p] = Loaded(job, inv)]
      BY <1>load DEF Load
    <2>2. LoadedIsCurrent'
      BY <2>1, <1>now DEF LoadedIsCurrent, database, Loaded, TypeOK
    <2>3. DecisionLogged'
      <3>1. \A q \in Processes, d \in Decisions, i \in Invoices :
               Holder(q, d, i)' => Holder(q, d, i) \/ (i = inv /\ d = job)
        BY <2>1 DEF Holder, Loaded, TypeOK
      <3>2. job \in Decisions => Reviewed(inv)
        BY <1>load, <1>now DEF Load, DecisionLogged
      <3> QED BY <2>1, <3>1, <3>2, <1>now
              DEF DecisionLogged, database, AutoApproved, Reviewed, Logged
    <2> QED BY <2>1, <2>2, <2>3, <1>now DEF RowsInv, RowsFollowStatus, database
  <1>upload. ASSUME NEW c \in Clients, NEW inv \in Invoices, Upload(c, inv)
             PROVE  RowsInv'
    <2>1. /\ status[inv] = "absent" /\ status'[inv] = "received" /\ c \in Processes
          /\ \A i \in Invoices : i # inv => status'[i] = status[i]
          /\ UNCHANGED <<audit, reading, match, matchedVendors, validation>>
      BY <1>upload DEF Upload, TypeOK, Processes
    <2>2. sess' = [sess EXCEPT ![c] = Sending("extract_invoice", inv)]
      BY <1>upload DEF Upload, Committed, FollowUp, Chain
    <2>3. RowsFollowStatus'
      BY <2>1, <1>now DEF RowsFollowStatus
    <2>4. LoadedIsCurrent'
      BY <2>1, <2>2, <1>now DEF LoadedIsCurrent, Sending, TypeOK
    <2>5. DecisionLogged'
      <3>1. \A q \in Processes, d \in Decisions, i \in Invoices :
               Holder(q, d, i)' => Holder(q, d, i)
        BY <2>2 DEF Holder, Sending, Decisions, TypeOK
      <3>2. ~AutoApproved(inv) /\ ~Reviewed(inv)
        BY <2>1, <1>now DEF DecisionLogged, Decided
      <3>3. \A i \in Invoices : (AutoApproved(i)' <=> AutoApproved(i)) /\ (Reviewed(i)' <=> Reviewed(i))
        BY <2>1 DEF AutoApproved, Reviewed, Logged
      <3> QED BY <2>1, <3>1, <3>2, <3>3, <1>now DEF DecisionLogged
    <2> QED BY <2>3, <2>4, <2>5 DEF RowsInv
  <1>completeExtraction. ASSUME NEW w \in Workers, NEW r \in Readings, CompleteExtraction(w, r)
                         PROVE  RowsInv'
    <2>1. PICK inv \in Invoices : inv = sess[w].inv
      BY <1>completeExtraction, <1>processes DEF CompleteExtraction, Doing, SessionOK, GoodSession
    <2>2. CommitOf(w, inv, "extracted") /\ sess[w].job = "extract_invoice"
      BY <2>1, <1>completeExtraction, <1>processes, CommitKinds DEF CompleteExtraction, Doing
    <2>3. status[inv] = "received" /\ status'[inv] = "extracted"
      BY <2>2, <1>processes, StageStart DEF CommitOf, StartStatuses, PreTasks, Tasks, TypeOK
    <2>4. /\ \A i \in Invoices \ {inv} : reading'[i] = reading[i]
          /\ UNCHANGED <<match, matchedVendors, validation>>
      BY <2>1, <1>completeExtraction DEF CompleteExtraction, TypeOK
    <2>5. RowsOK(inv)'
      BY <2>3, <2>4, <1>now DEF RowsOK
    <2> QED BY <2>2, <2>4, <2>5, <1>processes, <1>names, RowsCommit
            DEF RowsUnchangedAt, PreTasks, Tasks
  <1>failExtraction. ASSUME NEW w \in Workers, FailExtraction(w)
                     PROVE  RowsInv'
    <2>1. PICK inv \in Invoices : inv = sess[w].inv
      BY <1>failExtraction, <1>processes DEF FailExtraction, Doing, SessionOK, GoodSession
    <2>2. CommitOf(w, inv, "failed") /\ sess[w].job = "extract_invoice"
      BY <2>1, <1>failExtraction, <1>processes, CommitKinds DEF FailExtraction, Doing
    <2>3. status[inv] = "received"
      BY <2>2, <1>processes, StageStart DEF CommitOf, StartStatuses, PreTasks, Tasks
    <2>4. UNCHANGED <<reading, match, matchedVendors, validation>>
      BY <1>failExtraction DEF FailExtraction
    <2>5. RowsOK(inv)'
      BY <2>3, <2>4, <1>now DEF RowsOK
    <2> QED BY <2>2, <2>4, <2>5, <1>processes, <1>names, RowsCommit DEF RowsUnchangedAt
  <1>completeMatching. ASSUME NEW w \in Workers, NEW m \in Matches, CompleteMatching(w, m)
                       PROVE  RowsInv'
    <2>1. PICK inv \in Invoices : inv = sess[w].inv
      BY <1>completeMatching, <1>processes DEF CompleteMatching, Doing, SessionOK, GoodSession
    <2>2. CommitOf(w, inv, "validating") /\ sess[w].job = "match_invoice"
      BY <2>1, <1>completeMatching, <1>processes, CommitKinds DEF CompleteMatching, Doing
    <2>3. status[inv] = "extracted" /\ status'[inv] = "validating"
      BY <2>2, <1>processes, StageStart DEF CommitOf, StartStatuses, PreTasks, Tasks, TypeOK
    <2>4. /\ UNCHANGED <<reading, validation>>
          /\ \A i \in Invoices \ {inv} :
                match'[i] = match[i] /\ matchedVendors'[i] = matchedVendors[i]
          /\ matchedVendors'[inv] = matchedVendors[inv] \cup VendorsNamed(m)
          /\ match'[inv] \in Latest(match[inv], m, None)
      BY <2>1, <1>completeMatching DEF CompleteMatching, TypeOK
    <2>5. match'[inv] = m
      BY <2>3, <2>4, <1>now DEF RowsOK, Latest
    <2>6. RowsOK(inv)'
      BY <2>3, <2>4, <2>5, <1>now DEF RowsOK, VendorsNamed
    <2> QED BY <2>2, <2>4, <2>6, <1>processes, <1>names, RowsCommit
            DEF RowsUnchangedAt, PreTasks, Tasks
  <1>completeValidation. ASSUME NEW w \in Workers, NEW passed \in {"passed", "failed"},
                                CompleteValidation(w, passed)
                         PROVE  RowsInv'
    <2>1. PICK inv \in Invoices : inv = sess[w].inv
      BY <1>completeValidation, <1>processes DEF CompleteValidation, SessionOK, GoodSession
    <2>2. CommitOf(w, inv, "validated") /\ sess[w].job = "validate_invoice"
      BY <2>1, <1>completeValidation, <1>processes, CommitKinds
      DEF CompleteValidation, SessionOK, GoodSession
    <2>3. status'[inv] = "validated"
      BY <2>2 DEF CommitOf, TypeOK
    <2>4. /\ \A i \in Invoices \ {inv} : validation'[i] = validation[i]
          /\ UNCHANGED <<reading, match, matchedVendors>>
      BY <2>1, <1>completeValidation DEF CompleteValidation, TypeOK
    <2>5. RowsOK(inv)'
      BY <2>3, <2>4, <1>now DEF RowsOK
    <2> QED BY <2>2, <2>4, <2>5, <1>processes, <1>names, RowsCommit
            DEF RowsUnchangedAt, PreTasks, Tasks
  <1>completeApproval. ASSUME NEW w \in Workers, CompleteApproval(w)
                       PROVE  RowsInv'
    <2>1. PICK inv \in Invoices : inv = sess[w].inv
      BY <1>completeApproval, <1>processes DEF CompleteApproval, Doing, SessionOK, GoodSession
    <2>2. PICK new \in {"auto_approved", "needs_review"} : new = Decision(sess[w])
      BY DEF Decision
    <2>3. CommitOf(w, inv, new) /\ sess[w].job = "approve_invoice" /\ sess[w].pc = "loaded"
      BY <2>1, <2>2, <1>completeApproval, <1>processes, CommitKinds DEF CompleteApproval, Doing
    <2>4. UNCHANGED <<reading, match, matchedVendors, validation>> /\ status'[inv] = new
      BY <2>3, <1>completeApproval DEF CompleteApproval, CommitOf, TypeOK
    <2>5. new = "auto_approved" => validation[inv] = "passed"
      <3>1. sess[w].verdict = validation[inv]
        BY <2>1, <2>3, <1>processes, <1>now DEF LoadedIsCurrent
      <3> QED BY <2>2, <3>1 DEF Decision
    <2>6. RowsOK(inv)'
      BY <2>4, <1>now DEF RowsOK
    <2> QED BY <2>3, <2>4, <2>5, <2>6, <1>processes, <1>names, RowsCommit DEF RowsUnchangedAt
  <1>completeExport. ASSUME NEW w \in Workers, CompleteExport(w)
                     PROVE  RowsInv'
    <2>1. PICK inv \in Invoices : inv = sess[w].inv
      BY <1>completeExport, <1>processes DEF CompleteExport, Doing, SessionOK, GoodSession
    <2>2. CommitOf(w, inv, "exported")
      BY <2>1, <1>completeExport, <1>processes, CommitKinds
    <2>3. UNCHANGED <<reading, match, matchedVendors, validation>> /\ status'[inv] = "exported"
      BY <2>2, <1>completeExport DEF CompleteExport, CommitOf, TypeOK
    <2>4. RowsOK(inv)'
      BY <2>3, <1>now DEF RowsOK
    <2> QED BY <2>2, <2>3, <2>4, <1>processes, <1>names, RowsCommit DEF RowsUnchangedAt
  <1>recordDecision. ASSUME NEW c \in Clients, RecordDecision(c)
                     PROVE  RowsInv'
    <2>1. PICK inv \in Invoices : inv = sess[c].inv
      BY <1>recordDecision, <1>processes DEF RecordDecision, Doing, SessionOK, GoodSession
    <2>2. PICK new \in {"approved", "rejected"} : new = Target(sess[c].job)
      BY DEF Target
    <2>3. CommitOf(c, inv, new)
      BY <2>1, <2>2, <1>recordDecision, <1>processes, CommitKinds
    <2>4. UNCHANGED <<reading, match, matchedVendors, validation>> /\ status'[inv] = new
      BY <2>3, <1>recordDecision DEF RecordDecision, CommitOf, TypeOK
    <2>5. RowsOK(inv)'
      BY <2>4, <1>now DEF RowsOK
    <2> QED BY <2>3, <2>4, <2>5, <1>processes, <1>names, RowsCommit DEF RowsUnchangedAt
  <1> QED
    BY StepKinds, <1>quiet, <1>load, <1>upload, <1>completeExtraction, <1>failExtraction,
       <1>completeMatching, <1>completeValidation, <1>completeApproval, <1>completeExport,
       <1>recordDecision
    DEF CommitStep
-----------------------------------------------------------------------------
(* Two validations cannot both overlook the other invoice.                 *)

\* No process starts or advances a search for duplicates.
NoNewScan == \A q \in Processes : sess'[q].pc = "scanning" => sess'[q] = sess[q]

LEMMA ScanKinds ==
    ASSUME TypeOK, SessionOK, [Next]_vars
    PROVE  \/ NoNewScan
           \/ \E w \in Workers : ListRivals(w)
           \/ \E w \in Workers, j \in Invoices : GetRival(w, j)
           \/ \E w \in Workers : ReadRival(w)
  <1>processes. Workers \subseteq Processes /\ Clients \subseteq Processes
    BY DEF Processes
  <1>same. ASSUME sess' = sess PROVE NoNewScan
    BY <1>same DEF NoNewScan
  <1>update. ASSUME NEW p \in Processes, NEW s, s.pc # "scanning", sess' = [sess EXCEPT ![p] = s]
             PROVE  NoNewScan
    BY <1>update DEF NoNewScan, TypeOK
  <1>idle. /\ Idle.pc # "scanning"
           /\ \A job, i : Loaded(job, i).pc # "scanning"
           /\ \A i, new : Committed(i, new).pc # "scanning"
    BY DEF Idle, Loaded, Committed, Sending
  <1>stutter. ASSUME UNCHANGED vars PROVE NoNewScan
    BY <1>stutter, <1>same DEF vars
  <1>skip. ASSUME NEW w \in Workers, NEW task \in Tasks, NEW i \in Invoices, Skip(w, task, i)
           PROVE  NoNewScan
    BY <1>skip, <1>same DEF Skip
  <1>begin. ASSUME NEW w \in Workers, NEW i \in Invoices,
                   \/ BeginExtraction(w, i) \/ BeginMatching(w, i) \/ BeginValidation(w, i)
                   \/ BeginApproval(w, i) \/ BeginExport(w, i)
            PROVE  NoNewScan
    BY <1>begin, <1>update, <1>idle, <1>processes
    DEF BeginExtraction, BeginMatching, BeginValidation, BeginApproval, BeginExport, Begin
  <1>flush. ASSUME NEW w \in Processes, FlushStep(w)
            PROVE  NoNewScan
    <2>1. sess' = [sess EXCEPT ![w] = [sess[w] EXCEPT !.pc = "flushed"]]
      BY <1>flush DEF FlushStep, FlushExtraction, FlushMatching, FlushExport, FlushRejection, Flush
    <2>2. [sess[w] EXCEPT !.pc = "flushed"].pc # "scanning"
      BY <1>processes DEF TypeOK, Session
    <2> QED BY <2>1, <2>2, <1>update, <1>processes
  <1>store. ASSUME NEW w \in Workers, StoreArtifact(w)
            PROVE  NoNewScan
    <2>1. sess' = [sess EXCEPT ![w] = [sess[w] EXCEPT !.pc = "stored"]]
      BY <1>store DEF StoreArtifact
    <2>2. [sess[w] EXCEPT !.pc = "stored"].pc # "scanning"
      BY <1>processes DEF TypeOK, Session
    <2> QED BY <2>1, <2>2, <1>update, <1>processes
  <1>raise. ASSUME NEW w \in Workers, RaiseLlmError(w) PROVE NoNewScan
    BY <1>raise, <1>update, <1>idle, <1>processes DEF RaiseLlmError
  <1>send. ASSUME NEW p \in Processes, Send(p) PROVE NoNewScan
    BY <1>send, <1>update, <1>idle DEF Send
  <1>upload. ASSUME NEW c \in Clients, NEW i \in Invoices, Upload(c, i) PROVE NoNewScan
    BY <1>upload, <1>update, <1>idle, <1>processes DEF Upload
  <1>open. ASSUME NEW c \in Clients, NEW i \in Invoices, NEW d \in Decisions, OpenDecision(c, i, d)
           PROVE  NoNewScan
    BY <1>open, <1>update, <1>idle, <1>processes DEF OpenDecision
  <1>abort. ASSUME NEW p \in Processes, Abort(p) \/ DropSend(p) PROVE NoNewScan
    BY <1>abort, <1>update, <1>idle DEF Abort, DropSend
  <1>redeliver. ASSUME NEW task \in Tasks, NEW i \in Invoices, Redeliver(task, i) PROVE NoNewScan
    BY <1>redeliver, <1>same DEF Redeliver
  <1>commit. ASSUME NEW p \in Processes, NEW inv \in Invoices, NEW new \in Statuses,
                    CommitOf(p, inv, new)
             PROVE  NoNewScan
    BY <1>commit, <1>update, <1>idle DEF CommitOf
  <1>commits. CommitStep => NoNewScan
    BY <1>commit, CommitIsCommitOf
  <1> QED
    BY <1>processes, <1>stutter, <1>skip, <1>begin, <1>flush, <1>store, <1>raise, <1>send,
       <1>upload, <1>open, <1>abort, <1>redeliver, <1>commits
    DEF Next, WorkerStep, RequestStep, RequestArrives, Failure, FlushStep, CommitStep

\* Two invoices that a step brings into mutual oversight were so before it.
LEMMA OversightFrame ==
    ASSUME NoMutualOversight,
           \A i \in Invoices : Reviewed(i) => Reviewed(i)',
           \A i, j \in Invoices :
              i # j /\ (SameBill(i, j) /\ Overlooks(i, j) /\ Overlooks(j, i))'
                 => \/ SameBill(i, j) /\ Overlooks(i, j) /\ Overlooks(j, i)
                    \/ Reviewed(i)' \/ Reviewed(j)'
    PROVE  NoMutualOversight'
  BY DEF NoMutualOversight

LEMMA OversightStep ==
    ASSUME TypeOK, SessionOK, Tokens, RowsInv, NoMutualOversight, [Next]_vars
    PROVE  NoMutualOversight'
  <1>processes. Workers \subseteq Processes /\ Clients \subseteq Processes
    BY DEF Processes
  <1>now. RowsFollowStatus /\ LoadedIsCurrent /\ DecisionLogged /\ \A i \in Invoices : RowsOK(i)
    BY DEF RowsInv, RowsFollowStatus, RowsOK
  <1>scanner. \A q \in Processes : sess[q].pc = "scanning" =>
                 /\ sess[q].inv \in Invoices /\ Holder(q, "validate_invoice", sess[q].inv)
                 /\ sess[q].reading = reading[sess[q].inv] /\ sess[q].match = match[sess[q].inv]
    BY <1>now DEF SessionOK, GoodSession, LoadedIsCurrent, Holder
  <1>list. ASSUME NEW w \in Workers, ListRivals(w)
           PROVE  NoMutualOversight'
    <2>1. PICK s : s = sess[w]
      OBVIOUS
    <2>2. /\ s.pc = "loaded" /\ s.job = "validate_invoice" /\ UNCHANGED database
          /\ sess' = [sess EXCEPT ![w] = [s EXCEPT !.pc = "scanning", !.rivals = Rivals(s),
                                                   !.verdict = "passed"]]
      BY <1>list, <2>1 DEF ListRivals, Doing
    <2>3. /\ s \in Session /\ s.inv \in Invoices
          /\ s.reading = reading[s.inv] /\ s.match = match[s.inv]
      BY <2>1, <2>2, <1>now, <1>processes DEF TypeOK, SessionOK, GoodSession, LoadedIsCurrent
    <2>4. /\ sess'[w].inv = s.inv /\ sess'[w].rivals = Rivals(s)
          /\ \A q \in Processes : q # w => sess'[q] = sess[q]
      BY <2>2, <2>3, <1>processes DEF TypeOK, Session
    <2>5. \A i, j \in Invoices : Overlooks(i, j)' =>
             Overlooks(i, j) \/ (i = s.inv /\ j \notin Rivals(s))
      BY <2>2, <2>4 DEF Overlooks, database
    <2>6. \A j \in Invoices : j # s.inv /\ SameBill(s.inv, j) => j \in Rivals(s)
      <3>1. SUFFICES ASSUME NEW j \in Invoices, j # s.inv, SameBill(s.inv, j)
                     PROVE  j \in Rivals(s)
        OBVIOUS
      <3>2. ChecksDuplicates(s)
        BY <2>3, <3>1, PipelineAssumption DEF ChecksDuplicates, SameBill
      <3>3. s.match.vendor \in matchedVendors[j]
        BY <2>3, <3>1, <1>now DEF SameBill, RowsOK
      <3> QED BY <3>1, <3>2, <3>3 DEF Rivals
    <2>7. \A i, j \in Invoices : SameBill(i, j)' => SameBill(i, j) /\ SameBill(j, i)
      BY <2>2 DEF SameBill, database
    <2>8. \A i \in Invoices : Reviewed(i)' <=> Reviewed(i)
      BY <2>2 DEF Reviewed, Logged, database
    <2> QED BY <2>3, <2>5, <2>6, <2>7, <2>8, OversightFrame
  <1>get. ASSUME NEW w \in Workers, NEW k \in Invoices, GetRival(w, k)
          PROVE  NoMutualOversight'
    <2>1. PICK s : s = sess[w]
      OBVIOUS
    <2>2. /\ s.pc = "scanning" /\ s.rival = None /\ UNCHANGED database
          /\ sess' = [sess EXCEPT ![w] =
                 [s EXCEPT !.rivals = @ \ {k}, !.rival = IF IsLive(k) THEN k ELSE None]]
      BY <1>get, <2>1 DEF GetRival
    <2>3. s \in Session /\ s.inv \in Invoices
      BY <2>1, <2>2, <1>scanner, <1>processes DEF TypeOK
    <2>4. /\ sess'[w].inv = s.inv /\ sess'[w].rivals = s.rivals \ {k}
          /\ sess'[w].verdict = s.verdict /\ sess'[w].rival = IF IsLive(k) THEN k ELSE None
          /\ \A q \in Processes : q # w => sess'[q] = sess[q]
      BY <2>2, <2>3, <1>processes DEF TypeOK, Session
    <2>5. \A i, j \in Invoices : Overlooks(i, j)' =>
             Overlooks(i, j) \/ (i = s.inv /\ j = k /\ ~IsLive(k))
      <3>1. SUFFICES ASSUME NEW i \in Invoices, NEW j \in Invoices, Overlooks(i, j)'
                     PROVE  Overlooks(i, j) \/ (i = s.inv /\ j = k /\ ~IsLive(k))
        OBVIOUS
      <3>2. CASE validation'[i] = "passed"
        BY <3>2, <2>2 DEF Overlooks, database
      <3>3. ASSUME NEW q \in Processes, sess'[q].pc = "scanning", sess'[q].inv = i,
                   sess'[q].verdict = "passed", j \notin sess'[q].rivals \cup {sess'[q].rival}
            PROVE  Overlooks(i, j) \/ (i = s.inv /\ j = k /\ ~IsLive(k))
        <4>1. CASE q # w
          BY <3>3, <4>1, <2>4 DEF Overlooks
        <4>2. CASE q = w
          <5>1. i = s.inv /\ s.verdict = "passed" /\ (j = k => ~IsLive(k))
            BY <3>3, <4>2, <2>4
          <5>2. j # k => j \notin s.rivals \cup {s.rival}
            BY <3>1, <3>3, <4>2, <2>2, <2>4, PipelineAssumption
          <5> QED BY <5>1, <5>2, <2>1, <2>2, <1>processes DEF Overlooks
        <4> QED BY <4>1, <4>2
      <3> QED BY <3>1, <3>2, <3>3 DEF Overlooks
    <2>6. SameBill(s.inv, k) /\ ~IsLive(k) => Reviewed(k)
      <3>1. SUFFICES ASSUME SameBill(s.inv, k), ~IsLive(k) PROVE Reviewed(k)
        OBVIOUS
      <3>2. status[k] \in {"failed", "rejected"}
        BY <3>1 DEF IsLive
      <3>3. status[k] # "failed"
        BY <3>1, <1>now DEF SameBill, RowsOK
      <3> QED BY <3>2, <3>3, <1>now DEF DecisionLogged
    <2>7. \A i, j \in Invoices : SameBill(i, j)' => SameBill(i, j) /\ SameBill(j, i)
      BY <2>2 DEF SameBill, database
    <2>8. \A i \in Invoices : Reviewed(i)' <=> Reviewed(i)
      BY <2>2 DEF Reviewed, Logged, database
    <2> QED BY <2>3, <2>5, <2>6, <2>7, <2>8, OversightFrame
  <1>read. ASSUME NEW w \in Workers, ReadRival(w)
           PROVE  NoMutualOversight'
    <2>1. PICK s : s = sess[w]
      OBVIOUS
    <2>2. /\ s.pc = "scanning" /\ s.rival # None /\ UNCHANGED database
          /\ sess' = [sess EXCEPT ![w] =
                 [s EXCEPT !.rival = None,
                           !.verdict = IF HasNumber(s.rival, s.reading.number)
                                       THEN "failed" ELSE @]]
      BY <1>read, <2>1 DEF ReadRival
    <2>3. /\ s \in Session /\ s.inv \in Invoices /\ s.rival \in Invoices
          /\ s.reading = reading[s.inv]
      BY <2>1, <2>2, <1>scanner, <1>processes DEF TypeOK, Session
    <2>4. /\ sess'[w].inv = s.inv /\ sess'[w].rivals = s.rivals
          /\ sess'[w].verdict = "passed" =>
                ~HasNumber(s.rival, s.reading.number) /\ s.verdict = "passed"
          /\ \A q \in Processes : q # w => sess'[q] = sess[q]
      BY <2>2, <2>3, <1>processes DEF TypeOK, Session
    <2>5. \A i, j \in Invoices : Overlooks(i, j)' =>
             \/ Overlooks(i, j)
             \/ i = s.inv /\ j = s.rival /\ ~HasNumber(j, s.reading.number)
      BY <2>1, <2>2, <2>4, <1>processes DEF Overlooks, database
    <2>6. SameBill(s.inv, s.rival) => HasNumber(s.rival, s.reading.number)
      BY <2>3 DEF SameBill, HasNumber
    <2>7. \A i, j \in Invoices : SameBill(i, j)' => SameBill(i, j) /\ SameBill(j, i)
      BY <2>2 DEF SameBill, database
    <2>8. \A i \in Invoices : Reviewed(i)' <=> Reviewed(i)
      BY <2>2 DEF Reviewed, Logged, database
    <2> QED BY <2>3, <2>5, <2>6, <2>7, <2>8, OversightFrame
  <1>keep. ASSUME NoNewScan, NEW i \in Invoices, NEW j \in Invoices, Overlooks(i, j)',
                  validation'[i] = "passed" => Overlooks(i, j)
           PROVE  Overlooks(i, j)
    BY <1>keep DEF NoNewScan, Overlooks
  <1>frame. ASSUME NoNewScan, UNCHANGED <<reading, match, validation>>,
                   \A i \in Invoices : Reviewed(i) => Reviewed(i)'
            PROVE  NoMutualOversight'
    <2>1. \A i, j \in Invoices : Overlooks(i, j)' => Overlooks(i, j)
      BY <1>keep, <1>frame DEF Overlooks
    <2>2. \A i, j \in Invoices : SameBill(i, j)' => SameBill(i, j)
      BY <1>frame DEF SameBill
    <2> QED BY <2>1, <2>2, <1>frame, OversightFrame
  <1>logged. ASSUME NEW p \in Processes, NEW inv \in Invoices, NEW new \in Statuses,
                    CommitOf(p, inv, new)
             PROVE  \A i \in Invoices : Reviewed(i) => Reviewed(i)'
    BY <1>logged DEF CommitOf, Reviewed
  <1>commits. ASSUME CommitStep PROVE \A i \in Invoices : Reviewed(i) => Reviewed(i)'
    BY <1>commits, <1>logged, CommitIsCommitOf
  <1>still. ASSUME NoNewScan, UNCHANGED database PROVE NoMutualOversight'
    BY <1>still, <1>frame DEF database, Reviewed, Logged
  <1>upload. ASSUME NoNewScan, NEW c \in Clients, NEW i \in Invoices, Upload(c, i)
             PROVE  NoMutualOversight'
    BY <1>upload, <1>frame DEF Upload, Reviewed, Logged
  <1>rowless. ASSUME NoNewScan, CommitStep,
                     \/ \E w \in Workers : FailExtraction(w) \/ CompleteApproval(w)
                                           \/ CompleteExport(w)
                     \/ \E c \in Clients : RecordDecision(c)
              PROVE  NoMutualOversight'
    BY <1>rowless, <1>frame, <1>commits
    DEF FailExtraction, CompleteApproval, CompleteExport, RecordDecision
  <1>extraction. ASSUME NoNewScan, CommitStep, NEW w \in Workers, NEW r \in Readings,
                        CompleteExtraction(w, r)
                 PROVE  NoMutualOversight'
    <2>1. PICK inv \in Invoices : inv = sess[w].inv
      BY <1>extraction, <1>processes DEF CompleteExtraction, Doing, SessionOK, GoodSession
    <2>2. status[inv] = "received"
      BY <2>1, <1>extraction, <1>processes, StageStart
      DEF CompleteExtraction, Doing, StartStatuses, PreTasks, Tasks
    <2>3. /\ UNCHANGED <<match, validation>>
          /\ \A i \in Invoices : i # inv => reading'[i] = reading[i]
      BY <2>1, <1>extraction DEF CompleteExtraction, TypeOK
    <2>4. match'[inv] = None
      BY <2>2, <2>3, <1>now DEF RowsOK
    <2>5. \A i, j \in Invoices : SameBill(i, j)' => SameBill(i, j)
      BY <2>3, <2>4 DEF SameBill
    <2>6. \A i, j \in Invoices : Overlooks(i, j)' => Overlooks(i, j)
      BY <2>3, <1>keep, <1>extraction DEF Overlooks
    <2> QED BY <2>5, <2>6, <1>commits, <1>extraction, OversightFrame
  <1>matching. ASSUME NoNewScan, CommitStep, NEW w \in Workers, NEW m \in Matches,
                      CompleteMatching(w, m)
               PROVE  NoMutualOversight'
    <2>1. PICK inv \in Invoices : inv = sess[w].inv
      BY <1>matching, <1>processes DEF CompleteMatching, Doing, SessionOK, GoodSession
    <2>2. status[inv] = "extracted"
      BY <2>1, <1>matching, <1>processes, StageStart
      DEF CompleteMatching, Doing, StartStatuses, PreTasks, Tasks
    <2>3. /\ UNCHANGED <<reading, validation>>
          /\ \A i \in Invoices : i # inv => match'[i] = match[i]
      BY <2>1, <1>matching DEF CompleteMatching, TypeOK
    <2>4. \A i, j \in Invoices : Overlooks(i, j)' => Overlooks(i, j)
      BY <2>3, <1>keep, <1>matching DEF Overlooks
    <2>5. \A j \in Invoices : ~Overlooks(inv, j)
      <3>1. validation[inv] = "none"
        BY <2>2, <1>now DEF RowsOK
      <3>2. \A q \in Processes : ~Holder(q, "validate_invoice", inv)
        BY <2>2 DEF Tokens, OneToken, StartStatuses, PreTasks, Tasks
      <3> QED BY <3>1, <3>2, <1>scanner DEF Overlooks
    <2>6. \A i, j \in Invoices : i # inv /\ j # inv /\ SameBill(i, j)' => SameBill(i, j)
      BY <2>3 DEF SameBill
    <2> QED BY <2>4, <2>5, <2>6, <1>commits, <1>matching, OversightFrame
  <1>validation. ASSUME NoNewScan, CommitStep, NEW w \in Workers, NEW passed \in {"passed", "failed"},
                        CompleteValidation(w, passed)
                 PROVE  NoMutualOversight'
    <2>1. PICK inv \in Invoices : inv = sess[w].inv
      BY <1>validation, <1>processes DEF CompleteValidation, SessionOK, GoodSession
    <2>2. /\ UNCHANGED <<reading, match>>
          /\ \A i \in Invoices : i # inv => validation'[i] = validation[i]
          /\ validation'[inv] \in Latest(validation[inv], passed, "none")
          /\ sess[w].pc = "scanning" /\ sess[w].rivals = {} /\ sess[w].rival = None
          /\ passed = "passed" => sess[w].verdict = "passed"
      BY <2>1, <1>validation DEF CompleteValidation, TypeOK
    <2>3. \A j \in Invoices : validation'[inv] = "passed" => Overlooks(inv, j)
      BY <2>1, <2>2, <1>processes, PipelineAssumption DEF Latest, Overlooks
    <2>4. \A i, j \in Invoices : validation'[i] = "passed" => Overlooks(i, j)
      BY <2>2, <2>3 DEF Overlooks
    <2>5. \A i, j \in Invoices : Overlooks(i, j)' => Overlooks(i, j)
      BY <2>4, <1>keep, <1>validation
    <2>6. \A i, j \in Invoices : SameBill(i, j)' => SameBill(i, j)
      BY <2>2 DEF SameBill
    <2> QED BY <2>5, <2>6, <1>commits, <1>validation, OversightFrame
  <1>commit. ASSUME NoNewScan, CommitStep PROVE NoMutualOversight'
    BY <1>commit, <1>rowless, <1>extraction, <1>matching, <1>validation DEF CommitStep
  <1>other. ASSUME NoNewScan PROVE NoMutualOversight'
    BY <1>other, StepKinds, <1>still, <1>upload, <1>commit DEF Quiet, Load
  <1> QED BY ScanKinds, <1>list, <1>get, <1>read, <1>other
-----------------------------------------------------------------------------
\* The inductive invariant behind NoDoubleAutoApproval.
PipelineInv == TypeOK /\ SessionOK /\ Tokens /\ RowsInv /\ NoMutualOversight

LEMMA PipelineInvInit == ASSUME Init PROVE PipelineInv
  <1>1. TypeOK /\ SessionOK
    BY TypeInit
  <1>2. \A p \in Processes, t \in Tasks \cup Decisions, i \in Invoices : ~Holder(p, t, i)
    BY DEF Init, Holder, Idle
  <1>3. Tokens
    BY <1>2 DEF Init, Tokens, OneToken, DecidedFirst, PreTasks, Tasks
  <1>4. \A i \in Invoices, s \in Statuses : ~Logged(i, s)
    BY DEF Init, Logged, LeadsTo
  <1>5. RowsInv
    BY <1>2, <1>4 DEF Init, RowsInv, RowsFollowStatus, LoadedIsCurrent, DecisionLogged,
                      AutoApproved, Reviewed, Decided, Idle, Statuses
  <1>6. NoMutualOversight
    BY DEF Init, NoMutualOversight, SameBill
  <1> QED BY <1>1, <1>3, <1>5, <1>6 DEF PipelineInv

\* Until a message is first delivered twice, two invoices with the same vendor
\* and invoice number are never both approved without a human, whatever the
\* number of workers, the order of their steps, and the crashes in between.
THEOREM NoBillApprovedTwice == Spec => [](OnceDelivered => NoDoubleAutoApproval)
  <1> DEFINE Inv == TypeOK /\ SessionOK /\ (OnceDelivered => PipelineInv)
  <1>1. Init => Inv
    BY PipelineInvInit DEF PipelineInv
  <1>2. Inv /\ [Next]_vars => Inv'
    BY TypeStep, OnceBefore, TokenStep, RowsStep, OversightStep DEF PipelineInv
  <1>3. PipelineInv => NoDoubleAutoApproval
    <2>1. SUFFICES ASSUME PipelineInv, NEW i \in Invoices, NEW j \in Invoices, i # j,
                          SameBill(i, j), AutoApproved(i), AutoApproved(j)
                   PROVE  FALSE
      BY DEF NoDoubleAutoApproval
    <2>2. /\ validation[i] = "passed" /\ validation[j] = "passed"
          /\ ~Reviewed(i) /\ ~Reviewed(j)
      BY <2>1 DEF PipelineInv, RowsInv, DecisionLogged
    <2> QED BY <2>1, <2>2 DEF PipelineInv, NoMutualOversight, Overlooks
  <1>4. Inv => (OnceDelivered => NoDoubleAutoApproval)
    BY <1>3
  <1> HIDE DEF Inv
  <1> QED BY <1>1, <1>2, <1>4, PTL DEF Spec
-----------------------------------------------------------------------------
(* What is exported is what was approved.                                  *)

\* What ExportIsWhatWasApproved says of one artifact.
Truthful(i, a) ==
    /\ a.reading = reading[i] /\ a.match = match[i]
    /\ a.approval # None /\ a.approval.to = a.status
    /\ a.status = "auto_approved" => a.approval.actor = "system" /\ FullyChecked(i)
    /\ a.status = "approved" => a.approval.actor \in Clients

Truths == \A i \in Invoices : \A k \in DOMAIN artifacts[i] : Truthful(i, artifacts[i][k])

LEMMA TruthsAreEnough ==
    ASSUME TypeOK
    PROVE  Truths => ExportIsWhatWasApproved
  <1>1. ASSUME Truths, NEW i \in Invoices, NEW k \in DOMAIN artifacts[i]
        PROVE  LET a == artifacts[i][k] IN
               a.status = "auto_approved" => a.reading.confidence = "high" /\ a.match # None
                                             /\ a.match.vendor # None /\ a.match.po # None
    BY <1>1 DEF Truths, Truthful, FullyChecked
  <1> QED BY <1>1 DEF Truths, Truthful, FullyChecked, ExportIsWhatWasApproved

ExportState == ApprovalsNamed /\ ExportsKnow /\ ArtifactsAfterDecision /\ Truths

\* Only the put of an artifact changes the storage.
LEMMA ArtifactKinds ==
    ASSUME [Next]_vars
    PROVE  artifacts' = artifacts \/ \E w \in Workers : StoreArtifact(w)
  <1>1. CASE UNCHANGED vars
    BY <1>1 DEF vars
  <1>2. CASE Next
    <2>1. ASSUME NEW w \in Workers, WorkerStep(w)
          PROVE  artifacts' = artifacts \/ StoreArtifact(w)
      <3>1. ASSUME NEW i \in Invoices,
                   \/ \E task \in Tasks : Skip(w, task, i)
                   \/ BeginExtraction(w, i) \/ BeginMatching(w, i) \/ BeginValidation(w, i)
                   \/ BeginApproval(w, i) \/ BeginExport(w, i) \/ GetRival(w, i)
            PROVE  artifacts' = artifacts
        BY <3>1 DEF Begin, Skip, BeginExtraction, BeginMatching, BeginValidation,
                    BeginApproval, BeginExport, GetRival
      <3>2. CASE \/ FlushExtraction(w) \/ FlushMatching(w) \/ FlushExport(w)
                 \/ RaiseLlmError(w) \/ ListRivals(w) \/ ReadRival(w) \/ Send(w)
        BY <3>2 DEF Flush, FlushExtraction, FlushMatching, FlushExport, RaiseLlmError,
                    ListRivals, ReadRival, Send
      <3>3. CASE \/ \E r \in Readings : CompleteExtraction(w, r)
                 \/ FailExtraction(w)
                 \/ \E m \in Matches : CompleteMatching(w, m)
        BY <3>3 DEF CompleteExtraction, FailExtraction, CompleteMatching
      <3>4. CASE \/ \E passed \in {"passed", "failed"} : CompleteValidation(w, passed)
                 \/ CompleteApproval(w) \/ CompleteExport(w)
        BY <3>4 DEF CompleteValidation, CompleteApproval, CompleteExport
      <3> QED BY <2>1, <3>1, <3>2, <3>3, <3>4 DEF WorkerStep
    <2>2. ASSUME NEW c \in Clients, RequestStep(c) \/ RequestArrives(c)
          PROVE  artifacts' = artifacts
      BY <2>2 DEF RequestStep, RequestArrives, Flush, FlushRejection, RecordDecision, Send,
                  Upload, OpenDecision
    <2>3. CASE Failure
      BY <2>3 DEF Failure, Abort, DropSend, Redeliver
    <2> QED BY <1>2, <2>1, <2>2, <2>3 DEF Next
  <1> QED BY <1>1, <1>2

LEMMA ConcatEntries ==
    ASSUME NEW S, NEW s \in Seq(S), NEW t \in Seq(S), NEW k \in DOMAIN (s \o t)
    PROVE  \/ \E l \in DOMAIN s : (s \o t)[k] = s[l]
           \/ \E l \in DOMAIN t : (s \o t)[k] = t[l]
  <1>1. /\ Len(s) \in Nat /\ Len(t) \in Nat /\ DOMAIN s = 1 .. Len(s) /\ DOMAIN t = 1 .. Len(t)
        /\ DOMAIN (s \o t) = 1 .. Len(s) + Len(t)
    OBVIOUS
  <1>2. CASE k \in 1 .. Len(s)
    <2>1. (s \o t)[k] = s[k]
      BY <1>2
    <2> QED BY <1>1, <1>2, <2>1
  <1>3. CASE k \in Len(s) + 1 .. Len(s) + Len(t)
    <2>1. (s \o t)[k] = t[k - Len(s)] /\ k - Len(s) \in 1 .. Len(t)
      BY <1>1, <1>3
    <2> QED BY <1>1, <2>1
  <1> QED BY <1>1, <1>2, <1>3

\* The entries a commit adds are its invoice's, by its actor, along its path.
LEMMA CommitEntries ==
    ASSUME TypeOK, SessionOK, NEW p \in Processes, sess[p].pc # "idle",
           NEW path \in Seq(Statuses), NEW actor \in {"system"} \cup Clients,
           Commit(p, path, actor), NEW i \in Invoices, NEW k \in DOMAIN audit'[i]
    PROVE  \/ \E l \in DOMAIN audit[i] : audit'[i][k] = audit[i][l]
           \/ \E l \in DOMAIN path : audit'[i][k].to = path[l] /\ audit'[i][k].actor = actor
  <1>1. PICK inv \in Invoices : inv = sess[p].inv
    BY DEF SessionOK, GoodSession
  <1> DEFINE from(l) == IF l = 1 THEN sess[p].base ELSE path[l - 1]
             trail == [l \in DOMAIN path |->
                          [from |-> from(l), to |-> path[l], actor |-> actor]]
  <1>2. Advance(inv, sess[p].base, path, actor)
    BY <1>1 DEF Commit
  <1>3. audit' = [audit EXCEPT ![inv] = @ \o trail]
    BY <1>2 DEF Advance
  <1>4. \A l \in DOMAIN path : from(l) \in Statuses /\ path[l] \in Statuses
    BY <1>2, TransitionStatuses DEF Advance
  <1>5. DOMAIN path = 1 .. Len(path) /\ Len(path) \in Nat
    OBVIOUS
  <1>6. trail \in Seq(AuditEntry) /\ DOMAIN trail = DOMAIN path
    BY <1>4, <1>5 DEF AuditEntry
  <1>7. \A l \in DOMAIN path : trail[l].to = path[l] /\ trail[l].actor = actor
    OBVIOUS
  <1> HIDE DEF trail, from
  <1>8. CASE i # inv
    <2>1. audit'[i] = audit[i]
      BY <1>3, <1>8 DEF TypeOK
    <2> QED BY <2>1
  <1>9. CASE i = inv
    <2>1. audit'[i] = audit[i] \o trail /\ audit[i] \in Seq(AuditEntry)
      BY <1>3, <1>9 DEF TypeOK
    <2>2. \/ \E l \in DOMAIN audit[i] : audit'[i][k] = audit[i][l]
          \/ \E l \in DOMAIN trail : audit'[i][k] = trail[l]
      <3> DEFINE old == audit[i]
      <3>1. old \in Seq(AuditEntry) /\ k \in DOMAIN (old \o trail) /\ audit'[i] = old \o trail
        BY <2>1
      <3> HIDE DEF old
      <3>2. \/ \E l \in DOMAIN old : (old \o trail)[k] = old[l]
            \/ \E l \in DOMAIN trail : (old \o trail)[k] = trail[l]
        BY <1>6, <3>1, ConcatEntries
      <3> QED BY <3>1, <3>2 DEF old
    <2> QED BY <1>6, <1>7, <2>2
  <1> QED BY <1>8, <1>9

\* What a commit of new on inv by p tells of approvals.
ApprovalCommit(p, inv, new) ==
    /\ \A i \in Invoices, x \in Statuses : Logged(i, x) => Logged(i, x)'
    /\ \A i \in Invoices : Logged(i, "approved")' <=> Logged(i, "approved") \/ (i = inv /\ new = "approved")
    /\ Logged(inv, new)'
    /\ \A i \in Invoices : \A k \in DOMAIN audit'[i] :
          LET e == audit'[i][k] IN
          \/ \E l \in DOMAIN audit[i] : e = audit[i][l]
          \/ /\ e.to = "auto_approved" => e.actor = "system"
             /\ e.to = "approved" => e.actor \in Clients
    /\ \A i \in Invoices \ {inv} : RowsUnchangedAt(i)
    /\ sess[p].job \notin {"extract_invoice", "match_invoice", "validate_invoice"} => RowsUnchangedAt(inv)
    /\ new = "approved" => sess[p].job \in Decisions
    /\ new = "auto_approved" => /\ Decision(sess[p]) = "auto_approved"
                                /\ sess[p].pc = "loaded" /\ sess[p].job = "approve_invoice"

LEMMA ApprovalOne ==
    ASSUME TypeOK, SessionOK, NEW p \in Processes, sess[p].pc # "idle",
           NEW inv \in Invoices, inv = sess[p].inv, NEW new \in Statuses,
           NEW actor \in {"system"} \cup Clients, Commit(p, <<new>>, actor),
           new = "auto_approved" => /\ Decision(sess[p]) = "auto_approved" /\ actor = "system"
                                    /\ sess[p].pc = "loaded" /\ sess[p].job = "approve_invoice",
           new = "approved" => sess[p].job \in Decisions /\ actor \in Clients,
           \A i \in Invoices \ {inv} : RowsUnchangedAt(i),
           \/ sess[p].job = "validate_invoice"
           \/ RowsUnchangedAt(inv)
    PROVE  ApprovalCommit(p, inv, new)
  <1>1. \A i \in Invoices, x \in Statuses :
           Logged(i, x)' <=> Logged(i, x) \/ (i = inv /\ x = new)
    BY CommitOne
  <1>2. "approved" \in Statuses /\ "auto_approved" \in Statuses
    BY DEF Statuses
  <1>3. ASSUME NEW i \in Invoices, NEW k \in DOMAIN audit'[i]
        PROVE  \/ \E l \in DOMAIN audit[i] : audit'[i][k] = audit[i][l]
               \/ audit'[i][k].to = new /\ audit'[i][k].actor = actor
    <2> DEFINE path == <<new>>
    <2>1. /\ path \in Seq(Statuses) /\ DOMAIN path = {1} /\ path[1] = new
          /\ Commit(p, path, actor)
      OBVIOUS
    <2> HIDE DEF path
    <2> QED BY <2>1, CommitEntries
  <1>4. ASSUME NEW i \in Invoices, NEW k \in DOMAIN audit'[i]
        PROVE  \/ \E l \in DOMAIN audit[i] : audit'[i][k] = audit[i][l]
               \/ /\ audit'[i][k].to = "auto_approved" => audit'[i][k].actor = "system"
                  /\ audit'[i][k].to = "approved" => audit'[i][k].actor \in Clients
    BY <1>3
  <1>5. /\ \A i \in Invoices : Logged(i, "approved")' <=>
              Logged(i, "approved") \/ (i = inv /\ new = "approved")
        /\ Logged(inv, new)'
    BY <1>1, <1>2
  <1> QED BY <1>1, <1>4, <1>5 DEF ApprovalCommit

LEMMA ApprovalTwo ==
    ASSUME TypeOK, SessionOK, NEW p \in Processes, sess[p].pc # "idle",
           NEW inv \in Invoices, inv = sess[p].inv,
           NEW mid \in {"extracting", "matching", "exporting"},
           NEW new \in {"extracted", "failed", "validating", "exported"},
           Commit(p, <<mid, new>>, "system"),
           \A i \in Invoices \ {inv} : RowsUnchangedAt(i),
           \/ sess[p].job \in {"extract_invoice", "match_invoice"}
           \/ RowsUnchangedAt(inv)
    PROVE  ApprovalCommit(p, inv, new)
  <1>1. mid \in Statuses /\ new \in Statuses /\ "approved" \in Statuses
    BY DEF Statuses
  <1>2. \A i \in Invoices, x \in Statuses :
           Logged(i, x)' <=> Logged(i, x) \/ (i = inv /\ x \in {mid, new})
    BY <1>1, CommitTwo
  <1>3. ASSUME NEW i \in Invoices, NEW k \in DOMAIN audit'[i]
        PROVE  \/ \E l \in DOMAIN audit[i] : audit'[i][k] = audit[i][l]
               \/ audit'[i][k].to \in {mid, new}
    <2> DEFINE path == <<mid, new>>
    <2>1. /\ path \in Seq(Statuses) /\ DOMAIN path = {1, 2}
          /\ path[1] = mid /\ path[2] = new /\ Commit(p, path, "system")
      BY <1>1
    <2> HIDE DEF path
    <2> QED BY <2>1, CommitEntries
  <1>4. ASSUME NEW i \in Invoices, NEW k \in DOMAIN audit'[i]
        PROVE  \/ \E l \in DOMAIN audit[i] : audit'[i][k] = audit[i][l]
               \/ /\ audit'[i][k].to = "auto_approved" => audit'[i][k].actor = "system"
                  /\ audit'[i][k].to = "approved" => audit'[i][k].actor \in Clients
    BY <1>3
  <1>5. /\ \A i \in Invoices : Logged(i, "approved")' <=> Logged(i, "approved")
        /\ Logged(inv, new)' /\ new # "approved" /\ new # "auto_approved"
    BY <1>1, <1>2
  <1> QED BY <1>1, <1>2, <1>4, <1>5 DEF ApprovalCommit

LEMMA CommitApproves ==
    ASSUME TypeOK, SessionOK, CommitStep
    PROVE  \E p \in Processes, inv \in Invoices, new \in Statuses :
              CommitOf(p, inv, new) /\ ApprovalCommit(p, inv, new)
  <1> DEFINE Goal == \E p \in Processes, inv \in Invoices, new \in Statuses :
                        CommitOf(p, inv, new) /\ ApprovalCommit(p, inv, new)
  <1>names. /\ {"validated", "auto_approved", "needs_review", "approved", "rejected", "extracted",
                "failed", "validating", "exported"} \subseteq Statuses
            /\ Workers \subseteq Processes /\ Clients \subseteq Processes
    BY DEF Statuses, Processes
  <1>inv. ASSUME NEW p \in Processes, sess[p].pc # "idle"
          PROVE  \E inv \in Invoices : inv = sess[p].inv
    BY <1>inv DEF SessionOK, GoodSession
  <1>rows. ASSUME UNCHANGED <<reading, match, validation>>
           PROVE  \A i \in Invoices : RowsUnchangedAt(i)
    BY <1>rows DEF RowsUnchangedAt
  <1>1. ASSUME NEW w \in Workers, NEW r \in Readings, CompleteExtraction(w, r) PROVE Goal
    <2>0. PICK inv \in Invoices : inv = sess[w].inv
      BY <1>1, <1>inv, <1>names DEF CompleteExtraction, Doing
    <2>1. /\ sess[w].pc # "idle" /\ sess[w].job = "extract_invoice"
          /\ Commit(w, <<"extracting", "extracted">>, "system")
          /\ \A i \in Invoices \ {inv} : RowsUnchangedAt(i)
      BY <2>0, <1>1 DEF CompleteExtraction, Doing, RowsUnchangedAt, TypeOK
    <2>2. ApprovalCommit(w, inv, "extracted")
      BY <2>0, <2>1, <1>names, ApprovalTwo
    <2> QED BY <2>0, <1>1, <2>2, <1>names, CommitKinds
  <1>2. ASSUME NEW w \in Workers, FailExtraction(w) PROVE Goal
    <2>0. PICK inv \in Invoices : inv = sess[w].inv
      BY <1>2, <1>inv, <1>names DEF FailExtraction, Doing
    <2>1. /\ sess[w].pc # "idle" /\ sess[w].job = "extract_invoice"
          /\ Commit(w, <<"extracting", "failed">>, "system")
          /\ \A i \in Invoices : RowsUnchangedAt(i)
      BY <2>0, <1>2, <1>rows DEF FailExtraction, Doing
    <2>2. ApprovalCommit(w, inv, "failed")
      BY <2>0, <2>1, <1>names, ApprovalTwo
    <2> QED BY <2>0, <1>2, <2>2, <1>names, CommitKinds
  <1>3. ASSUME NEW w \in Workers, NEW m \in Matches, CompleteMatching(w, m) PROVE Goal
    <2>0. PICK inv \in Invoices : inv = sess[w].inv
      BY <1>3, <1>inv, <1>names DEF CompleteMatching, Doing
    <2>1. /\ sess[w].pc # "idle" /\ sess[w].job = "match_invoice"
          /\ Commit(w, <<"matching", "validating">>, "system")
          /\ \A i \in Invoices \ {inv} : RowsUnchangedAt(i)
      BY <2>0, <1>3 DEF CompleteMatching, Doing, RowsUnchangedAt, TypeOK
    <2>2. ApprovalCommit(w, inv, "validating")
      BY <2>0, <2>1, <1>names, ApprovalTwo
    <2> QED BY <2>0, <1>3, <2>2, <1>names, CommitKinds
  <1>4. ASSUME NEW w \in Workers, NEW passed \in {"passed", "failed"}, CompleteValidation(w, passed)
        PROVE  Goal
    <2>0. PICK inv \in Invoices : inv = sess[w].inv
      BY <1>4, <1>inv, <1>names DEF CompleteValidation
    <2>1. /\ sess[w].pc # "idle" /\ sess[w].job = "validate_invoice"
          /\ Commit(w, <<"validated">>, "system")
          /\ \A i \in Invoices \ {inv} : RowsUnchangedAt(i)
      BY <2>0, <1>4, <1>names DEF CompleteValidation, SessionOK, GoodSession, RowsUnchangedAt, TypeOK
    <2>2. ApprovalCommit(w, inv, "validated")
      BY <2>0, <2>1, <1>names, ApprovalOne
    <2> QED BY <2>0, <1>4, <2>2, <1>names, CommitKinds
  <1>5. ASSUME NEW w \in Workers, CompleteApproval(w) PROVE Goal
    <2>0. PICK inv \in Invoices : inv = sess[w].inv
      BY <1>5, <1>inv, <1>names DEF CompleteApproval, Doing
    <2>1. PICK new \in {"auto_approved", "needs_review"} : new = Decision(sess[w])
      BY DEF Decision
    <2>2. /\ sess[w].pc = "loaded" /\ sess[w].job = "approve_invoice"
          /\ Commit(w, <<new>>, "system") /\ \A i \in Invoices : RowsUnchangedAt(i)
      BY <2>0, <1>5, <2>1, <1>rows, <1>names DEF CompleteApproval, Doing, SessionOK, GoodSession
    <2>3. ApprovalCommit(w, inv, new)
      BY <2>0, <2>1, <2>2, <1>names, ApprovalOne
    <2>4. CommitOf(w, inv, new)
      BY <2>0, <1>5, <2>1, <1>names, CommitKinds
    <2> QED BY <2>3, <2>4, <1>names
  <1>6. ASSUME NEW w \in Workers, CompleteExport(w) PROVE Goal
    <2>0. PICK inv \in Invoices : inv = sess[w].inv
      BY <1>6, <1>inv, <1>names DEF CompleteExport, Doing
    <2>1. /\ sess[w].pc # "idle"
          /\ Commit(w, <<"exporting", "exported">>, "system")
          /\ \A i \in Invoices : RowsUnchangedAt(i)
      BY <2>0, <1>6, <1>rows, <1>names DEF CompleteExport, Doing, SessionOK, GoodSession
    <2>2. ApprovalCommit(w, inv, "exported")
      BY <2>0, <2>1, <1>names, ApprovalTwo
    <2> QED BY <2>0, <1>6, <2>2, <1>names, CommitKinds
  <1>7. ASSUME NEW c \in Clients, RecordDecision(c) PROVE Goal
    <2>0. PICK inv \in Invoices : inv = sess[c].inv
      BY <1>7, <1>inv, <1>names DEF RecordDecision, Doing
    <2>1. PICK new \in {"approved", "rejected"} : new = Target(sess[c].job)
      BY DEF Target
    <2>2. /\ sess[c].pc # "idle" /\ sess[c].job \in Decisions
          /\ Commit(c, <<new>>, c) /\ \A i \in Invoices : RowsUnchangedAt(i)
      BY <2>0, <1>7, <2>1, <1>rows, <1>names DEF RecordDecision, Doing, SessionOK, GoodSession, Decisions
    <2>3. ApprovalCommit(c, inv, new)
      BY <2>0, <2>2, <1>names, ApprovalOne
    <2>4. CommitOf(c, inv, new)
      BY <2>0, <1>7, <2>1, <1>names, CommitKinds
    <2> QED BY <2>3, <2>4, <1>names
  <1> QED BY <1>1, <1>2, <1>3, <1>4, <1>5, <1>6, <1>7 DEF CommitStep

\* Once an invoice is decided its rows stay, and its log only grows.
DecidedRowsStay ==
    \A i \in Invoices :
        /\ status[i] \in Decided => RowsUnchangedAt(i) /\ status'[i] \in Decided
        /\ \A x \in Statuses : Logged(i, x) => Logged(i, x)'

LEMMA CommitKeepsDecided ==
    ASSUME TypeOK, SessionOK, Tokens, NEW p \in Processes, NEW inv \in Invoices,
           NEW new \in Statuses, CommitOf(p, inv, new), ApprovalCommit(p, inv, new)
    PROVE  DecidedRowsStay
  <1>1. PICK job \in Tasks \cup Decisions : job = sess[p].job
    BY DEF CommitOf, SessionOK, GoodSession
  <1>2. job \in PreTasks => status[inv] \notin Decided
    BY <1>1, StartsApart DEF CommitOf, Holder, Tokens, OneToken
  <1>3. job \notin PreTasks => RowsUnchangedAt(inv) /\ new \in Decided
    BY <1>1, StartsApart DEF ApprovalCommit, CommitOf, PreTasks, Tasks
  <1>4. status' = [status EXCEPT ![inv] = new]
    BY DEF CommitOf
  <1>5. ASSUME NEW i \in Invoices, status[i] \in Decided
        PROVE  RowsUnchangedAt(i) /\ status'[i] \in Decided
    <2>1. CASE i = inv
      BY <1>2, <1>3, <1>4, <1>5, <2>1 DEF TypeOK
    <2>2. CASE i # inv
      BY <1>4, <1>5, <2>2 DEF TypeOK, ApprovalCommit
    <2> QED BY <2>1, <2>2
  <1> QED BY <1>5 DEF DecidedRowsStay, ApprovalCommit

LEMMA NamedCommit ==
    ASSUME TypeOK, SessionOK, Tokens, RowsInv, ApprovalsNamed,
           NEW p \in Processes, NEW inv \in Invoices, NEW new \in Statuses,
           CommitOf(p, inv, new), ApprovalCommit(p, inv, new), DecidedRowsStay
    PROVE  ApprovalsNamed'
  <1>names. {"needs_review", "auto_approved", "approved"} \subseteq Statuses
    BY DEF Statuses
  <1>1. ASSUME NEW i \in Invoices
        PROVE  /\ \A k \in DOMAIN audit'[i] :
                     /\ audit'[i][k].to = "auto_approved" => audit'[i][k].actor = "system"
                     /\ audit'[i][k].to = "approved" => audit'[i][k].actor \in Clients
               /\ Logged(i, "approved")' => Reviewed(i)'
    <2>1. ASSUME NEW k \in DOMAIN audit'[i]
          PROVE  /\ audit'[i][k].to = "auto_approved" => audit'[i][k].actor = "system"
                 /\ audit'[i][k].to = "approved" => audit'[i][k].actor \in Clients
      <3>1. CASE \E l \in DOMAIN audit[i] : audit'[i][k] = audit[i][l]
        BY <3>1 DEF ApprovalsNamed
      <3>2. CASE ~\E l \in DOMAIN audit[i] : audit'[i][k] = audit[i][l]
        BY <2>1, <3>2 DEF ApprovalCommit
      <3> QED BY <3>1, <3>2
    <2>2. Reviewed(i) => Reviewed(i)'
      BY <1>names DEF ApprovalCommit, Reviewed
    <2>3. Logged(i, "approved") => Reviewed(i)
      BY DEF ApprovalsNamed
    <2>4. i = inv /\ new = "approved" => Reviewed(i)
      BY DEF ApprovalCommit, CommitOf, Holder, RowsInv, DecisionLogged
    <2>5. Logged(i, "approved")' => Reviewed(i)
      BY <2>3, <2>4 DEF ApprovalCommit
    <2> QED BY <2>1, <2>2, <2>5
  <1>2. ASSUME NEW i \in Invoices, NEW s \in {"auto_approved", "approved"}, status'[i] = s
        PROVE  Logged(i, s)'
    <2>1. CASE i = inv
      <3>1. new = s
        BY <1>2, <2>1 DEF CommitOf, TypeOK
      <3> QED BY <2>1, <3>1 DEF ApprovalCommit
    <2>2. CASE i # inv
      <3>1. Logged(i, s)
        BY <1>2, <2>2 DEF CommitOf, TypeOK, ApprovalsNamed
      <3> QED BY <1>names, <3>1 DEF ApprovalCommit
    <2> QED BY <2>1, <2>2
  <1>3. ASSUME NEW i \in Invoices, AutoApproved(i)'
        PROVE  FullyChecked(i)'
    <2>1. CASE AutoApproved(i)
      <3>1. FullyChecked(i) /\ status[i] \in Decided
        BY <2>1 DEF ApprovalsNamed, RowsInv, DecisionLogged
      <3> QED BY <3>1 DEF DecidedRowsStay, RowsUnchangedAt, FullyChecked
    <2>2. CASE ~AutoApproved(i)
      <3>1. i = inv /\ new = "auto_approved"
        BY <1>3, <2>2 DEF CommitOf, AutoApproved
      <3>2. /\ Decision(sess[p]) = "auto_approved"
            /\ sess[p].pc = "loaded" /\ sess[p].job = "approve_invoice" /\ sess[p].inv = i
            /\ RowsUnchangedAt(i)
        BY <3>1 DEF ApprovalCommit, CommitOf
      <3>3. /\ sess[p].verdict = "passed" /\ sess[p].reading.confidence = "high"
            /\ sess[p].match # None /\ sess[p].match.vendor # None /\ sess[p].match.po # None
        BY <3>2 DEF Decision
      <3>4. /\ sess[p].reading = reading[i] /\ sess[p].match = match[i]
            /\ sess[p].verdict = validation[i]
        BY <3>2 DEF RowsInv, LoadedIsCurrent
      <3> QED BY <3>2, <3>3, <3>4 DEF FullyChecked, RowsUnchangedAt
    <2> QED BY <2>1, <2>2
  <1>4. ASSUME NEW i \in Invoices, status'[i] \in {"auto_approved", "approved"}
        PROVE  Logged(i, status[i])'
    BY <1>2, <1>4
  <1> QED BY <1>1, <1>3, <1>4 DEF ApprovalsNamed

\* The artifact just put tells the truth.
LEMMA TrueArtifact ==
    ASSUME TypeOK, SessionOK, Tokens, RowsInv, ExportState,
           NEW w \in Workers, StoreArtifact(w), NEW i \in Invoices, i = sess[w].inv
    PROVE  /\ status[i] \in Decided
           /\ \E approval \in DOMAIN audit[i] :
                 LET a == [status |-> sess[w].base, approval |-> audit[i][approval],
                           reading |-> sess[w].reading, match |-> match[i]]
                 IN  /\ artifacts' = [artifacts EXCEPT ![i] = Append(@, a)]
                     /\ a.reading = reading[i]
                     /\ a.approval.to = a.status
                     /\ a.status = "auto_approved" => a.approval.actor = "system" /\ FullyChecked(i)
                     /\ a.status = "approved" => a.approval.actor \in Clients
  <1>1. /\ w \in Processes /\ sess[w].pc = "flushed" /\ sess[w].job = "export_invoice"
        /\ sess[w] \in Session
    BY DEF StoreArtifact, Doing, Processes, TypeOK
  <1>2. status[i] \in Decided
    BY <1>1 DEF Holder, Tokens, DecidedFirst
  <1>3. sess[w].base \in {"auto_approved", "approved"}
    BY <1>1 DEF SessionOK, GoodSession, StartStatuses, Tasks
  <1>4. sess[w].reading = reading[i] /\ Logged(i, sess[w].base)
    BY <1>1 DEF ExportState, ExportsKnow
  <1>5. PICK approval \in LatestApproval(i) :
           artifacts' = [artifacts EXCEPT ![i] = Append(@,
              [status |-> sess[w].base, approval |-> approval,
               reading |-> sess[w].reading, match |-> match[i]])]
    BY DEF StoreArtifact
  <1>6. ApprovalEntries(i) # {}
    BY <1>3, <1>4 DEF ApprovalEntries, Logged, LeadsTo
  <1>7. PICK k \in DOMAIN audit[i] : approval = audit[i][k] /\ audit[i][k].to \in {"auto_approved", "approved"}
    BY <1>5, <1>6 DEF LatestApproval, ApprovalEntries
  <1>8. audit[i][k].to = sess[w].base
    <2>1. sess[w].base = "auto_approved" => ~Logged(i, "approved")
      BY <1>4 DEF RowsInv, DecisionLogged, AutoApproved, ExportState, ApprovalsNamed
    <2>2. sess[w].base = "approved" => ~Logged(i, "auto_approved")
      BY <1>4 DEF RowsInv, DecisionLogged, AutoApproved, ExportState, ApprovalsNamed
    <2>3. Logged(i, audit[i][k].to)
      BY DEF Logged, LeadsTo
    <2> QED BY <1>3, <1>7, <2>1, <2>2, <2>3
  <1>9. /\ sess[w].base = "auto_approved" => audit[i][k].actor = "system" /\ FullyChecked(i)
        /\ sess[w].base = "approved" => audit[i][k].actor \in Clients
    BY <1>4, <1>8 DEF ExportState, ApprovalsNamed, AutoApproved
  <1> QED BY <1>2, <1>4, <1>5, <1>7, <1>8, <1>9

LEMMA ExportStep ==
    ASSUME TypeOK, SessionOK, Tokens, RowsInv, ExportState, [Next]_vars
    PROVE  ExportState'
  <1> DEFINE Kept == ApprovalsNamed' /\ DecidedRowsStay
             Known == ExportsKnow'
  <1>names. {"needs_review", "auto_approved", "approved"} \subseteq Statuses /\ Workers \subseteq Processes
    BY DEF Statuses, Processes
  <1>same. ASSUME UNCHANGED database PROVE Kept
    BY <1>same DEF ExportState, ApprovalsNamed, DecidedRowsStay, RowsUnchangedAt, database, Logged,
                   Reviewed, AutoApproved, FullyChecked
  <1>quiet. ASSUME Quiet PROVE Kept /\ Known
    <2>1. UNCHANGED database
      BY <1>quiet DEF Quiet
    <2>2. ASSUME NEW q \in Processes, sess'[q].pc \notin {"idle", "sending"},
                 sess'[q].job = "export_invoice"
          PROVE  sess'[q].reading = reading'[sess'[q].inv] /\ Logged(sess[q].inv, sess[q].base)
                 /\ sess'[q].inv = sess[q].inv /\ sess'[q].base = sess[q].base
      BY <1>quiet, <2>1, <2>2 DEF Quiet, Idle, ExportState, ExportsKnow, database
    <2>3. \A i, x : Logged(i, x)' <=> Logged(i, x)
      BY <2>1 DEF Logged, database
    <2>4. Known
      BY <2>2, <2>3 DEF ExportsKnow
    <2> QED BY <2>1, <2>4, <1>same
  <1>load. ASSUME NEW p \in Processes, NEW job \in Tasks \cup Decisions, NEW inv \in Invoices,
                  Load(p, job, inv)
           PROVE  Kept /\ Known
    <2>1. UNCHANGED database /\ sess' = [sess EXCEPT ![p] = Loaded(job, inv)]
      BY <1>load DEF Load
    <2>2. job = "export_invoice" => Logged(inv, status[inv])
      BY <1>load DEF Load, StartStatuses, Tasks, ExportState, ApprovalsNamed
    <2>3. \A i, x : Logged(i, x)' <=> Logged(i, x)
      BY <2>1 DEF Logged, database
    <2>4. ASSUME NEW q \in Processes, sess'[q].pc \notin {"idle", "sending"},
                 sess'[q].job = "export_invoice"
          PROVE  sess'[q].reading = reading'[sess'[q].inv] /\ Logged(sess'[q].inv, sess'[q].base)
      <3>1. CASE q = p
        BY <2>1, <2>2, <2>4, <3>1 DEF Loaded, TypeOK, database
      <3>2. CASE q # p
        BY <2>1, <2>4, <3>2 DEF TypeOK, database, ExportState, ExportsKnow
      <3> QED BY <3>1, <3>2
    <2>5. Known
      BY <2>3, <2>4 DEF ExportsKnow
    <2> QED BY <2>1, <2>5, <1>same
  \* The sessions that go on, once the rows of decided invoices have stayed.
  <1>others. ASSUME NEW p \in Processes, DecidedRowsStay,
                    \A q \in Processes : q # p => sess'[q] = sess[q],
                    sess'[p].pc \in {"idle", "sending"}
             PROVE  Known
    <2>1. ASSUME NEW q \in Processes, sess'[q].pc \notin {"idle", "sending"},
                 sess'[q].job = "export_invoice"
          PROVE  sess'[q].reading = reading'[sess'[q].inv] /\ Logged(sess[q].inv, sess[q].base)'
      <3>1. sess'[q] = sess[q]
        BY <1>others, <2>1
      <3>2. PICK i \in Invoices, s \in {"auto_approved", "approved"} :
               i = sess[q].inv /\ s = sess[q].base
        BY <2>1, <3>1 DEF SessionOK, GoodSession, StartStatuses, Tasks
      <3>3. sess[q].reading = reading[i] /\ Logged(i, s)
        BY <2>1, <3>1, <3>2 DEF ExportState, ExportsKnow
      <3>4. status[i] \in Decided
        BY <2>1, <3>1, <3>2 DEF Holder, Tokens, DecidedFirst
      <3>5. reading'[i] = reading[i] /\ Logged(i, s)'
        BY <1>others, <1>names, <3>3, <3>4 DEF DecidedRowsStay, RowsUnchangedAt
      <3> QED BY <3>1, <3>2, <3>3, <3>5 DEF Logged
    <2> QED BY <2>1 DEF ExportsKnow
  <1>upload. ASSUME NEW c \in Clients, NEW inv \in Invoices, Upload(c, inv)
             PROVE  Kept /\ Known
    <2>1. /\ status[inv] = "absent" /\ status' = [status EXCEPT ![inv] = "received"]
          /\ sess' = [sess EXCEPT ![c] = Sending("extract_invoice", inv)] /\ c \in Processes
          /\ UNCHANGED <<audit, reading, match, validation>>
      BY <1>upload DEF Upload, Committed, FollowUp, Chain, Processes
    <2>2. \A i, x : Logged(i, x)' <=> Logged(i, x)
      BY <2>1 DEF Logged
    <2>3. DecidedRowsStay
      BY <2>1, <2>2 DEF DecidedRowsStay, RowsUnchangedAt, Decided, TypeOK
    <2>4. ApprovalsNamed'
      <3>1. ASSUME NEW i \in Invoices, status'[i] \in {"auto_approved", "approved"}
            PROVE  Logged(i, status'[i])
        BY <2>1, <3>1 DEF TypeOK, ExportState, ApprovalsNamed
      <3> QED BY <2>1, <2>2, <3>1 DEF ExportState, ApprovalsNamed, Reviewed, AutoApproved, FullyChecked
    <2>5. Known
      BY <2>1, <2>3, <1>others DEF Sending, TypeOK
    <2> QED BY <2>3, <2>4, <2>5
  <1>commit. ASSUME CommitStep PROVE Kept /\ Known
    <2>1. PICK p \in Processes, inv \in Invoices, new \in Statuses :
             CommitOf(p, inv, new) /\ ApprovalCommit(p, inv, new)
      BY <1>commit, CommitApproves
    <2>2. DecidedRowsStay
      BY <2>1, CommitKeepsDecided
    <2>3. ApprovalsNamed'
      BY <2>1, <2>2, NamedCommit DEF ExportState
    <2>4. sess' = [sess EXCEPT ![p] = Committed(inv, new)]
      BY <2>1 DEF CommitOf
    <2>5. sess'[p].pc \in {"idle", "sending"}
      <3>1. Committed(inv, new).pc \in {"idle", "sending"}
        BY CommittedType DEF Idle, Sending
      <3> QED BY <2>4, <3>1 DEF TypeOK
    <2>6. Known
      BY <2>2, <2>4, <2>5, <1>others DEF TypeOK
    <2> QED BY <2>2, <2>3, <2>6
  <1>1. Kept /\ Known
    BY StepKinds, <1>quiet, <1>load, <1>upload, <1>commit
  <1>2. CASE artifacts' = artifacts
    <2>1. ArtifactsAfterDecision'
      BY <1>1, <1>2 DEF ExportState, ArtifactsAfterDecision, DecidedRowsStay
    <2>2. ASSUME NEW i \in Invoices, NEW k \in DOMAIN artifacts[i]
          PROVE  Truthful(i, artifacts[i][k])'
      <3>1. status[i] \in Decided /\ Truthful(i, artifacts[i][k])
        BY <2>2 DEF ExportState, ArtifactsAfterDecision, Truths
      <3> QED BY <1>1, <1>2, <3>1 DEF Truthful, FullyChecked, DecidedRowsStay, RowsUnchangedAt
    <2> QED BY <1>1, <1>2, <2>1, <2>2 DEF ExportState, Truths
  <1>3. ASSUME NEW w \in Workers, StoreArtifact(w)
        PROVE  ArtifactsAfterDecision' /\ Truths'
    <2>1. PICK i \in Invoices : i = sess[w].inv
      BY <1>3, <1>names DEF StoreArtifact, Doing, SessionOK, GoodSession
    <2>2. PICK a : /\ artifacts' = [artifacts EXCEPT ![i] = Append(@, a)]
                   /\ status[i] \in Decided /\ Truthful(i, a)
      <3>1. \A l \in DOMAIN audit[i] : audit[i][l] # None
        <4>1. audit[i] \in Seq(AuditEntry)
          BY DEF TypeOK
        <4>2. \A l \in DOMAIN audit[i] : audit[i][l] \in AuditEntry
          BY <4>1
        <4>3. None \notin AuditEntry
          BY PipelineAssumption DEF AuditEntry
        <4> QED BY <4>2, <4>3
      <3>2. PICK l \in DOMAIN audit[i] :
               LET a == [status |-> sess[w].base, approval |-> audit[i][l],
                         reading |-> sess[w].reading, match |-> match[i]]
               IN  /\ artifacts' = [artifacts EXCEPT ![i] = Append(@, a)]
                   /\ a.reading = reading[i]
                   /\ a.approval.to = a.status
                   /\ a.status = "auto_approved" => a.approval.actor = "system" /\ FullyChecked(i)
                   /\ a.status = "approved" => a.approval.actor \in Clients
        BY <1>3, <2>1, TrueArtifact
      <3>3. PICK a : a = [status |-> sess[w].base, approval |-> audit[i][l],
                          reading |-> sess[w].reading, match |-> match[i]]
        OBVIOUS
      <3>4. artifacts' = [artifacts EXCEPT ![i] = Append(@, a)]
        BY <3>2, <3>3
      <3>5. Truthful(i, a)
        BY <3>1, <3>2, <3>3 DEF Truthful
      <3>6. status[i] \in Decided
        BY <1>3, <2>1, TrueArtifact
      <3> QED BY <3>4, <3>5, <3>6
    <2>3. \A j \in Invoices : j # i => artifacts'[j] = artifacts[j]
      BY <2>2 DEF TypeOK
    <2>4. artifacts'[i] = Append(artifacts[i], a) /\ artifacts[i] \in Seq(Artifact)
      BY <2>2 DEF TypeOK
    <2>5. ASSUME NEW k \in DOMAIN artifacts'[i]
          PROVE  artifacts'[i][k] = a \/ (k \in DOMAIN artifacts[i] /\ artifacts'[i][k] = artifacts[i][k])
      BY <2>4, <2>5
    <2>6. /\ status' = status /\ reading' = reading /\ match' = match /\ validation' = validation
      BY <1>3 DEF StoreArtifact, database
    <2>7. ASSUME NEW j \in Invoices, NEW b, Truthful(j, b) PROVE Truthful(j, b)'
      BY <2>6, <2>7 DEF Truthful, FullyChecked
    <2>8. ArtifactsAfterDecision'
      BY <2>2, <2>3, <2>6 DEF ExportState, ArtifactsAfterDecision
    <2>9. ASSUME NEW j \in Invoices, NEW k \in DOMAIN artifacts'[j]
          PROVE  Truthful(j, artifacts[j][k])'
      <3>1. PICK b : b = artifacts'[j][k]
        OBVIOUS
      <3>2. Truthful(j, b)
        <4>1. CASE j = i
          BY <2>2, <2>5, <2>9, <3>1, <4>1 DEF ExportState, Truths
        <4>2. CASE j # i
          BY <2>3, <2>9, <3>1, <4>2 DEF ExportState, Truths
        <4> QED BY <4>1, <4>2
      <3>3. Truthful(j, b)'
        BY <2>7, <3>2
      <3> QED BY <3>1, <3>3 DEF Truthful
    <2> QED BY <2>8, <2>9 DEF Truths
  <1> QED BY <1>1, <1>2, <1>3, ArtifactKinds DEF ExportState

\* Until a message is first delivered twice, every artifact put under exports/
\* carries the data that was approved, and names an approval that really
\* happened, by whoever gave it.
THEOREM ExportAlwaysTrue == Spec => [](OnceDelivered => ExportIsWhatWasApproved)
  <1> DEFINE Inv == TypeOK /\ SessionOK /\ (OnceDelivered => PipelineInv /\ ExportState)
  <1>1. Init => Inv
    <2>1. Init => ExportState
      BY DEF Init, ExportState, ApprovalsNamed, ExportsKnow, ArtifactsAfterDecision, Truths,
             Logged, LeadsTo, AutoApproved, Idle
    <2> QED BY <2>1, PipelineInvInit DEF PipelineInv
  <1>2. Inv /\ [Next]_vars => Inv'
    BY TypeStep, OnceBefore, TokenStep, RowsStep, OversightStep, ExportStep DEF PipelineInv
  <1>3. Inv => (OnceDelivered => ExportIsWhatWasApproved)
    BY TruthsAreEnough DEF PipelineInv, ExportState
  <1> HIDE DEF Inv
  <1> QED BY <1>1, <1>2, <1>3, PTL DEF Spec
-----------------------------------------------------------------------------
(* What a commit writes in the log.                                        *)

\* A trail is a walk of entries from a to b.
Walk(trail, a, b) ==
    /\ trail # <<>> /\ trail[1].from = a /\ trail[Len(trail)].to = b
    /\ \A k \in 1 .. Len(trail) - 1 : trail[k].to = trail[k + 1].from

\* A log with a walk appended.
LEMMA AppendWalk ==
    ASSUME NEW log \in Seq(AuditEntry), NEW trail \in Seq(AuditEntry), NEW a, NEW b,
           Walk(trail, a, b),
           \A k \in 1 .. Len(log) - 1 : log[k].to = log[k + 1].from,
           log # <<>> => log[Len(log)].to = a
    PROVE  LET both == log \o trail IN
           /\ both # <<>> /\ Len(both) \in Nat /\ both[Len(both)].to = b
           /\ both[1] = IF log = <<>> THEN trail[1] ELSE log[1]
           /\ \A k \in 1 .. Len(both) - 1 : both[k].to = both[k + 1].from
  <1> DEFINE both == log \o trail
             m == Len(log)
             n == Len(trail)
  <1>1. m \in Nat /\ n \in Nat /\ n > 0 /\ Len(both) = m + n
    BY DEF Walk
  <1>2. \A k \in 1 .. m : both[k] = log[k]
    OBVIOUS
  <1>3. \A k \in m + 1 .. m + n : both[k] = trail[k - m]
    OBVIOUS
  <1>4. log = <<>> <=> m = 0
    OBVIOUS
  <1> HIDE DEF both
  <1>5. ASSUME NEW k \in 1 .. m + n - 1
        PROVE  both[k].to = both[k + 1].from
    <2>1. CASE k < m
      <3>1. k \in 1 .. m - 1 /\ k \in 1 .. m /\ k + 1 \in 1 .. m
        BY <1>1, <2>1
      <3> QED BY <1>2, <3>1
    <2>2. CASE k = m
      <3>1. both[k] = log[m] /\ log[m].to = a
        BY <1>1, <1>2, <1>4, <2>2
      <3>2. k + 1 \in m + 1 .. m + n /\ k + 1 - m = 1
        BY <1>1, <2>2
      <3>3. both[k + 1] = trail[1]
        BY <1>3, <3>2
      <3> QED BY <3>1, <3>3 DEF Walk
    <2>3. CASE k > m
      <3>1. /\ k \in m + 1 .. m + n /\ k + 1 \in m + 1 .. m + n
            /\ k - m \in 1 .. n - 1 /\ k + 1 - m = (k - m) + 1
        BY <1>1, <2>3
      <3>2. both[k] = trail[k - m] /\ both[k + 1] = trail[(k - m) + 1]
        BY <1>3, <3>1
      <3> QED BY <3>1, <3>2 DEF Walk
    <2> QED BY <1>1, <2>1, <2>2, <2>3
  <1>6. both[m + n] = trail[n]
    <2>1. m + n \in m + 1 .. m + n /\ m + n - m = n
      BY <1>1
    <2> QED BY <1>3, <2>1
  <1>7. both[1] = IF log = <<>> THEN trail[1] ELSE log[1]
    <2>1. CASE m = 0
      <3>1. 1 \in m + 1 .. m + n /\ 1 - m = 1
        BY <1>1, <2>1
      <3> QED BY <1>3, <1>4, <2>1, <3>1
    <2>2. CASE m # 0
      <3>1. 1 \in 1 .. m
        BY <1>1, <2>2
      <3> QED BY <1>2, <1>4, <2>2, <3>1
    <2> QED BY <2>1, <2>2
  <1>8. both # <<>>
    BY <1>1 DEF both
  <1>9. both[Len(both)].to = b
    BY <1>1, <1>6 DEF Walk
  <1> QED BY <1>1, <1>5, <1>7, <1>8, <1>9 DEF both

\* Process p appends trail to the log of inv, as actor, in a legal walk to new.
Traced(p, inv, new, actor, trail) ==
    /\ trail \in Seq(AuditEntry) /\ Walk(trail, sess[p].base, new)
    /\ \A k \in DOMAIN trail : trail[k].actor = actor
    /\ audit' = [audit EXCEPT ![inv] = @ \o trail]
    /\ \E first : CanTransition(sess[p].base, first)

\* Process p commits new on inv, as actor, with trail in the log.
Writes(p, inv, new, actor, trail) ==
    /\ CommitOf(p, inv, new) /\ Traced(p, inv, new, actor, trail)
    /\ IF sess[p].job \in Decisions THEN actor \in Clients ELSE actor = "system"
    /\ IF sess[p].job = "export_invoice"
       THEN /\ new = "exported"
            /\ exports' = [exports EXCEPT ![inv] = @ \cup {Len(artifacts[inv])}]
       ELSE exports' = exports

LEMMA CommitTrail ==
    ASSUME TypeOK, SessionOK, NEW p \in Processes, sess[p].pc # "idle",
           NEW inv \in Invoices, inv = sess[p].inv, NEW path \in Seq(Statuses), path # <<>>,
           NEW actor \in {"system"} \cup Clients, Commit(p, path, actor)
    PROVE  \E trail \in Seq(AuditEntry) : Traced(p, inv, path[Len(path)], actor, trail)
  <1> DEFINE from(k) == IF k = 1 THEN sess[p].base ELSE path[k - 1]
             trail == [k \in DOMAIN path |->
                          [from |-> from(k), to |-> path[k], actor |-> actor]]
  <1>1. Advance(inv, sess[p].base, path, actor)
    BY DEF Commit
  <1>2. /\ DOMAIN path = 1 .. Len(path) /\ Len(path) \in DOMAIN path /\ 1 \in DOMAIN path
        /\ Len(path) \in Nat
    OBVIOUS
  <1>3. \A k \in DOMAIN path : from(k) \in Statuses /\ path[k] \in Statuses
    BY <1>1, TransitionStatuses DEF Advance
  <1>4. trail \in Seq(AuditEntry) /\ Len(trail) = Len(path)
    BY <1>2, <1>3 DEF AuditEntry
  <1>5. Walk(trail, sess[p].base, path[Len(path)])
    <2>1. trail[1].from = sess[p].base /\ trail[Len(trail)].to = path[Len(path)]
      BY <1>2, <1>4
    <2>2. ASSUME NEW k \in 1 .. Len(trail) - 1
          PROVE  trail[k].to = trail[k + 1].from
      <3>1. k \in DOMAIN path /\ k + 1 \in DOMAIN path /\ k + 1 # 1 /\ (k + 1) - 1 = k
        BY <1>2, <1>4
      <3> QED BY <3>1
    <2> HIDE DEF trail
    <2>3. trail # <<>>
      BY <1>2, <1>4
    <2> QED BY <1>4, <2>1, <2>2, <2>3 DEF Walk
  <1>6. \A k \in DOMAIN trail : trail[k].actor = actor
    OBVIOUS
  <1>7. audit' = [audit EXCEPT ![inv] = @ \o trail]
    BY <1>1 DEF Advance
  <1>8. CanTransition(sess[p].base, path[1])
    BY <1>1, <1>2 DEF Advance
  <1> HIDE DEF trail
  <1> QED BY <1>4, <1>5, <1>6, <1>7, <1>8 DEF Traced

LEMMA CommitWrites ==
    ASSUME TypeOK, SessionOK, CommitStep
    PROVE  \E p \in Processes, inv \in Invoices, new \in Statuses,
              actor \in {"system"} \cup Clients, trail \in Seq(AuditEntry) :
                 Writes(p, inv, new, actor, trail)
  <1> DEFINE Goal == \E p \in Processes, inv \in Invoices, new \in Statuses,
                        actor \in {"system"} \cup Clients, trail \in Seq(AuditEntry) :
                           Writes(p, inv, new, actor, trail)
  <1>names. /\ {"validated", "auto_approved", "needs_review", "approved", "rejected", "extracted",
                "failed", "validating", "exported", "extracting", "matching",
                "exporting"} \subseteq Statuses
            /\ Workers \subseteq Processes /\ Clients \subseteq Processes
            /\ \A task \in Tasks : task \notin Decisions
    BY DEF Statuses, Processes, Tasks, Decisions
  \* The two shapes a stage's path has.
  <1>one. ASSUME NEW p \in Processes, NEW new \in Statuses, NEW actor \in {"system"} \cup Clients,
                 Commit(p, <<new>>, actor), CommitOf(p, sess[p].inv, new), exports' = exports,
                 sess[p].job # "export_invoice",
                 IF sess[p].job \in Decisions THEN actor \in Clients ELSE actor = "system"
          PROVE  Goal
    <2> DEFINE path == <<new>>
    <2>1. path \in Seq(Statuses) /\ path # <<>> /\ path[Len(path)] = new /\ Commit(p, path, actor)
      BY <1>one
    <2> HIDE DEF path
    <2>2. PICK inv \in Invoices : inv = sess[p].inv
      BY <1>one DEF CommitOf
    <2>3. PICK trail \in Seq(AuditEntry) : Traced(p, inv, path[Len(path)], actor, trail)
      <3>1. sess[p].pc # "idle"
        BY <1>one DEF CommitOf
      <3> QED BY <2>1, <2>2, <3>1, CommitTrail
    <2>4. Writes(p, inv, new, actor, trail)
      BY <1>one, <2>1, <2>2, <2>3 DEF Writes
    <2> QED BY <2>4
  <1>two. ASSUME NEW p \in Processes, NEW mid \in Statuses, NEW new \in Statuses,
                 Commit(p, <<mid, new>>, "system"), CommitOf(p, sess[p].inv, new),
                 sess[p].job \notin Decisions,
                 IF sess[p].job = "export_invoice"
                 THEN /\ new = "exported"
                      /\ exports' = [exports EXCEPT ![sess[p].inv] = @ \cup {Len(artifacts[sess[p].inv])}]
                 ELSE exports' = exports
          PROVE  Goal
    <2> DEFINE path == <<mid, new>>
    <2>1. path \in Seq(Statuses) /\ path # <<>> /\ path[Len(path)] = new /\ Commit(p, path, "system")
      BY <1>two
    <2> HIDE DEF path
    <2>2. PICK inv \in Invoices : inv = sess[p].inv
      BY <1>two DEF CommitOf
    <2>3. PICK trail \in Seq(AuditEntry) : Traced(p, inv, path[Len(path)], "system", trail)
      <3>1. sess[p].pc # "idle"
        BY <1>two DEF CommitOf
      <3> QED BY <2>1, <2>2, <3>1, CommitTrail
    <2>4. Writes(p, inv, new, "system", trail)
      BY <1>two, <2>1, <2>2, <2>3 DEF Writes
    <2> QED BY <2>4
  <1>1. ASSUME NEW w \in Workers, NEW r \in Readings, CompleteExtraction(w, r) PROVE Goal
    BY <1>1, <1>two, <1>names, CommitKinds DEF CompleteExtraction, Doing, Tasks
  <1>2. ASSUME NEW w \in Workers, FailExtraction(w) PROVE Goal
    BY <1>2, <1>two, <1>names, CommitKinds DEF FailExtraction, Doing, Tasks
  <1>3. ASSUME NEW w \in Workers, NEW m \in Matches, CompleteMatching(w, m) PROVE Goal
    BY <1>3, <1>two, <1>names, CommitKinds DEF CompleteMatching, Doing, Tasks
  <1>4. ASSUME NEW w \in Workers, NEW passed \in {"passed", "failed"}, CompleteValidation(w, passed)
        PROVE  Goal
    <2>1. sess[w].job = "validate_invoice" /\ sess[w].job \notin Decisions
      BY <1>4, <1>names DEF CompleteValidation, SessionOK, GoodSession, Tasks
    <2> QED BY <1>4, <2>1, <1>one, <1>names, CommitKinds DEF CompleteValidation
  <1>5. ASSUME NEW w \in Workers, CompleteApproval(w) PROVE Goal
    <2>1. PICK new \in {"auto_approved", "needs_review"} : new = Decision(sess[w])
      BY DEF Decision
    <2>2. Commit(w, <<new>>, "system") /\ CommitOf(w, sess[w].inv, new)
      BY <1>5, <2>1, <1>names, CommitKinds DEF CompleteApproval
    <2>3. sess[w].job = "approve_invoice" /\ sess[w].job \notin Decisions /\ exports' = exports
      BY <1>5, <1>names DEF CompleteApproval, Doing, Tasks
    <2> QED BY <2>2, <2>3, <1>one, <1>names
  <1>6. ASSUME NEW w \in Workers, CompleteExport(w) PROVE Goal
    BY <1>6, <1>two, <1>names, CommitKinds DEF CompleteExport, Doing, Tasks
  <1>7. ASSUME NEW c \in Clients, RecordDecision(c) PROVE Goal
    <2>1. PICK new \in {"approved", "rejected"} : new = Target(sess[c].job)
      BY DEF Target
    <2>2. Commit(c, <<new>>, c) /\ CommitOf(c, sess[c].inv, new)
      BY <1>7, <2>1, <1>names, CommitKinds DEF RecordDecision
    <2>3. sess[c].job \in Decisions /\ sess[c].job # "export_invoice" /\ exports' = exports
      BY <1>7 DEF RecordDecision, Doing, Decisions
    <2> QED BY <2>2, <2>3, <1>one, <1>names
  <1> QED BY <1>1, <1>2, <1>3, <1>4, <1>5, <1>6, <1>7 DEF CommitStep

\* Entries are only added: what a log has it keeps, and what comes is new.
LEMMA GrownLog ==
    ASSUME NEW log \in Seq(AuditEntry), NEW trail \in Seq(AuditEntry)
    PROVE  LET both == log \o trail IN
           /\ \A k \in DOMAIN log : k \in DOMAIN both /\ both[k] = log[k]
           /\ trail # <<>> => \E k \in DOMAIN both \ DOMAIN log : both[k] = trail[1]
           /\ trail # <<>> => \E k \in DOMAIN both \ DOMAIN log : both[k] = trail[Len(trail)]
  <1> DEFINE both == log \o trail
  <1>1. /\ Len(log) \in Nat /\ Len(trail) \in Nat /\ Len(both) = Len(log) + Len(trail)
        /\ DOMAIN log = 1 .. Len(log) /\ DOMAIN both = 1 .. Len(both)
    OBVIOUS
  <1>2. \A k \in 1 .. Len(log) : both[k] = log[k]
    OBVIOUS
  <1>3. ASSUME trail # <<>>
        PROVE  \E k \in DOMAIN both \ DOMAIN log : both[k] = trail[1]
    <2>1. Len(trail) > 0
      BY <1>3
    <2>2. both[Len(log) + 1] = trail[1]
      BY <2>1
    <2> QED BY <1>1, <2>1, <2>2
  <1>5. ASSUME trail # <<>>
        PROVE  \E k \in DOMAIN both \ DOMAIN log : both[k] = trail[Len(trail)]
    <2>1. Len(trail) > 0
      BY <1>5
    <2>2. both[Len(log) + Len(trail)] = trail[Len(trail)]
      BY <2>1
    <2> QED BY <1>1, <2>1, <2>2
  <1> HIDE DEF both
  <1>4. \A k \in DOMAIN log : k \in DOMAIN both /\ both[k] = log[k]
    BY <1>1, <1>2
  <1> QED BY <1>3, <1>4, <1>5 DEF both

LEMMA EntriesStay ==
    ASSUME TypeOK, SessionOK, [Next]_vars, NEW i \in Invoices
    PROVE  \A k \in DOMAIN audit[i] : k \in DOMAIN audit'[i] /\ audit'[i][k] = audit[i][k]
  <1>1. \/ audit' = audit
        \/ \E trail \in Seq(AuditEntry), inv \in Invoices : audit' = [audit EXCEPT ![inv] = @ \o trail]
    <2>1. CASE CommitStep
      BY <2>1, CommitWrites DEF Writes, Traced
    <2>2. CASE ~CommitStep
      BY <2>2, StepKinds DEF Quiet, Load, Upload, database
    <2> QED BY <2>1, <2>2
  <1>2. \A k \in DOMAIN audit[i] : k \in DOMAIN audit'[i] /\ audit'[i][k] = audit[i][k]
    <2>1. ASSUME NEW trail \in Seq(AuditEntry), NEW inv \in Invoices,
                 audit' = [audit EXCEPT ![inv] = @ \o trail]
          PROVE  \A k \in DOMAIN audit[i] : k \in DOMAIN audit'[i] /\ audit'[i][k] = audit[i][k]
      <3>1. audit[inv] \in Seq(AuditEntry)
        BY DEF TypeOK
      <3>2. audit'[inv] = audit[inv] \o trail /\ (i # inv => audit'[i] = audit[i])
        BY <2>1 DEF TypeOK
      <3>3. \A k \in DOMAIN audit[inv] :
               k \in DOMAIN audit'[inv] /\ audit'[inv][k] = audit[inv][k]
        BY <3>1, <3>2, GrownLog
      <3>4. CASE i = inv
        BY <3>3, <3>4
      <3>5. CASE i # inv
        BY <3>2, <3>5
      <3> QED BY <3>4, <3>5
    <2>2. CASE audit' = audit
      BY <2>2
    <2> QED BY <1>1, <2>1, <2>2
  <1> QED BY <1>2
=============================================================================
