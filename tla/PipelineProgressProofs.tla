----------------------- MODULE PipelineProgressProofs -----------------------
(***************************************************************************)
(* No interleaving loses an invoice: whatever the workers, the requests    *)
(* and a broker that repeats itself do, every invoice left half way has a  *)
(* crash or an uncaught error of its own to answer for.                    *)
(***************************************************************************)
EXTENDS InvoicePipelineProofs, FiniteSetTheorems

\* The message an invoice's status calls for, waiting or in a process's hands.
Attended(i) ==
    \/ status[i] \in Settled \cup {"absent"}
    \/ \E t \in Tasks :
          /\ status[i] \in StartStatuses(t)
          /\ queue[t][i] > 0 \/ \E p \in Processes : Holder(p, t, i)

Unattended == {i \in Invoices : ~Attended(i)}

\* Every invoice but those of lost stays attended.
KeepsAttended(lost) == \A i \in Invoices \ lost : Attended(i) => Attended(i)'

\* A step loses sight of nothing, or fails and loses sight of one invoice.
NothingLost == KeepsAttended({}) /\ faults' = faults /\ llmErrors' = llmErrors
OneLost ==
    \E j \in Invoices : KeepsAttended({j}) /\ faults' + llmErrors' = faults + llmErrors + 1

\* Nothing the attended invoices depend on goes away.
LEMMA StillAttended ==
    ASSUME NEW lost, status' = status,
           \A t \in Tasks, i \in Invoices \ lost : \A p \in Processes :
              Holder(p, t, i) => queue'[t][i] > 0 \/ \E q \in Processes : Holder(q, t, i)',
           \A t \in Tasks, i \in Invoices \ lost :
              queue[t][i] > 0 /\ status[i] \in StartStatuses(t)
                 => queue'[t][i] > 0 \/ \E q \in Processes : Holder(q, t, i)'
    PROVE  KeepsAttended(lost)
  BY DEF KeepsAttended, Attended

\* A new status is settled, or its own message is in the committer's hands.
LEMMA AttendedOnce ==
    \A job \in Tasks \cup Decisions : \A new \in Results(job) \cup {"received"} :
        \/ new \in Settled
        \/ FollowUp(new) \in Tasks /\ new \in StartStatuses(FollowUp(new))
  BY DEF Tasks, Decisions, Results, Settled, TerminalStatuses, Statuses, AllowedTransitions,
         FollowUp, Chain, StartStatuses

LEMMA AttendanceStep ==
    ASSUME TypeOK, SessionOK, [Next]_vars
    PROVE  NothingLost \/ OneLost
  <1>types. /\ Workers \subseteq Processes /\ Clients \subseteq Processes
            /\ faults \in Nat /\ llmErrors \in Nat
            /\ \A t \in Tasks, i \in Invoices : queue[t][i] \in Nat
            /\ \A p \in Processes : sess[p] \in Session
    BY DEF Processes, TypeOK
  \* A session goes on with the same job on the same invoice.
  <1>goesOn. ASSUME NEW p \in Processes, NEW s, status' = status, queue' = queue,
                    sess' = [sess EXCEPT ![p] = s],
                    s.pc # "idle", s.job = sess[p].job, s.inv = sess[p].inv
             PROVE  KeepsAttended({})
    <2>1. \A q \in Processes, t \in Tasks, i \in Invoices : Holder(q, t, i) => Holder(q, t, i)'
      BY <1>goesOn DEF Holder, TypeOK
    <2> QED BY <1>goesOn, <2>1, StillAttended
  \* A session is dropped, and with it what it held.
  <1>dropped. ASSUME NEW p \in Processes, sess[p].pc # "idle", status' = status, queue' = queue,
                     sess' = [sess EXCEPT ![p] = Idle]
              PROVE  \E j \in Invoices : KeepsAttended({j})
    <2>1. PICK j \in Invoices : sess[p].inv = j
      BY <1>dropped DEF SessionOK, GoodSession
    <2>2. \A q \in Processes, t \in Tasks, i \in Invoices \ {j} : Holder(q, t, i) => Holder(q, t, i)'
      BY <1>dropped, <2>1 DEF Holder, TypeOK
    <2>3. KeepsAttended({j})
      BY <1>dropped, <2>2, StillAttended
    <2> QED BY <2>3
  <1>flush. ASSUME NEW p \in Processes, FlushStep(p) PROVE NothingLost
    <2> DEFINE s == [sess[p] EXCEPT !.pc = "flushed"]
    <2>1. /\ sess' = [sess EXCEPT ![p] = s] /\ status' = status /\ queue' = queue
          /\ faults' = faults /\ llmErrors' = llmErrors
      BY <1>flush DEF FlushStep, FlushExtraction, FlushMatching, FlushExport, FlushRejection,
                      Flush, database, counters
    <2>2. s.pc # "idle" /\ s.job = sess[p].job /\ s.inv = sess[p].inv
      BY <1>types DEF Session
    <2> HIDE DEF s
    <2> QED BY <2>1, <2>2, <1>goesOn DEF NothingLost
  <1>listRivals. ASSUME NEW w \in Workers, ListRivals(w) PROVE NothingLost
    <2> DEFINE s == [sess[w] EXCEPT !.pc = "scanning", !.rivals = Rivals(sess[w]),
                                    !.verdict = "passed"]
    <2>1. /\ sess' = [sess EXCEPT ![w] = s] /\ status' = status /\ queue' = queue
          /\ faults' = faults /\ llmErrors' = llmErrors
      BY <1>listRivals DEF ListRivals, database, counters
    <2>2. s.pc # "idle" /\ s.job = sess[w].job /\ s.inv = sess[w].inv
      BY <1>types DEF Session
    <2> HIDE DEF s
    <2> QED BY <2>1, <2>2, <1>goesOn, <1>types DEF NothingLost
  <1>getRival. ASSUME NEW w \in Workers, NEW j \in Invoices, GetRival(w, j) PROVE NothingLost
    <2> DEFINE s == [sess[w] EXCEPT !.rivals = @ \ {j},
                                    !.rival = IF IsLive(j) THEN j ELSE None]
    <2>1. /\ sess' = [sess EXCEPT ![w] = s] /\ status' = status /\ queue' = queue
          /\ faults' = faults /\ llmErrors' = llmErrors
      BY <1>getRival DEF GetRival, database, counters
    <2>2. s.pc # "idle" /\ s.job = sess[w].job /\ s.inv = sess[w].inv
      BY <1>getRival, <1>types DEF Session, GetRival
    <2> HIDE DEF s
    <2> QED BY <2>1, <2>2, <1>goesOn, <1>types DEF NothingLost
  <1>readRival. ASSUME NEW w \in Workers, ReadRival(w) PROVE NothingLost
    <2> DEFINE found == HasNumber(sess[w].rival, sess[w].reading.number)
               s == [sess[w] EXCEPT !.rival = None,
                                    !.verdict = IF found THEN "failed" ELSE @]
    <2>1. /\ sess' = [sess EXCEPT ![w] = s] /\ status' = status /\ queue' = queue
          /\ faults' = faults /\ llmErrors' = llmErrors
      BY <1>readRival DEF ReadRival, database, counters
    <2>2. s.pc # "idle" /\ s.job = sess[w].job /\ s.inv = sess[w].inv
      BY <1>readRival, <1>types DEF Session, ReadRival
    <2> HIDE DEF s
    <2> QED BY <2>1, <2>2, <1>goesOn, <1>types DEF NothingLost
  <1>storeArtifact. ASSUME NEW w \in Workers, StoreArtifact(w) PROVE NothingLost
    <2> DEFINE s == [sess[w] EXCEPT !.pc = "stored"]
    <2>1. /\ sess' = [sess EXCEPT ![w] = s] /\ status' = status /\ queue' = queue
          /\ faults' = faults /\ llmErrors' = llmErrors
      BY <1>storeArtifact DEF StoreArtifact, database, counters
    <2>2. s.pc # "idle" /\ s.job = sess[w].job /\ s.inv = sess[w].inv
      BY <1>types DEF Session
    <2> HIDE DEF s
    <2> QED BY <2>1, <2>2, <1>goesOn, <1>types DEF NothingLost
  <1>stutter. ASSUME UNCHANGED vars PROVE NothingLost
    BY <1>stutter DEF vars, NothingLost, KeepsAttended, Attended, Holder
  <1>skip. ASSUME NEW w \in Workers, NEW task \in Tasks, NEW i \in Invoices, Skip(w, task, i)
           PROVE  NothingLost
    <2>1. /\ status' = status /\ sess' = sess /\ status[i] \notin StartStatuses(task)
          /\ faults' = faults /\ llmErrors' = llmErrors
      BY <1>skip DEF Skip, database, counters
    <2>2. \A t \in Tasks, j \in Invoices : t # task \/ j # i => queue'[t][j] = queue[t][j]
      BY <1>skip, ReceiveQueue DEF Skip
    <2>3. \A t \in Tasks, j \in Invoices, p \in Processes : Holder(p, t, j) => Holder(p, t, j)'
      BY <2>1 DEF Holder
    <2>4. KeepsAttended({})
      BY <2>1, <2>2, <2>3, StillAttended
    <2> QED BY <2>1, <2>4 DEF NothingLost
  <1>begin. ASSUME NEW w \in Workers, NEW task \in Tasks, NEW i \in Invoices, Begin(w, task, i)
            PROVE  NothingLost
    <2>1. /\ status' = status /\ sess' = [sess EXCEPT ![w] = Loaded(task, i)] /\ sess[w].pc = "idle"
          /\ faults' = faults /\ llmErrors' = llmErrors
      BY <1>begin DEF Begin, Receive, database, counters
    <2>2. \A t \in Tasks, j \in Invoices : t # task \/ j # i => queue'[t][j] = queue[t][j]
      BY <1>begin, ReceiveQueue DEF Begin
    <2>3. \A t \in Tasks, j \in Invoices, p \in Processes : Holder(p, t, j) => Holder(p, t, j)'
      BY <2>1, <1>types DEF Holder, TypeOK
    <2>4. Holder(w, task, i)'
      BY <2>1, <1>types DEF Holder, Loaded, TypeOK
    <2>5. KeepsAttended({})
      BY <2>1, <2>2, <2>3, <2>4, <1>types, StillAttended
    <2> QED BY <2>1, <2>5 DEF NothingLost
  <1>open. ASSUME NEW c \in Clients, NEW i \in Invoices, NEW d \in Decisions, OpenDecision(c, i, d)
           PROVE  NothingLost
    <2>1. /\ status' = status /\ queue' = queue /\ sess' = [sess EXCEPT ![c] = Loaded(d, i)]
          /\ sess[c].pc = "idle" /\ faults' = faults /\ llmErrors' = llmErrors
      BY <1>open DEF OpenDecision, database, counters
    <2>2. \A t \in Tasks, j \in Invoices, p \in Processes : Holder(p, t, j) => Holder(p, t, j)'
      BY <2>1, <1>types DEF Holder, TypeOK
    <2>3. KeepsAttended({})
      BY <2>1, <2>2, StillAttended
    <2> QED BY <2>1, <2>3 DEF NothingLost
  <1>send. ASSUME NEW p \in Processes, Send(p) PROVE NothingLost
    <2>1. PICK task \in Tasks, j \in Invoices : task = sess[p].job /\ j = sess[p].inv
      BY <1>send DEF Send, SessionOK, GoodSession
    <2>2. /\ status' = status /\ sess' = [sess EXCEPT ![p] = Idle]
          /\ queue' = [queue EXCEPT ![task][j] = @ + 1]
          /\ faults' = faults /\ llmErrors' = llmErrors
      BY <1>send, <2>1 DEF Send, database, counters
    <2>3. /\ queue'[task][j] = queue[task][j] + 1
          /\ \A t \in Tasks, i \in Invoices : t # task \/ i # j => queue'[t][i] = queue[t][i]
      BY <2>2, PutQueue
    <2>4. queue'[task][j] > 0
      BY <2>3, <1>types
    <2>5. \A q \in Processes, t \in Tasks, i \in Invoices :
             Holder(q, t, i) => Holder(q, t, i)' \/ (t = task /\ i = j)
      BY <2>1, <2>2 DEF Holder, TypeOK
    <2>6. KeepsAttended({})
      BY <2>2, <2>3, <2>4, <2>5, StillAttended
    <2> QED BY <2>2, <2>6 DEF NothingLost
  <1>redeliver. ASSUME NEW task \in Tasks, NEW j \in Invoices, Redeliver(task, j)
                PROVE  NothingLost
    <2>1. /\ status' = status /\ sess' = sess /\ queue' = [queue EXCEPT ![task][j] = @ + 1]
          /\ faults' = faults /\ llmErrors' = llmErrors
      BY <1>redeliver DEF Redeliver, database
    <2>2. \A t \in Tasks, i \in Invoices : queue[t][i] > 0 => queue'[t][i] > 0
      BY <2>1, <1>types, PutQueue
    <2>3. \A t \in Tasks, i \in Invoices, p \in Processes : Holder(p, t, i) => Holder(p, t, i)'
      BY <2>1 DEF Holder
    <2>4. KeepsAttended({})
      BY <2>1, <2>2, <2>3, StillAttended
    <2> QED BY <2>1, <2>4 DEF NothingLost
  <1>upload. ASSUME NEW c \in Clients, NEW j \in Invoices, Upload(c, j) PROVE NothingLost
    <2>1. /\ sess[c].pc = "idle" /\ queue' = queue
          /\ status' = [status EXCEPT ![j] = "received"]
          /\ sess' = [sess EXCEPT ![c] = Sending("extract_invoice", j)]
          /\ faults' = faults /\ llmErrors' = llmErrors
      BY <1>upload DEF Upload, Committed, FollowUp, Chain, counters
    <2>2. \A t \in Tasks, i \in Invoices, p \in Processes : Holder(p, t, i) => Holder(p, t, i)'
      BY <2>1, <1>types DEF Holder, TypeOK
    <2>3. Attended(j)'
      <3>1. Holder(c, "extract_invoice", j)' /\ status'[j] = "received"
        BY <2>1, <1>types DEF Holder, Sending, TypeOK
      <3>2. "received" \in StartStatuses("extract_invoice") /\ "extract_invoice" \in Tasks
        BY DEF StartStatuses, Tasks
      <3> QED BY <3>1, <3>2, <1>types DEF Attended
    <2>4. \A i \in Invoices \ {j} : status'[i] = status[i]
      BY <2>1 DEF TypeOK
    <2>5. KeepsAttended({})
      BY <2>1, <2>2, <2>3, <2>4 DEF KeepsAttended, Attended
    <2> QED BY <2>1, <2>5 DEF NothingLost
  <1>commit. ASSUME CommitStep PROVE NothingLost
    <2>1. PICK p \in Processes, j \in Invoices, new \in Statuses : CommitOf(p, j, new)
      BY <1>commit, CommitIsCommitOf
    <2>2. faults' = faults /\ llmErrors' = llmErrors
      BY <1>commit DEF CommitStep, CompleteExtraction, FailExtraction, CompleteMatching,
                       CompleteValidation, CompleteApproval, CompleteExport, RecordDecision, counters
    <2>3. /\ sess[p].inv = j /\ sess[p].job \in Tasks \cup Decisions /\ new \in Results(sess[p].job)
          /\ queue' = queue /\ status'[j] = new
          /\ \A i \in Invoices \ {j} : status'[i] = status[i]
      BY <2>1 DEF CommitOf, SessionOK, GoodSession, TypeOK
    <2>4. ASSUME NEW q \in Processes, NEW t \in Tasks, NEW i \in Invoices
          PROVE  Holder(q, t, i)' <=> \/ q # p /\ Holder(q, t, i)
                                      \/ q = p /\ i = j /\ t = FollowUp(new)
      BY <2>1, CommitHolders
    <2>5. Attended(j)'
      <3>1. CASE new \in Settled
        BY <2>3, <3>1 DEF Attended
      <3>2. CASE FollowUp(new) \in Tasks /\ new \in StartStatuses(FollowUp(new))
        BY <2>3, <2>4, <3>2 DEF Attended
      <3> QED BY <2>3, <3>1, <3>2, AttendedOnce
    <2>6. \A q \in Processes, t \in Tasks, i \in Invoices \ {j} : Holder(q, t, i) => Holder(q, t, i)'
      BY <2>3, <2>4 DEF Holder
    <2>7. KeepsAttended({})
      BY <2>3, <2>5, <2>6 DEF KeepsAttended, Attended
    <2> QED BY <2>2, <2>7 DEF NothingLost
  <1>raise. ASSUME NEW w \in Workers, RaiseLlmError(w) PROVE OneLost
    <2>1. /\ sess[w].pc # "idle" /\ status' = status /\ queue' = queue
          /\ sess' = [sess EXCEPT ![w] = Idle]
          /\ faults' = faults /\ llmErrors' = llmErrors + 1
      BY <1>raise DEF RaiseLlmError, Doing, database
    <2>2. faults' + llmErrors' = faults + llmErrors + 1
      BY <2>1, <1>types
    <2> QED BY <2>1, <2>2, <1>types, <1>dropped DEF OneLost
  <1>abort. ASSUME NEW p \in Processes, Abort(p) \/ DropSend(p) PROVE OneLost
    <2>1. /\ sess[p].pc # "idle" /\ status' = status /\ queue' = queue
          /\ sess' = [sess EXCEPT ![p] = Idle]
          /\ faults' = faults + 1 /\ llmErrors' = llmErrors
      BY <1>abort DEF Abort, DropSend, database
    <2>2. faults' + llmErrors' = faults + llmErrors + 1
      BY <2>1, <1>types
    <2> QED BY <2>1, <2>2, <1>dropped DEF OneLost
  <1>begins. ASSUME NEW w \in Workers, NEW i \in Invoices,
                    \/ BeginExtraction(w, i) \/ BeginMatching(w, i) \/ BeginValidation(w, i)
                    \/ BeginApproval(w, i) \/ BeginExport(w, i)
             PROVE  NothingLost
    BY <1>begins, <1>begin DEF BeginExtraction, BeginMatching, BeginValidation, BeginApproval,
                               BeginExport, Tasks
  <1> QED
    BY <1>types, <1>stutter, <1>skip, <1>begins, <1>flush, <1>listRivals, <1>getRival, <1>readRival,
       <1>storeArtifact, <1>commit, <1>raise, <1>send, <1>open, <1>upload, <1>abort, <1>redeliver
    DEF Next, WorkerStep, RequestStep, RequestArrives, Failure, FlushStep, CommitStep
-----------------------------------------------------------------------------
\* Each failure answers for one unattended invoice.
Answered ==
    IsFiniteSet(Unattended) /\ Cardinality(Unattended) <= faults + llmErrors

LEMMA AnsweredStep ==
    ASSUME TypeOK, SessionOK, Answered, [Next]_vars
    PROVE  Answered'
  <1> DEFINE n == faults + llmErrors
  <1>1. /\ n \in Nat /\ n' \in Nat
        /\ IsFiniteSet(Unattended) /\ Cardinality(Unattended) \in Nat /\ Cardinality(Unattended) <= n
    BY TypeStep, FS_CardinalityType DEF TypeOK, Answered
  <1>2. CASE NothingLost
    <2>1. Unattended' \subseteq Unattended /\ n' = n
      BY <1>2 DEF NothingLost, KeepsAttended, Unattended
    <2>2. /\ IsFiniteSet(Unattended') /\ Cardinality(Unattended') <= Cardinality(Unattended)
          /\ Cardinality(Unattended') \in Nat
      BY <1>1, <2>1, FS_Subset, FS_CardinalityType
    <2> QED BY <1>1, <2>1, <2>2 DEF Answered
  <1>3. CASE OneLost
    <2>1. PICK j \in Invoices : KeepsAttended({j}) /\ n' = n + 1
      BY <1>3 DEF OneLost
    <2> DEFINE grown == Unattended \cup {j}
    <2>2. Unattended' \subseteq grown
      BY <2>1 DEF KeepsAttended, Unattended
    <2>3. /\ IsFiniteSet(grown) /\ Cardinality(grown) \in Nat
          /\ \/ Cardinality(grown) = Cardinality(Unattended)
             \/ Cardinality(grown) = Cardinality(Unattended) + 1
      BY <1>1, FS_AddElement, FS_CardinalityType
    <2>4. /\ IsFiniteSet(Unattended') /\ Cardinality(Unattended') <= Cardinality(grown)
          /\ Cardinality(Unattended') \in Nat
      BY <2>2, <2>3, FS_Subset, FS_CardinalityType
    <2>5. Cardinality(Unattended') <= n'
      BY <1>1, <2>1, <2>3, <2>4
    <2> QED BY <2>4, <2>5 DEF Answered
  <1> QED BY <1>2, <1>3, AttendanceStep

\* Whatever the interleaving, the racing requests and the repeated messages,
\* no more invoices are stranded than crashes and uncaught errors have happened.
THEOREM StrandedOnlyWhenFailing == Spec => []StrandedOnlyByFailure
  <1>1. Init => Answered
    <2>1. ASSUME Init PROVE Unattended = {}
      BY <2>1 DEF Init, Unattended, Attended
    <2>2. Init => faults + llmErrors = 0
      BY DEF Init
    <2> QED BY <2>1, <2>2, FS_EmptySet DEF Answered
  <1>2. TypeOK /\ SessionOK /\ Answered /\ [Next]_vars => Answered'
    BY AnsweredStep
  <1>3. TypeOK /\ Answered => StrandedOnlyByFailure
    <2> SUFFICES ASSUME TypeOK, Answered PROVE StrandedOnlyByFailure
      OBVIOUS
    <2> DEFINE stranded == {i \in Invoices : Stranded(i)}
    <2>1. stranded \subseteq Unattended
      BY DEF Stranded, InProgress, Attended, Unattended, Holder
    <2>2. /\ IsFiniteSet(Unattended) /\ Cardinality(Unattended) <= faults + llmErrors
          /\ faults + llmErrors \in Nat
      BY DEF Answered, TypeOK
    <2>3. /\ Cardinality(stranded) <= Cardinality(Unattended)
          /\ Cardinality(stranded) \in Nat /\ Cardinality(Unattended) \in Nat
      BY <2>1, <2>2, FS_Subset, FS_CardinalityType
    <2> QED BY <2>2, <2>3 DEF StrandedOnlyByFailure
  <1> QED BY <1>1, <1>2, <1>3, SessionsGood, PTL DEF Spec
-----------------------------------------------------------------------------
(* Every export row goes back to an approval or to a repeated message.     *)

Approvals(log) == {k \in DOMAIN log : log[k].to \in {"auto_approved", "approved"}}

LEMMA ApprovalsFinite ==
    ASSUME NEW log \in Seq(AuditEntry)
    PROVE  IsFiniteSet(Approvals(log)) /\ Cardinality(Approvals(log)) \in Nat
  <1>1. Len(log) \in Nat /\ DOMAIN log = 1 .. Len(log)
    OBVIOUS
  <1>2. IsFiniteSet(DOMAIN log)
    BY <1>1, FS_Interval
  <1>3. Approvals(log) \subseteq DOMAIN log
    BY DEF Approvals
  <1> QED BY <1>2, <1>3, FS_Subset, FS_CardinalityType

\* Approvals stay in the log.
LEMMA ApprovalsStay ==
    ASSUME TypeOK, SessionOK, [Next]_vars, NEW i \in Invoices
    PROVE  /\ ApprovalEntries(i) = Approvals(audit[i])
           /\ ApprovalEntries(i)' = Approvals(audit'[i])
           /\ IsFiniteSet(ApprovalEntries(i)) /\ Cardinality(ApprovalEntries(i)) \in Nat
           /\ IsFiniteSet(ApprovalEntries(i)') /\ Cardinality(ApprovalEntries(i)') \in Nat
           /\ Cardinality(ApprovalEntries(i)) <= Cardinality(ApprovalEntries(i)')
  <1>1. audit[i] \in Seq(AuditEntry) /\ audit'[i] \in Seq(AuditEntry)
    BY TypeStep DEF TypeOK
  <1>2. ApprovalEntries(i) = Approvals(audit[i]) /\ ApprovalEntries(i)' = Approvals(audit'[i])
    BY DEF ApprovalEntries, Approvals
  <1>3. /\ IsFiniteSet(ApprovalEntries(i)) /\ Cardinality(ApprovalEntries(i)) \in Nat
        /\ IsFiniteSet(ApprovalEntries(i)') /\ Cardinality(ApprovalEntries(i)') \in Nat
    BY <1>1, <1>2, ApprovalsFinite
  <1>4. ApprovalEntries(i) \subseteq ApprovalEntries(i)'
    BY EntriesStay DEF ApprovalEntries
  <1> QED BY <1>2, <1>3, <1>4, FS_Subset

\* Whoever commits an approval adds one to the log.
LEMMA ApprovalAdded ==
    ASSUME TypeOK, SessionOK, [Next]_vars, NEW p \in Processes, NEW inv \in Invoices,
           NEW new \in {"auto_approved", "approved"}, NEW actor, NEW trail \in Seq(AuditEntry),
           Traced(p, inv, new, actor, trail)
    PROVE  Cardinality(ApprovalEntries(inv)) + 1 <= Cardinality(ApprovalEntries(inv)')
  <1>1. PICK k \in DOMAIN audit'[inv] \ DOMAIN audit[inv] : audit'[inv][k].to = new
    <2> DEFINE log == audit[inv]
    <2>1. log \in Seq(AuditEntry) /\ audit'[inv] = log \o trail
      BY DEF TypeOK, Traced
    <2>2. trail # <<>> /\ trail[Len(trail)].to = new
      BY DEF Traced, Walk
    <2> HIDE DEF log
    <2>3. \E k \in DOMAIN (log \o trail) \ DOMAIN log : (log \o trail)[k] = trail[Len(trail)]
      BY <2>1, <2>2, GrownLog
    <2>4. \E k \in DOMAIN audit'[inv] \ DOMAIN log : audit'[inv][k] = trail[Len(trail)]
      BY <2>1, <2>3
    <2>5. \E k \in DOMAIN audit'[inv] \ DOMAIN log : audit'[inv][k].to = new
      BY <2>2, <2>4
    <2> QED BY <2>5 DEF log
  <1> DEFINE more == ApprovalEntries(inv) \cup {k}
  <1>3. more \subseteq ApprovalEntries(inv)' /\ k \notin ApprovalEntries(inv)
    BY <1>1, EntriesStay DEF ApprovalEntries
  <1>4. Cardinality(more) = Cardinality(ApprovalEntries(inv)) + 1
    BY <1>3, ApprovalsStay, FS_AddElement
  <1> HIDE DEF more
  <1>5. Cardinality(more) <= Cardinality(ApprovalEntries(inv)')
    BY <1>3, ApprovalsStay, FS_Subset
  <1> QED BY <1>4, <1>5

\* Who exports i, once process p has gone from what it did to s.
LEMMA ExportersMove ==
    ASSUME TypeOK, NEW p \in Processes, NEW s, sess' = [sess EXCEPT ![p] = s], NEW i \in Invoices
    PROVE  /\ s.pc # "idle" /\ s.job = "export_invoice" /\ s.inv = i
                 => Exporters(i)' = Exporters(i) \cup {p}
           /\ s.pc = "idle" \/ s.job # "export_invoice" \/ s.inv # i
                 => Exporters(i)' = Exporters(i) \ {p}
  <1>1. \A o \in Processes : sess'[o] = IF o = p THEN s ELSE sess[o]
    BY DEF TypeOK
  <1>2. CASE s.pc # "idle" /\ s.job = "export_invoice" /\ s.inv = i
    BY <1>1, <1>2 DEF Exporters, Holder
  <1>3. CASE s.pc = "idle" \/ s.job # "export_invoice" \/ s.inv # i
    BY <1>1, <1>3 DEF Exporters, Holder
  <1> QED BY <1>2, <1>3

\* The sums when an export begins, when it ends, and when it is approved.
LEMMA Begun ==
    ASSUME NEW q \in Nat, NEW e \in Nat, NEW x \in Nat, NEW a \in Nat, NEW r \in Nat,
           NEW e1 \in Nat, NEW a1 \in Nat, NEW r1 \in Nat,
           q + e + x <= a + r, e1 <= e + 1, a <= a1, r <= r1
    PROVE  q - 1 + e1 + x <= a1 + r1
  OBVIOUS

LEMMA Ended ==
    ASSUME NEW q \in Nat, NEW e \in Nat, NEW x \in Nat, NEW a \in Nat, NEW r \in Nat,
           NEW x1 \in Nat, NEW a1 \in Nat, NEW r1 \in Nat,
           q + e + x <= a + r, x1 <= x + 1, a <= a1, r <= r1
    PROVE  q + (e - 1) + x1 <= a1 + r1
  OBVIOUS

LEMMA Approved ==
    ASSUME NEW q \in Nat, NEW e \in Nat, NEW x \in Nat, NEW a \in Nat, NEW r \in Nat,
           NEW e1 \in Nat, NEW a1 \in Nat, NEW r1 \in Nat,
           q + e + x <= a + r, e1 <= e + 1, a + 1 <= a1, r <= r1
    PROVE  q + e1 + x <= a1 + r1
  OBVIOUS

LEMMA PaidStep ==
    ASSUME TypeOK, SessionOK, [Next]_vars, NEW i \in Invoices, PaidFor(i)
    PROVE  PaidFor(i)'
  <1> DEFINE q == queue["export_invoice"][i]
             e == Cardinality(Exporters(i))
             x == Cardinality(exports[i])
             a == Cardinality(ApprovalEntries(i))
             r == redeliveries
             Finite == IsFiniteSet(exports[i]) /\ IsFiniteSet(Exporters(i))
  <1>types. /\ TypeOK' /\ "export_invoice" \in Tasks /\ "export_invoice" \notin Decisions
            /\ q \in Nat /\ q' \in Nat /\ r \in Nat /\ r' \in Nat
            /\ Workers \subseteq Processes /\ Clients \subseteq Processes
    <2>1. TypeOK' /\ "export_invoice" \in Tasks /\ "export_invoice" \notin Decisions
      BY TypeStep DEF Tasks, Decisions
    <2> QED BY <2>1 DEF TypeOK, Processes
  <1>before. /\ Finite /\ e \in Nat /\ x \in Nat /\ q + e + x <= a + r
    BY FS_CardinalityType DEF PaidFor
  <1>log. a \in Nat /\ a' \in Nat /\ a <= a'
    BY ApprovalsStay
  <1>again. r <= r'
    BY <1>types, CountedRedeliveries
  \* The exporters and the rows of i change by at most one.
  <1>less. ASSUME Exporters(i)' \subseteq Exporters(i)
           PROVE  IsFiniteSet(Exporters(i)') /\ e' \in Nat /\ e' <= e
    BY <1>less, <1>before, FS_Subset, FS_CardinalityType
  <1>without. ASSUME NEW p \in Exporters(i), Exporters(i)' = Exporters(i) \ {p}
              PROVE  IsFiniteSet(Exporters(i)') /\ e' \in Nat /\ e' = e - 1
    BY <1>without, <1>before, FS_RemoveElement, FS_CardinalityType
  <1>with. ASSUME NEW p, Exporters(i)' = Exporters(i) \cup {p}
           PROVE  IsFiniteSet(Exporters(i)') /\ e' \in Nat /\ e' <= e + 1
    <2>1. /\ IsFiniteSet(Exporters(i) \cup {p})
          /\ \/ Cardinality(Exporters(i) \cup {p}) = Cardinality(Exporters(i))
             \/ Cardinality(Exporters(i) \cup {p}) = Cardinality(Exporters(i)) + 1
      BY <1>before, FS_AddElement
    <2>2. IsFiniteSet(Exporters(i)') /\ (e' = e \/ e' = e + 1)
      BY <1>with, <2>1
    <2> HIDE DEF e
    <2> QED BY <1>before, <2>2
  <1>rows. ASSUME NEW key, exports'[i] = exports[i] \cup {key}
           PROVE  IsFiniteSet(exports'[i]) /\ x' \in Nat /\ x' <= x + 1
    <2>1. /\ IsFiniteSet(exports[i] \cup {key})
          /\ \/ Cardinality(exports[i] \cup {key}) = Cardinality(exports[i])
             \/ Cardinality(exports[i] \cup {key}) = Cardinality(exports[i]) + 1
      BY <1>before, FS_AddElement
    <2>2. IsFiniteSet(exports'[i]) /\ (x' = x \/ x' = x + 1)
      BY <1>rows, <2>1
    <2> HIDE DEF x
    <2> QED BY <1>before, <2>2
  <1>sameRows. ASSUME exports'[i] = exports[i]
               PROVE  IsFiniteSet(exports'[i]) /\ x' \in Nat /\ x' = x
    BY <1>sameRows, <1>before
  <1>paid. ASSUME Finite', e' \in Nat, x' \in Nat, q' + e' + x' <= a' + r'
           PROVE  PaidFor(i)'
    BY <1>paid DEF PaidFor
  <1> HIDE DEF q, e, x, a, r
  <1>shrink. ASSUME Quiet, \A t \in Tasks, j \in Invoices : queue'[t][j] <= queue[t][j]
             PROVE  PaidFor(i)'
    <2>1. Exporters(i)' \subseteq Exporters(i)
      BY <1>shrink, PipelineAssumption DEF Quiet, Exporters, Holder, Idle
    <2>2. exports'[i] = exports[i] /\ q' <= q
      BY <1>shrink, <1>types DEF Quiet, database, q
    <2> QED BY <1>paid, <1>types, <1>before, <1>log, <1>again, <1>less, <1>sameRows, <2>1, <2>2
  <1>send. ASSUME Quiet, NEW p \in Processes, Send(p)
           PROVE  PaidFor(i)'
    <2>1. PICK task \in Tasks, inv \in Invoices : task = sess[p].job /\ inv = sess[p].inv
      BY <1>send DEF Send, SessionOK, GoodSession
    <2>2. /\ exports' = exports /\ sess' = [sess EXCEPT ![p] = Idle] /\ sess[p].pc = "sending"
          /\ queue' = [queue EXCEPT ![task][inv] = @ + 1]
      BY <1>send, <2>1 DEF Quiet, database, Send
    <2>3. /\ queue'[task][inv] = queue[task][inv] + 1
          /\ \A t \in Tasks, j \in Invoices :
                t # task \/ j # inv => queue'[t][j] = queue[t][j]
      BY <2>2, PutQueue
    <2>4. Exporters(i)' = Exporters(i) \ {p}
      <3>1. Idle.pc = "idle"
        BY DEF Idle
      <3> QED BY <2>2, <3>1, ExportersMove
    <2>5. CASE task = "export_invoice" /\ i = inv
      <3>1. q' = q + 1 /\ p \in Exporters(i)
        BY <2>1, <2>2, <2>3, <2>5 DEF q, Exporters, Holder
      <3>2. IsFiniteSet(Exporters(i)') /\ e' \in Nat /\ e' = e - 1
        BY <1>without, <2>4, <3>1
      <3> QED BY <1>paid, <1>types, <1>before, <1>log, <1>again, <1>sameRows, <2>2, <3>1, <3>2
    <2>6. CASE task # "export_invoice" \/ i # inv
      <3>1. q' = q
        BY <1>types, <2>3, <2>6 DEF q
      <3> QED BY <1>paid, <1>types, <1>before, <1>log, <1>again, <1>less, <1>sameRows,
                 <2>2, <2>4, <3>1
    <2> QED BY <2>5, <2>6
  <1>redeliver. ASSUME NEW task \in Tasks, NEW j \in Invoices, Redeliver(task, j)
                PROVE  PaidFor(i)'
    <2>1. /\ exports' = exports /\ sess' = sess /\ r' = r + 1
          /\ queue' = [queue EXCEPT ![task][j] = @ + 1]
      BY <1>redeliver DEF Redeliver, database, r
    <2>2. q' <= q + 1
      BY <1>types, <2>1, PutQueue DEF q
    <2>3. Exporters(i)' = Exporters(i)
      BY <2>1 DEF Exporters, Holder
    <2> QED BY <1>paid, <1>types, <1>before, <1>log, <1>less, <1>sameRows, <2>1, <2>2, <2>3
  <1>load. ASSUME NEW p \in Processes, NEW job \in Tasks \cup Decisions, NEW inv \in Invoices,
                  Load(p, job, inv)
           PROVE  PaidFor(i)'
    <2>1. /\ exports' = exports /\ sess[p].pc = "idle"
          /\ sess' = [sess EXCEPT ![p] = Loaded(job, inv)]
      BY <1>load DEF Load, database
    <2>2. ASSUME job \in Tasks
          PROVE  /\ queue'[job][inv] = queue[job][inv] - 1
                 /\ \A t \in Tasks, j \in Invoices :
                       t # job \/ j # inv => queue'[t][j] = queue[t][j]
      <3>1. Receive(p, job, inv)
        BY <1>load, <2>2 DEF Load
      <3> QED BY <2>2, <3>1, ReceiveQueue
    <2>5. /\ Loaded(job, inv).pc # "idle" /\ Loaded(job, inv).job = job
          /\ Loaded(job, inv).inv = inv
      BY DEF Loaded
    <2>3. CASE job = "export_invoice" /\ i = inv
      <3>1. Exporters(i)' = Exporters(i) \cup {p}
        <4>1. PICK s : s = Loaded(job, inv)
          OBVIOUS
        <4>2. /\ s.pc # "idle" /\ s.job = "export_invoice" /\ s.inv = i
              /\ sess' = [sess EXCEPT ![p] = s]
          BY <2>1, <2>3, <2>5, <4>1
        <4> QED BY <4>2, ExportersMove
      <3>2. q' = q - 1
        BY <1>types, <2>2, <2>3 DEF q
      <3>3. IsFiniteSet(Exporters(i)') /\ e' \in Nat /\ e' <= e + 1
        BY <1>with, <3>1
      <3>4. IsFiniteSet(exports'[i]) /\ x' \in Nat /\ x' = x
        BY <1>sameRows, <2>1
      <3>5. q' + e' + x' <= a' + r'
        BY <1>types, <1>before, <1>log, <1>again, <3>2, <3>3, <3>4, Begun
      <3> QED BY <1>paid, <3>3, <3>4, <3>5
    <2>4. CASE job # "export_invoice" \/ i # inv
      <3>1. Exporters(i)' = Exporters(i) \ {p}
        BY <2>1, <2>4, <2>5, ExportersMove
      <3>2. q' = q
        <4>1. CASE job \in Tasks
          BY <1>types, <2>2, <2>4, <4>1 DEF q
        <4>2. CASE job \in Decisions
          BY <1>load, <4>2 DEF Load, q
        <4> QED BY <4>1, <4>2
      <3> QED BY <1>paid, <1>types, <1>before, <1>log, <1>again, <1>less, <1>sameRows,
                 <2>1, <3>1, <3>2
    <2> QED BY <2>3, <2>4
  <1>upload. ASSUME NEW c \in Clients, NEW inv \in Invoices, Upload(c, inv)
             PROVE  PaidFor(i)'
    <2>1. /\ exports' = exports /\ queue' = queue
          /\ sess' = [sess EXCEPT ![c] = Committed(inv, "received")]
      BY <1>upload DEF Upload
    <2>2. Committed(inv, "received").job # "export_invoice"
      BY DEF Committed, FollowUp, Chain, Sending
    <2>3. Exporters(i)' = Exporters(i) \ {c}
      BY <1>types, <2>1, <2>2, ExportersMove
    <2>4. q' = q
      BY <2>1 DEF q
    <2> QED BY <1>paid, <1>types, <1>before, <1>log, <1>again, <1>less, <1>sameRows,
               <2>1, <2>3, <2>4
  <1>commit. ASSUME NEW p \in Processes, NEW inv \in Invoices, NEW new \in Statuses,
                    NEW actor \in {"system"} \cup Clients, NEW trail \in Seq(AuditEntry),
                    Writes(p, inv, new, actor, trail)
             PROVE  PaidFor(i)'
    <2>1. /\ sess[p].inv = inv /\ sess[p].pc \notin {"idle", "sending"} /\ queue' = queue
          /\ sess' = [sess EXCEPT ![p] = Committed(inv, new)]
      BY <1>commit DEF Writes, CommitOf
    <2>2. q' = q
      BY <2>1 DEF q
    <2>3. IF sess[p].job = "export_invoice"
          THEN new = "exported" /\ exports' = [exports EXCEPT ![inv] = @ \cup {Len(artifacts[inv])}]
          ELSE exports' = exports
      BY <1>commit DEF Writes
    <2>4. /\ FollowUp(new) = "export_invoice" =>
                /\ new \in {"auto_approved", "approved"} /\ Committed(inv, new).inv = inv
                /\ Committed(inv, new).pc # "idle" /\ Committed(inv, new).job = "export_invoice"
          /\ FollowUp(new) # "export_invoice" => Committed(inv, new).job # "export_invoice"
      BY DEF Committed, FollowUp, Chain, Sending, Idle
    <2>5. CASE i # inv
      <3>1. Exporters(i)' \subseteq Exporters(i)
        <4>1. Committed(inv, new).inv # i \/ Committed(inv, new).pc = "idle"
          BY <2>5 DEF Committed, Sending, Idle
        <4>2. Exporters(i)' = Exporters(i) \ {p}
          BY <2>1, <4>1, ExportersMove
        <4> QED BY <4>2
      <3>2. exports'[i] = exports[i]
        BY <2>3, <2>5 DEF TypeOK
      <3> QED BY <1>paid, <1>types, <1>before, <1>log, <1>again, <1>less, <1>sameRows,
                 <2>2, <3>1, <3>2
    <2>6. CASE i = inv /\ sess[p].job = "export_invoice"
      <3>1. p \in Exporters(i)
        BY <2>1, <2>6 DEF Exporters, Holder
      <3>2. Exporters(i)' = Exporters(i) \ {p}
        <4>1. FollowUp(new) # "export_invoice"
          BY <2>3, <2>6 DEF FollowUp, Chain
        <4> QED BY <2>1, <2>4, <4>1, ExportersMove
      <3>3. exports'[i] = exports[i] \cup {Len(artifacts[i])}
        BY <2>3, <2>6 DEF TypeOK
      <3>4. IsFiniteSet(Exporters(i)') /\ e' \in Nat /\ e' = e - 1
        BY <1>without, <3>1, <3>2
      <3>5. IsFiniteSet(exports'[i]) /\ x' \in Nat /\ x' <= x + 1
        BY <1>rows, <3>3
      <3>6. q' + e' + x' <= a' + r'
        BY <1>types, <1>before, <1>log, <1>again, <2>2, <3>4, <3>5, Ended
      <3> QED BY <1>paid, <3>4, <3>5, <3>6
    <2>7. CASE i = inv /\ sess[p].job # "export_invoice" /\ FollowUp(new) = "export_invoice"
      <3>1. Exporters(i)' = Exporters(i) \cup {p}
        <4>1. PICK s : s = Committed(inv, new)
          OBVIOUS
        <4>2. /\ s.pc # "idle" /\ s.job = "export_invoice" /\ s.inv = i
              /\ sess' = [sess EXCEPT ![p] = s]
          BY <2>1, <2>4, <2>7, <4>1
        <4> QED BY <4>2, ExportersMove
      <3>2. a + 1 <= a'
        BY <1>commit, <2>4, <2>7, ApprovalAdded DEF Writes, a
      <3>3. exports'[i] = exports[i]
        BY <2>3, <2>7
      <3>4. IsFiniteSet(Exporters(i)') /\ e' \in Nat /\ e' <= e + 1
        BY <1>with, <3>1
      <3>5. IsFiniteSet(exports'[i]) /\ x' \in Nat /\ x' = x
        BY <1>sameRows, <3>3
      <3>6. q' + e' + x' <= a' + r'
        BY <1>types, <1>before, <1>log, <1>again, <2>2, <3>2, <3>4, <3>5, Approved
      <3> QED BY <1>paid, <3>4, <3>5, <3>6
    <2>8. CASE i = inv /\ sess[p].job # "export_invoice" /\ FollowUp(new) # "export_invoice"
      <3>1. Exporters(i)' = Exporters(i) \ {p}
        BY <2>1, <2>4, <2>8, ExportersMove
      <3>2. exports'[i] = exports[i]
        BY <2>3, <2>8
      <3> QED BY <1>paid, <1>types, <1>before, <1>log, <1>again, <1>less, <1>sameRows,
                 <2>2, <3>1, <3>2
    <2> QED BY <2>5, <2>6, <2>7, <2>8
  <1> QED
    BY StepKinds, CommitWrites, <1>shrink, <1>send, <1>redeliver, <1>load, <1>upload, <1>commit
    DEF QueueShrinks

\* However the exports race, crash and repeat, no invoice has more exports rows
\* than approvals in its log and messages delivered twice.
THEOREM ExportsArePaidFor == Spec => []ExportsPerApproval
  <1>1. Init => ExportsPaidFor
    <2>1. ASSUME Init, NEW i \in Invoices
          PROVE  /\ exports[i] = {} /\ Exporters(i) = {} /\ ApprovalEntries(i) = {}
                 /\ queue["export_invoice"][i] = 0 /\ redeliveries = 0
      BY <2>1 DEF Init, Exporters, Holder, ApprovalEntries, Idle, Tasks
    <2> QED BY <2>1, FS_EmptySet DEF ExportsPaidFor, PaidFor
  <1>2. TypeOK /\ SessionOK /\ ExportsPaidFor /\ [Next]_vars => ExportsPaidFor'
    BY PaidStep DEF ExportsPaidFor
  <1>3. TypeOK /\ ExportsPaidFor => ExportsPerApproval
    <2>1. ASSUME TypeOK, NEW i \in Invoices, PaidFor(i)
          PROVE  Cardinality(exports[i]) <= Cardinality(ApprovalEntries(i)) + redeliveries
      <3>1. /\ queue["export_invoice"][i] \in Nat /\ redeliveries \in Nat
            /\ Cardinality(exports[i]) \in Nat /\ Cardinality(Exporters(i)) \in Nat
            /\ Cardinality(ApprovalEntries(i)) \in Nat
        <4>1. audit[i] \in Seq(AuditEntry) /\ ApprovalEntries(i) = Approvals(audit[i])
          BY <2>1 DEF TypeOK, ApprovalEntries, Approvals
        <4>2. queue["export_invoice"][i] \in Nat /\ redeliveries \in Nat
          BY <2>1 DEF TypeOK, Tasks
        <4> QED BY <2>1, <4>1, <4>2, ApprovalsFinite, FS_CardinalityType DEF PaidFor
      <3> QED BY <2>1, <3>1 DEF PaidFor
    <2> QED BY <2>1 DEF ExportsPaidFor, ExportsPerApproval
  <1> QED BY <1>1, <1>2, <1>3, SessionsGood, PTL DEF Spec
=============================================================================
