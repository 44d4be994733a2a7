----------------------- MODULE PipelineLifecycleProofs -----------------------
(***************************************************************************)
(* InvoicePipeline implements InvoiceLifecycle where every message arrives *)
(* once and no invoice is decided by two requests at once, for any number  *)
(* of invoices, workers, requests and crashes.                             *)
(***************************************************************************)
EXTENDS InvoicePipelineProofs, FiniteSetTheorems

Promises == INSTANCE InvoiceLifecycleProofs WITH
                Reviewers <- Clients,
                exports <- [i \in Invoices |-> Cardinality(exports[i])]

LEMMA StartsAreApart ==
    /\ \A a, b \in Tasks \cup Decisions :
          Starts(a) \cap Starts(b) # {} => a = b \/ (a \in Decisions /\ b \in Decisions)
    /\ \A job \in Tasks \cup Decisions : Starts(job) \subseteq Statuses /\ "absent" \notin Starts(job)
    /\ \A new : FollowUp(new) # "none" =>
          FollowUp(new) \in Tasks /\ new \in Starts(FollowUp(new))
  BY DEF Tasks, Decisions, Starts, StartStatuses, FollowUp, Chain, Statuses

\* Who is on an invoice has a job.
LEMMA OnInvoice ==
    ASSUME TypeOK, SessionOK, NEW p \in Processes, NEW i \in Invoices, sess[p].inv = i
    PROVE  sess[p].pc # "idle" /\ sess[p].job \in Tasks \cup Decisions
  BY PipelineAssumption DEF TypeOK, SessionOK, GoodSession, Idle

LEMMA WriterStep ==
    ASSUME TypeOK, SessionOK, OneWriter, [Next]_vars, OnceDelivered',
           OneDecisionAtATime'
    PROVE  OneWriter'
  <1> DEFINE Messages(i) ==
                \A t \in Tasks :
                   /\ queue[t][i] <= 1
                   /\ queue[t][i] > 0 => /\ status[i] \in Starts(t)
                                         /\ \A p \in Processes : sess[p].inv # i
             Sessions(i) ==
                \A p \in Processes : sess[p].inv = i =>
                   /\ status[i] \in Starts(sess[p].job)
                   /\ sess[p].pc # "sending" => sess[p].base = status[i]
                   /\ \A q \in Processes : sess[q].inv = i => q = p
  <1>writer. \A i \in Invoices : Messages(i) /\ Sessions(i)
    BY DEF OneWriter
  <1>types. /\ TypeOK' /\ SessionOK' /\ None \notin Invoices
            /\ \A t \in Tasks, i \in Invoices : queue[t][i] \in Nat /\ queue'[t][i] \in Nat
    BY TypeStep, PipelineAssumption DEF TypeOK
  <1>shrink. ASSUME Quiet, QueueShrinks
             PROVE  OneWriter'
    <2>1. status' = status
      BY <1>shrink DEF Quiet, database
    <2>2. ASSUME NEW q \in Processes, NEW i \in Invoices, sess'[q].inv = i
          PROVE  /\ sess[q].inv = i
                 /\ sess'[q].job = sess[q].job /\ sess'[q].base = sess[q].base
                 /\ sess'[q].pc # "sending" => sess[q].pc # "sending"
      BY <1>shrink, <1>types, <2>2 DEF Quiet, Idle
    <2>3. \A t \in Tasks, i \in Invoices : queue'[t][i] <= queue[t][i]
      BY <1>shrink DEF QueueShrinks
    <2>4. ASSUME NEW i \in Invoices PROVE Messages(i)'
      <3>1. ASSUME NEW t \in Tasks
            PROVE  /\ queue'[t][i] <= 1
                   /\ queue'[t][i] > 0 => queue[t][i] > 0
        <4>1. queue[t][i] <= 1 /\ queue'[t][i] <= queue[t][i]
          BY <1>writer, <2>3
        <4> QED BY <4>1, <1>types
      <3> QED BY <1>writer, <2>1, <2>2, <3>1
    <2>5. ASSUME NEW i \in Invoices PROVE Sessions(i)'
      BY <1>writer, <2>1, <2>2
    <2> QED BY <2>4, <2>5 DEF OneWriter
  <1>send. ASSUME Quiet, NEW p \in Processes, Send(p)
           PROVE  OneWriter'
    <2>1. PICK task \in Tasks, inv \in Invoices : task = sess[p].job /\ inv = sess[p].inv
      BY <1>send DEF Send, SessionOK, GoodSession
    <2>2. /\ status' = status
          /\ sess' = [sess EXCEPT ![p] = Idle]
          /\ queue' = [queue EXCEPT ![task][inv] = @ + 1]
      BY <1>send, <2>1 DEF Quiet, database, Send
    <2>3. /\ \A q \in Processes : q # p => sess'[q] = sess[q]
          /\ \A i \in Invoices : sess'[p].inv # i
      BY <2>2, <1>types DEF Idle, TypeOK
    <2>4. /\ queue'[task][inv] = queue[task][inv] + 1
          /\ \A t \in Tasks, i \in Invoices :
                t # task \/ i # inv => queue'[t][i] = queue[t][i]
      BY <2>2, PutQueue
    <2>5. /\ status[inv] \in Starts(task)
          /\ \A q \in Processes : sess[q].inv = inv => q = p
          /\ \A t \in Tasks : queue[t][inv] = 0
      BY <1>writer, <1>types, <2>1
    <2>6. ASSUME NEW i \in Invoices PROVE Messages(i)'
      <3>1. CASE i = inv
        <4>1. \A q \in Processes : sess'[q].inv # i
          BY <2>3, <2>5, <3>1
        <4> QED BY <2>2, <2>4, <2>5, <3>1, <4>1
      <3>2. CASE i # inv
        BY <1>writer, <2>2, <2>3, <2>4, <3>2
      <3> QED BY <3>1, <3>2
    <2>7. ASSUME NEW i \in Invoices PROVE Sessions(i)'
      BY <1>writer, <2>2, <2>3
    <2> QED BY <2>6, <2>7 DEF OneWriter
  <1>redeliver. ASSUME NEW task \in Tasks, NEW i \in Invoices, Redeliver(task, i)
                PROVE  FALSE
    BY <1>redeliver, OnceBefore
  <1>load. ASSUME NEW p \in Processes, NEW job \in Tasks \cup Decisions, NEW inv \in Invoices,
                  Load(p, job, inv)
           PROVE  OneWriter'
    <2>1. /\ status' = status
          /\ sess' = [sess EXCEPT ![p] = Loaded(job, inv)] /\ sess[p].pc = "idle"
      BY <1>load DEF Load, database
    <2>2. /\ \A q \in Processes : q # p => sess'[q] = sess[q]
          /\ sess'[p].inv = inv /\ sess'[p].job = job /\ sess'[p].base = status[inv]
          /\ \A i \in Invoices : sess[p].inv # i
      BY <2>1, <1>types, OnInvoice DEF TypeOK, Loaded
    <2>3. status[inv] \in Starts(job)
      BY <1>load DEF Load, Starts, Tasks, Decisions
    <2>4. /\ \A t \in Tasks, i \in Invoices : queue'[t][i] <= queue[t][i]
          /\ \A t \in Tasks : queue'[t][inv] = 0
          /\ \A q \in Processes : q # p => sess[q].inv # inv
      <3>1. CASE job \in Tasks
        <4>1. Receive(p, job, inv)
          BY <1>load, <3>1 DEF Load
        <4>2. /\ queue[job][inv] > 0 /\ queue'[job][inv] = queue[job][inv] - 1
              /\ \A t \in Tasks, j \in Invoices : t # job \/ j # inv => queue'[t][j] = queue[t][j]
          BY <3>1, <4>1, ReceiveQueue
        <4>3. /\ queue[job][inv] <= 1 /\ \A q \in Processes : sess[q].inv # inv
              /\ \A t \in Tasks : queue[t][inv] > 0 => status[inv] \in Starts(t)
          BY <1>writer, <3>1, <4>2
        <4>4. \A t \in Tasks : t # job => ~(queue[t][inv] > 0)
          BY <2>3, <3>1, <4>3, StartsAreApart DEF Tasks, Decisions
        <4>5. \A t \in Tasks, i \in Invoices : queue'[t][i] <= queue[t][i]
          BY <4>2, <1>types
        <4>6. ASSUME NEW t \in Tasks PROVE queue'[t][inv] = 0
          <5>1. CASE t = job
            BY <3>1, <4>2, <4>3, <1>types, <5>1
          <5>2. CASE t # job
            BY <4>2, <4>4, <1>types, <5>2
          <5> QED BY <5>1, <5>2
        <4> QED BY <4>3, <4>5, <4>6
      <3>2. CASE job \in Decisions
        <4>1. queue' = queue
          BY <1>load, <3>2 DEF Load
        <4>2. ASSUME NEW t \in Tasks PROVE queue[t][inv] = 0
          <5>1. queue[t][inv] > 0 => status[inv] \in Starts(t)
            BY <1>writer
          <5>2. ~(queue[t][inv] > 0)
            BY <2>3, <3>2, <5>1, StartsAreApart DEF Tasks, Decisions
          <5> QED BY <5>2, <1>types
        <4>3. ASSUME NEW q \in Processes, q # p, sess[q].inv = inv PROVE FALSE
          <5>1. status[inv] \in Starts(sess[q].job)
            BY <1>writer, <4>3
          <5>2. sess[q].pc # "idle" /\ sess[q].job \in Tasks \cup Decisions
            BY <4>3, OnInvoice
          <5>3. PICK other \in Decisions : other = sess[q].job
            BY <2>3, <3>2, <5>1, <5>2, StartsAreApart DEF Tasks, Decisions
          <5>4. Holder(q, other, inv)' /\ Holder(p, job, inv)'
            BY <2>1, <2>2, <4>3, <5>2, <5>3 DEF Holder, Loaded, TypeOK
          <5> QED BY <3>2, <4>3, <5>3, <5>4 DEF OneDecisionAtATime
        <4> QED BY <4>1, <4>2, <4>3, <1>types
      <3> QED BY <3>1, <3>2
    <2>5. ASSUME NEW i \in Invoices PROVE Messages(i)' /\ Sessions(i)'
      <3>1. CASE i = inv
        BY <1>types, <2>1, <2>2, <2>3, <2>4, <3>1
      <3>2. CASE i # inv
        <4>1. \A t \in Tasks : queue'[t][i] <= 1 /\ (queue'[t][i] > 0 => queue[t][i] > 0)
          <5>1. ASSUME NEW t \in Tasks
                PROVE  queue'[t][i] <= 1 /\ (queue'[t][i] > 0 => queue[t][i] > 0)
            <6>1. queue[t][i] <= 1 /\ queue'[t][i] <= queue[t][i]
              BY <1>writer, <2>4
            <6> QED BY <6>1, <1>types
          <5> QED BY <5>1
        <4>2. \A q \in Processes : sess'[q].inv = i => q # p /\ sess'[q] = sess[q]
          BY <2>2, <3>2
        <4> QED BY <1>writer, <2>1, <4>1, <4>2
      <3> QED BY <3>1, <3>2
    <2> QED BY <2>5 DEF OneWriter
  \* An invoice whose writer is p moves on to a new status.
  <1>on. ASSUME NEW p \in Processes, NEW inv \in Invoices, NEW new \in Statuses, queue' = queue,
                status' = [status EXCEPT ![inv] = new],
                sess' = [sess EXCEPT ![p] = Committed(inv, new)],
                \A t \in Tasks : queue[t][inv] = 0,
                \A i \in Invoices : i # inv => sess[p].inv # i,
                \A q \in Processes : q # p => sess[q].inv # inv
         PROVE  OneWriter'
    <2>1. /\ status'[inv] = new /\ \A i \in Invoices : i # inv => status'[i] = status[i]
          /\ sess'[p] = Committed(inv, new) /\ \A q \in Processes : q # p => sess'[q] = sess[q]
      BY <1>on DEF TypeOK
    <2>2. /\ FollowUp(new) = "none" => \A i \in Invoices : sess'[p].inv # i
          /\ FollowUp(new) # "none" => /\ sess'[p].inv = inv /\ sess'[p].pc = "sending"
                                       /\ new \in Starts(sess'[p].job)
      BY <2>1, <1>types, CommittedType, StartsAreApart DEF Idle, Sending
    <2>3. ASSUME NEW i \in Invoices PROVE Messages(i)' /\ Sessions(i)'
      <3>1. CASE i = inv
        <4>1. \A q \in Processes : sess'[q].inv = i => q = p /\ FollowUp(new) # "none"
          BY <1>on, <2>1, <2>2, <3>1
        <4> QED BY <1>on, <2>1, <2>2, <3>1, <4>1
      <3>2. CASE i # inv
        <4>1. \A q \in Processes : sess'[q].inv = i => sess'[q] = sess[q]
          BY <2>1, <2>2, <3>2
        <4>2. \A q \in Processes : sess'[q].inv = i => sess[q].inv = i
          BY <4>1
        <4> QED BY <1>writer, <1>on, <2>1, <3>2, <4>1, <4>2
      <3> QED BY <3>1, <3>2
    <2> QED BY <2>3 DEF OneWriter
  <1>upload. ASSUME NEW c \in Clients, NEW inv \in Invoices, Upload(c, inv)
             PROVE  OneWriter'
    <2>1. /\ status[inv] = "absent" /\ queue' = queue /\ c \in Processes
          /\ status' = [status EXCEPT ![inv] = "received"]
          /\ sess' = [sess EXCEPT ![c] = Committed(inv, "received")]
          /\ sess[c].pc = "idle"
      BY <1>upload DEF Upload, Processes
    <2>2. ASSUME NEW t \in Tasks PROVE queue[t][inv] = 0
      <3>1. queue[t][inv] > 0 => status[inv] \in Starts(t)
        BY <1>writer
      <3>2. ~(queue[t][inv] > 0)
        BY <2>1, <3>1, StartsAreApart
      <3> QED BY <3>2, <1>types
    <2>3. ASSUME NEW q \in Processes PROVE sess[q].inv # inv
      <3>1. sess[q].inv = inv => status[inv] \in Starts(sess[q].job)
        BY <1>writer
      <3> QED BY <2>1, <3>1, OnInvoice, StartsAreApart
    <2>4. \A i \in Invoices : sess[c].inv # i
      BY <2>1, OnInvoice
    <2>5. PICK p \in Processes, new \in Statuses : p = c /\ new = "received"
      BY <2>1 DEF Statuses
    <2>6. /\ queue' = queue
          /\ status' = [status EXCEPT ![inv] = new]
          /\ sess' = [sess EXCEPT ![p] = Committed(inv, new)]
          /\ \A q \in Processes : q # p => sess[q].inv # inv
          /\ \A i \in Invoices : i # inv => sess[p].inv # i
      BY <2>1, <2>3, <2>4, <2>5
    <2> QED BY <2>2, <2>6, <1>on
  <1>commit. ASSUME NEW p \in Processes, NEW inv \in Invoices, NEW new \in Statuses,
                    CommitOf(p, inv, new)
             PROVE  OneWriter'
    <2>1. /\ sess[p].inv = inv /\ queue' = queue
          /\ status' = [status EXCEPT ![inv] = new]
          /\ sess' = [sess EXCEPT ![p] = Committed(inv, new)]
      BY <1>commit DEF CommitOf
    <2>2. /\ \A t \in Tasks : queue[t][inv] = 0
          /\ \A q \in Processes : q # p => sess[q].inv # inv
      BY <1>writer, <1>types, <2>1
    <2> QED BY <2>1, <2>2, <1>on
  <1> QED
    BY StepKinds, CommitIsCommitOf, <1>shrink, <1>send, <1>redeliver, <1>load, <1>upload, <1>commit
-----------------------------------------------------------------------------
(* Every step is a step of the lifecycle.                                  *)

\* Both modules read the one table.
LEMMA SameTable ==
    /\ Lifecycle!Statuses = Statuses /\ Lifecycle!TerminalStatuses = TerminalStatuses
    /\ \A a, b : Lifecycle!CanTransition(a, b) <=> CanTransition(a, b)
  BY DEF Lifecycle!Statuses, Statuses, Lifecycle!TerminalStatuses, TerminalStatuses,
         Lifecycle!CanTransition, CanTransition, Lifecycle!AllowedTransitions, AllowedTransitions

LifeInv == TypeOK /\ SessionOK /\ OneWriter /\ ExportsFollow

\* The log and the status after a commit of one and of two moves.
LEMMA OneMove ==
    ASSUME LifeInv, NEW p \in Processes, sess[p].pc \notin {"idle", "sending"},
           NEW new \in Statuses, NEW actor, Commit(p, <<new>>, actor), exports' = exports,
           new \in {"validated", "auto_approved", "needs_review", "approved", "rejected"},
           IF sess[p].job \in Decisions THEN actor \in Clients ELSE actor = "system"
    PROVE  Lifecycle!Next /\ ExportsFollow'
  <1>1. PICK i \in Invoices : i = sess[p].inv
    BY DEF LifeInv, SessionOK, GoodSession
  <1>2. /\ sess[p].base = status[i] /\ status[i] \in Starts(sess[p].job)
        /\ sess[p].job \in Tasks \cup Decisions
    BY <1>1, OnInvoice DEF LifeInv, OneWriter
  <1> DEFINE trail == [k \in DOMAIN <<new>> |->
                          [from |-> IF k = 1 THEN status[i] ELSE <<new>>[k - 1],
                           to |-> <<new>>[k], actor |-> actor]]
  <1>3. trail = <<Lifecycle!Entry(status[i], new, actor)>>
    BY DEF Lifecycle!Entry
  <1>4. /\ CanTransition(status[i], new)
        /\ status' = [status EXCEPT ![i] = new]
        /\ audit' = [audit EXCEPT ![i] = @ \o trail]
    <2>1. Advance(i, status[i], <<new>>, actor)
      BY <1>1, <1>2 DEF Commit
    <2> QED BY <2>1 DEF Advance
  <1> HIDE DEF trail
  <1>5. audit' = [audit EXCEPT ![i] = Append(@, Lifecycle!Entry(status[i], new, actor))]
    <2>1. audit[i] \o <<Lifecycle!Entry(status[i], new, actor)>>
             = Append(audit[i], Lifecycle!Entry(status[i], new, actor))
      BY DEF LifeInv, TypeOK
    <2> QED BY <1>3, <1>4, <2>1 DEF LifeInv, TypeOK
  <1>6. actor \in IF status[i] = "needs_review" THEN Clients ELSE {"system"}
    BY <1>2, StartsAreApart DEF Starts, Tasks, Decisions, StartStatuses
  <1>7. status[i] \in Statuses
    BY <1>4, TransitionStatuses
  <1>8. Lifecycle!Move(i, new, actor)
    BY <1>4, <1>5, <1>6, <1>7, SameTable DEF Lifecycle!Move, LifeInv, TypeOK
  <1>9. ExportsFollow'
    <2>1. status[i] # "exported"
      BY <1>4 DEF CanTransition, AllowedTransitions
    <2> QED BY <1>4, <2>1 DEF LifeInv, ExportsFollow, ExportFollows, TypeOK
  <1> QED BY <1>6, <1>8, <1>9 DEF Lifecycle!Next

LEMMA TwoMoves ==
    ASSUME LifeInv, NEW p \in Processes, sess[p].pc \notin {"idle", "sending"},
           NEW mid \in {"extracting", "matching", "exporting"},
           NEW new \in {"extracted", "validating", "exported", "failed"},
           CanTransition(mid, new) /\ (new = "exported" <=> mid = "exporting"),
           Commit(p, <<mid, new>>, "system"),
           IF new = "exported"
           THEN \E key : exports' = [exports EXCEPT ![sess[p].inv] = @ \cup {key}]
           ELSE exports' = exports
    PROVE  Lifecycle!Next /\ ExportsFollow'
  <1>1. PICK i \in Invoices : i = sess[p].inv
    BY DEF LifeInv, SessionOK, GoodSession
  <1>2. sess[p].base = status[i]
    BY <1>1, OnInvoice DEF LifeInv, OneWriter
  <1> DEFINE path == <<mid, new>>
             trail == [k \in DOMAIN path |->
                          [from |-> IF k = 1 THEN status[i] ELSE path[k - 1],
                           to |-> path[k], actor |-> "system"]]
             d == Lifecycle!Entry(status[i], mid, "system")
             e == Lifecycle!Entry(mid, new, "system")
  <1>3. trail = <<d, e>>
    BY DEF Lifecycle!Entry
  <1>4. /\ CanTransition(status[i], mid)
        /\ status' = [status EXCEPT ![i] = new]
        /\ audit' = [audit EXCEPT ![i] = @ \o trail]
    <2>1. Advance(i, status[i], path, "system")
      BY <1>1, <1>2 DEF Commit
    <2> QED BY <2>1 DEF Advance
  <1>5. audit' = [audit EXCEPT ![i] = @ \o <<d, e>>]
    BY <1>3, <1>4
  <1>6. status[i] # "exported" /\ exports[i] = {}
    <2>1. status[i] # "exported"
      BY <1>4 DEF CanTransition, AllowedTransitions
    <2> QED BY <2>1 DEF LifeInv, ExportsFollow, ExportFollows
  <1>7. CASE new = "exported"
    <2>1. PICK key : exports' = [exports EXCEPT ![i] = {key}]
      BY <1>1, <1>6, <1>7
    <2>2. /\ [j \in Invoices |-> Cardinality(exports[j])][i] = 0
          /\ [j \in Invoices |-> Cardinality(exports[j])]'
                = [[j \in Invoices |-> Cardinality(exports[j])] EXCEPT ![i] = 1]
      <3>1. Cardinality({}) = 0 /\ Cardinality({key}) = 1
        BY FS_EmptySet, FS_Singleton
      <3>2. \A j \in Invoices : exports'[j] = IF j = i THEN {key} ELSE exports[j]
        BY <2>1 DEF LifeInv, TypeOK
      <3> QED BY <1>6, <3>1, <3>2
    <2>3. Lifecycle!Work(i, mid, new)
      BY <1>4, <1>5, <1>7, <2>2, SameTable DEF Lifecycle!Work
    <2>4. ExportsFollow'
      <3>1. status'[i] = "exported" /\ exports'[i] = {key}
        BY <1>4, <1>7, <2>1 DEF LifeInv, TypeOK
      <3>2. \A j \in Invoices : j # i => status'[j] = status[j] /\ exports'[j] = exports[j]
        BY <1>4, <2>1 DEF LifeInv, TypeOK
      <3> QED BY <3>1, <3>2 DEF LifeInv, ExportsFollow, ExportFollows
    <2> QED BY <2>3, <2>4 DEF Lifecycle!Next
  <1>8. CASE new # "exported"
    <2>1. exports' = exports
      BY <1>8
    <2>2. Lifecycle!Work(i, mid, new)
      BY <1>4, <1>5, <1>8, <2>1, SameTable DEF Lifecycle!Work
    <2>3. ExportsFollow'
      BY <1>4, <1>6, <2>1 DEF LifeInv, ExportsFollow, ExportFollows, TypeOK
    <2> QED BY <2>2, <2>3 DEF Lifecycle!Next
  <1> QED BY <1>7, <1>8

LEMMA CommitLives ==
    ASSUME LifeInv, CommitStep
    PROVE  Lifecycle!Next /\ ExportsFollow'
  <1> DEFINE Goal == Lifecycle!Next /\ ExportsFollow'
  <1>names. /\ {"validated", "auto_approved", "needs_review", "approved", "rejected"} \subseteq Statuses
            /\ CanTransition("extracting", "extracted") /\ CanTransition("extracting", "failed")
            /\ CanTransition("matching", "validating") /\ CanTransition("exporting", "exported")
            /\ Workers \subseteq Processes /\ Clients \subseteq Processes
    BY DEF Statuses, CanTransition, AllowedTransitions, Processes
  <1>1. ASSUME NEW w \in Workers, NEW r \in Readings, CompleteExtraction(w, r) PROVE Goal
    BY <1>1, <1>names, TwoMoves DEF CompleteExtraction, Doing
  <1>2. ASSUME NEW w \in Workers, FailExtraction(w) PROVE Goal
    BY <1>2, <1>names, TwoMoves DEF FailExtraction, Doing
  <1>3. ASSUME NEW w \in Workers, NEW m \in Matches, CompleteMatching(w, m) PROVE Goal
    BY <1>3, <1>names, TwoMoves DEF CompleteMatching, Doing
  <1>4. ASSUME NEW w \in Workers, NEW passed \in {"passed", "failed"}, CompleteValidation(w, passed)
        PROVE  Goal
    <2>1. /\ Commit(w, <<"validated">>, "system") /\ exports' = exports
          /\ sess[w].pc = "scanning" /\ sess[w].job \notin Decisions
      BY <1>4, <1>names DEF CompleteValidation, LifeInv, SessionOK, GoodSession, Decisions
    <2> QED BY <2>1, <1>names, OneMove
  <1>5. ASSUME NEW w \in Workers, CompleteApproval(w) PROVE Goal
    <2>1. Decision(sess[w]) \in {"auto_approved", "needs_review"}
      BY DEF Decision
    <2>2. /\ Commit(w, <<Decision(sess[w])>>, "system") /\ exports' = exports
          /\ sess[w].pc = "loaded" /\ sess[w].job \notin Decisions
      BY <1>5 DEF CompleteApproval, Doing, Decisions
    <2> QED BY <2>1, <2>2, <1>names, OneMove
  <1>6. ASSUME NEW w \in Workers, CompleteExport(w) PROVE Goal
    <2>1. /\ Commit(w, <<"exporting", "exported">>, "system") /\ sess[w].pc = "stored"
          /\ \E key : exports' = [exports EXCEPT ![sess[w].inv] = @ \cup {key}]
      BY <1>6 DEF CompleteExport, Doing
    <2> QED BY <2>1, <1>names, TwoMoves
  <1>7. ASSUME NEW c \in Clients, RecordDecision(c) PROVE Goal
    <2>1. Target(sess[c].job) \in {"approved", "rejected"}
      BY DEF Target
    <2>2. /\ Commit(c, <<Target(sess[c].job)>>, c) /\ exports' = exports
          /\ sess[c].pc \notin {"idle", "sending"} /\ sess[c].job \in Decisions
      BY <1>7 DEF RecordDecision, Doing, Decisions
    <2> QED BY <2>1, <2>2, <1>names, OneMove
  <1> QED BY <1>1, <1>2, <1>3, <1>4, <1>5, <1>6, <1>7 DEF CommitStep

LEMMA LifeStep ==
    ASSUME LifeInv, [Next]_vars, OnceDelivered', OneDecisionAtATime'
    PROVE  LifeInv' /\ [Lifecycle!Next]_(Lifecycle!vars)
  <1>1. TypeOK' /\ SessionOK' /\ OneWriter'
    BY TypeStep, WriterStep DEF LifeInv
  <1>2. ASSUME UNCHANGED database
        PROVE  ExportsFollow' /\ UNCHANGED Lifecycle!vars
    BY <1>2 DEF LifeInv, ExportsFollow, ExportFollows, database, Lifecycle!vars
  <1>3. ASSUME NEW c \in Clients, NEW i \in Invoices, Upload(c, i)
        PROVE  ExportsFollow' /\ Lifecycle!Next
    <2>1. Lifecycle!Arrive(i)
      BY <1>3 DEF Upload, Lifecycle!Arrive
    <2>2. ExportsFollow'
      BY <1>3 DEF Upload, LifeInv, ExportsFollow, ExportFollows, TypeOK
    <2> QED BY <2>1, <2>2 DEF Lifecycle!Next
  <1>4. \/ UNCHANGED database
        \/ \E c \in Clients, i \in Invoices : Upload(c, i)
        \/ CommitStep
    BY StepKinds DEF LifeInv, Quiet, Load
  <1> QED BY <1>1, <1>2, <1>3, <1>4, CommitLives DEF LifeInv

\* Whatever crashes and whoever works on it, every invoice's committed history
\* is one the lifecycle allows.
THEOREM PipelineKeepsLifecycle ==
    Spec /\ []OnceDelivered /\ []OneDecisionAtATime => KeepsLifecycle
  <1>1. Init => LifeInv /\ Lifecycle!Init
    <2>1. Init => OneWriter /\ ExportsFollow
      BY PipelineAssumption DEF Init, OneWriter, ExportsFollow, ExportFollows, Idle, Tasks
    <2>2. Init => Lifecycle!Init
      BY FS_EmptySet DEF Init, Lifecycle!Init
    <2> QED BY <2>1, <2>2, TypeInit DEF LifeInv
  <1>2. LifeInv /\ [Next]_vars /\ OnceDelivered' /\ OneDecisionAtATime' =>
           LifeInv' /\ [Lifecycle!Next]_(Lifecycle!vars)
    BY LifeStep
  <1> QED BY <1>1, <1>2, PTL DEF Spec, KeepsLifecycle, Lifecycle!Spec

\* What the lifecycle promises is therefore true of the pipeline.
LEMMA PromisesKept ==
    KeepsLifecycle => Promises!Spec
  <1>1. Lifecycle!Init <=> Promises!Init
    BY DEF Lifecycle!Init, Promises!Init
  <1>2. [Lifecycle!Next]_(Lifecycle!vars) <=> [Promises!Next]_(Promises!vars)
    <2>1. \A i \in Invoices : Lifecycle!Arrive(i) <=> Promises!Arrive(i)
      BY DEF Lifecycle!Arrive, Promises!Arrive
    <2>2. \A a, b : Lifecycle!CanTransition(a, b) <=> Promises!CanTransition(a, b)
      BY DEF Lifecycle!CanTransition, Lifecycle!AllowedTransitions,
             Promises!CanTransition, Promises!AllowedTransitions
    <2>3. Lifecycle!Statuses = Promises!Statuses
      BY DEF Lifecycle!Statuses, Promises!Statuses
    <2>4. \A a, b, c : Lifecycle!Entry(a, b, c) = Promises!Entry(a, b, c)
      BY DEF Lifecycle!Entry, Promises!Entry
    <2>5. \A i \in Invoices : \A new, actor : Lifecycle!Move(i, new, actor) <=> Promises!Move(i, new, actor)
      BY <2>2, <2>3, <2>4 DEF Lifecycle!Move, Promises!Move
    <2>6. \A i \in Invoices : \A mid, new : Lifecycle!Work(i, mid, new) <=> Promises!Work(i, mid, new)
      BY <2>2, <2>4 DEF Lifecycle!Work, Promises!Work
    <2> QED BY <2>1, <2>5, <2>6 DEF Lifecycle!Next, Promises!Next, Lifecycle!vars, Promises!vars
  <1> QED BY <1>1, <1>2, PTL DEF KeepsLifecycle, Lifecycle!Spec, Promises!Spec

\* The audit log always reconstructs the invoice's history.
THEOREM AuditAlwaysReconstructs ==
    Spec /\ []OnceDelivered /\ []OneDecisionAtATime => []AuditReconstructs
  <1>1. Promises!AuditReconstructs => AuditReconstructs
    BY DEF Promises!AuditReconstructs, AuditReconstructs, Reconstructs
  <1>2. Promises!Spec => []Promises!AuditReconstructs
    BY Promises!LogReconstructs
  <1> QED BY <1>1, <1>2, PipelineKeepsLifecycle, PromisesKept, PTL

\* However often an export is begun and given up, one exports row is written.
THEOREM ExportedOnce ==
    Spec /\ []OnceDelivered /\ []OneDecisionAtATime => []ExportedAtMostOnce
  <1>1. Promises!ExportedAtMostOnce => ExportedAtMostOnce
    BY DEF Promises!ExportedAtMostOnce, ExportedAtMostOnce
  <1>2. Promises!Spec => []Promises!ExportedAtMostOnce
    BY Promises!OneExport
  <1> QED BY <1>1, <1>2, PipelineKeepsLifecycle, PromisesKept, PTL

\* exported, rejected and failed are final, although a commit overwrites
\* whatever the row has become since it was read.
THEOREM FinalIsFinal ==
    Spec /\ []OnceDelivered /\ []OneDecisionAtATime => TerminalIsFinal
  <1>1. [\A i \in Invoices : status[i] \in Promises!TerminalStatuses => status'[i] = status[i]]_(Promises!vars)
           => [\A i \in Invoices : status[i] \in TerminalStatuses => status'[i] = status[i]]_vars
    BY DEF Promises!vars, Promises!TerminalStatuses, TerminalStatuses, Promises!Statuses, Statuses,
           Promises!AllowedTransitions, AllowedTransitions
  <1>2. Promises!Spec => Promises!TerminalIsFinal
    BY Promises!FinalForGood
  <1> QED
    BY <1>1, <1>2, PipelineKeepsLifecycle, PromisesKept, PTL
    DEF TerminalIsFinal, Promises!TerminalIsFinal
-----------------------------------------------------------------------------
(* Requests that hold an invoice open at once, until a second one decides.  *)

LEMMA LogOnlyGrows ==
    ASSUME TypeOK, SessionOK, [Next]_vars, NEW i \in Invoices
    PROVE  /\ Undisputed(i)' => Undisputed(i)
           /\ NobodyDecided(i)' => NobodyDecided(i)
  BY EntriesStay DEF Undisputed, NobodyDecided

\* A person's decision is in the log for good; a second one disputes the first.
LEMMA DecisionRecorded ==
    ASSUME TypeOK, NEW p \in Processes, NEW inv \in Invoices, NEW new, NEW actor \in Clients,
           NEW trail \in Seq(AuditEntry), Traced(p, inv, new, actor, trail)
    PROVE  /\ ~NobodyDecided(inv)'
           /\ Undisputed(inv)' => NobodyDecided(inv)
  <1>1. audit[inv] \in Seq(AuditEntry) /\ audit'[inv] = audit[inv] \o trail
    BY DEF TypeOK, Traced
  <1>2. trail # <<>> /\ trail[1].actor = actor
    BY DEF Traced, Walk
  <1>3. PICK last \in DOMAIN audit'[inv] \ DOMAIN audit[inv] : audit'[inv][last] = trail[1]
    <2> DEFINE log == audit[inv]
    <2>1. log \in Seq(AuditEntry) /\ audit'[inv] = log \o trail
      BY <1>1
    <2> HIDE DEF log
    <2>2. \E k \in DOMAIN (log \o trail) \ DOMAIN log : (log \o trail)[k] = trail[1]
      BY <1>2, <2>1, GrownLog
    <2>3. \E k \in DOMAIN audit'[inv] \ DOMAIN log : audit'[inv][k] = trail[1]
      BY <2>1, <2>2
    <2> QED BY <2>3 DEF log
  <1>4. \A k \in DOMAIN audit[inv] : k \in DOMAIN audit'[inv] /\ audit'[inv][k] = audit[inv][k]
    BY <1>1, GrownLog
  <1>5. last \in DOMAIN audit'[inv] /\ audit'[inv][last].actor \in Clients
    BY <1>2, <1>3
  <1> QED BY <1>3, <1>4, <1>5 DEF NobodyDecided, Undisputed

\* What UndisputedInv says of one invoice.
Orderly(i) ==
    /\ OneMachine(i) /\ DecisionsWait(i)
    /\ Reconstructs(i) /\ Unmoved(i) /\ ExportFollows(i)

\* An invoice that is not there yet has no entry and nobody on it.
LEMMA NothingBefore ==
    ASSUME TypeOK, SessionOK, NEW i \in Invoices, Orderly(i), status[i] = "absent"
    PROVE  /\ audit[i] = <<>> /\ NobodyDecided(i)
           /\ \A t \in Tasks : queue[t][i] = 0
           /\ \A q \in Processes : sess[q].inv # i
  <1>1. audit[i] = <<>>
    <2>1. ASSUME audit[i] # <<>>
          PROVE  FALSE
      <3>1. audit[i] \in Seq(AuditEntry)
        BY DEF TypeOK
      <3>2. Len(audit[i]) \in DOMAIN audit[i]
        BY <2>1, <3>1
      <3>3. audit[i][Len(audit[i])] \in AuditEntry
        BY <3>1, <3>2
      <3>4. audit[i][Len(audit[i])].to = "absent"
        BY <2>1 DEF Orderly, Reconstructs
      <3> QED BY <3>3, <3>4 DEF AuditEntry, Statuses
    <2> QED BY <2>1
  <1>2. NobodyDecided(i)
    BY <1>1 DEF NobodyDecided
  <1>3. ASSUME NEW t \in Tasks PROVE queue[t][i] = 0
    <2>1. queue[t][i] \in Nat /\ "absent" \notin StartStatuses(t)
      BY DEF TypeOK, Tasks, StartStatuses
    <2>2. queue[t][i] > 0 => status[i] \in StartStatuses(t)
      BY DEF Orderly, OneMachine
    <2> QED BY <2>1, <2>2
  <1>4. ASSUME NEW q \in Processes, sess[q].inv = i PROVE FALSE
    <2>1. sess[q].job \in Tasks \cup Decisions
      BY <1>4, OnInvoice
    <2>2. CASE sess[q].job \in Tasks
      <3>1. status[i] \in StartStatuses(sess[q].job)
        BY <1>4, <2>2 DEF Orderly, OneMachine, Machine
      <3> QED BY <2>2, <3>1 DEF Tasks, StartStatuses
    <2>3. CASE sess[q].job \in Decisions
      BY <1>2, <1>4, <2>3 DEF Orderly, DecisionsWait
    <2> QED BY <2>1, <2>2, <2>3
  <1> QED BY <1>1, <1>2, <1>3, <1>4

\* While nobody has decided, whoever decides does so alone, on the row as it is.
LEMMA FirstDecision ==
    ASSUME TypeOK, SessionOK, NEW i \in Invoices, Orderly(i), NobodyDecided(i),
           NEW p \in Processes, sess[p].inv = i, sess[p].job \in Decisions
    PROVE  /\ status[i] = "needs_review"
           /\ \A t \in Tasks : queue[t][i] = 0
           /\ \A q \in Processes : ~Machine(q, i)
  <1>1. status[i] = "needs_review"
    BY DEF Orderly, DecisionsWait
  <1>2. \A t \in Tasks : "needs_review" \notin StartStatuses(t) /\ queue[t][i] \in Nat
    BY DEF TypeOK, Tasks, StartStatuses
  <1>3. \A t \in Tasks : queue[t][i] > 0 => status[i] \in StartStatuses(t)
    BY DEF Orderly, OneMachine
  <1>4. \A t \in Tasks : queue[t][i] = 0
    BY <1>1, <1>2, <1>3
  <1>5. \A q \in Processes : ~Machine(q, i)
    BY <1>1, <1>2 DEF Orderly, OneMachine, Machine
  <1> QED BY <1>1, <1>4, <1>5

LEMMA MachineStep ==
    ASSUME TypeOK, SessionOK, [Next]_vars, OnceDelivered', NEW i \in Invoices,
           Orderly(i), Undisputed(i)'
    PROVE  OneMachine(i)' /\ DecisionsWait(i)'
  <1> DEFINE Goal == OneMachine(i)' /\ DecisionsWait(i)'
  <1>types. /\ TypeOK' /\ SessionOK' /\ None \notin Invoices
            /\ \A t \in Tasks : queue[t][i] \in Nat /\ queue'[t][i] \in Nat
            /\ \A job \in Decisions : job \notin Tasks
            /\ \A t \in Tasks : "absent" \notin StartStatuses(t) /\ "needs_review" \notin StartStatuses(t)
    <2>1. TypeOK' /\ SessionOK' /\ None \notin Invoices
      BY TypeStep, PipelineAssumption
    <2>2. \A t \in Tasks : queue[t][i] \in Nat /\ queue'[t][i] \in Nat
      BY <2>1 DEF TypeOK
    <2>3. /\ \A job \in Decisions : job \notin Tasks
          /\ \A t \in Tasks :
                "absent" \notin StartStatuses(t) /\ "needs_review" \notin StartStatuses(t)
      BY DEF Tasks, Decisions, StartStatuses
    <2> QED BY <2>1, <2>2, <2>3
  <1>before. NobodyDecided(i)' => NobodyDecided(i)
    BY LogOnlyGrows
  <1>machine. /\ \A t \in Tasks :
                    /\ queue[t][i] <= 1
                    /\ queue[t][i] > 0 => /\ status[i] \in StartStatuses(t)
                                          /\ \A q \in Processes : ~Machine(q, i)
              /\ \A q \in Processes : Machine(q, i) =>
                    /\ status[i] \in StartStatuses(sess[q].job)
                    /\ sess[q].pc # "sending" => sess[q].base = status[i]
                    /\ \A r \in Processes : Machine(r, i) => r = q
    BY DEF Orderly, OneMachine
  <1>waits. NobodyDecided(i) =>
               \A q \in Processes : sess[q].inv = i /\ sess[q].job \in Decisions
                                       => status[i] = "needs_review"
    BY DEF Orderly, DecisionsWait
  \* No process takes i up, no message about it is added.
  <1>calm. ASSUME status'[i] = status[i],
                  \A t \in Tasks : queue'[t][i] <= queue[t][i],
                  \A q \in Processes : sess'[q].inv = i =>
                     /\ sess[q].inv = i
                     /\ sess'[q].job = sess[q].job /\ sess'[q].base = sess[q].base
                     /\ sess'[q].pc # "sending" => sess[q].pc # "sending"
           PROVE  Goal
    <2>1. \A q \in Processes : Machine(q, i)' => Machine(q, i)
      BY <1>calm DEF Machine
    <2>2. ASSUME NEW t \in Tasks
          PROVE  queue'[t][i] <= 1 /\ (queue'[t][i] > 0 => queue[t][i] > 0)
      <3>1. queue[t][i] <= 1 /\ queue'[t][i] <= queue[t][i]
        BY <1>machine, <1>calm
      <3> QED BY <1>types, <3>1
    <2>3. OneMachine(i)'
      BY <1>machine, <1>calm, <2>1, <2>2 DEF OneMachine, Machine
    <2>4. DecisionsWait(i)'
      BY <1>waits, <1>before, <1>calm DEF DecisionsWait
    <2> QED BY <2>3, <2>4
  <1>shrink. ASSUME Quiet, QueueShrinks
             PROVE  Goal
    <2>1. status' = status /\ \A t \in Tasks : queue'[t][i] <= queue[t][i]
      BY <1>shrink DEF Quiet, database, QueueShrinks
    <2>2. ASSUME NEW q \in Processes, sess'[q].inv = i
          PROVE  /\ sess[q].inv = i
                 /\ sess'[q].job = sess[q].job /\ sess'[q].base = sess[q].base
                 /\ sess'[q].pc # "sending" => sess[q].pc # "sending"
      BY <1>shrink, <1>types, <2>2 DEF Quiet, Idle
    <2> QED BY <2>1, <2>2, <1>calm
  <1>send. ASSUME Quiet, NEW p \in Processes, Send(p)
           PROVE  Goal
    <2>1. PICK task \in Tasks, inv \in Invoices : task = sess[p].job /\ inv = sess[p].inv
      BY <1>send DEF Send, SessionOK, GoodSession
    <2>2. /\ status' = status
          /\ sess' = [sess EXCEPT ![p] = Idle]
          /\ queue' = [queue EXCEPT ![task][inv] = @ + 1]
      BY <1>send, <2>1 DEF Quiet, database, Send
    <2>3. /\ \A q \in Processes : q # p => sess'[q] = sess[q]
          /\ sess'[p].inv # i
      BY <2>2, <1>types DEF Idle, TypeOK
    <2>4. /\ queue'[task][inv] = queue[task][inv] + 1
          /\ \A t \in Tasks, j \in Invoices :
                t # task \/ j # inv => queue'[t][j] = queue[t][j]
      BY <2>2, PutQueue
    <2>5. CASE i = inv
      <3>1. Machine(p, i)
        BY <2>1, <2>5 DEF Machine
      <3>2. /\ status[i] \in StartStatuses(task)
            /\ \A q \in Processes : Machine(q, i) => q = p
            /\ \A t \in Tasks : queue[t][i] = 0
        BY <1>machine, <1>types, <2>1, <3>1
      <3>3. \A q \in Processes : ~Machine(q, i)'
        BY <2>3, <3>2 DEF Machine
      <3>4. OneMachine(i)'
        BY <2>2, <2>4, <2>5, <3>2, <3>3 DEF OneMachine
      <3>5. DecisionsWait(i)'
        BY <1>waits, <1>before, <2>2, <2>3 DEF DecisionsWait
      <3> QED BY <3>4, <3>5
    <2>6. CASE i # inv
      BY <1>types, <1>calm, <2>2, <2>3, <2>4, <2>6
    <2> QED BY <2>5, <2>6
  <1>load. ASSUME NEW p \in Processes, NEW job \in Tasks \cup Decisions, NEW inv \in Invoices,
                  Load(p, job, inv)
           PROVE  Goal
    <2>1. /\ status' = status
          /\ sess' = [sess EXCEPT ![p] = Loaded(job, inv)] /\ sess[p].pc = "idle"
      BY <1>load DEF Load, database
    <2>2. /\ \A q \in Processes : q # p => sess'[q] = sess[q]
          /\ sess'[p].inv = inv /\ sess'[p].job = job /\ sess'[p].base = status[inv]
          /\ sess[p].inv # i
      BY <2>1, <1>types, OnInvoice DEF TypeOK, Loaded
    <2>3. CASE job \in Tasks
      <3>1. Receive(p, job, inv) /\ status[inv] \in StartStatuses(job)
        BY <1>load, <2>3 DEF Load
      <3>2. /\ queue[job][inv] > 0 /\ queue'[job][inv] = queue[job][inv] - 1
            /\ \A t \in Tasks, j \in Invoices : t # job \/ j # inv => queue'[t][j] = queue[t][j]
        BY <2>3, <3>1, ReceiveQueue
      <3>3. CASE i = inv
        <4>1. /\ queue[job][i] <= 1 /\ \A q \in Processes : ~Machine(q, i)
              /\ \A t \in Tasks : queue[t][i] > 0 => status[i] \in StartStatuses(t)
          BY <1>machine, <2>3, <3>2, <3>3
        <4>2. \A t \in Tasks : t # job => StartStatuses(t) \cap StartStatuses(job) = {}
          BY <2>3 DEF Tasks, StartStatuses
        <4>3. \A t \in Tasks : t # job => ~(queue[t][i] > 0)
          BY <2>3, <3>1, <3>3, <4>1, <4>2
        <4>4. \A t \in Tasks : queue'[t][i] = 0
          BY <1>types, <2>3, <3>2, <3>3, <4>1, <4>3
        <4>5. \A q \in Processes : Machine(q, i)' => q = p
          BY <2>2, <4>1 DEF Machine
        <4>6. OneMachine(i)'
          BY <2>1, <2>2, <3>1, <3>3, <4>4, <4>5 DEF OneMachine
        <4>7. DecisionsWait(i)'
          BY <1>waits, <1>before, <1>types, <2>1, <2>2, <2>3 DEF DecisionsWait
        <4> QED BY <4>6, <4>7
      <3>4. CASE i # inv
        BY <1>types, <1>calm, <2>1, <2>2, <3>2, <3>4
      <3> QED BY <3>3, <3>4
    <2>4. CASE job \in Decisions
      <3>1. queue' = queue /\ status[inv] = "needs_review"
        BY <1>load, <2>4 DEF Load
      <3>2. \A q \in Processes : Machine(q, i)' => q # p /\ Machine(q, i)
        BY <1>types, <2>2, <2>4 DEF Machine
      <3>3. OneMachine(i)'
        BY <1>machine, <2>1, <2>2, <3>1, <3>2 DEF OneMachine
      <3>4. DecisionsWait(i)'
        BY <1>waits, <1>before, <2>1, <2>2, <3>1 DEF DecisionsWait
      <3> QED BY <3>3, <3>4
    <2> QED BY <2>3, <2>4
  \* The one that works on i, if anybody, moves it on to a new status.
  <1>on. ASSUME NEW p \in Processes, NEW new \in Statuses, queue' = queue,
                status' = [status EXCEPT ![i] = new],
                sess' = [sess EXCEPT ![p] = Committed(i, new)],
                \A t \in Tasks : queue[t][i] = 0,
                \A q \in Processes : q # p => ~Machine(q, i),
                NobodyDecided(i)' =>
                   \A q \in Processes : q # p /\ sess[q].inv = i => sess[q].job \notin Decisions
         PROVE  Goal
    <2>1. /\ status'[i] = new /\ sess'[p] = Committed(i, new)
          /\ \A q \in Processes : q # p => sess'[q] = sess[q]
      BY <1>on DEF TypeOK
    <2>2. /\ FollowUp(new) = "none" => sess'[p].inv # i
          /\ FollowUp(new) # "none" =>
                /\ sess'[p].pc = "sending" /\ sess'[p].job \in Tasks
                /\ new \in StartStatuses(sess'[p].job)
      <3>1. FollowUp(new) # "none" => FollowUp(new) \in Tasks /\ new \in StartStatuses(FollowUp(new))
        BY DEF FollowUp, Chain, Tasks, StartStatuses
      <3> QED BY <2>1, <3>1, <1>types DEF Committed, Idle, Sending
    <2>3. \A q \in Processes : Machine(q, i)' => q = p /\ FollowUp(new) # "none"
      BY <1>on, <2>1, <2>2 DEF Machine
    <2>4. OneMachine(i)'
      BY <1>on, <2>1, <2>2, <2>3 DEF OneMachine
    <2>5. DecisionsWait(i)'
      <3>1. sess'[p].inv = i => sess'[p].job \notin Decisions
        BY <1>types, <2>2
      <3> QED BY <1>on, <2>1, <3>1 DEF DecisionsWait
    <2> QED BY <2>4, <2>5
  <1>upload. ASSUME NEW c \in Clients, NEW inv \in Invoices, Upload(c, inv)
             PROVE  Goal
    <2>1. /\ status[inv] = "absent" /\ queue' = queue /\ c \in Processes
          /\ status' = [status EXCEPT ![inv] = "received"]
          /\ sess' = [sess EXCEPT ![c] = Committed(inv, "received")]
          /\ sess[c].pc = "idle"
      BY <1>upload DEF Upload, Processes
    <2>2. CASE i = inv
      <3>1. /\ \A t \in Tasks : queue[t][i] = 0
            /\ \A q \in Processes : sess[q].inv # i
        BY <2>1, <2>2, NothingBefore
      <3>2. PICK p \in Processes, new \in Statuses : p = c /\ new = "received"
        BY <2>1 DEF Statuses
      <3>3. /\ status' = [status EXCEPT ![i] = new]
            /\ sess' = [sess EXCEPT ![p] = Committed(i, new)]
            /\ \A q \in Processes : ~Machine(q, i)
        BY <2>1, <2>2, <3>1, <3>2 DEF Machine
      <3> QED BY <2>1, <3>1, <3>3, <1>on
    <2>3. CASE i # inv
      <3>1. status'[i] = status[i] /\ \A q \in Processes : q # c => sess'[q] = sess[q]
        BY <2>1, <2>3 DEF TypeOK
      <3>2. sess'[c].inv # i
        BY <2>1, <2>3, <1>types DEF Committed, Idle, Sending, TypeOK
      <3> QED BY <1>types, <1>calm, <2>1, <3>1, <3>2
    <2> QED BY <2>2, <2>3
  <1>commit. ASSUME NEW p \in Processes, NEW inv \in Invoices, NEW new \in Statuses,
                    NEW actor \in {"system"} \cup Clients, NEW trail \in Seq(AuditEntry),
                    Writes(p, inv, new, actor, trail)
             PROVE  Goal
    <2>1. /\ sess[p].inv = inv /\ sess[p].pc \notin {"idle", "sending"} /\ queue' = queue
          /\ status' = [status EXCEPT ![inv] = new]
          /\ sess' = [sess EXCEPT ![p] = Committed(inv, new)]
      BY <1>commit DEF Writes, CommitOf
    <2>2. CASE i = inv
      <3>1. sess[p].job \in Tasks \cup Decisions
        BY <2>1, OnInvoice
      <3>2. CASE sess[p].job \in Tasks
        <4>1. Machine(p, i)
          BY <2>1, <2>2, <3>2 DEF Machine
        <4>2. /\ \A t \in Tasks : queue[t][i] = 0
              /\ \A q \in Processes : q # p => ~Machine(q, i)
              /\ status[i] # "needs_review"
          BY <1>machine, <1>types, <3>2, <4>1
        <4>3. NobodyDecided(i)' =>
                 \A q \in Processes : sess[q].inv = i => sess[q].job \notin Decisions
          BY <1>before, <1>waits, <4>2
        <4> QED BY <1>on, <2>1, <2>2, <4>2, <4>3
      <3>3. CASE sess[p].job \in Decisions
        <4>1. actor \in Clients /\ Traced(p, i, new, actor, trail)
          BY <1>commit, <2>2, <3>3 DEF Writes
        <4>2. ~NobodyDecided(i)' /\ NobodyDecided(i)
          BY <4>1, DecisionRecorded
        <4>3. /\ \A t \in Tasks : queue[t][i] = 0
              /\ \A q \in Processes : ~Machine(q, i)
          BY <2>1, <2>2, <3>3, <4>2, FirstDecision
        <4> QED BY <1>on, <2>1, <2>2, <4>2, <4>3
      <3> QED BY <3>1, <3>2, <3>3
    <2>3. CASE i # inv
      <3>1. status'[i] = status[i] /\ \A q \in Processes : q # p => sess'[q] = sess[q]
        BY <2>1, <2>3 DEF TypeOK
      <3>2. sess'[p].inv # i
        BY <2>1, <2>3, <1>types DEF Committed, Idle, Sending, TypeOK
      <3> QED BY <1>types, <1>calm, <2>1, <3>1, <3>2
    <2> QED BY <2>2, <2>3
  <1>redeliver. \A task \in Tasks, j \in Invoices : ~Redeliver(task, j)
    BY OnceBefore
  <1> HIDE DEF Goal
  <1> QED
    BY StepKinds, CommitWrites, <1>shrink, <1>send, <1>redeliver, <1>load, <1>upload, <1>commit
    DEF Goal

\* Whoever commits on an undisputed invoice has the status it is really in.
LEMMA BaseIsCurrent ==
    ASSUME TypeOK, SessionOK, NEW p \in Processes, NEW inv \in Invoices, NEW new \in Statuses,
           NEW actor \in {"system"} \cup Clients, NEW trail \in Seq(AuditEntry),
           Writes(p, inv, new, actor, trail), Orderly(inv), Undisputed(inv)'
    PROVE  /\ sess[p].base = status[inv]
           /\ status[inv] \notin {"absent"} \cup TerminalStatuses
  <1>1. sess[p].inv = inv /\ sess[p].pc \notin {"idle", "sending"}
    BY DEF Writes, CommitOf
  <1>2. PICK first : CanTransition(sess[p].base, first)
    BY DEF Writes, Traced
  <1>3. sess[p].base \notin {"absent"} \cup TerminalStatuses
    BY <1>2 DEF CanTransition, AllowedTransitions, TerminalStatuses
  <1>4. sess[p].base = status[inv]
    <2>1. sess[p].job \in Tasks \cup Decisions
      BY <1>1, OnInvoice
    <2>2. CASE sess[p].job \in Tasks
      BY <1>1, <2>2 DEF Orderly, OneMachine, Machine
    <2>3. CASE sess[p].job \in Decisions
      <3>1. actor \in Clients /\ Traced(p, inv, new, actor, trail)
        BY <2>3 DEF Writes
      <3>2. NobodyDecided(inv)
        BY <3>1, DecisionRecorded
      <3>3. status[inv] = "needs_review"
        BY <1>1, <2>3, <3>2, FirstDecision
      <3>4. sess[p].base = "needs_review"
        BY <1>1, <2>3 DEF SessionOK, GoodSession
      <3> QED BY <3>3, <3>4
    <2> QED BY <2>1, <2>2, <2>3
  <1> QED BY <1>3, <1>4

LEMMA HistoryStep ==
    ASSUME TypeOK, SessionOK, [Next]_vars, OnceDelivered', NEW i \in Invoices,
           Orderly(i), Undisputed(i)'
    PROVE  /\ Reconstructs(i)' /\ Unmoved(i)' /\ ExportFollows(i)'
           /\ status[i] \in TerminalStatuses => status'[i] = status[i]
  <1> DEFINE Goal == /\ Reconstructs(i)' /\ Unmoved(i)' /\ ExportFollows(i)'
                     /\ status[i] \in TerminalStatuses => status'[i] = status[i]
  <1>still. ASSUME audit'[i] = audit[i], status'[i] = status[i], exports'[i] = exports[i]
            PROVE  Goal
    BY <1>still DEF Orderly, Reconstructs, Unmoved, ExportFollows
  <1>upload. ASSUME NEW c \in Clients, NEW inv \in Invoices, Upload(c, inv)
             PROVE  Goal
    <2>1. /\ status[inv] = "absent" /\ audit' = audit /\ exports' = exports
          /\ status' = [status EXCEPT ![inv] = "received"]
      BY <1>upload DEF Upload
    <2>2. CASE i = inv
      <3>1. audit'[i] = <<>> /\ status'[i] = "received"
        BY <2>1, <2>2, NothingBefore DEF TypeOK
      <3>2. exports'[i] = {}
        BY <2>1, <2>2 DEF Orderly, ExportFollows
      <3>3. Reconstructs(i)'
        BY <3>1 DEF Reconstructs
      <3>4. "absent" \notin TerminalStatuses
        BY DEF TerminalStatuses, Statuses
      <3> QED BY <2>1, <2>2, <3>1, <3>2, <3>3, <3>4 DEF Unmoved, ExportFollows
    <2>3. CASE i # inv
      BY <1>still, <2>1, <2>3 DEF TypeOK
    <2> QED BY <2>2, <2>3
  <1>commit. ASSUME NEW p \in Processes, NEW inv \in Invoices, NEW new \in Statuses,
                    NEW actor \in {"system"} \cup Clients, NEW trail \in Seq(AuditEntry),
                    Writes(p, inv, new, actor, trail)
             PROVE  Goal
    <2>1. /\ status' = [status EXCEPT ![inv] = new]
          /\ audit' = [audit EXCEPT ![inv] = @ \o trail]
          /\ Walk(trail, sess[p].base, new)
          /\ sess[p].inv = inv /\ sess[p].pc \notin {"idle", "sending"}
      BY <1>commit DEF Writes, CommitOf, Traced
    <2>2. CASE i = inv
      <3>1. sess[p].base = status[i] /\ status[i] \notin {"absent"} \cup TerminalStatuses
        BY <1>commit, <2>2, BaseIsCurrent
      <3>2. /\ status'[i] = new /\ audit[i] \in Seq(AuditEntry)
            /\ audit'[i] = audit[i] \o trail
        BY <2>1, <2>2 DEF TypeOK
      <3>3. /\ \A k \in 1 .. Len(audit[i]) - 1 : audit[i][k].to = audit[i][k + 1].from
            /\ audit[i] # <<>> => /\ audit[i][1].from = "received"
                                 /\ audit[i][Len(audit[i])].to = sess[p].base
        BY <3>1 DEF Orderly, Reconstructs
      <3>4. /\ audit'[i] # <<>> /\ audit'[i][Len(audit'[i])].to = new
            /\ audit'[i][1] = IF audit[i] = <<>> THEN trail[1] ELSE audit[i][1]
            /\ \A k \in 1 .. Len(audit'[i]) - 1 : audit'[i][k].to = audit'[i][k + 1].from
        <4> DEFINE log == audit[i]
                   both == log \o trail
        <4>1. log \in Seq(AuditEntry) /\ audit'[i] = both
          BY <3>2
        <4>2. /\ \A k \in 1 .. Len(log) - 1 : log[k].to = log[k + 1].from
              /\ log # <<>> => log[Len(log)].to = sess[p].base
          BY <3>3
        <4> HIDE DEF log
        <4>3. /\ both # <<>> /\ both[Len(both)].to = new
              /\ both[1] = IF log = <<>> THEN trail[1] ELSE log[1]
              /\ \A k \in 1 .. Len(both) - 1 : both[k].to = both[k + 1].from
          BY <2>1, <4>1, <4>2, AppendWalk
        <4> HIDE DEF both
        <4>4. /\ audit'[i] # <<>> /\ audit'[i][Len(audit'[i])].to = new
              /\ audit'[i][1] = IF log = <<>> THEN trail[1] ELSE log[1]
              /\ \A k \in 1 .. Len(audit'[i]) - 1 : audit'[i][k].to = audit'[i][k + 1].from
          BY <4>1, <4>3
        <4> QED BY <4>4 DEF log
      <3>5. audit[i] = <<>> => status[i] = "received"
        BY <3>1 DEF Orderly, Unmoved
      <3>6. Reconstructs(i)'
        <4>1. audit'[i][1].from = "received"
          BY <2>1, <3>1, <3>3, <3>4, <3>5 DEF Walk
        <4> QED BY <3>2, <3>4, <4>1 DEF Reconstructs
      <3>7. ExportFollows(i)'
        <4>1. "exported" \in TerminalStatuses
          BY DEF TerminalStatuses, Statuses, AllowedTransitions
        <4>2. exports[i] = {}
          BY <3>1, <4>1 DEF Orderly, ExportFollows
        <4>3. CASE sess[p].job = "export_invoice"
          <5>1. new = "exported" /\ exports' = [exports EXCEPT ![inv] = @ \cup {Len(artifacts[inv])}]
            BY <1>commit, <4>3 DEF Writes
          <5>2. exports'[i] = {Len(artifacts[i])}
            BY <2>2, <4>2, <5>1 DEF TypeOK
          <5>3. Len(artifacts[i]) \in exports'[i]
            BY <5>2
          <5> QED BY <3>2, <5>1, <5>2, <5>3 DEF ExportFollows
        <4>4. CASE sess[p].job # "export_invoice"
          BY <1>commit, <4>2, <4>4 DEF Writes, ExportFollows
        <4> QED BY <4>3, <4>4
      <3> QED BY <3>1, <3>4, <3>6, <3>7 DEF Unmoved
    <2>3. CASE i # inv
      <3>1. exports'[i] = exports[i]
        BY <1>commit, <2>3 DEF Writes, TypeOK
      <3> QED BY <1>still, <2>1, <2>3, <3>1 DEF TypeOK
    <2> QED BY <2>2, <2>3
  <1>quiet. ASSUME UNCHANGED database
            PROVE  Goal
    BY <1>quiet, <1>still DEF database
  <1>kinds. \/ UNCHANGED database
            \/ \E c \in Clients, inv \in Invoices : Upload(c, inv)
            \/ CommitStep
    BY StepKinds DEF Quiet, Load
  <1> HIDE DEF Goal
  <1> QED BY <1>kinds, <1>quiet, <1>upload, <1>commit, CommitWrites DEF Goal

LEMMA UndisputedStep ==
    ASSUME TypeOK, SessionOK, UndisputedInv, [Next]_vars, OnceDelivered'
    PROVE  /\ UndisputedInv'
           /\ \A i \in Invoices : status[i] \in TerminalStatuses /\ Undisputed(i)'
                                     => status'[i] = status[i]
  <1>1. ASSUME NEW i \in Invoices, Undisputed(i)'
        PROVE  Orderly(i)' /\ (status[i] \in TerminalStatuses => status'[i] = status[i])
    <2>1. Undisputed(i)
      BY <1>1, LogOnlyGrows
    <2>2. Orderly(i)
      BY <2>1 DEF UndisputedInv, Orderly
    <2> QED BY <1>1, <2>2, MachineStep, HistoryStep DEF Orderly
  <1> QED BY <1>1 DEF UndisputedInv, Orderly

LEMMA UndisputedInit == ASSUME Init PROVE UndisputedInv
  BY PipelineAssumption
  DEF Init, UndisputedInv, OneMachine, Machine, DecisionsWait, Reconstructs, Unmoved,
      ExportFollows, Idle, Tasks

\* However many requests hold an invoice open, crash or give up, it keeps one
\* history and one export until a second person's decision is recorded of it.
THEOREM OneDecisionIsHarmless ==
    Spec => [](OnceDelivered => OneDecisionKeepsHistory)
  <1> DEFINE Inv == TypeOK /\ SessionOK /\ (OnceDelivered => UndisputedInv)
  <1>1. Init => Inv
    BY TypeInit, UndisputedInit
  <1>2. Inv /\ [Next]_vars => Inv'
    BY TypeStep, OnceBefore, UndisputedStep
  <1>3. Inv => (OnceDelivered => OneDecisionKeepsHistory)
    <2>1. ASSUME NEW i \in Invoices, ExportFollows(i)
          PROVE  Cardinality(exports[i]) <= 1
      <3>1. CASE exports[i] = {}
        BY <3>1, FS_EmptySet
      <3>2. ASSUME NEW key, exports[i] = {key}
            PROVE  Cardinality(exports[i]) = 1
        BY <3>2, FS_Singleton
      <3> QED BY <2>1, <3>1, <3>2 DEF ExportFollows
    <2> QED BY <2>1 DEF UndisputedInv, OneDecisionKeepsHistory
  <1> HIDE DEF Inv
  <1> QED BY <1>1, <1>2, <1>3, PTL DEF Spec

\* A log with a person's trail appended ends with that person's entry.
LEMMA DecisionIsLast ==
    ASSUME TypeOK, NEW p \in Processes, NEW i \in Invoices, NEW new, NEW actor \in Clients,
           NEW trail \in Seq(AuditEntry), Traced(p, i, new, actor, trail)
    PROVE  DecidesNow(i)
  <1> DEFINE log == audit[i]
  <1>1. log \in Seq(AuditEntry) /\ audit'[i] = log \o trail
    BY DEF TypeOK, Traced
  <1>2. trail # <<>> /\ \A k \in DOMAIN trail : trail[k].actor = actor
    BY DEF Traced, Walk
  <1> HIDE DEF log
  <1>3. /\ Len(log \o trail) > Len(log)
        /\ (log \o trail)[Len(log \o trail)] = trail[Len(trail)]
        /\ Len(trail) \in DOMAIN trail
    BY <1>1, <1>2
  <1>4. Len(audit'[i]) > Len(log) /\ audit'[i][Len(audit'[i])].actor = actor
    BY <1>1, <1>2, <1>3
  <1> QED BY <1>4 DEF DecidesNow, log

\* What a commit on an invoice that has a final status can be.
LEMMA FinalOverwritten ==
    ASSUME TypeOK, SessionOK, Tokens, RowsInv, ExportState, NEW p \in Processes,
           NEW i \in Invoices, NEW new \in Statuses, NEW actor \in {"system"} \cup Clients,
           NEW trail \in Seq(AuditEntry), Writes(p, i, new, actor, trail),
           status[i] \in TerminalStatuses, status'[i] # status[i]
    PROVE  DecidesNow(i) \/ OverwritesRejection(i)
  <1>1. /\ sess[p].inv = i /\ sess[p].pc \notin {"idle", "sending"} /\ status'[i] = new
        /\ sess[p].job \in Tasks \cup Decisions
    BY DEF Writes, CommitOf, TypeOK, SessionOK, GoodSession
  <1>2. CASE sess[p].job \in Decisions
    <2>1. actor \in Clients /\ Traced(p, i, new, actor, trail)
      BY <1>2 DEF Writes
    <2> QED BY <2>1, DecisionIsLast
  <1>3. CASE sess[p].job \in PreTasks
    <2>1. status[i] \in StartStatuses(sess[p].job)
      BY <1>1, <1>3, StageStart
    <2> QED BY <1>3, <2>1
            DEF StartStatuses, PreTasks, Tasks, TerminalStatuses, Statuses, AllowedTransitions
  <1>4. CASE sess[p].job = "export_invoice"
    <2>1. new = "exported" /\ status[i] \in Decided
      BY <1>1, <1>4 DEF Writes, Tokens, DecidedFirst, Holder
    <2>2. status[i] = "rejected"
      BY <1>1, <2>1 DEF Decided, TerminalStatuses, Statuses, AllowedTransitions
    <2>3. sess[p].base \in {"auto_approved", "approved"} /\ Logged(i, sess[p].base)
      BY <1>1, <1>4
      DEF SessionOK, GoodSession, StartStatuses, Tasks, ExportState, ExportsKnow
    <2>4. ~AutoApproved(i)
      BY <2>2 DEF RowsInv, DecisionLogged
    <2>5. Logged(i, "approved")
      BY <2>3, <2>4 DEF AutoApproved
    <2> QED BY <1>1, <2>1, <2>2, <2>5 DEF OverwritesRejection
  <1> QED BY <1>1, <1>2, <1>3, <1>4 DEF PreTasks

\* With messages delivered once, whatever crashes and however many requests and
\* exports hold an invoice: it leaves a final status only once a second person's
\* decision is in its log, by recording that decision or by the export of an
\* approval that was logged before the rejection it overwrites.
THEOREM NothingElseReopens ==
    Spec /\ []OnceDelivered => OnlyDisputesReopen
  <1> DEFINE Inv == TypeOK /\ SessionOK /\ UndisputedInv /\ PipelineInv /\ ExportState
             Step == \A i \in Invoices :
                        status[i] \in TerminalStatuses /\ status'[i] # status[i] =>
                            /\ ~Undisputed(i)'
                            /\ DecidesNow(i) \/ OverwritesRejection(i)
  <1>1. Init => Inv
    <2>1. Init => ExportState
      BY DEF Init, ExportState, ApprovalsNamed, ExportsKnow, ArtifactsAfterDecision, Truths,
             Logged, LeadsTo, AutoApproved, Idle
    <2> QED BY <2>1, TypeInit, UndisputedInit, PipelineInvInit
  <1>2. Inv /\ [Next]_vars /\ OnceDelivered' => Inv'
    <2>1. SUFFICES ASSUME Inv, [Next]_vars, OnceDelivered' PROVE Inv'
      OBVIOUS
    <2>2. TypeOK' /\ SessionOK' /\ UndisputedInv'
      BY <2>1, TypeStep, UndisputedStep
    <2>3. OnceDelivered /\ \A task \in Tasks, i \in Invoices : ~Redeliver(task, i)
      BY <2>1, OnceBefore
    <2>4. Tokens' /\ RowsInv' /\ NoMutualOversight'
      BY <2>1, <2>2, <2>3, TokenStep, RowsStep, OversightStep DEF PipelineInv
    <2>5. ExportState'
      BY <2>1, <2>2, <2>3, <2>4, ExportStep DEF PipelineInv
    <2> QED BY <2>2, <2>4, <2>5 DEF PipelineInv
  <1>3. Inv /\ [Next]_vars /\ OnceDelivered' => Step
    <2>1. SUFFICES ASSUME Inv, [Next]_vars, OnceDelivered', NEW i \in Invoices,
                          status[i] \in TerminalStatuses, status'[i] # status[i]
                   PROVE  ~Undisputed(i)' /\ (DecidesNow(i) \/ OverwritesRejection(i))
      OBVIOUS
    <2>2. ~Undisputed(i)'
      BY <2>1, UndisputedStep
    <2>3. "absent" \notin TerminalStatuses
      BY DEF TerminalStatuses, Statuses
    <2>4. CommitStep
      BY <2>1, <2>3, StepKinds DEF Quiet, Load, Upload, TypeOK, database
    <2>5. PICK p \in Processes, inv \in Invoices, new \in Statuses,
               actor \in {"system"} \cup Clients, trail \in Seq(AuditEntry) :
                  Writes(p, inv, new, actor, trail)
      BY <2>1, <2>4, CommitWrites
    <2>6. inv = i
      BY <2>1, <2>5 DEF Writes, CommitOf, TypeOK
    <2>7. DecidesNow(i) \/ OverwritesRejection(i)
      BY <2>1, <2>5, <2>6, FinalOverwritten DEF PipelineInv
    <2> QED BY <2>2, <2>7
  <1> HIDE DEF Inv
  <1> QED BY <1>1, <1>2, <1>3, PTL DEF Spec, OnlyDisputesReopen
=============================================================================
