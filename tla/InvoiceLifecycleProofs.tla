----------------------- MODULE InvoiceLifecycleProofs -----------------------
(***************************************************************************)
(* What InvoiceLifecycle promises follows from its steps, for any invoices *)
(* and any reviewers.                                                      *)
(***************************************************************************)
EXTENDS InvoiceLifecycle, TLAPS

LogEntry == [from: Statuses, to: Statuses, actor: {"system"} \cup Reviewers]

\* The log is a chain that begins at received and ends at the status.
Chained(log, s) ==
    /\ \A k \in 1 .. Len(log) - 1 : log[k].to = log[k + 1].from
    /\ log = <<>> => s \in {"absent", "received"}
    /\ log # <<>> => log[1].from = "received" /\ log[Len(log)].to = s

LifecycleInv ==
    /\ status \in [Invoices -> Statuses \cup {"absent"}]
    /\ audit \in [Invoices -> Seq(LogEntry)]
    /\ exports \in [Invoices -> {0, 1}]
    /\ \A i \in Invoices : Chained(audit[i], status[i])

\* One more entry that starts where the log ends.
LEMMA ChainOne ==
    ASSUME NEW log \in Seq(LogEntry), NEW s \in Statuses, Chained(log, s),
           NEW e \in LogEntry, e.from = s
    PROVE  Append(log, e) \in Seq(LogEntry) /\ Chained(Append(log, e), e.to)
  <1> DEFINE longer == Append(log, e)
  <1>1. /\ longer \in Seq(LogEntry) /\ longer # <<>> /\ Len(longer) = Len(log) + 1
        /\ Len(log) \in Nat /\ longer[Len(log) + 1] = e
        /\ \A k \in 1 .. Len(log) : longer[k] = log[k]
    OBVIOUS
  <1>2. CASE log = <<>>
    <2>1. Len(log) = 0 /\ s = "received"
      BY <1>2 DEF Chained, Statuses
    <2> QED BY <1>1, <2>1 DEF Chained
  <1>3. CASE log # <<>>
    <2>1. Len(log) >= 1 /\ 1 \in 1 .. Len(log) /\ Len(log) \in 1 .. Len(log)
      BY <1>1, <1>3
    <2>2. log[1].from = "received" /\ log[Len(log)].to = s
      BY <1>3 DEF Chained
    <2>3. ASSUME NEW k \in 1 .. Len(longer) - 1
          PROVE  longer[k].to = longer[k + 1].from
      <3>1. CASE k = Len(log)
        BY <1>1, <2>1, <2>2, <3>1
      <3>2. CASE k # Len(log)
        <4>1. k \in 1 .. Len(log) - 1 /\ k + 1 \in 1 .. Len(log) /\ k \in 1 .. Len(log)
          BY <1>1, <3>2
        <4> QED BY <1>1, <4>1 DEF Chained
      <3> QED BY <3>1, <3>2
    <2> QED BY <1>1, <2>1, <2>2, <2>3 DEF Chained
  <1> QED BY <1>1, <1>2, <1>3

\* The table relates statuses, a move never leads to absent or received.
LEMMA Moves ==
    ASSUME NEW a, NEW b, CanTransition(a, b)
    PROVE  a \in Statuses \ TerminalStatuses /\ b \in Statuses
  BY DEF CanTransition, AllowedTransitions, Statuses, TerminalStatuses

LEMMA LifecycleStep ==
    ASSUME LifecycleInv, [Next]_vars
    PROVE  LifecycleInv'
  <1>arrive. ASSUME NEW i \in Invoices, Arrive(i) PROVE LifecycleInv'
    <2>1. status' \in [Invoices -> Statuses \cup {"absent"}]
      BY <1>arrive DEF Arrive, LifecycleInv, Statuses
    <2>2. audit[i] = <<>>
      <3>1. audit[i] \in Seq(LogEntry) /\ Chained(audit[i], "absent")
        BY <1>arrive DEF Arrive, LifecycleInv
      <3>2. audit[i] # <<>> => audit[i][Len(audit[i])] \in LogEntry
        BY <3>1
      <3> QED BY <3>1, <3>2 DEF Chained, LogEntry, Statuses
    <2> QED BY <1>arrive, <2>1, <2>2 DEF Arrive, LifecycleInv, Chained
  <1>move. ASSUME NEW i \in Invoices, NEW new \in Statuses,
                  NEW actor \in {"system"} \cup Reviewers, Move(i, new, actor)
           PROVE  LifecycleInv'
    <2> DEFINE e == Entry(status[i], new, actor)
    <2>1. e \in LogEntry /\ e.from = status[i] /\ e.to = new /\ status[i] \in Statuses
      BY <1>move DEF Move, Entry, LogEntry
    <2>2. /\ audit' = [audit EXCEPT ![i] = Append(@, e)]
          /\ status' = [status EXCEPT ![i] = new] /\ exports' = exports
      BY <1>move DEF Move
    <2> HIDE DEF e
    <2>3. Append(audit[i], e) \in Seq(LogEntry) /\ Chained(Append(audit[i], e), new)
      BY <2>1, ChainOne DEF LifecycleInv
    <2> QED BY <2>2, <2>3 DEF LifecycleInv
  <1>work. ASSUME NEW i \in Invoices, NEW working, NEW new, Work(i, working, new)
           PROVE  LifecycleInv'
    <2> DEFINE d == Entry(status[i], working, "system")
               e == Entry(working, new, "system")
    <2>1. /\ status[i] \in Statuses /\ working \in Statuses /\ new \in Statuses
          /\ d \in LogEntry /\ d.from = status[i] /\ d.to = working
          /\ e \in LogEntry /\ e.from = working /\ e.to = new
      BY <1>work, Moves DEF Work, Entry, LogEntry
    <2>2. /\ audit' = [audit EXCEPT ![i] = @ \o <<d, e>>]
          /\ status' = [status EXCEPT ![i] = new]
      BY <1>work DEF Work
    <2>3. exports' \in [Invoices -> {0, 1}]
      BY <1>work DEF Work, LifecycleInv
    <2> HIDE DEF d, e
    <2>4. Append(audit[i], d) \in Seq(LogEntry) /\ Chained(Append(audit[i], d), working)
      BY <2>1, ChainOne DEF LifecycleInv
    <2>5. /\ Append(Append(audit[i], d), e) \in Seq(LogEntry)
          /\ Chained(Append(Append(audit[i], d), e), new)
      BY <2>1, <2>4, ChainOne
    <2>6. audit[i] \o <<d, e>> = Append(Append(audit[i], d), e)
      BY <2>1 DEF LifecycleInv
    <2> QED BY <2>1, <2>2, <2>3, <2>5, <2>6 DEF LifecycleInv
  <1>stutter. ASSUME UNCHANGED vars PROVE LifecycleInv'
    BY <1>stutter DEF vars, LifecycleInv
  <1> QED BY <1>arrive, <1>move, <1>work, <1>stutter DEF Next, Statuses

LEMMA AlwaysLifecycleInv == Spec => []LifecycleInv
  <1>1. Init => LifecycleInv
    BY DEF Init, LifecycleInv, Chained
  <1> QED BY <1>1, LifecycleStep, PTL DEF Spec

\* Every audit log is a chain from received to the invoice's status.
THEOREM LogReconstructs == Spec => []AuditReconstructs
  <1>1. LifecycleInv => AuditReconstructs
    BY DEF LifecycleInv, Chained, AuditReconstructs
  <1> QED BY <1>1, AlwaysLifecycleInv, PTL

\* No invoice is recorded as exported twice.
LEMMA OneExport == Spec => []ExportedAtMostOnce
  <1>1. LifecycleInv => ExportedAtMostOnce
    BY DEF LifecycleInv, ExportedAtMostOnce
  <1> QED BY <1>1, AlwaysLifecycleInv, PTL

\* exported, rejected and failed are left by no step.
LEMMA FinalForGood == Spec => TerminalIsFinal
  <1>1. ASSUME [Next]_vars, NEW i \in Invoices, status[i] \in TerminalStatuses,
               LifecycleInv
        PROVE  status'[i] = status[i]
    <2>1. ASSUME NEW j \in Invoices, Arrive(j) PROVE status'[i] = status[i]
      <3>1. "absent" \notin TerminalStatuses
        BY DEF TerminalStatuses, Statuses
      <3> QED BY <1>1, <2>1, <3>1 DEF Arrive, LifecycleInv
    <2>2. ASSUME NEW j \in Invoices, NEW new, NEW actor, Move(j, new, actor)
          PROVE  status'[i] = status[i]
      BY <1>1, <2>2, Moves DEF Move, LifecycleInv
    <2>3. ASSUME NEW j \in Invoices, NEW working, NEW new, Work(j, working, new)
          PROVE  status'[i] = status[i]
      BY <1>1, <2>3, Moves DEF Work, LifecycleInv
    <2> QED BY <1>1, <2>1, <2>2, <2>3 DEF Next, vars
  <1>2. LifecycleInv /\ [Next]_vars =>
           [\A i \in Invoices : status[i] \in TerminalStatuses => status'[i] = status[i]]_vars
    BY <1>1
  <1> QED BY <1>2, AlwaysLifecycleInv, PTL DEF Spec, TerminalIsFinal
=============================================================================
