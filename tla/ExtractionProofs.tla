-------------------------- MODULE ExtractionProofs --------------------------
(***************************************************************************)
(* Proofs about Extraction: for any number of workers, of retries, of      *)
(* deliveries and of failures, a row of extractions tells what its attempt *)
(* was, and an attempt is a step of InvoicePipeline's extraction stage.    *)
(***************************************************************************)
EXTENDS Extraction, SequenceTheorems, TLAPS

CallRecord == [hint : Answers \cup {None}, answer : Answers]

\* What the model's log says of one attempt's calls.
Refused(calls) == \A k \in DOMAIN calls : calls[k].answer \notin Valid
Said(calls) == [k \in DOMAIN calls |-> calls[k].answer]
LastSaid(calls) == IF calls = <<>> THEN None ELSE calls[Len(calls)].answer
HintsInOrder(calls) ==
    \A k \in DOMAIN calls :
        /\ calls[k].hint = IF k = 1 THEN None ELSE calls[k - 1].answer
        /\ k < Len(calls) => calls[k].answer \notin Valid

\* An attempt under way.
Active == {"loaded"} \cup Holding

\* A session's variables tell what the log says of its attempt ...
SessionTells(s, calls) ==
    /\ s.attempts = Len(calls) /\ s.last_raw = LastSaid(calls)
    /\ s.pc \in {"loaded", "reading"} => calls = <<>>
    /\ s.pc \in {"loaded", "reading", "asking"} =>
          /\ Refused(calls) /\ Len(calls) <= MaxRetries
          /\ s.errors = Said(calls) /\ s.error_hint = LastSaid(calls)
    /\ s.pc = "answered" => calls # <<>> /\ s.last_raw \in Valid
    /\ s.pc = "failing" =>
          /\ Refused(calls)
          /\ calls = <<>> => Len(s.errors) = 1
          /\ calls # <<>> => s.errors = Said(calls)

\* ... and so does a row.
RowTells(r, calls) ==
    /\ r.attempts = Len(calls) /\ r.raw_response = LastSaid(calls)
    /\ calls = <<>> => ~r.ok /\ Len(r.errors) = 1
    /\ calls # <<>> => (r.ok <=> r.raw_response \in Valid)
    /\ calls # <<>> /\ ~r.ok => r.errors = Said(calls)

Resting ==
    \A w \in Workers :
        sess[w].pc \in {"idle", "sending"} => sess[w] = [Idle EXCEPT !.pc = sess[w].pc]

Tells ==
    /\ \A b \in DOMAIN asked : HintsInOrder(asked[b])
    /\ \A w \in Workers : sess[w].pc \in Active =>
          sess[w].began \in DOMAIN asked /\ SessionTells(sess[w], asked[sess[w].began])
    /\ \A r \in rows : r.began \in DOMAIN asked /\ RowTells(r, asked[r.began])

\* No two attempts share a log.
OwnLogs ==
    /\ \A v, w \in Workers :
          v # w /\ sess[v].pc \in Active /\ sess[w].pc \in Active
              => sess[v].began # sess[w].began
    /\ \A w \in Workers : \A r \in rows : sess[w].pc \in Active => sess[w].began # r.began
    /\ \A q, r \in rows : q.began = r.began => q = r

IInv == TypeOK /\ Resting /\ Tells /\ OwnLogs
-----------------------------------------------------------------------------
(* Logs                                                                    *)

LEMMA SaidIsSeq ==
    ASSUME NEW calls \in Seq(CallRecord)
    PROVE  Said(calls) \in Seq(Answers) /\ Len(Said(calls)) = Len(calls)
  <1> DEFINE n == Len(calls)
  <1>1. n \in Nat /\ DOMAIN calls = 1 .. n /\ \A k \in 1 .. n : calls[k] \in CallRecord
    OBVIOUS
  <1>2. Said(calls) \in [1 .. n -> Answers]
    BY <1>1 DEF Said, CallRecord
  <1>3. Said(calls) \in Seq(Answers)
    BY <1>1, <1>2, SeqDef
  <1> QED BY <1>1, <1>2, <1>3, LenProperties

LEMMA LogMore ==
    ASSUME NEW calls \in Seq(CallRecord), NEW c \in CallRecord
    PROVE  LET more == Append(calls, c) IN
           /\ more \in Seq(CallRecord) /\ more # <<>>
           /\ Len(more) = Len(calls) + 1
           /\ LastSaid(more) = c.answer
           /\ Said(more) = Append(Said(calls), c.answer)
           /\ Refused(calls) /\ c.answer \notin Valid => Refused(more)
           /\ Refused(calls) /\ HintsInOrder(calls) /\ c.hint = LastSaid(calls)
                 => HintsInOrder(more)
  <1> DEFINE more == Append(calls, c)
  <1>1. /\ more \in Seq(CallRecord) /\ Len(more) = Len(calls) + 1
        /\ Len(calls) \in Nat /\ DOMAIN calls = 1 .. Len(calls)
        /\ DOMAIN more = 1 .. Len(calls) + 1
        /\ more[Len(calls) + 1] = c
        /\ \A k \in 1 .. Len(calls) : more[k] = calls[k]
    OBVIOUS
  <1>2. more # <<>>
    BY <1>1
  <1>3. LastSaid(more) = c.answer
    BY <1>1, <1>2 DEF LastSaid
  <1>4. Said(more) = Append(Said(calls), c.answer)
    <2>1. Said(calls) \in Seq(Answers) /\ Len(Said(calls)) = Len(calls)
      BY SaidIsSeq
    <2>2. Said(more) \in Seq(Answers) /\ Len(Said(more)) = Len(calls) + 1
      BY <1>1, SaidIsSeq
    <2>3. \A k \in 1 .. Len(calls) + 1 : Said(more)[k] = Append(Said(calls), c.answer)[k]
      BY <1>1, <2>1 DEF Said
    <2> QED BY <1>1, <2>1, <2>2, <2>3
  <1>5. Refused(calls) /\ c.answer \notin Valid => Refused(more)
    BY <1>1 DEF Refused
  <1>6. ASSUME Refused(calls), HintsInOrder(calls), c.hint = LastSaid(calls)
        PROVE  HintsInOrder(more)
    <2> SUFFICES ASSUME NEW k \in DOMAIN more
                 PROVE  /\ more[k].hint = IF k = 1 THEN None ELSE more[k - 1].answer
                        /\ k < Len(more) => more[k].answer \notin Valid
      BY DEF HintsInOrder
    <2>1. CASE k \in 1 .. Len(calls)
      <3>1. more[k] = calls[k] /\ (k # 1 => more[k - 1] = calls[k - 1])
        BY <1>1, <2>1
      <3> QED BY <1>1, <1>6, <2>1, <3>1 DEF HintsInOrder, Refused
    <2>2. CASE k = Len(calls) + 1
      <3>1. CASE calls = <<>>
        BY <1>1, <1>6, <2>2, <3>1 DEF LastSaid
      <3>2. CASE calls # <<>>
        <4>1. Len(calls) # 0
          BY <3>2
        <4>2. Len(calls) \in 1 .. Len(calls) /\ k - 1 = Len(calls) /\ k # 1
          BY <1>1, <2>2, <4>1
        <4>3. more[k - 1] = calls[Len(calls)]
          BY <1>1, <4>2
        <4> QED BY <1>1, <1>6, <2>2, <3>2, <4>2, <4>3 DEF LastSaid
      <3> QED BY <3>1, <3>2
    <2> QED BY <1>1, <2>1, <2>2
  <1> QED BY <1>1, <1>2, <1>3, <1>4, <1>5, <1>6
-----------------------------------------------------------------------------
(* Type correctness                                                        *)

LEMMA InitIInv == Init => IInv
  <1> SUFFICES ASSUME Init PROVE IInv
    OBVIOUS
  <1> USE ExtractionAssumption DEF Init
  <1>1. /\ Idle \in Session
        /\ \A w \in Workers : sess[w] = Idle
    BY SMT DEF Session, Idle, ProgramCounters, Errors
  <1>2. TypeOK
    BY <1>1, SMT DEF TypeOK
  <1>3. Resting
    BY <1>1 DEF Resting, Idle
  <1>4. \A w \in Workers : sess[w].pc \notin Active
    BY <1>1 DEF Idle, Active, Holding
  <1>5. DOMAIN asked = {} /\ rows = {}
    OBVIOUS
  <1> QED BY <1>2, <1>3, <1>4, <1>5 DEF IInv, Tells, OwnLogs

\* A session that has taken one step is again a session.
LEMMA SessionSteps ==
    ASSUME ExtractionAssumption, NEW s \in Session
    PROVE  /\ \A pc \in ProgramCounters : [s EXCEPT !.pc = pc] \in Session
           /\ \A pc \in ProgramCounters, n \in Nat :
                 [s EXCEPT !.pc = pc, !.began = n] \in Session
           /\ \A pc \in ProgramCounters, errors \in Seq(Errors) :
                 [s EXCEPT !.pc = pc, !.errors = errors] \in Session
           /\ \A pc \in ProgramCounters, n \in 0 .. MaxRetries + 1, a \in Answers :
                 [s EXCEPT !.pc = pc, !.attempts = n, !.last_raw = a] \in Session
           /\ \A pc \in ProgramCounters, n \in 0 .. MaxRetries + 1, a \in Answers,
                 errors \in Seq(Errors) :
                 [s EXCEPT !.pc = pc, !.attempts = n, !.error_hint = a,
                           !.errors = errors, !.last_raw = a] \in Session
           /\ \A ok \in BOOLEAN : RowOf(s, ok) \in Row
  <1>1. \A t \in Session :
           /\ \A pc \in ProgramCounters : [t EXCEPT !.pc = pc] \in Session
           /\ \A n \in Nat : [t EXCEPT !.began = n] \in Session
           /\ \A n \in 0 .. MaxRetries + 1 : [t EXCEPT !.attempts = n] \in Session
           /\ \A a \in Answers : [t EXCEPT !.error_hint = a] \in Session
           /\ \A errors \in Seq(Errors) : [t EXCEPT !.errors = errors] \in Session
           /\ \A a \in Answers : [t EXCEPT !.last_raw = a] \in Session
    BY DEF Session
  <1>2. \A pc \in ProgramCounters, n \in Nat : [s EXCEPT !.pc = pc, !.began = n] \in Session
    <2> SUFFICES ASSUME NEW pc \in ProgramCounters, NEW n \in Nat
                 PROVE  [[s EXCEPT !.pc = pc] EXCEPT !.began = n] \in Session
      OBVIOUS
    <2> QED BY <1>1
  <1>3. \A pc \in ProgramCounters, errors \in Seq(Errors) :
           [s EXCEPT !.pc = pc, !.errors = errors] \in Session
    <2> SUFFICES ASSUME NEW pc \in ProgramCounters, NEW errors \in Seq(Errors)
                 PROVE  [[s EXCEPT !.pc = pc] EXCEPT !.errors = errors] \in Session
      OBVIOUS
    <2> QED BY <1>1
  <1>4. \A pc \in ProgramCounters, n \in 0 .. MaxRetries + 1, a \in Answers :
           [s EXCEPT !.pc = pc, !.attempts = n, !.last_raw = a] \in Session
    <2> SUFFICES ASSUME NEW pc \in ProgramCounters, NEW n \in 0 .. MaxRetries + 1,
                        NEW a \in Answers
                 PROVE  [[[s EXCEPT !.pc = pc] EXCEPT !.attempts = n]
                            EXCEPT !.last_raw = a] \in Session
      OBVIOUS
    <2> QED BY <1>1
  <1>5. \A pc \in ProgramCounters, n \in 0 .. MaxRetries + 1, a \in Answers,
           errors \in Seq(Errors) :
           [s EXCEPT !.pc = pc, !.attempts = n, !.error_hint = a,
                     !.errors = errors, !.last_raw = a] \in Session
    <2> SUFFICES ASSUME NEW pc \in ProgramCounters, NEW n \in 0 .. MaxRetries + 1,
                        NEW a \in Answers, NEW errors \in Seq(Errors)
                 PROVE  [[[[[s EXCEPT !.pc = pc] EXCEPT !.attempts = n]
                              EXCEPT !.error_hint = a] EXCEPT !.errors = errors]
                            EXCEPT !.last_raw = a] \in Session
      OBVIOUS
    <2> QED BY <1>1
  <1>6. \A ok \in BOOLEAN : RowOf(s, ok) \in Row
    <2>1. <<>> \in Seq(Errors)
      OBVIOUS
    <2> QED BY <2>1, SMT DEF RowOf, Row, Session
  <1> QED BY <1>1, <1>2, <1>3, <1>4, <1>5, <1>6
-----------------------------------------------------------------------------
(* Steps that leave the log and the rows alone                             *)

LEMMA OneSession ==
    ASSUME TypeOK, NEW w \in Workers, NEW t \in Session, sess' = [sess EXCEPT ![w] = t]
    PROVE  /\ sess' \in [Workers -> Session]
           /\ sess'[w] = t /\ \A v \in Workers : v # w => sess'[v] = sess[v]
  BY DEF TypeOK

LEMMA QuietStep ==
    ASSUME IInv, NEW w \in Workers, NEW t \in Session, sess' = [sess EXCEPT ![w] = t],
           asked' = asked, rows' = rows,
           t.pc \in {"idle", "sending"} => t = [Idle EXCEPT !.pc = t.pc],
           t.pc \in Active => /\ sess[w].pc \in Active /\ t.began = sess[w].began
                              /\ SessionTells(t, asked[t.began])
    PROVE  Resting' /\ Tells' /\ OwnLogs'
  <1>1. sess'[w] = t /\ \A v \in Workers : v # w => sess'[v] = sess[v]
    BY OneSession DEF IInv
  <1>2. Resting'
    BY <1>1 DEF IInv, Resting
  <1>3. Tells'
    BY <1>1 DEF IInv, Tells
  <1>4. OwnLogs'
    BY <1>1 DEF IInv, OwnLogs
  <1> QED BY <1>2, <1>3, <1>4

\* What a session in some phase knows.
LEMMA PhaseKnows ==
    ASSUME ExtractionAssumption, IInv, NEW w \in Workers
    PROVE  /\ sess[w] \in Session
           /\ sess[w].pc \in Active =>
                 /\ sess[w].began \in DOMAIN asked
                 /\ asked[sess[w].began] \in Seq(CallRecord)
                 /\ HintsInOrder(asked[sess[w].began])
                 /\ SessionTells(sess[w], asked[sess[w].began])
  BY DEF IInv, TypeOK, Tells, CallRecord

\* A session that ends, whatever it was at.
LEMMA SessionEnds ==
    ASSUME ExtractionAssumption, IInv, NEW w \in Workers, sess' = [sess EXCEPT ![w] = Idle],
           UNCHANGED <<asked, rows, settings, status, failure_reason>>,
           {messages', chained', faults', redeliveries', escapes'} \subseteq Nat
    PROVE  IInv'
  <1>1. Idle \in Session /\ Idle.pc = "idle" /\ [Idle EXCEPT !.pc = "idle"] = Idle
    BY ExtractionAssumption DEF Idle, Session, ProgramCounters, Errors
  <1>2. Resting' /\ Tells' /\ OwnLogs'
    BY <1>1, QuietStep DEF Active, Holding
  <1>3. TypeOK'
    BY <1>1, OneSession DEF TypeOK, IInv, settings
  <1> QED BY <1>2, <1>3 DEF IInv

LEMMA FlushKeeps ==
    ASSUME ExtractionAssumption, IInv, NEW w \in Workers, FlushExtracting(w)
    PROVE  IInv'
  <1> DEFINE s == sess[w]
             t == [s EXCEPT !.pc = "reading"]
  <1>1. s \in Session /\ s.pc = "loaded" /\ s.pc \in Active
        /\ SessionTells(s, asked[s.began])
    BY PhaseKnows DEF FlushExtracting, Active
  <1>2. t \in Session /\ sess' = [sess EXCEPT ![w] = t]
    BY <1>1, SessionSteps DEF ProgramCounters, FlushExtracting
  <1>3. /\ t.pc = "reading" /\ t.began = s.began /\ t.attempts = s.attempts
        /\ t.errors = s.errors /\ t.error_hint = s.error_hint /\ t.last_raw = s.last_raw
    BY <1>1 DEF Session
  <1>4. SessionTells(t, asked[t.began])
    BY <1>1, <1>3 DEF SessionTells
  <1> HIDE DEF t
  <1>5. asked' = asked /\ rows' = rows
    BY DEF FlushExtracting, database
  <1>6. Resting' /\ Tells' /\ OwnLogs'
    BY <1>1, <1>2, <1>3, <1>4, <1>5, QuietStep DEF Active, Holding
  <1>7. TypeOK'
    BY <1>2, OneSession DEF TypeOK, IInv, FlushExtracting, settings, database, broker, counters
  <1> QED BY <1>6, <1>7 DEF IInv

LEMMA OpenKeeps ==
    ASSUME ExtractionAssumption, IInv, NEW w \in Workers, OpenDocument(w)
    PROVE  IInv'
  <1> DEFINE s == sess[w]
             t == [s EXCEPT !.pc = "asking"]
  <1>1. s \in Session /\ s.pc = "reading" /\ s.pc \in Active
        /\ SessionTells(s, asked[s.began])
    BY PhaseKnows DEF OpenDocument, Active, Holding
  <1>2. t \in Session /\ sess' = [sess EXCEPT ![w] = t]
    BY <1>1, SessionSteps DEF ProgramCounters, OpenDocument
  <1>3. /\ t.pc = "asking" /\ t.began = s.began /\ t.attempts = s.attempts
        /\ t.errors = s.errors /\ t.error_hint = s.error_hint /\ t.last_raw = s.last_raw
    BY <1>1 DEF Session
  <1>4. SessionTells(t, asked[t.began])
    BY <1>1, <1>3 DEF SessionTells
  <1> HIDE DEF t
  <1>5. asked' = asked /\ rows' = rows
    BY DEF OpenDocument, database
  <1>6. Resting' /\ Tells' /\ OwnLogs'
    BY <1>1, <1>2, <1>3, <1>4, <1>5, QuietStep DEF Active, Holding
  <1>7. TypeOK'
    BY <1>2, OneSession DEF TypeOK, IInv, OpenDocument, settings, database, broker, counters
  <1> QED BY <1>6, <1>7 DEF IInv

LEMMA FailKeeps ==
    ASSUME ExtractionAssumption, IInv, NEW w \in Workers, NEW error \in {"no_text", "no_key"},
           sess[w].pc = "reading", FailWith(w, error)
    PROVE  IInv'
  <1> DEFINE s == sess[w]
             t == [s EXCEPT !.pc = "failing", !.errors = <<error>>]
  <1>1. s \in Session /\ s.pc = "reading" /\ s.pc \in Active
        /\ SessionTells(s, asked[s.began])
    BY PhaseKnows DEF Active, Holding
  <1>2. error \in Errors /\ <<error>> \in Seq(Errors) /\ Len(<<error>>) = 1
    BY DEF Errors
  <1>3. t \in Session
    BY <1>1, <1>2, SessionSteps DEF ProgramCounters
  <1>4. sess' = [sess EXCEPT ![w] = t]
    BY DEF FailWith
  <1>5. /\ t.pc = "failing" /\ t.began = s.began /\ t.attempts = s.attempts
        /\ t.errors = <<error>> /\ t.last_raw = s.last_raw
    BY <1>1 DEF Session
  <1>6. SessionTells(t, asked[t.began])
    BY <1>1, <1>2, <1>5 DEF SessionTells
  <1> HIDE DEF t
  <1>7. asked' = asked /\ rows' = rows
    BY DEF FailWith, database
  <1>8. Resting' /\ Tells' /\ OwnLogs'
    BY <1>1, <1>3, <1>4, <1>5, <1>6, <1>7, QuietStep DEF Active, Holding
  <1>9. TypeOK'
    BY <1>3, <1>4, OneSession
    DEF TypeOK, IInv, FailWith, settings, database, broker, counters
  <1> QED BY <1>8, <1>9 DEF IInv
-----------------------------------------------------------------------------
(* Steps that write to the log                                             *)

LEMMA BeginKeeps ==
    ASSUME ExtractionAssumption, IInv, NEW w \in Workers, Begin(w)
    PROVE  IInv'
  <1> DEFINE t == [Idle EXCEPT !.pc = "loaded", !.began = Len(asked) + 1]
  <1>1. asked \in Seq(Seq(CallRecord)) /\ sess[w].pc = "idle" /\ Idle \in Session
    BY DEF IInv, TypeOK, CallRecord, Begin, Receive, Idle, Session, ProgramCounters, Errors
  <1>2. /\ asked' \in Seq(Seq(CallRecord))
        /\ Len(asked) \in Nat /\ DOMAIN asked = 1 .. Len(asked)
        /\ DOMAIN asked' = 1 .. Len(asked) + 1
        /\ asked'[Len(asked) + 1] = <<>>
        /\ \A b \in DOMAIN asked : asked'[b] = asked[b]
    BY <1>1, <<>> \in Seq(CallRecord) DEF Begin
  <1>3. t \in Session
    <2>1. \A n \in Nat : [Idle EXCEPT !.pc = "loaded", !.began = n] \in Session
      BY <1>1, SessionSteps DEF ProgramCounters
    <2>2. Len(asked) + 1 \in Nat
      BY <1>2
    <2> QED BY <2>1, <2>2
  <1>4. /\ t.pc = "loaded" /\ t.began = Len(asked) + 1 /\ t.attempts = 0
        /\ t.errors = <<>> /\ t.error_hint = None /\ t.last_raw = None
    BY <1>1 DEF Idle
  <1>5. SessionTells(t, <<>>)
    <2>1. Said(<<>>) = <<>>
      <3>1. <<>> \in Seq(CallRecord)
        OBVIOUS
      <3>2. Said(<<>>) \in Seq(Answers) /\ Len(Said(<<>>)) = 0
        BY <3>1, SaidIsSeq
      <3> QED BY <3>2, EmptySeq
    <2>2. Refused(<<>>) /\ LastSaid(<<>>) = None /\ Len(<<>>) = 0
      BY DEF Refused, LastSaid
    <2> QED BY <1>4, <2>1, <2>2, ExtractionAssumption DEF SessionTells
  <1>6. sess' = [sess EXCEPT ![w] = t] /\ rows' = rows
    BY DEF Begin, database
  <1> HIDE DEF t
  <1>7. sess'[w] = t /\ \A v \in Workers : v # w => sess'[v] = sess[v]
    BY <1>3, <1>6, OneSession DEF IInv
  <1>8. Resting'
    BY <1>4, <1>7 DEF IInv, Resting
  <1>9. Tells'
    <2>1. HintsInOrder(<<>>)
      BY DEF HintsInOrder
    <2>0. DOMAIN asked' = DOMAIN asked \cup {Len(asked) + 1}
      BY <1>2
    <2>2. \A b \in DOMAIN asked' : HintsInOrder(asked'[b])
      <3> SUFFICES ASSUME NEW b \in DOMAIN asked' PROVE HintsInOrder(asked'[b])
        OBVIOUS
      <3>1. CASE b \in DOMAIN asked
        BY <1>2, <3>1 DEF IInv, Tells
      <3>2. CASE b = Len(asked) + 1
        BY <1>2, <2>1, <3>2
      <3> QED BY <2>0, <3>1, <3>2
    <2>3. \A v \in Workers : sess'[v].pc \in Active =>
             sess'[v].began \in DOMAIN asked' /\ SessionTells(sess'[v], asked'[sess'[v].began])
      <3> SUFFICES ASSUME NEW v \in Workers, sess'[v].pc \in Active
                   PROVE  /\ sess'[v].began \in DOMAIN asked'
                          /\ SessionTells(sess'[v], asked'[sess'[v].began])
        OBVIOUS
      <3>1. CASE v = w
        BY <1>2, <1>4, <1>5, <1>7, <2>0, <3>1
      <3>2. CASE v # w
        BY <1>2, <1>7, <2>0, <3>2 DEF IInv, Tells
      <3> QED BY <3>1, <3>2
    <2>4. \A r \in rows' : r.began \in DOMAIN asked' /\ RowTells(r, asked'[r.began])
      BY <1>2, <1>6 DEF IInv, Tells
    <2> QED BY <2>2, <2>3, <2>4 DEF Tells
  <1>10. OwnLogs'
    <2>1. \A v \in Workers : sess[v].pc \in Active => sess[v].began # Len(asked) + 1
      BY <1>2 DEF IInv, Tells
    <2>2. \A r \in rows : r.began # Len(asked) + 1
      BY <1>2 DEF IInv, Tells
    <2> QED BY <1>4, <1>6, <1>7, <2>1, <2>2 DEF IInv, OwnLogs
  <1>11. TypeOK'
    <2>1. messages' \in Nat
      BY DEF IInv, TypeOK, Begin, Receive
    <2> QED BY <1>2, <1>3, <1>6, <2>1, OneSession
        DEF TypeOK, IInv, Begin, settings, database, counters, CallRecord
  <1> QED BY <1>8, <1>9, <1>10, <1>11 DEF IInv

LEMMA CallStep ==
    ASSUME ExtractionAssumption, IInv, NEW w \in Workers, NEW answer \in Answers,
           Call(w, answer), NEW t \in Session, sess' = [sess EXCEPT ![w] = t],
           t.began = sess[w].began, t.pc \in Holding,
           LET more == Append(asked[sess[w].began],
                              [hint |-> sess[w].error_hint, answer |-> answer])
           IN  HintsInOrder(more) => SessionTells(t, more)
    PROVE  IInv'
  <1> DEFINE s == sess[w]
             b == s.began
             calls == asked[b]
             c == [hint |-> s.error_hint, answer |-> answer]
             more == Append(calls, c)
  <1>1. /\ s \in Session /\ s.pc \in Active /\ b \in DOMAIN asked
        /\ calls \in Seq(CallRecord) /\ HintsInOrder(calls)
        /\ Refused(calls) /\ s.error_hint = LastSaid(calls)
    BY PhaseKnows DEF Call, Active, Holding, SessionTells
  <1>2. c \in CallRecord /\ c.hint = s.error_hint /\ c.answer = answer
    BY <1>1 DEF CallRecord, Session
  <1>3. more \in Seq(CallRecord) /\ HintsInOrder(more)
    BY <1>1, <1>2, LogMore
  <1>4. asked' = [asked EXCEPT ![b] = more] /\ rows' = rows
    BY DEF Call, database
  <1>5. SessionTells(t, more)
    BY <1>3
  <1>6. asked \in Seq(Seq(CallRecord)) /\ b \in 1 .. Len(asked)
    BY <1>1 DEF IInv, TypeOK, CallRecord
  <1> HIDE DEF more, c
  <1>7. /\ asked' \in Seq(Seq(CallRecord)) /\ DOMAIN asked' = DOMAIN asked
        /\ asked'[b] = more /\ \A d \in DOMAIN asked : d # b => asked'[d] = asked[d]
    BY <1>3, <1>4, <1>6, ExceptSeq
  <1>8. sess'[w] = t /\ \A v \in Workers : v # w => sess'[v] = sess[v]
    BY OneSession DEF IInv
  <1>9. Resting'
    BY <1>8 DEF IInv, Resting, Holding
  <1>10. \A v \in Workers : v # w /\ sess[v].pc \in Active => sess[v].began # b
    BY <1>1 DEF IInv, OwnLogs
  <1>11. \A r \in rows : r.began # b
    BY <1>1 DEF IInv, OwnLogs
  <1>12. Tells'
    BY <1>1, <1>3, <1>4, <1>5, <1>7, <1>8, <1>10, <1>11 DEF IInv, Tells
  <1>13. OwnLogs'
    BY <1>1, <1>4, <1>8, <1>10, <1>11 DEF IInv, OwnLogs
  <1>14. TypeOK'
    BY <1>7, OneSession DEF TypeOK, IInv, Call, settings, database, broker, counters, CallRecord
  <1> QED BY <1>9, <1>12, <1>13, <1>14 DEF IInv

LEMMA AskingKnows ==
    ASSUME ExtractionAssumption, IInv, NEW w \in Workers, NEW answer \in Answers,
           sess[w].pc = "asking"
    PROVE  LET s == sess[w]
               calls == asked[s.began]
               more == Append(calls, [hint |-> s.error_hint, answer |-> answer])
           IN  /\ s \in Session /\ s.attempts \in Nat /\ s.attempts + 1 \in 0 .. MaxRetries + 1
               /\ s.attempts + 1 = Len(more) /\ more # <<>> /\ LastSaid(more) = answer
               /\ answer \notin Valid => /\ Refused(more)
                                         /\ Append(s.errors, answer) = Said(more)
  <1> DEFINE s == sess[w]
             calls == asked[s.began]
             c == [hint |-> s.error_hint, answer |-> answer]
  <1>1. /\ s \in Session /\ calls \in Seq(CallRecord)
        /\ Refused(calls) /\ s.errors = Said(calls)
        /\ s.attempts = Len(calls) /\ s.attempts <= MaxRetries
    BY PhaseKnows DEF Active, Holding, SessionTells
  <1>2. c \in CallRecord /\ c.answer = answer
    BY <1>1 DEF CallRecord, Session
  <1>3. s.attempts \in Nat /\ s.attempts + 1 \in 0 .. MaxRetries + 1
    BY <1>1, ExtractionAssumption DEF Session
  <1> DEFINE more == Append(calls, c)
  <1> HIDE DEF c, calls, s
  <1>4. /\ more # <<>> /\ Len(more) = Len(calls) + 1 /\ LastSaid(more) = c.answer
        /\ Said(more) = Append(Said(calls), c.answer)
        /\ c.answer \notin Valid => Refused(more)
    BY <1>1, <1>2, LogMore
  <1> HIDE DEF more
  <1>5. /\ s.attempts + 1 = Len(more) /\ more # <<>> /\ LastSaid(more) = answer
        /\ answer \notin Valid => Refused(more) /\ Append(s.errors, answer) = Said(more)
    BY <1>1, <1>2, <1>4
  <1> QED BY <1>1, <1>3, <1>5 DEF s, calls, c, more

LEMMA FitsKeeps ==
    ASSUME ExtractionAssumption, IInv, NEW w \in Workers, NEW answer \in Answers,
           AnswerFits(w, answer)
    PROVE  IInv'
  <1> DEFINE s == sess[w]
             more == Append(asked[s.began], [hint |-> s.error_hint, answer |-> answer])
             t == [s EXCEPT !.pc = "answered", !.attempts = @ + 1, !.last_raw = answer]
  <1>1. s.pc = "asking" /\ Call(w, answer) /\ answer \in Valid
    BY DEF AnswerFits, Call, Valid
  <1>2. /\ s \in Session /\ s.attempts + 1 \in 0 .. MaxRetries + 1
        /\ s.attempts + 1 = Len(more) /\ more # <<>> /\ LastSaid(more) = answer
    BY <1>1, AskingKnows
  <1>3. t \in Session
    BY <1>2, SessionSteps DEF ProgramCounters
  <1>4. /\ t.pc = "answered" /\ t.began = s.began /\ t.attempts = s.attempts + 1
        /\ t.last_raw = answer
    BY <1>2 DEF Session
  <1>5. sess' = [sess EXCEPT ![w] = t]
    BY DEF AnswerFits
  <1> HIDE DEF more, t
  <1>6. SessionTells(t, more)
    BY <1>1, <1>2, <1>4 DEF SessionTells
  <1> QED BY <1>1, <1>3, <1>4, <1>5, <1>6, CallStep DEF Holding, more

LEMMA RefusedKeeps ==
    ASSUME ExtractionAssumption, IInv, NEW w \in Workers, NEW answer \in Answers,
           AnswerRefused(w, answer)
    PROVE  IInv'
  <1> DEFINE s == sess[w]
             more == Append(asked[s.began], [hint |-> s.error_hint, answer |-> answer])
             pc == IF IsLast(s.attempts + 1) THEN "failing" ELSE "asking"
             t == [s EXCEPT !.pc = pc, !.attempts = @ + 1, !.error_hint = answer,
                            !.errors = Append(@, answer), !.last_raw = answer]
  <1>1. s.pc = "asking" /\ Call(w, answer) /\ answer \notin Valid
    BY DEF AnswerRefused, Call, Valid
  <1>2. /\ s \in Session /\ s.attempts \in Nat /\ s.attempts + 1 \in 0 .. MaxRetries + 1
        /\ s.attempts + 1 = Len(more) /\ more # <<>> /\ LastSaid(more) = answer
        /\ Refused(more) /\ Append(s.errors, answer) = Said(more)
    BY <1>1, AskingKnows
  <1>3. pc \in {"failing", "asking"} /\ Append(s.errors, answer) \in Seq(Errors)
    <2>1. s.errors \in Seq(Errors) /\ answer \in Errors
      BY <1>2 DEF Session, Errors
    <2> QED BY <2>1
  <1>4. t \in Session
    BY <1>2, <1>3, SessionSteps DEF ProgramCounters
  <1>5. /\ t.pc = pc /\ t.began = s.began /\ t.attempts = s.attempts + 1
        /\ t.errors = Append(s.errors, answer) /\ t.error_hint = answer /\ t.last_raw = answer
    BY <1>2 DEF Session
  <1>6. sess' = [sess EXCEPT ![w] = t]
    BY DEF AnswerRefused, NextHint
  <1>7. pc = "asking" => Len(more) <= MaxRetries
    BY <1>2, ExtractionAssumption DEF IsLast
  <1> HIDE DEF more, pc, t
  <1>8. SessionTells(t, more)
    BY <1>2, <1>3, <1>5, <1>7 DEF SessionTells
  <1> QED BY <1>1, <1>3, <1>4, <1>5, <1>6, <1>8, CallStep DEF Holding, more
-----------------------------------------------------------------------------
(* Landing                                                                 *)

LEMMA RowTellsWhatTheSessionDid ==
    ASSUME ExtractionAssumption, IInv, NEW w \in Workers,
           sess[w].pc \in {"answered", "failing"}
    PROVE  LET r == RowOf(sess[w], sess[w].pc = "answered") IN
           /\ r \in Row /\ r.began = sess[w].began /\ r.ok = (sess[w].pc = "answered")
           /\ r.raw_response = sess[w].last_raw
           /\ RowTells(r, asked[r.began])
  <1> DEFINE s == sess[w]
             calls == asked[s.began]
             ok == s.pc = "answered"
             r == RowOf(s, ok)
  <1>1. /\ s \in Session /\ s.pc \in Active /\ calls \in Seq(CallRecord)
        /\ SessionTells(s, calls)
    BY PhaseKnows DEF Active, Holding
  <1>2. ok \in BOOLEAN /\ r \in Row
    BY <1>1, SessionSteps
  <1>3. /\ r.began = s.began /\ r.ok = ok /\ r.attempts = s.attempts
        /\ r.raw_response = s.last_raw /\ (~ok => r.errors = s.errors)
    BY DEF RowOf
  <1> HIDE DEF r
  <1>4. calls # <<>> => Len(calls) \in DOMAIN calls
    BY <1>1
  <1>5. CASE s.pc = "answered"
    BY <1>1, <1>2, <1>3, <1>5 DEF SessionTells, RowTells, r
  <1>6. CASE s.pc = "failing"
    <2>1. calls # <<>> => s.last_raw \notin Valid
      BY <1>1, <1>4, <1>6 DEF SessionTells, Refused, LastSaid
    <2>2. /\ ~ok /\ s.attempts = Len(calls) /\ s.last_raw = LastSaid(calls)
          /\ calls = <<>> => Len(s.errors) = 1
          /\ calls # <<>> => s.errors = Said(calls)
      BY <1>1, <1>6 DEF SessionTells
    <2>3. RowTells(r, calls)
      BY <1>3, <2>1, <2>2 DEF RowTells
    <2> QED BY <1>2, <1>3, <2>3 DEF r
  <1> QED BY <1>5, <1>6

LEMMA LandKeeps ==
    ASSUME ExtractionAssumption, IInv, NEW w \in Workers, NEW outcome, NEW pc,
           \/ LandSuccess(w) /\ sess[w].pc = "answered" /\ outcome = "extracted" /\ pc = "sending"
           \/ LandFailure(w) /\ sess[w].pc = "failing" /\ outcome = "failed" /\ pc = "idle"
    PROVE  IInv'
  <1> DEFINE s == sess[w]
             r == RowOf(s, s.pc = "answered")
             t == [Idle EXCEPT !.pc = pc]
  <1>1. /\ r \in Row /\ r.began = s.began /\ s.pc \in Active
        /\ s.began \in DOMAIN asked /\ RowTells(r, asked[r.began])
        /\ s \in Session
    BY RowTellsWhatTheSessionDid, PhaseKnows DEF Active, Holding
  <1>2. Idle \in Session /\ t \in Session /\ t.pc = pc /\ t = [Idle EXCEPT !.pc = t.pc]
    <2>1. Idle \in Session /\ pc \in ProgramCounters
      BY ExtractionAssumption DEF Idle, Session, ProgramCounters, Errors
    <2>2. t \in Session
      BY <2>1, SessionSteps
    <2>3. t.pc = pc
      BY DEF Idle
    <2> QED BY <2>1, <2>2, <2>3
  <1>3. /\ asked' = asked /\ rows' = rows \cup {r} /\ sess' = [sess EXCEPT ![w] = t]
        /\ failure_reason' \in Seq(Errors)
        /\ status' \in {"extracted", "failed"}
        /\ UNCHANGED <<settings, asked, broker, counters>>
    <2>1. CASE LandSuccess(w) /\ s.pc = "answered" /\ pc = "sending"
      BY <2>1 DEF LandSuccess, Land, IInv, TypeOK
    <2>2. CASE LandFailure(w) /\ s.pc = "failing" /\ pc = "idle"
      <3>1. t = Idle
        BY <2>2 DEF Idle
      <3>2. s.errors \in Seq(Errors)
        BY <1>1 DEF Session
      <3>3. (s.pc = "answered") = FALSE
        BY <2>2
      <3>4. ("failed" = "extracted") = FALSE
        OBVIOUS
      <3> HIDE DEF t
      <3> QED BY <2>2, <3>1, <3>2, <3>3, <3>4 DEF LandFailure, Land
    <2> QED BY <2>1, <2>2
  <1> HIDE DEF r, t
  <1>4. sess'[w] = t /\ \A v \in Workers : v # w => sess'[v] = sess[v]
    BY <1>2, <1>3, OneSession DEF IInv
  <1>5. t.pc \notin Active
    BY <1>2 DEF Active, Holding
  <1>6. Resting'
    BY <1>2, <1>4 DEF IInv, Resting
  <1>7. Tells'
    BY <1>1, <1>3, <1>4, <1>5 DEF IInv, Tells
  <1>8. OwnLogs'
    <2>1. \A v \in Workers : sess'[v].pc \in Active => v # w /\ sess'[v] = sess[v]
      BY <1>4, <1>5
    <2>2. \A v \in Workers : v # w /\ sess[v].pc \in Active => sess[v].began # r.began
      BY <1>1 DEF IInv, OwnLogs
    <2>3. \A q \in rows : q.began # r.began
      BY <1>1 DEF IInv, OwnLogs
    <2> QED BY <1>3, <2>1, <2>2, <2>3 DEF IInv, OwnLogs
  <1>9. TypeOK'
    BY <1>1, <1>2, <1>3, OneSession DEF TypeOK, IInv, settings, broker, counters
  <1> QED BY <1>6, <1>7, <1>8, <1>9 DEF IInv
-----------------------------------------------------------------------------
LEMMA NextKeeps ==
    ASSUME ExtractionAssumption, IInv, [Next]_vars
    PROVE  IInv'
  <1>1. CASE UNCHANGED vars
    BY <1>1 DEF vars, IInv, TypeOK, Resting, Tells, OwnLogs
  <1>2. CASE Redeliver
    BY <1>2 DEF Redeliver, settings, database, IInv, TypeOK, Resting, Tells, OwnLogs
  <1>3. ASSUME NEW w \in Workers, WorkerStep(w) \/ Crash(w) PROVE IInv'
    <2>1. CASE Begin(w)
      BY <2>1, BeginKeeps
    <2>2. CASE Skip(w)
      BY <2>2 DEF Skip, Receive, settings, database, counters, IInv, TypeOK, Resting,
                  Tells, OwnLogs
    <2>3. CASE FlushExtracting(w)
      BY <2>3, FlushKeeps
    <2>4. CASE NoText(w) \/ NoKey(w)
      BY <2>4, FailKeeps DEF NoText, NoKey
    <2>5. CASE OpenDocument(w)
      BY <2>5, OpenKeeps
    <2>6. CASE \E answer \in Answers : AnswerFits(w, answer) \/ AnswerRefused(w, answer)
      BY <2>6, FitsKeeps, RefusedKeeps
    <2>7. CASE LandSuccess(w)
      BY <2>7, LandKeeps DEF LandSuccess
    <2>8. CASE LandFailure(w)
      BY <2>8, LandKeeps DEF LandFailure
    <2>9. CASE Chain(w)
      <3>1. chained' \in Nat
        BY <2>9 DEF Chain, IInv, TypeOK
      <3> QED BY <2>9, <3>1, SessionEnds
          DEF Chain, settings, database, counters, IInv, TypeOK
    <2>10. CASE Escape(w)
      <3>1. escapes' \in Nat
        BY <2>10 DEF Escape, IInv, TypeOK
      <3> QED BY <2>10, <3>1, SessionEnds
          DEF Escape, settings, database, broker, IInv, TypeOK
    <2>11. CASE Crash(w)
      <3>1. faults' \in Nat
        BY <2>11 DEF Crash, IInv, TypeOK
      <3> QED BY <2>11, <3>1, SessionEnds
          DEF Crash, settings, database, broker, IInv, TypeOK
    <2> QED BY <1>3, <2>1, <2>2, <2>3, <2>4, <2>5, <2>6, <2>7, <2>8, <2>9, <2>10, <2>11
        DEF WorkerStep
  <1> QED BY <1>1, <1>2, <1>3 DEF Next

THEOREM Invariance == Spec => []IInv
  <1>1. Init => IInv
    BY InitIInv
  <1>2. IInv /\ [Next]_vars => IInv'
    BY NextKeeps, ExtractionAssumption
  <1> QED BY <1>1, <1>2, PTL DEF Spec

\* Every variable keeps its type, for any number of workers, retries and
\* deliveries.
THEOREM TypeCorrect == Spec => []TypeOK
  <1>1. IInv => TypeOK
    BY DEF IInv
  <1> QED BY <1>1, Invariance, PTL

\* Every row that extract_with_retry's outcome is stored in tells what the calls
\* of its attempt were, whatever attempts overlap it, end in an exception or die.
THEOREM RowsTellTheirAttempts == Spec => []RowTellsTheAttempt
  <1>1. IInv => RowTellsTheAttempt
    <2> SUFFICES ASSUME IInv, NEW r \in rows
                 PROVE  LET calls == asked[r.began]
                            last == calls[Len(calls)].answer
                        IN  /\ r.attempts = Len(calls)
                            /\ calls = <<>> =>
                                  ~r.ok /\ r.raw_response = None /\ Len(r.errors) = 1
                            /\ calls # <<>> =>
                                  /\ r.raw_response = last /\ (r.ok <=> last \in Valid)
                                  /\ ~r.ok => r.errors = [k \in DOMAIN calls |-> calls[k].answer]
                            /\ \A k \in DOMAIN calls :
                                  /\ calls[k].hint = IF k = 1 THEN None
                                                     ELSE calls[k - 1].answer
                                  /\ k < Len(calls) => calls[k].answer \notin Valid
      BY DEF RowTellsTheAttempt
    <2>1. RowTells(r, asked[r.began]) /\ HintsInOrder(asked[r.began])
      BY DEF IInv, Tells
    <2> QED BY <2>1 DEF RowTells, HintsInOrder, LastSaid, Said
  <1> QED BY <1>1, Invariance, PTL
-----------------------------------------------------------------------------
(* The reason of a failure                                                 *)

\* A reason stands in a failed row and an extracted invoice has a good one: the
\* two are attempts of their own, and each attempt has taken a message.
ReasonInv ==
    /\ failure_reason # <<>> => \E r \in rows : ~r.ok /\ r.errors = failure_reason
    /\ status = "failed" => failure_reason # <<>>
    /\ status = "extracted" => \E r \in rows : r.ok
    /\ Len(asked) + messages <= 1 + redeliveries

LEMMA FailingHasErrors ==
    ASSUME ExtractionAssumption, IInv, NEW w \in Workers, sess[w].pc = "failing"
    PROVE  sess[w].errors # <<>>
  <1> DEFINE calls == asked[sess[w].began]
  <1>1. calls \in Seq(CallRecord) /\ SessionTells(sess[w], calls)
    BY PhaseKnows DEF Active, Holding
  <1> HIDE DEF calls
  <1>2. CASE calls = <<>>
    <2>1. Len(sess[w].errors) = 1
      BY <1>1, <1>2 DEF SessionTells
    <2>2. Len(<<>>) = 0
      OBVIOUS
    <2> QED BY <2>1, <2>2
  <1>3. CASE calls # <<>>
    <2>1. sess[w].errors = Said(calls) /\ Len(Said(calls)) = Len(calls)
      BY <1>1, <1>3, SaidIsSeq DEF SessionTells
    <2>2. Len(calls) # 0
      BY <1>1, <1>3
    <2>3. Said(calls) # <<>>
      BY <2>1, <2>2
    <2> QED BY <2>1, <2>3
  <1> QED BY <1>2, <1>3

\* A call grows the log of one attempt and begins none.
LEMMA CallsBeginNothing ==
    ASSUME ExtractionAssumption, IInv, NEW w \in Workers, NEW answer \in Answers, Call(w, answer)
    PROVE  Len(asked') = Len(asked)
  <1> DEFINE b == sess[w].began
             c == [hint |-> sess[w].error_hint, answer |-> answer]
             more == Append(asked[b], c)
  <1>1. /\ asked \in Seq(Seq(CallRecord)) /\ b \in 1 .. Len(asked)
        /\ asked[b] \in Seq(CallRecord) /\ sess[w] \in Session
    <2>1. asked \in Seq(Seq(CallRecord))
      BY DEF IInv, TypeOK, CallRecord
    <2>2. sess[w].pc \in Active
      BY DEF Call, Active, Holding
    <2>3. sess[w] \in Session /\ b \in DOMAIN asked /\ asked[b] \in Seq(CallRecord)
      BY <2>2, PhaseKnows
    <2> HIDE DEF b
    <2> QED BY <2>1, <2>3
  <1>2. c \in CallRecord
    BY <1>1 DEF CallRecord, Session
  <1> HIDE DEF c
  <1>3. more \in Seq(CallRecord)
    BY <1>1, <1>2
  <1>4. asked' = [asked EXCEPT ![b] = more]
    BY DEF Call, c
  <1> HIDE DEF more, b
  <1> QED BY <1>1, <1>3, <1>4, ExceptSeq

LEMMA ReasonKept ==
    ASSUME ExtractionAssumption, IInv, ReasonInv, [Next]_vars
    PROVE  ReasonInv'
  <1>types. /\ messages \in Nat /\ redeliveries \in Nat /\ Len(asked) \in Nat
            /\ asked \in Seq(Seq(CallRecord))
    BY DEF IInv, TypeOK, CallRecord
  <1>same. ASSUME UNCHANGED <<rows, status, failure_reason>>,
                  Len(asked') + messages' <= 1 + redeliveries'
           PROVE  ReasonInv'
    BY <1>same DEF ReasonInv
  <1>1. CASE UNCHANGED vars
    BY <1>1 DEF vars, ReasonInv
  <1>2. CASE Redeliver
    BY <1>2, <1>types, <1>same DEF Redeliver, ReasonInv, database
  <1>3. ASSUME NEW w \in Workers, WorkerStep(w) \/ Crash(w)
        PROVE  ReasonInv'
    <2>1. CASE Begin(w)
      <3>1. Len(asked') = Len(asked) + 1
        BY <2>1, <1>types DEF Begin
      <3> QED BY <2>1, <3>1, <1>types, <1>same
          DEF Begin, Receive, ReasonInv, database, counters
    <2>2. CASE Skip(w)
      BY <2>2, <1>types, <1>same DEF Skip, Receive, ReasonInv, database, counters
    <2>3. CASE \E answer \in Answers : AnswerFits(w, answer) \/ AnswerRefused(w, answer)
      <3>1. PICK answer \in Answers : Call(w, answer)
        BY <2>3 DEF AnswerFits, AnswerRefused
      <3>2. Len(asked') = Len(asked)
        BY <3>1, CallsBeginNothing
      <3> QED BY <3>1, <3>2, <1>same DEF Call, ReasonInv, database, broker, counters
    <2>4. CASE LandFailure(w)
      <3> DEFINE r == RowOf(sess[w], FALSE)
      <3>1. r \in rows' /\ ~r.ok /\ r.errors = sess[w].errors
        BY <2>4 DEF LandFailure, Land, RowOf
      <3>2. sess[w].errors # <<>>
        BY <2>4, FailingHasErrors DEF LandFailure
      <3> HIDE DEF r
      <3> QED BY <2>4, <3>1, <3>2 DEF LandFailure, Land, ReasonInv, broker, counters
    <2>5. CASE LandSuccess(w)
      <3> DEFINE r == RowOf(sess[w], TRUE)
      <3>1. r \in rows' /\ r.ok /\ rows \subseteq rows'
        BY <2>5 DEF LandSuccess, Land, RowOf
      <3> HIDE DEF r
      <3> QED BY <2>5, <3>1 DEF LandSuccess, Land, ReasonInv, broker, counters
    <2>6. CASE \/ FlushExtracting(w) \/ NoText(w) \/ NoKey(w) \/ OpenDocument(w)
               \/ Chain(w) \/ Escape(w) \/ Crash(w)
      BY <2>6, <1>same
      DEF FlushExtracting, NoText, NoKey, FailWith, OpenDocument, Chain, Escape, Crash,
          ReasonInv, database, broker, counters
    <2> QED BY <1>3, <2>1, <2>2, <2>3, <2>4, <2>5, <2>6 DEF WorkerStep
  <1> QED BY <1>1, <1>2, <1>3 DEF Next

\* A failure_reason is that of a failed attempt, and where one is left on an
\* extracted invoice a message has been delivered twice.
THEOREM ReasonsAreOfFailures == Spec => []ReasonIsOfAFailure
  <1>1. Init => ReasonInv
    BY ExtractionAssumption DEF Init, ReasonInv
  <1>2. IInv /\ ReasonInv /\ [Next]_vars => ReasonInv'
    BY ReasonKept, ExtractionAssumption
  <1>3. IInv /\ ReasonInv => ReasonIsOfAFailure
    <2> SUFFICES ASSUME IInv, ReasonInv, status = "extracted", failure_reason # <<>>
                 PROVE  redeliveries > 0
      BY DEF ReasonInv, ReasonIsOfAFailure
    <2>1. PICK good \in rows : good.ok
      BY DEF ReasonInv
    <2>2. PICK bad \in rows : ~bad.ok
      BY DEF ReasonInv
    <2>3. good.began # bad.began
      BY <2>1, <2>2 DEF IInv, OwnLogs
    <2>4. good.began \in DOMAIN asked /\ bad.began \in DOMAIN asked
      BY DEF IInv, Tells
    <2>5. /\ messages \in Nat /\ redeliveries \in Nat /\ Len(asked) \in Nat
          /\ DOMAIN asked = 1 .. Len(asked)
      BY DEF IInv, TypeOK
    <2>6. Len(asked) >= 2
      BY <2>3, <2>4, <2>5
    <2> QED BY <2>5, <2>6 DEF ReasonInv
  <1> QED BY <1>1, <1>2, <1>3, Invariance, PTL DEF Spec
-----------------------------------------------------------------------------
(* An attempt as InvoicePipeline sees it                                   *)

\* The sessions of InvoicePipeline change where those of Extraction do.
LEMMA OneStage ==
    ASSUME TypeOK, NEW w \in Workers, NEW t \in Session, sess' = [sess EXCEPT ![w] = t]
    PROVE  [v \in Workers |-> StageSession(sess[v])]'
               = [[v \in Workers |-> StageSession(sess[v])] EXCEPT ![w] = StageSession(t)]
  BY OneSession

\* A session of the stage that has loaded or flushed.
Working(pc) == [pc |-> pc, job |-> "extract_invoice", inv |-> Invoice, base |-> "received",
                reading |-> None, match |-> None, rivals |-> {}, rival |-> None, verdict |-> "none"]

LEMMA StageOf ==
    ASSUME NEW s \in Session
    PROVE  /\ s.pc = "idle" => StageSession(s) = Pipeline!Idle
           /\ s.pc = "sending" =>
                 StageSession(s) = Pipeline!Sending("match_invoice", Invoice)
           /\ s.pc = "loaded" => StageSession(s) = Working("loaded")
           /\ s.pc \in Holding => StageSession(s) = Working("flushed")
  BY DEF StageSession, Holding, Working, Pipeline!Idle, Pipeline!Sending

LEMMA WorkingFlushes == [Working("loaded") EXCEPT !.pc = "flushed"] = Working("flushed")
  BY SMT DEF Working

\* What the pipeline knows of the invoice beside its rows stays as it is.
LEMMA RestOfPipeline ==
    ASSUME UNCHANGED database
    PROVE  UNCHANGED Pipeline!database
  BY DEF database, Pipeline!database, latest_successful_extraction

LEMMA FlushIsPipelines ==
    ASSUME ExtractionAssumption, IInv, NEW w \in Workers, FlushExtracting(w)
    PROVE  Pipeline!FlushExtraction(w)
  <1> DEFINE s == sess[w]
             t == [s EXCEPT !.pc = "reading"]
             stages == [v \in Workers |-> StageSession(sess[v])]
  <1>1. s \in Session /\ s.pc = "loaded"
    BY PhaseKnows DEF FlushExtracting
  <1>2. t \in Session /\ t.pc = "reading"
    <2>1. t \in Session
      BY <1>1, SessionSteps DEF ProgramCounters
    <2>2. t.pc = "reading"
      BY <1>1 DEF Session
    <2> QED BY <2>1, <2>2
  <1>3. stages' = [stages EXCEPT ![w] = StageSession(t)]
    BY <1>2, OneStage DEF IInv, FlushExtracting
  <1> HIDE DEF t
  <1>4. stages[w] = Working("loaded") /\ StageSession(t) = Working("flushed")
    BY <1>1, <1>2, StageOf DEF Holding
  <1>5. [Working("loaded") EXCEPT !.pc = "flushed"] = Working("flushed")
    BY WorkingFlushes
  <1>6. stages' = [stages EXCEPT ![w].pc = "flushed"]
    BY <1>3, <1>4, <1>5
  <1>7. ~ \E p \in Workers \cup {} :
             stages[p].inv = Invoice /\ stages[p].pc \in {"flushed", "stored"}
    <2> SUFFICES ASSUME NEW v \in Workers
                 PROVE  StageSession(sess[v]).pc \notin {"flushed", "stored"}
      OBVIOUS
    <2>1. sess[v] \in Session /\ sess[v].pc \notin Holding
      BY PhaseKnows DEF FlushExtracting, Locked
    <2> QED BY <2>1 DEF StageSession, Session, ProgramCounters
  <1>8. UNCHANGED <<Pipeline!database, Queue, escapes, faults, redeliveries>>
    BY RestOfPipeline DEF FlushExtracting, Queue, broker, counters
  <1>9. Working("loaded").pc = "loaded" /\ Working("loaded").job = "extract_invoice"
        /\ Working("loaded").inv = Invoice /\ Working("loaded").base = "received"
    BY DEF Working
  <1> HIDE DEF stages
  <1>10. "extracting" \in Pipeline!AllowedTransitions("received")
    BY DEF Pipeline!AllowedTransitions
  <1> QED BY <1>4, <1>6, <1>7, <1>8, <1>9, <1>10
      DEF Pipeline!FlushExtraction, Pipeline!Flush, Pipeline!Doing, Pipeline!Locked,
          Pipeline!Processes, Pipeline!CanTransition, Pipeline!counters, stages

LEMMA QueueTakes ==
    ASSUME messages > 0, messages' = messages - 1, chained' = chained
    PROVE  /\ Queue["extract_invoice"][Invoice] > 0
           /\ Queue' = [Queue EXCEPT !["extract_invoice"][Invoice] = @ - 1]
  BY DEF Queue

LEMMA QueueTakesAgain ==
    ASSUME messages > 0, messages' = messages + 1, chained' = chained
    PROVE  /\ Queue["extract_invoice"][Invoice] > 0
           /\ Queue' = [Queue EXCEPT !["extract_invoice"][Invoice] = @ + 1]
  BY DEF Queue

LEMMA QueueChains ==
    ASSUME messages' = messages, chained' = chained + 1
    PROVE  Queue' = [Queue EXCEPT !["match_invoice"][Invoice] = @ + 1]
  BY DEF Queue

LEMMA BeginIsPipelines ==
    ASSUME ExtractionAssumption, IInv, NEW w \in Workers, Begin(w),
           rows = {}
    PROVE  Pipeline!BeginExtraction(w, Invoice)
  <1> DEFINE t == [Idle EXCEPT !.pc = "loaded", !.began = Len(asked) + 1]
             stages == [v \in Workers |-> StageSession(sess[v])]
  <1>1. sess[w] \in Session /\ sess[w].pc = "idle" /\ status = "received"
    BY PhaseKnows DEF Begin, Receive
  <1>2. t \in Session /\ t.pc = "loaded"
    <2>1. Idle \in Session /\ Len(asked) + 1 \in Nat
      BY ExtractionAssumption DEF Idle, Session, ProgramCounters, Errors, IInv, TypeOK
    <2>2. t \in Session
      BY <2>1, SessionSteps DEF ProgramCounters
    <2>3. t.pc = "loaded"
      BY DEF Idle
    <2> QED BY <2>2, <2>3
  <1>3. stages' = [stages EXCEPT ![w] = StageSession(t)]
    BY <1>2, OneStage DEF IInv, Begin
  <1> HIDE DEF t
  <1>4. stages[w].pc = "idle" /\ StageSession(t) = Working("loaded")
    BY <1>1, <1>2, StageOf DEF Pipeline!Idle
  <1>5. latest_successful_extraction = None
    BY DEF latest_successful_extraction
  <1>6. Pipeline!Loaded("extract_invoice", Invoice) = Working("loaded")
    BY <1>1, <1>5 DEF Pipeline!Loaded, Working
  <1>7. UNCHANGED <<Pipeline!database, escapes, faults, redeliveries>>
    BY RestOfPipeline DEF Begin, counters
  <1>8. /\ Queue["extract_invoice"][Invoice] > 0
        /\ Queue' = [Queue EXCEPT !["extract_invoice"][Invoice] = @ - 1]
    BY QueueTakes DEF Begin, Receive
  <1> HIDE DEF stages
  <1> QED BY <1>1, <1>3, <1>4, <1>6, <1>7, <1>8
      DEF Pipeline!BeginExtraction, Pipeline!Begin, Pipeline!Receive, Pipeline!counters, stages

LEMMA SkipIsPipelines ==
    ASSUME ExtractionAssumption, IInv, NEW w \in Workers, Skip(w)
    PROVE  Pipeline!Skip(w, "extract_invoice", Invoice)
  <1> DEFINE stages == [v \in Workers |-> StageSession(sess[v])]
  <1>1. sess[w] \in Session /\ sess[w].pc = "idle" /\ status # "received" /\ sess' = sess
    BY PhaseKnows DEF Skip, Receive
  <1>2. stages[w].pc = "idle" /\ stages' = stages
    BY <1>1, StageOf DEF Pipeline!Idle
  <1>3. UNCHANGED <<Pipeline!database, escapes, faults, redeliveries>>
    BY RestOfPipeline DEF Skip, counters
  <1>4. /\ Queue["extract_invoice"][Invoice] > 0
        /\ Queue' = [Queue EXCEPT !["extract_invoice"][Invoice] = @ - 1]
    BY QueueTakes DEF Skip, Receive
  <1>5. Pipeline!StartStatuses("extract_invoice") = {"received"}
    BY DEF Pipeline!StartStatuses
  <1> HIDE DEF stages
  <1> QED BY <1>1, <1>2, <1>3, <1>4, <1>5
      DEF Pipeline!Skip, Pipeline!Receive, Pipeline!counters, stages

LEMMA ChainIsPipelines ==
    ASSUME ExtractionAssumption, IInv, NEW w \in Workers, Chain(w)
    PROVE  Pipeline!Send(w)
  <1> DEFINE stages == [v \in Workers |-> StageSession(sess[v])]
  <1>1. sess[w] \in Session /\ sess[w].pc = "sending" /\ Idle \in Session /\ Idle.pc = "idle"
    BY PhaseKnows, ExtractionAssumption
    DEF Chain, Idle, Session, ProgramCounters, Errors
  <1>2. stages' = [stages EXCEPT ![w] = Pipeline!Idle]
    BY <1>1, OneStage, StageOf DEF IInv, Chain
  <1>3. stages[w].pc = "sending" /\ stages[w].job = "match_invoice" /\ stages[w].inv = Invoice
    BY <1>1, StageOf DEF Pipeline!Sending
  <1>4. UNCHANGED <<Pipeline!database, escapes, faults, redeliveries>>
    BY RestOfPipeline DEF Chain, counters
  <1>5. Queue' = [Queue EXCEPT !["match_invoice"][Invoice] = @ + 1]
    BY QueueChains DEF Chain
  <1> HIDE DEF stages
  <1> QED BY <1>2, <1>3, <1>4, <1>5 DEF Pipeline!Send, Pipeline!counters, stages

LEMMA CrashIsPipelines ==
    ASSUME ExtractionAssumption, IInv, NEW w \in Workers, Crash(w)
    PROVE  Pipeline!Abort(w) \/ Pipeline!DropSend(w)
  <1> DEFINE stages == [v \in Workers |-> StageSession(sess[v])]
  <1>1. sess[w] \in Session /\ sess[w].pc # "idle" /\ Idle \in Session /\ Idle.pc = "idle"
    BY PhaseKnows, ExtractionAssumption
    DEF Crash, Idle, Session, ProgramCounters, Errors
  <1>2. stages' = [stages EXCEPT ![w] = Pipeline!Idle]
    BY <1>1, OneStage, StageOf DEF IInv, Crash
  <1>3. stages[w].pc \in {"loaded", "flushed", "sending"}
    BY <1>1 DEF StageSession, Session, ProgramCounters, Holding
  <1>4. UNCHANGED <<Pipeline!database, Queue, escapes, redeliveries>>
    BY RestOfPipeline DEF Crash, Queue, broker
  <1>5. faults < MaxFaults /\ faults' = faults + 1
    BY DEF Crash
  <1> HIDE DEF stages
  <1> QED BY <1>2, <1>3, <1>4, <1>5 DEF Pipeline!Abort, Pipeline!DropSend, stages

LEMMA EscapeIsPipelines ==
    ASSUME ExtractionAssumption, IInv, NEW w \in Workers, Escape(w)
    PROVE  Pipeline!RaiseLlmError(w)
  <1> DEFINE stages == [v \in Workers |-> StageSession(sess[v])]
  <1>1. sess[w] \in Session /\ sess[w].pc \in Holding /\ Idle \in Session /\ Idle.pc = "idle"
    BY PhaseKnows, ExtractionAssumption
    DEF Escape, Holding, Idle, Session, ProgramCounters, Errors
  <1>2. stages' = [stages EXCEPT ![w] = Pipeline!Idle]
    BY <1>1, OneStage, StageOf DEF IInv, Escape
  <1>3. stages[w].pc = "flushed" /\ stages[w].job = "extract_invoice"
    BY <1>1, StageOf DEF Working
  <1>4. UNCHANGED <<Pipeline!database, Queue, faults, redeliveries>>
    BY RestOfPipeline DEF Escape, Queue, broker
  <1>5. escapes < MaxEscapes /\ escapes' = escapes + 1
    BY DEF Escape
  <1> HIDE DEF stages
  <1> QED BY <1>2, <1>3, <1>4, <1>5 DEF Pipeline!RaiseLlmError, Pipeline!Doing, stages

LEMMA RedeliverIsPipelines ==
    ASSUME ExtractionAssumption, IInv, Redeliver
    PROVE  Pipeline!Redeliver("extract_invoice", Invoice)
  <1>1. UNCHANGED <<Pipeline!database, escapes, faults, sess>>
    BY RestOfPipeline DEF Redeliver
  <1>2. /\ Queue["extract_invoice"][Invoice] > 0
        /\ Queue' = [Queue EXCEPT !["extract_invoice"][Invoice] = @ + 1]
    BY QueueTakesAgain DEF Redeliver
  <1> QED BY <1>1, <1>2 DEF Pipeline!Redeliver, Redeliver

\* A call changes nothing the pipeline sees.
LEMMA CallIsInvisible ==
    ASSUME ExtractionAssumption, IInv, NEW w \in Workers, NEW t \in Session,
           sess[w].pc \in Holding, t.pc \in Holding, sess' = [sess EXCEPT ![w] = t],
           UNCHANGED <<database, broker, counters>>
    PROVE  UNCHANGED Pipeline!vars
  <1> DEFINE stages == [v \in Workers |-> StageSession(sess[v])]
  <1>1. StageSession(sess[w]) = StageSession(t)
    BY PhaseKnows, StageOf
  <1>2. stages' = stages
    <2>1. \A v \in Workers : sess'[v] = IF v = w THEN t ELSE sess[v]
      BY OneSession DEF IInv
    <2> QED BY <1>1, <2>1
  <1>3. UNCHANGED <<Pipeline!database, Queue, escapes, faults, redeliveries>>
    BY RestOfPipeline DEF Queue, broker, counters
  <1> HIDE DEF stages
  <1> QED BY <1>2, <1>3 DEF Pipeline!vars, Pipeline!database, stages

LEMMA OpenIsInvisible ==
    ASSUME ExtractionAssumption, IInv, NEW w \in Workers, OpenDocument(w)
    PROVE  UNCHANGED Pipeline!vars
  <1> DEFINE t == [sess[w] EXCEPT !.pc = "asking"]
  <1>1. sess[w] \in Session /\ sess[w].pc \in Holding
    BY PhaseKnows DEF OpenDocument, Holding
  <1>2. t \in Session /\ t.pc = "asking"
    <2>1. t \in Session
      BY <1>1, SessionSteps DEF ProgramCounters
    <2>2. t.pc = "asking"
      BY <1>1 DEF Session
    <2> QED BY <2>1, <2>2
  <1>3. sess' = [sess EXCEPT ![w] = t] /\ UNCHANGED <<database, broker, counters>>
    BY DEF OpenDocument
  <1> HIDE DEF t
  <1> QED BY <1>1, <1>2, <1>3, CallIsInvisible DEF Holding

LEMMA FailIsInvisible ==
    ASSUME ExtractionAssumption, IInv, NEW w \in Workers, NEW error \in {"no_text", "no_key"},
           sess[w].pc = "reading", FailWith(w, error)
    PROVE  UNCHANGED Pipeline!vars
  <1> DEFINE t == [sess[w] EXCEPT !.pc = "failing", !.errors = <<error>>]
  <1>1. sess[w] \in Session /\ sess[w].pc \in Holding
    BY PhaseKnows DEF Holding
  <1>2. t \in Session /\ t.pc = "failing"
    <2>1. <<error>> \in Seq(Errors)
      BY DEF Errors
    <2>2. t \in Session
      BY <1>1, <2>1, SessionSteps DEF ProgramCounters
    <2>3. t.pc = "failing"
      BY <1>1 DEF Session
    <2> QED BY <2>2, <2>3
  <1>3. sess' = [sess EXCEPT ![w] = t] /\ UNCHANGED <<database, broker, counters>>
    BY DEF FailWith
  <1> HIDE DEF t
  <1> QED BY <1>1, <1>2, <1>3, CallIsInvisible DEF Holding

LEMMA AnswerIsInvisible ==
    ASSUME ExtractionAssumption, IInv, NEW w \in Workers, NEW answer \in Answers,
           AnswerFits(w, answer) \/ AnswerRefused(w, answer)
    PROVE  UNCHANGED Pipeline!vars
  <1> DEFINE s == sess[w]
             pc == IF IsLast(s.attempts + 1) THEN "failing" ELSE "asking"
             fits == [s EXCEPT !.pc = "answered", !.attempts = @ + 1, !.last_raw = answer]
             refused == [s EXCEPT !.pc = pc, !.attempts = @ + 1, !.error_hint = answer,
                                  !.errors = Append(@, answer), !.last_raw = answer]
  <1>1. /\ s.pc = "asking" /\ s.pc \in Holding
        /\ UNCHANGED <<database, broker, counters>>
        /\ sess' = [sess EXCEPT ![w] = fits] \/ sess' = [sess EXCEPT ![w] = refused]
    BY DEF AnswerFits, AnswerRefused, Call, NextHint, Holding
  <1>2. s \in Session /\ s.attempts + 1 \in 0 .. MaxRetries + 1
    BY <1>1, AskingKnows
  <1>3. Append(s.errors, answer) \in Seq(Errors) /\ pc \in {"failing", "asking"}
    <2>1. s.errors \in Seq(Errors) /\ answer \in Errors
      BY <1>2 DEF Session, Errors
    <2> QED BY <2>1
  <1>4. fits \in Session /\ fits.pc = "answered"
    <2>1. fits \in Session
      BY <1>2, SessionSteps DEF ProgramCounters
    <2>2. fits.pc = "answered"
      BY <1>2 DEF Session
    <2> QED BY <2>1, <2>2
  <1>5. refused \in Session /\ refused.pc = pc
    <2>1. refused \in Session
      BY <1>2, <1>3, SessionSteps DEF ProgramCounters
    <2>2. refused.pc = pc
      BY <1>2 DEF Session
    <2> QED BY <2>1, <2>2
  <1> HIDE DEF fits, refused, pc
  <1> QED BY <1>1, <1>3, <1>4, <1>5, CallIsInvisible DEF Holding

LEMMA AdvanceIsPipelines ==
    ASSUME NEW outcome \in {"extracted", "failed"}, status' = outcome,
           audit' = audit \o <<[from |-> "received", to |-> "extracting", actor |-> "system"],
                               [from |-> "extracting", to |-> outcome, actor |-> "system"]>>
    PROVE  Pipeline!Advance(Invoice, "received", <<"extracting", outcome>>, "system")
  <1> DEFINE path == <<"extracting", outcome>>
             from(k) == IF k = 1 THEN "received" ELSE path[k - 1]
             walk == [k \in DOMAIN path |-> [from |-> from(k), to |-> path[k], actor |-> "system"]]
  <1>1. DOMAIN path = {1, 2} /\ Len(path) = 2 /\ path[1] = "extracting" /\ path[2] = outcome
    OBVIOUS
  <1>2. from(1) = "received" /\ from(2) = "extracting"
    BY <1>1
  <1>3. \A k \in DOMAIN path : Pipeline!CanTransition(from(k), path[k])
    BY <1>1, <1>2 DEF Pipeline!CanTransition, Pipeline!AllowedTransitions
  <1>4. walk = <<[from |-> "received", to |-> "extracting", actor |-> "system"],
                 [from |-> "extracting", to |-> outcome, actor |-> "system"]>>
    BY <1>1, <1>2
  <1>5. audit' = audit \o walk
    BY <1>4
  <1> HIDE DEF walk
  <1>6. /\ [i \in {Invoice} |-> status]' = [[i \in {Invoice} |-> status] EXCEPT ![Invoice] = outcome]
        /\ [i \in {Invoice} |-> audit]' = [[i \in {Invoice} |-> audit] EXCEPT ![Invoice] = @ \o walk]
    BY <1>5
  <1> QED BY <1>1, <1>3, <1>6 DEF Pipeline!Advance, walk

\* Successful rows are ordered by the start of their attempts, and there are
\* none before the first attempt lands.
RowsInOrder ==
    LET good == {r \in rows : r.ok} IN
    /\ status = "received" => rows = {}
    /\ good # {} => \E r \in good : \A q \in good : q.began <= r.began

LEMMA LandingAddsARow ==
    ASSUME ExtractionAssumption, IInv, NEW w \in Workers, LandSuccess(w) \/ LandFailure(w)
    PROVE  \E r \in Row :
              /\ rows' = rows \cup {r} /\ r.began = sess[w].began
              /\ (r.ok <=> LandSuccess(w)) /\ r.raw_response = sess[w].last_raw
              /\ \A q \in rows : q.began # r.began
              /\ status' \in {"extracted", "failed"}
  <1> DEFINE r == RowOf(sess[w], sess[w].pc = "answered")
  <1>1. sess[w].pc \in {"answered", "failing"}
    BY DEF LandSuccess, LandFailure
  <1>2. /\ r \in Row /\ r.began = sess[w].began /\ r.ok = (sess[w].pc = "answered")
        /\ r.raw_response = sess[w].last_raw
    BY <1>1, RowTellsWhatTheSessionDid
  <1>3. rows' = rows \cup {r} /\ (r.ok <=> LandSuccess(w))
        /\ status' \in {"extracted", "failed"}
    <2>1. CASE LandSuccess(w)
      <3>1. sess[w].pc = "answered"
        BY <2>1 DEF LandSuccess
      <3> QED BY <1>2, <2>1, <3>1 DEF LandSuccess, Land
    <2>2. CASE LandFailure(w)
      <3>1. sess[w].pc = "failing" /\ (sess[w].pc = "answered") = FALSE
            /\ ("failed" = "extracted") = FALSE
        BY <2>2 DEF LandFailure
      <3>2. rows' = rows \cup {RowOf(sess[w], FALSE)} /\ status' = "failed"
        BY <2>2, <3>1 DEF LandFailure, Land
      <3> QED BY <1>2, <3>1, <3>2 DEF LandSuccess
    <2> QED BY <2>1, <2>2
  <1>4. \A q \in rows : q.began # r.began
    BY <1>1, <1>2 DEF IInv, OwnLogs, Active, Holding
  <1> QED BY <1>2, <1>3, <1>4

LEMMA RowsStayInOrder ==
    ASSUME ExtractionAssumption, IInv, RowsInOrder, [Next]_vars
    PROVE  RowsInOrder'
  <1>1. CASE rows' = rows /\ status' = status
    BY <1>1 DEF RowsInOrder
  <1>2. ASSUME NEW w \in Workers, LandSuccess(w) \/ LandFailure(w)
        PROVE  RowsInOrder'
    <2>1. PICK r \in Row : rows' = rows \cup {r} /\ status' \in {"extracted", "failed"}
      BY <1>2, LandingAddsARow
    <2> DEFINE good == {q \in rows : q.ok}
               next == {q \in rows' : q.ok}
    <2>2. \A q \in rows' : q.began \in Nat
      BY <2>1 DEF IInv, TypeOK, Row
    <2>3. CASE ~r.ok
      <3>1. next = good
        BY <2>1, <2>3
      <3> QED BY <2>1, <3>1 DEF RowsInOrder
    <2>4. CASE r.ok
      <3>1. next = good \cup {r}
        BY <2>1, <2>4
      <3>2. \E x \in next : \A q \in next : q.began <= x.began
        <4>1. CASE good = {}
          BY <2>1, <2>2, <3>1, <4>1
        <4>2. CASE good # {}
          <5>1. PICK x \in good : \A q \in good : q.began <= x.began
            BY <4>2 DEF RowsInOrder
          <5>2. CASE r.began <= x.began
            BY <3>1, <5>1, <5>2
          <5>3. CASE ~(r.began <= x.began)
            BY <2>1, <2>2, <3>1, <5>1, <5>3
          <5> QED BY <5>2, <5>3
        <4> QED BY <4>1, <4>2
      <3> QED BY <2>1, <3>2 DEF RowsInOrder
    <2> QED BY <2>3, <2>4
  <1>3. \/ rows' = rows /\ status' = status
        \/ \E w \in Workers : LandSuccess(w) \/ LandFailure(w)
    BY DEF Next, vars, WorkerStep, Redeliver, Crash, Begin, Skip, FlushExtracting, NoText,
           NoKey, FailWith, OpenDocument, AnswerFits, AnswerRefused, Call, Chain, Escape,
           database
  <1> QED BY <1>1, <1>2, <1>3

\* The latest of the successful rows.
LEMMA LatestIs ==
    ASSUME NEW R, NEW r \in R, r.ok, \A q \in R : q.began \in Nat,
           \A p, q \in R : p.began = q.began => p = q,
           \A q \in R : q.ok => q.began <= r.began
    PROVE  LET good == {q \in R : q.ok}
           IN  (CHOOSE x \in good : \A q \in good : q.began <= x.began) = r
  <1> DEFINE good == {q \in R : q.ok}
             Last(x) == \A q \in good : q.began <= x.began
  <1>1. r \in good /\ Last(r)
    OBVIOUS
  <1>2. \A x \in good : Last(x) => x = r
    <2> SUFFICES ASSUME NEW x \in good, Last(x) PROVE x.began = r.began
      OBVIOUS
    <2>1. x.began <= r.began /\ r.began <= x.began /\ x.began \in Nat /\ r.began \in Nat
      BY <1>1
    <2> QED BY <2>1
  <1> QED BY <1>1, <1>2

LEMMA FailureIsPipelines ==
    ASSUME ExtractionAssumption, IInv, NEW w \in Workers, LandFailure(w)
    PROVE  Pipeline!FailExtraction(w)
  <1> DEFINE stages == [v \in Workers |-> StageSession(sess[v])]
  <1>1. sess[w] \in Session /\ sess[w].pc = "failing" /\ sess[w].pc \in Holding
        /\ Idle \in Session /\ Idle.pc = "idle"
    BY PhaseKnows, ExtractionAssumption
    DEF LandFailure, Holding, Idle, Session, ProgramCounters, Errors
  <1>2. stages' = [stages EXCEPT ![w] = Pipeline!Idle]
    BY <1>1, OneStage, StageOf DEF IInv, LandFailure, Land
  <1>3. stages[w].pc = "flushed" /\ stages[w].job = "extract_invoice"
        /\ stages[w].inv = Invoice /\ stages[w].base = "received"
    BY <1>1, StageOf DEF Working
  <1>4. Pipeline!Advance(Invoice, "received", <<"extracting", "failed">>, "system")
    BY AdvanceIsPipelines DEF LandFailure, Land
  <1>5. UNCHANGED <<Queue, escapes, faults, redeliveries>>
    BY DEF LandFailure, Land, Queue, broker, counters
  <1>6. UNCHANGED latest_successful_extraction
    <2>1. PICK r \in Row : rows' = rows \cup {r} /\ ~r.ok
      <3>1. ~LandSuccess(w)
        BY <1>1 DEF LandSuccess
      <3> QED BY <3>1, LandingAddsARow
    <2>2. {q \in rows' : q.ok} = {q \in rows : q.ok}
      BY <2>1
    <2> DEFINE last(good) == CHOOSE q \in good : \A p \in good : p.began <= q.began
               of(good) == IF good = {} THEN None ELSE Meaning[last(good).raw_response]
    <2>3. /\ latest_successful_extraction = of({q \in rows : q.ok})
          /\ latest_successful_extraction' = of({q \in rows' : q.ok})
      BY DEF latest_successful_extraction
    <2> HIDE DEF of
    <2> QED BY <2>2, <2>3
  <1>7. Pipeline!Committed(Invoice, "failed") = Pipeline!Idle
    BY DEF Pipeline!Committed, Pipeline!FollowUp, Pipeline!Chain
  <1>8. LET path == <<"extracting", "failed">> IN path[Len(path)] = "failed"
    OBVIOUS
  <1> HIDE DEF stages
  <1>9. Pipeline!Commit(w, <<"extracting", "failed">>, "system")
    BY <1>2, <1>3, <1>4, <1>7, <1>8 DEF Pipeline!Commit, stages
  <1> QED BY <1>3, <1>5, <1>6, <1>9
      DEF Pipeline!FailExtraction, Pipeline!Doing, Pipeline!counters, stages

\* What the later stages read after a success: its answer, or the one of an
\* attempt that began later and has landed before.
LEMMA SuccessIsLatest ==
    ASSUME ExtractionAssumption, IInv, RowsInOrder, IInv', NEW w \in Workers, LandSuccess(w)
    PROVE  /\ sess[w].last_raw \in Valid
           /\ latest_successful_extraction' \in
                 {Meaning[sess[w].last_raw]} \cup ({latest_successful_extraction} \ {None})
  <1>1. PICK r \in Row : /\ rows' = rows \cup {r} /\ r.ok
                         /\ r.raw_response = sess[w].last_raw
    BY LandingAddsARow
  <1>2. sess[w].last_raw \in Valid
    BY PhaseKnows DEF LandSuccess, Active, Holding, SessionTells
  <1> DEFINE good == {q \in rows : q.ok}
             next == {q \in rows' : q.ok}
  <1>3. next = good \cup {r}
    BY <1>1
  <1>4. /\ \A q \in rows' : q.began \in Nat
        /\ \A p, q \in rows' : p.began = q.began => p = q
    BY DEF IInv, TypeOK, Row, OwnLogs
  <1>5. ASSUME NEW x \in rows', x.ok, \A q \in rows' : q.ok => q.began <= x.began
        PROVE  latest_successful_extraction' = Meaning[x.raw_response]
    <2>1. (CHOOSE y \in next : \A q \in next : q.began <= y.began) = x
      BY <1>4, <1>5, LatestIs
    <2>2. next # {}
      BY <1>3
    <2> QED BY <2>1, <2>2 DEF latest_successful_extraction
  <1>6. CASE \A q \in good : q.began <= r.began
    <2>1. \A q \in rows' : q.ok => q.began <= r.began
      BY <1>1, <1>3, <1>4, <1>6
    <2> QED BY <1>1, <1>2, <1>5, <2>1
  <1>7. CASE ~ \A q \in good : q.began <= r.began
    <2>1. PICK x \in good : \A q \in good : q.began <= x.began
      BY <1>7 DEF RowsInOrder
    <2>2. r.began <= x.began
      BY <1>1, <1>4, <1>7, <2>1
    <2>3. latest_successful_extraction' = Meaning[x.raw_response]
      <3>1. \A q \in rows' : q.ok => q.began <= x.began
        BY <1>1, <2>1, <2>2
      <3> QED BY <1>1, <1>5, <2>1, <3>1
    <2>4. latest_successful_extraction = Meaning[x.raw_response]
      <3>1. (CHOOSE y \in good : \A q \in good : q.began <= y.began) = x
        BY <1>1, <1>4, <2>1, LatestIs
      <3> QED BY <1>7, <3>1 DEF latest_successful_extraction
    <2>5. Meaning[x.raw_response] # None
      <3>1. RowTells(x, asked[x.began])
        BY <2>1 DEF IInv, Tells
      <3>2. x.raw_response \in Valid
        BY <2>1, <3>1 DEF RowTells
      <3> QED BY <3>2, ExtractionAssumption DEF Readings
    <2> QED BY <1>2, <2>3, <2>4, <2>5
  <1> QED BY <1>6, <1>7

LEMMA SuccessIsPipelines ==
    ASSUME ExtractionAssumption, IInv, RowsInOrder, IInv', NEW w \in Workers, LandSuccess(w)
    PROVE  \E r \in Readings : Pipeline!CompleteExtraction(w, r)
  <1> DEFINE stages == [v \in Workers |-> StageSession(sess[v])]
             readings == [i \in {Invoice} |-> latest_successful_extraction]
             r == Meaning[sess[w].last_raw]
             t == [Idle EXCEPT !.pc = "sending"]
  <1>1. sess[w] \in Session /\ sess[w].pc = "answered" /\ sess[w].pc \in Holding
    BY PhaseKnows DEF LandSuccess, Holding
  <1>2. t \in Session /\ t.pc = "sending"
    <2>1. Idle \in Session /\ "sending" \in ProgramCounters
      BY ExtractionAssumption DEF Idle, Session, ProgramCounters, Errors
    <2>2. t \in Session
      BY <2>1, SessionSteps
    <2>3. t.pc = "sending"
      BY DEF Idle
    <2> QED BY <2>2, <2>3
  <1>3. sess' = [sess EXCEPT ![w] = t]
    BY DEF LandSuccess, Land
  <1> HIDE DEF t
  <1>4. stages' = [stages EXCEPT ![w] = Pipeline!Sending("match_invoice", Invoice)]
    BY <1>2, <1>3, OneStage, StageOf DEF IInv
  <1>5. stages[w].pc = "flushed" /\ stages[w].job = "extract_invoice"
        /\ stages[w].inv = Invoice /\ stages[w].base = "received"
    BY <1>1, StageOf DEF Working
  <1>6. Pipeline!Advance(Invoice, "received", <<"extracting", "extracted">>, "system")
    BY AdvanceIsPipelines DEF LandSuccess, Land
  <1>7. UNCHANGED <<Queue, escapes, faults, redeliveries>>
    BY DEF LandSuccess, Land, Queue, broker, counters
  <1>8. Pipeline!Committed(Invoice, "extracted") = Pipeline!Sending("match_invoice", Invoice)
    BY DEF Pipeline!Committed, Pipeline!FollowUp, Pipeline!Chain
  <1>9. LET path == <<"extracting", "extracted">> IN path[Len(path)] = "extracted"
    OBVIOUS
  <1>10. /\ r \in Readings
         /\ latest_successful_extraction' \in {r} \cup ({latest_successful_extraction} \ {None})
    BY SuccessIsLatest DEF Readings
  <1>11. \E latest \in Pipeline!Latest(readings[Invoice], r, None) :
            readings' = [readings EXCEPT ![Invoice] = latest]
    BY <1>10 DEF Pipeline!Latest
  <1> HIDE DEF stages, r
  <1>12. Pipeline!Commit(w, <<"extracting", "extracted">>, "system")
    BY <1>4, <1>5, <1>6, <1>8, <1>9 DEF Pipeline!Commit, stages
  <1>13. Pipeline!CompleteExtraction(w, r)
    BY <1>5, <1>7, <1>11, <1>12
    DEF Pipeline!CompleteExtraction, Pipeline!Doing, Pipeline!counters, stages
  <1> QED BY <1>10, <1>13
-----------------------------------------------------------------------------
LEMMA StepsArePipelines ==
    ASSUME ExtractionAssumption, IInv, RowsInOrder, IInv', [Next]_vars
    PROVE  Pipeline!Next \/ UNCHANGED Pipeline!vars
  <1>1. CASE UNCHANGED vars
    BY <1>1 DEF vars, Pipeline!vars, latest_successful_extraction, Queue
  <1>2. CASE Redeliver
    <2>1. "extract_invoice" \in Pipeline!Tasks
      BY DEF Pipeline!Tasks
    <2> QED BY <1>2, <2>1, RedeliverIsPipelines DEF Pipeline!Next, Pipeline!Failure
  <1>3. ASSUME NEW w \in Workers, WorkerStep(w) \/ Crash(w)
        PROVE  Pipeline!Next \/ UNCHANGED Pipeline!vars
    <2> DEFINE step == Pipeline!WorkerStep(w)
    <2>step. step => Pipeline!Next
      BY DEF Pipeline!Next
    <2>1. CASE Begin(w)
      BY <2>1, <2>step, BeginIsPipelines DEF Pipeline!WorkerStep, RowsInOrder, Begin
    <2>2. CASE Skip(w)
      <3>1. "extract_invoice" \in Pipeline!Tasks
        BY DEF Pipeline!Tasks
      <3> QED BY <2>2, <2>step, <3>1, SkipIsPipelines DEF Pipeline!WorkerStep
    <2>3. CASE FlushExtracting(w)
      BY <2>3, <2>step, FlushIsPipelines DEF Pipeline!WorkerStep
    <2>4. CASE NoText(w) \/ NoKey(w)
      BY <2>4, FailIsInvisible DEF NoText, NoKey
    <2>5. CASE OpenDocument(w)
      BY <2>5, OpenIsInvisible
    <2>6. CASE \E answer \in Answers : AnswerFits(w, answer) \/ AnswerRefused(w, answer)
      BY <2>6, AnswerIsInvisible
    <2>7. CASE LandSuccess(w)
      BY <2>7, <2>step, SuccessIsPipelines DEF Pipeline!WorkerStep
    <2>8. CASE LandFailure(w)
      BY <2>8, <2>step, FailureIsPipelines DEF Pipeline!WorkerStep
    <2>9. CASE Chain(w)
      BY <2>9, <2>step, ChainIsPipelines DEF Pipeline!WorkerStep
    <2>10. CASE Escape(w)
      BY <2>10, <2>step, EscapeIsPipelines DEF Pipeline!WorkerStep
    <2>11. CASE Crash(w)
      BY <2>11, CrashIsPipelines DEF Pipeline!Next, Pipeline!Failure, Pipeline!Processes
    <2> QED BY <1>3, <2>1, <2>2, <2>3, <2>4, <2>5, <2>6, <2>7, <2>8, <2>9, <2>10, <2>11
        DEF WorkerStep
  <1> QED BY <1>1, <1>2, <1>3 DEF Next

\* The stage of InvoicePipeline is what run_extraction does, seen from outside:
\* each of its steps, with any number of overlapping deliveries, is a step of
\* InvoicePipeline's extraction or invisible there.
THEOREM ExtractionImplementsTheStage == Spec => AttemptsArePipelineSteps
  <1>1. Init => RowsInOrder
    BY DEF Init, RowsInOrder
  <1>2. IInv /\ RowsInOrder /\ [Next]_vars => RowsInOrder'
    BY RowsStayInOrder, ExtractionAssumption
  <1>3. IInv /\ RowsInOrder /\ IInv' /\ [Next]_vars => [Pipeline!Next]_(Pipeline!vars)
    BY StepsArePipelines, ExtractionAssumption
  <1> QED BY <1>1, <1>2, <1>3, Invariance, PTL DEF Spec, AttemptsArePipelineSteps
=============================================================================
