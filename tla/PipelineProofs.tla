--------------------------- MODULE PipelineProofs ---------------------------
(***************************************************************************)
(* Safety of Pipeline for every number of stages, items and capacities:    *)
(* the inductive invariant IInv, and the properties it implies; and that   *)
(* the pipeline implements Delivery.                                       *)
(***************************************************************************)
EXTENDS Pipeline, FiniteSetTheorems, SequenceTheorems, TLAPS

USE SizeAssumption, KindAssumption, CapacityAssumption, FaultAssumption

LEMMA RangeType ==
  ASSUME NEW S, NEW s \in Seq(S)
  PROVE  Range(s) \subseteq S
BY DEF Range

LEMMA Neighbours ==
  /\ 0 \in Tasks /\ N \in Tasks
  /\ \A i \in Stages : i \in Tasks /\ i - 1 \in Tasks /\ i # 0 /\ i # i - 1
BY DEF Tasks, Stages

LEMMA ItemSequences ==
  /\ \A s \in Seq(Items) : Range(s) \subseteq Items /\ Len(s) \in Nat
  /\ \A s \in Seq(Payloads) : Range(s) \subseteq Payloads
  /\ \A s, t \in Seq(Items) : s \o t \in Seq(Items)
  /\ \A s, t \in Seq(Payloads) : s \o t \in Seq(Payloads)
  /\ \A s \in Seq(Items), x \in Items : Append(s, x) \in Seq(Items)
<1>1. \A s \in Seq(Items) : Range(s) \subseteq Items
  BY RangeType
<1>2. \A s \in Seq(Payloads) : Range(s) \subseteq Payloads
  BY RangeType
<1>3. \A s \in Seq(Items), x \in Items : Append(s, x) \in Seq(Items)
  BY AppendProperties
<1> QED
  BY <1>1, <1>2, <1>3, ConcatProperties, LenProperties

LEMMA HeadTail ==
  ASSUME NEW S, NEW s \in Seq(S), s # <<>>
  PROVE  Head(s) \in S /\ Tail(s) \in Seq(S) /\ <<Head(s)>> \in Seq(S)
BY HeadTailProperties

\* Every step keeps the variables in their types.
LEMMA TypeStep == TypeOK /\ [Next]_vars => TypeOK'
<1> SUFFICES ASSUME TypeOK PROVE [Next]_vars => TypeOK'
  OBVIOUS
<1> USE Neighbours DEF TypeOK, Labels
<1>1. ASSUME SourceNext PROVE TypeOK'
  <2>1. pulled + 1 \in 0..NumItems /\ pulled + 1 \in Items
    BY <1>1 DEF SourceNext, Items
  <2> QED
    BY <1>1, <2>1, SMTT(40) DEF SourceNext, Goto, errs, caller, history
<1>2. ASSUME SourceExhausted \/ SourceShutdown \/ Cancel PROVE TypeOK'
  BY <1>2 DEF SourceExhausted, SourceShutdown, Cancel, Goto, errs, caller, history
<1>3. ASSUME SourceError PROVE TypeOK'
  BY <1>3 DEF SourceError, Goto, errs, caller
<1>4. ASSUME NEW i \in Stages, StageRecv(i) PROVE TypeOK'
  <2>1. buf[i - 1] \in Seq(Items) /\ buf[i - 1] # <<>>
    BY <1>4 DEF StageRecv
  <2>2. /\ Tail(buf[i - 1]) \in Seq(Items) /\ Head(buf[i - 1]) \in Items
        /\ <<Head(buf[i - 1])>> \in Seq(Items)
    BY <2>1, HeadTail
  <2>3. buf' \in [Tasks -> Seq(Items)]
    BY <1>4, <2>2 DEF StageRecv
  <2>4. pc' \in [Tasks -> Labels]
    BY <1>4, ZenonT(60) DEF StageRecv, Goto, Leave
  <2>5. work' \in [Tasks -> Seq(Items)] /\ lost' \subseteq Items
    BY <1>4, <2>2 DEF StageRecv
  <2> QED
    BY <1>4, <2>3, <2>4, <2>5 DEF StageRecv, errs, caller
<1>5. ASSUME NEW i \in Stages, StageDrained(i) PROVE TypeOK'
  BY <1>5 DEF StageDrained, Goto, Leave, errs, caller, history
<1>6. ASSUME NEW i \in Stages, NodeOk(i) PROVE TypeOK'
  <2>1. held[i] \o work[i] \in Seq(Items)
    BY ItemSequences
  <2>2. pc' \in [Tasks -> Labels]
    BY <1>6 DEF NodeOk, Goto
  <2>3. work' \in [Tasks -> Seq(Items)]
    BY <1>6, <2>1 DEF NodeOk
  <2>4. held' \in [Tasks -> Seq(Items)]
    BY <1>6 DEF NodeOk
  <2> QED
    BY <1>6, <2>2, <2>3, <2>4 DEF NodeOk, errs, caller, history
<1>7. ASSUME NEW i \in Stages, NodeHold(i) PROVE TypeOK'
  <2>1. held[i] \o work[i] \in Seq(Items)
    BY ItemSequences
  <2>2. pc' \in [Tasks -> Labels]
    BY <1>7 DEF NodeHold, Goto
  <2>3. work' \in [Tasks -> Seq(Items)]
    BY <1>7 DEF NodeHold
  <2>4. held' \in [Tasks -> Seq(Items)]
    BY <1>7, <2>1 DEF NodeHold
  <2> QED
    BY <1>7, <2>2, <2>3, <2>4 DEF NodeHold, errs, caller, history
<1>8. ASSUME NEW i \in Stages, NodeFilter(i) PROVE TypeOK'
  <2>1. Range(work[i]) \subseteq Items
    BY ItemSequences
  <2>2. pc' \in [Tasks -> Labels] /\ work' \in [Tasks -> Seq(Items)]
    BY <1>8 DEF NodeFilter, Goto
  <2>3. filtered' \subseteq Items
    BY <1>8, <2>1 DEF NodeFilter
  <2> QED
    BY <1>8, <2>2, <2>3 DEF NodeFilter, errs, caller
<1>9. ASSUME NEW i \in Stages, NodeErr(i) PROVE TypeOK'
  BY <1>9, SMTT(40) DEF NodeErr, Goto, errs, caller
<1>10. ASSUME NEW i \in Stages, NodeFlush(i) PROVE TypeOK'
  <2>1. Range(held[i]) \subseteq Items
    BY ItemSequences
  <2>2. pc' \in [Tasks -> Labels] /\ flushed' \in [Tasks -> BOOLEAN]
    BY <1>10 DEF NodeFlush, Goto
  <2>3. work' \in [Tasks -> Seq(Items)]
    BY <1>10 DEF NodeFlush
  <2>5. held' \in [Tasks -> Seq(Items)]
    BY <1>10 DEF NodeFlush
  <2>4. lost' \subseteq Items /\ raised' \in Nat /\ faults' \subseteq Faults
    BY <1>10, <2>1 DEF NodeFlush, Inject
  <2> QED
    BY <1>10, <2>2, <2>3, <2>4, <2>5 DEF NodeFlush, errs, caller
<1>11. ASSUME NEW i \in Tasks, TaskPanic(i) PROVE TypeOK'
  BY <1>11 DEF TaskPanic, Goto, Inject, errs, caller
<1>12. ASSUME NEW i \in Tasks, EmitSend(i) PROVE TypeOK'
  <2>1. Head(work[i]) \in Items /\ Tail(work[i]) \in Seq(Items)
    BY <1>12, HeadTail DEF EmitSend
  <2>2. Append(buf[i], Head(work[i])) \in Seq(Items)
    BY <2>1, ItemSequences
  <2> QED
    BY <1>12, <2>1, <2>2 DEF EmitSend, Goto, Resume, errs, caller, history
<1>13. ASSUME NEW i \in Tasks, EmitClosed(i) PROVE TypeOK'
  <2>1. Range(work[i]) \subseteq Items
    BY ItemSequences
  <2>2. pc' \in [Tasks -> Labels] /\ work' \in [Tasks -> Seq(Items)]
    BY <1>13, SMTT(40) DEF EmitClosed, Goto, Leave
  <2>3. lost' \subseteq Items
    BY <1>13, <2>1 DEF EmitClosed
  <2> QED
    BY <1>13, <2>2, <2>3 DEF EmitClosed, errs, caller
<1>14. ASSUME NEW i \in Tasks, FailSend(i) PROVE TypeOK'
  <2>1. work[i] # <<>> => Head(work[i]) \in Items
    BY HeadTail
  <2>2. PayloadOf(i) \in Payloads
    BY <2>1 DEF PayloadOf, Payload, Payloads
  <2>3. Append(errbuf, PayloadOf(i)) \in Seq(Payloads)
    BY <2>2, AppendProperties
  <2>4. pc' \in [Tasks -> Labels] /\ work' \in [Tasks -> Seq(Items)]
    BY <1>14, SMTT(40) DEF FailSend, Goto, Resume
  <2>5. errbuf' \in Seq(Payloads)
    BY <1>14, <2>3 DEF FailSend
  <2> QED
    BY <1>14, <2>4, <2>5 DEF FailSend, caller, history
<1>15. ASSUME NEW i \in Tasks, FailClosed(i) PROVE TypeOK'
  <2>1. Range(work[i]) \subseteq Items
    BY ItemSequences
  <2>2. pc' \in [Tasks -> Labels] /\ work' \in [Tasks -> Seq(Items)]
    BY <1>15, SMTT(40) DEF FailClosed, Goto, Leave
  <2>3. lost' \subseteq Items
    BY <1>15, <2>1 DEF FailClosed
  <2> QED
    BY <1>15, <2>2, <2>3 DEF FailClosed, errs, caller
<1>16. ASSUME NEW i \in Tasks, TaskExit(i) PROVE TypeOK'
  <2>1. Range(work[i]) \subseteq Items /\ Range(held[i]) \subseteq Items
    BY ItemSequences
  <2>2. i # 0 => Range(buf[i - 1]) \subseteq Items
    <3>1. i # 0 => i - 1 \in Tasks
      BY DEF Tasks
    <3> QED
      BY <3>1, ItemSequences
  <2>3. pc' \in [Tasks -> Labels] /\ work' \in [Tasks -> Seq(Items)]
    BY <1>16, SMTT(40) DEF TaskExit, Goto
  <2>4. held' \in [Tasks -> Seq(Items)] /\ buf' \in [Tasks -> Seq(Items)]
    BY <1>16, SMTT(40) DEF TaskExit
  <2>5. lost' \subseteq Items
    BY <1>16, <2>1, <2>2 DEF TaskExit
  <2> QED
    BY <1>16, <2>3, <2>4, <2>5 DEF TaskExit, errs, caller
<1>17. ASSUME DlqStep PROVE TypeOK'
  <2>1. \A P \in SUBSET Payloads : ItemsOf(P) \subseteq Items
    <3>1. \A p \in Payloads : p.item \in Items \cup {NoItem}
      BY DEF Payloads
    <3> QED
      BY <3>1 DEF ItemsOf
  <2>2. Range(errbuf) \subseteq Payloads /\ Range(dlqCur) \subseteq Payloads
    BY ItemSequences
  <2>a. /\ ItemsOf(Range(errbuf) \cup Range(dlqCur)) \subseteq Items
        /\ ItemsOf(Range(dlqCur)) \subseteq Items
    BY <2>1, <2>2
  <2>3. CASE DlqRecv
    <3>1. /\ Head(errbuf) \in Payloads /\ Tail(errbuf) \in Seq(Payloads)
          /\ <<Head(errbuf)>> \in Seq(Payloads)
      BY <2>3, HeadTail DEF DlqRecv
    <3> QED
      BY <2>3, <3>1, SMTT(40) DEF DlqRecv, data, caller, history
  <2>4. CASE DlqDrained
    BY <2>4 DEF DlqDrained, data, caller, history
  <2>5. CASE DlqWriteOk
    <3>1. written \o dlqCur \in Seq(Payloads)
      BY ItemSequences
    <3> QED
      BY <2>5, <3>1, SMTT(40) DEF DlqWriteOk, data, caller
  <2>6. CASE DlqWriteErr
    <3>1. lost' \subseteq Items /\ faults' \subseteq Faults
      BY <2>6, <2>a DEF DlqWriteErr, Inject
    <3> QED
      BY <2>6, <3>1, SMTT(40) DEF DlqWriteErr, data, caller
  <2>7. CASE DlqFlush \/ DlqPanic
    <3>1. lost' \subseteq Items /\ faults' \subseteq Faults
      BY <2>7, <2>a DEF DlqFlush, DlqPanic, DlqEnd, Inject
    <3>2. /\ errbuf' = <<>> /\ dlqCur' = <<>> /\ dlq' \in {"done", "panicked"}
          /\ UNCHANGED <<data, errCount, caller, raised, written, filtered>>
      BY <2>7 DEF DlqFlush, DlqPanic, DlqEnd
    <3> QED
      BY <3>1, <3>2 DEF data, caller
  <2> QED
    BY <1>17, <2>3, <2>4, <2>5, <2>6, <2>7 DEF DlqStep
<1>18. ASSUME CallerStep \/ Abandon PROVE TypeOK'
  <2>1. CASE Deliver
    <3>1. Head(buf[N]) \in Items /\ Tail(buf[N]) \in Seq(Items)
      BY <2>1, HeadTail DEF Deliver
    <3>2. Append(delivered, Head(buf[N])) \in Seq(Items)
      BY <3>1, ItemSequences
    <3> QED
      BY <2>1, <3>1, <3>2 DEF Deliver, errs, history
  <2>2. CASE Drained
    BY <2>2 DEF Drained, data, errs, history
  <2>3. Len(delivered) \in Nat
    BY ItemSequences
  <2>4. CASE Joined \/ JoinPanicked \/ GraceExpired
    <3>1. summary' \in [ok : Nat, err : Nat] /\ faults' \subseteq Faults
      BY <2>3, <2>4, SMTT(40) DEF Joined, JoinPanicked, GraceExpired, Return, Inject
    <3> QED
      BY <2>4, <3>1 DEF Joined, JoinPanicked, GraceExpired, Return, data, errs
  <2>5. CASE Abandon
    <3>1. Range(buf[N]) \subseteq Items
      BY ItemSequences
    <3>2. lost' \subseteq Items /\ faults' \subseteq Faults
      BY <2>5, <3>1 DEF Abandon, Inject
    <3>3. buf' \in [Tasks -> Seq(Items)]
      BY <2>5 DEF Abandon
    <3> QED
      BY <2>5, <3>2, <3>3 DEF Abandon, errs
  <2> QED
    BY <1>18, <2>1, <2>2, <2>4, <2>5 DEF CallerStep
<1>19. ASSUME UNCHANGED vars PROVE TypeOK'
  BY <1>19 DEF vars, data, errs, caller, history
<1> QED
  BY <1>1, <1>2, <1>3, <1>4, <1>5, <1>6, <1>7, <1>8, <1>9, <1>10, <1>11, <1>12,
     <1>13, <1>14, <1>15, <1>16, <1>17, <1>18, <1>19
     DEF Next, SourceStep, StageStep, SendStep, Finished

-----------------------------------------------------------------------------
\* What no step undoes: faults, ended tasks, the emptiness of the channel behind
\* an ended task, the caller's leaving its loop, the end of the DLQ worker.
Monotone ==
  /\ faults \subseteq faults'
  /\ \A i \in Tasks : Ended(i) => Ended(i)'
  /\ \A i \in Tasks : Ended(i) /\ buf[i] = <<>> => buf'[i] = <<>>
  /\ term # "recv" => term' # "recv"
  /\ DlqClosed => dlq' = dlq /\ errCount' = errCount

LEMMA MonotoneStep == TypeOK /\ [Next]_vars => Monotone
<1> SUFFICES ASSUME TypeOK PROVE [Next]_vars => Monotone
  OBVIOUS
<1> USE Neighbours DEF TypeOK, Monotone, Ended, DlqClosed
<1>1. ASSUME SourceStep \/ Cancel PROVE Monotone
  BY <1>1 DEF SourceStep, SourceNext, SourceExhausted, SourceError, SourceShutdown,
     Cancel, Goto, errs, caller, history
<1>2. ASSUME NEW i \in Stages, StageRecv(i) \/ StageDrained(i) PROVE Monotone
  <2>1. buf[i - 1] = <<>> => buf'[i - 1] = <<>>
    BY <1>2 DEF StageRecv, StageDrained
  <2> QED
    BY <1>2, <2>1 DEF StageRecv, StageDrained, Goto, errs, caller, history
<1>3. ASSUME NEW i \in Stages, NodeOk(i) \/ NodeHold(i) \/ NodeFilter(i) \/ NodeErr(i)
      PROVE  Monotone
  BY <1>3 DEF NodeOk, NodeHold, NodeFilter, NodeErr, Goto, errs, caller, history
<1>4. ASSUME NEW i \in Stages, NodeFlush(i) PROVE Monotone
  BY <1>4 DEF NodeFlush, Inject, Goto, errs, caller, history
<1>5. ASSUME NEW i \in Tasks, TaskPanic(i) PROVE Monotone
  BY <1>5 DEF TaskPanic, Inject, Goto, errs, caller, history
<1>6. ASSUME NEW i \in Tasks, EmitSend(i) \/ EmitClosed(i) PROVE Monotone
  BY <1>6 DEF EmitSend, EmitClosed, Goto, errs, caller, history
<1>7. ASSUME NEW i \in Tasks, FailSend(i) \/ FailClosed(i) PROVE Monotone
  BY <1>7 DEF FailSend, FailClosed, Goto, errs, caller, history
<1>8. ASSUME NEW i \in Tasks, TaskExit(i) PROVE Monotone
  BY <1>8 DEF TaskExit, Goto, errs, caller, history
<1>9. ASSUME DlqStep PROVE Monotone
  BY <1>9 DEF DlqStep, DlqRecv, DlqDrained, DlqWriteOk, DlqWriteErr, DlqFlush,
     DlqPanic, DlqEnd, Inject, data, caller, history
<1>10. ASSUME CallerStep \/ Abandon PROVE Monotone
  <2>1. buf[N] = <<>> => buf'[N] = <<>>
    BY <1>10 DEF CallerStep, Deliver, Drained, Joined, JoinPanicked, GraceExpired, Return,
       Abandon, data
  <2> QED
    BY <1>10, <2>1 DEF CallerStep, Deliver, Drained, Joined, JoinPanicked, GraceExpired,
       Return, Abandon, Inject, data, errs, history
<1>11. ASSUME UNCHANGED vars PROVE Monotone
  BY <1>11 DEF vars, data, errs, caller, history
<1> QED
  BY <1>1, <1>2, <1>3, <1>4, <1>5, <1>6, <1>7, <1>8, <1>9, <1>10, <1>11
     DEF Next, StageStep, SendStep, Finished

-----------------------------------------------------------------------------
LEMMA CallerInvStep == TypeOK /\ CallerInv /\ [Next]_vars => CallerInv'
<1> SUFFICES ASSUME TypeOK, CallerInv, Monotone PROVE [Next]_vars => CallerInv'
  BY MonotoneStep
<1> USE Neighbours DEF TypeOK, Monotone, CallerInv, Ended, DlqClosed
<1>1. ASSUME UNCHANGED caller PROVE CallerInv'
  BY <1>1 DEF caller
<1>2. ASSUME CallerStep PROVE CallerInv'
  <2>1. CASE Deliver
    BY <2>1 DEF Deliver, errs, history
  <2>2. CASE Drained
    BY <2>2 DEF Drained, data, errs, history
  <2>3. CASE Joined \/ JoinPanicked \/ GraceExpired
    BY <2>3, SMTT(40) DEF Joined, JoinPanicked, GraceExpired, Return, Inject, data, errs
  <2> QED
    BY <1>2, <2>1, <2>2, <2>3 DEF CallerStep
<1>3. ASSUME Abandon PROVE CallerInv'
  BY <1>3 DEF Abandon, Inject
<1>4. [Next]_vars => UNCHANGED caller \/ CallerStep \/ Abandon
  BY DEF Next, SourceStep, SourceNext, SourceExhausted, SourceError, SourceShutdown, Cancel,
     StageStep, StageRecv, StageDrained, NodeOk, NodeHold, NodeFilter, NodeErr, NodeFlush,
     SendStep, EmitSend, EmitClosed, FailSend, FailClosed, TaskExit, TaskPanic,
     DlqStep, DlqRecv, DlqDrained, DlqWriteOk, DlqWriteErr, DlqFlush, DlqPanic, DlqEnd,
     Finished, vars
<1> QED
  BY <1>1, <1>2, <1>3, <1>4

LEMMA DlqInvStep == TypeOK /\ DlqInv /\ [Next]_vars => DlqInv'
<1> SUFFICES ASSUME TypeOK, DlqInv, Monotone PROVE [Next]_vars => DlqInv'
  BY MonotoneStep
<1>2. DlqSound' => DlqSound
  BY DEF DlqSound, Monotone
<1>3. SendersGone => SendersGone'
  BY DEF SendersGone, Monotone, Ended
<1> USE DEF TypeOK, DlqInv
<1>4. ASSUME UNCHANGED errs PROVE DlqInv'
  BY <1>2, <1>3, <1>4 DEF errs, Monotone
<1>5. ASSUME NEW i \in Tasks, FailSend(i) PROVE DlqInv'
  <2>1. ~SendersGone
    BY <1>5 DEF FailSend, SendersGone, Ended
  <2> QED
    BY <1>2, <1>5, <2>1 DEF FailSend, Monotone
<1>6. ASSUME DlqStep PROVE DlqInv'
  <2>1. CASE DlqRecv
    <3>1. Len(dlqCur') = 1 /\ dlqCur' # <<>> /\ dlq' = "write"
      BY <2>1 DEF DlqRecv
    <3> QED
      BY <3>1
  <2>2. CASE DlqDrained
    BY <2>2, <1>3 DEF DlqDrained
  <2>3. CASE DlqWriteOk
    BY <2>3 DEF DlqWriteOk
  <2>4. CASE DlqWriteErr
    <3>1. ~DlqSound' /\ dlqCur' = <<>> /\ dlq' = "flush"
      BY <2>4 DEF DlqWriteErr, Inject, DlqSound
    <3> QED
      BY <3>1
  <2>5. CASE DlqFlush
    BY <2>5, <1>2, <1>3 DEF DlqFlush, DlqEnd
  <2>6. CASE DlqPanic
    BY <2>6 DEF DlqPanic, DlqEnd, Inject
  <2> QED
    BY <1>6, <2>1, <2>2, <2>3, <2>4, <2>5, <2>6 DEF DlqStep
<1>7. [Next]_vars => UNCHANGED errs \/ DlqStep \/ \E i \in Tasks : FailSend(i)
  BY Neighbours
     DEF Next, SourceStep, SourceNext, SourceExhausted, SourceError, SourceShutdown, Cancel,
     StageStep, StageRecv, StageDrained, NodeOk, NodeHold, NodeFilter, NodeErr, NodeFlush,
     SendStep, EmitSend, EmitClosed, FailClosed, TaskExit, TaskPanic,
     CallerStep, Deliver, Drained, Joined, JoinPanicked, GraceExpired, Return, Abandon,
     Finished, vars
<1> QED
  BY <1>4, <1>5, <1>6, <1>7

-----------------------------------------------------------------------------
\* In a healthy run no send, and no look at a channel, meets a dropped receiver.
LEMMA ClosedLate ==
  ASSUME TypeOK, CallerInv, DlqInv, StageInv, Healthy
  PROVE  /\ \A i \in Tasks : Closed(i) => Ended(i)
         /\ DlqClosed => SendersGone
<1>1. ASSUME NEW i \in Tasks, Closed(i) PROVE Ended(i)
  <2>1. CASE i = N
    BY <1>1, <2>1 DEF Closed, CallerInv, Healthy, Destructive
  <2>2. CASE i # N
    <3>1. i + 1 \in Stages /\ Ended(i + 1)
      BY <1>1, <2>2 DEF Closed, Tasks, Stages
    <3>2. Ended((i + 1) - 1)
      BY <3>1 DEF StageInv, Past, Ended
    <3> QED
      BY <3>2 DEF Tasks
  <2> QED
    BY <2>1, <2>2
<1>2. DlqClosed => SendersGone
  BY DEF DlqClosed, DlqInv, Healthy, Destructive, DlqSound
<1> QED
  BY <1>1, <1>2

\* How a stage comes to leave its loop in a healthy run: behind its upstream.
LEMMA StageInvStep ==
  TypeOK /\ CallerInv /\ DlqInv /\ StageInv /\ [Next]_vars => StageInv'
<1> SUFFICES ASSUME TypeOK, CallerInv, DlqInv, StageInv, [Next]_vars, Healthy',
                    NEW j \in Stages, Past(j)'
             PROVE  Ended(j - 1)' /\ buf'[j - 1] = <<>>
  BY DEF StageInv
<1>m. Monotone
  BY MonotoneStep
<1>h. Healthy
  BY <1>m DEF Healthy, Monotone
<1>p. Past(j) => Ended(j - 1) /\ buf[j - 1] = <<>>
  BY <1>h DEF StageInv
<1> SUFFICES ASSUME ~Past(j) PROVE Ended(j - 1) /\ buf[j - 1] = <<>>
  BY <1>m, <1>p, Neighbours DEF Monotone
<1>1. Closed(j) => Ended(j)
  BY <1>h, ClosedLate, Neighbours
<1>2. DlqClosed => Ended(j)
  BY <1>h, ClosedLate, Neighbours DEF SendersGone
<1> USE Neighbours DEF TypeOK, Past, Ended
<1>3. ASSUME UNCHANGED <<pc, flushed>> PROVE Past(j)
  BY <1>3
<1>4. ASSUME SourceStep PROVE Past(j)
  BY <1>4 DEF SourceStep, SourceNext, SourceExhausted, SourceError, SourceShutdown, Goto
<1>5. ASSUME NEW i \in Stages, StageRecv(i) PROVE Past(j)
  BY <1>5, <1>1 DEF StageRecv, Goto
<1>6. ASSUME NEW i \in Stages, StageDrained(i)
      PROVE  Past(j) \/ (Ended(j - 1) /\ buf[j - 1] = <<>>)
  BY <1>6 DEF StageDrained, Goto
<1>7. ASSUME NEW i \in Stages, NodeOk(i) \/ NodeHold(i) \/ NodeFilter(i) \/ NodeErr(i)
      PROVE  Past(j)
  BY <1>7 DEF NodeOk, NodeHold, NodeFilter, NodeErr, Goto
<1>8. ASSUME NEW i \in Stages, NodeFlush(i) PROVE Past(j)
  BY <1>8 DEF NodeFlush, Goto
<1>9. ASSUME NEW i \in Tasks, TaskPanic(i) PROVE FALSE
  BY <1>9 DEF TaskPanic, Inject, Healthy, Destructive
<1>10. ASSUME NEW i \in Tasks, EmitSend(i) PROVE Past(j)
  BY <1>10 DEF EmitSend, Goto, Resume
<1>11. ASSUME NEW i \in Tasks, EmitClosed(i) PROVE Past(j)
  BY <1>11, <1>1 DEF EmitClosed, Goto
<1>12. ASSUME NEW i \in Tasks, FailSend(i) PROVE Past(j)
  BY <1>12 DEF FailSend, Goto, Resume
<1>13. ASSUME NEW i \in Tasks, FailClosed(i) PROVE Past(j)
  BY <1>13, <1>2 DEF FailClosed, Goto
<1>14. ASSUME NEW i \in Tasks, TaskExit(i) PROVE Past(j)
  BY <1>14 DEF TaskExit, Goto
<1> QED
  BY <1>3, <1>4, <1>5, <1>6, <1>7, <1>8, <1>9, <1>10, <1>11, <1>12, <1>13, <1>14
     DEF Next, StageStep, SendStep, Finished, Cancel,
     DlqStep, DlqRecv, DlqDrained, DlqWriteOk, DlqWriteErr, DlqFlush, DlqPanic, DlqEnd,
     CallerStep, Deliver, Drained, Joined, JoinPanicked, GraceExpired, Return, Abandon,
     data, vars

-----------------------------------------------------------------------------
\* A task that leaves its loop has sent, or never had, everything it carried.
LEMMA WorkInvStep ==
  TypeOK /\ CallerInv /\ DlqInv /\ StageInv /\ WorkInv /\ [Next]_vars => WorkInv'
<1> SUFFICES ASSUME TypeOK, CallerInv, DlqInv, StageInv, WorkInv, Monotone
             PROVE  [Next]_vars => WorkInv'
  BY MonotoneStep
<1>h. Healthy' => Healthy
  BY DEF Healthy, Monotone
<1>c. Healthy => \A i \in Tasks : Closed(i) => Ended(i)
  BY ClosedLate
<1>d. Healthy /\ DlqClosed => \A i \in Tasks : Ended(i)
  BY ClosedLate DEF SendersGone
<1> USE Neighbours DEF TypeOK, WorkInv, Ended
<1>1. ASSUME UNCHANGED <<pc, work, held, flushed>> PROVE WorkInv'
  BY <1>h, <1>1
<1>2. ASSUME SourceStep PROVE WorkInv'
  BY <1>h, <1>2 DEF SourceStep, SourceNext, SourceExhausted, SourceError, SourceShutdown,
     Goto, history
<1>3. ASSUME NEW i \in Stages, StageRecv(i) PROVE WorkInv'
  BY <1>h, <1>3, ZenonT(60) DEF StageRecv, Goto, Leave
<1>4. ASSUME NEW i \in Stages, StageDrained(i) PROVE WorkInv'
  BY <1>h, <1>4 DEF StageDrained, Goto, Leave
<1>5. ASSUME NEW i \in Stages, NodeOk(i) PROVE WorkInv'
  BY <1>h, <1>5 DEF NodeOk, Goto
<1>6. ASSUME NEW i \in Stages, NodeHold(i) PROVE WorkInv'
  BY <1>h, <1>6 DEF NodeHold, Goto
<1>7. ASSUME NEW i \in Stages, NodeFilter(i) PROVE WorkInv'
  BY <1>h, <1>7 DEF NodeFilter, Goto
<1>8. ASSUME NEW i \in Stages, NodeErr(i) PROVE WorkInv'
  BY <1>h, <1>8 DEF NodeErr, Goto
<1>9. ASSUME NEW i \in Stages, NodeFlush(i) PROVE WorkInv'
  BY <1>h, <1>9 DEF NodeFlush, Goto
<1>10. ASSUME NEW i \in Tasks, TaskPanic(i) PROVE WorkInv'
  <2>1. ~Healthy'
    BY <1>10 DEF TaskPanic, Inject, Healthy, Destructive
  <2> QED
    BY <1>10, <2>1 DEF TaskPanic, Goto
<1>11. ASSUME NEW i \in Tasks, EmitSend(i) PROVE WorkInv'
  BY <1>h, <1>11 DEF EmitSend, Goto, Resume
<1>12. ASSUME NEW i \in Tasks, EmitClosed(i) PROVE WorkInv'
  BY <1>h, <1>c, <1>12 DEF EmitClosed, Goto, Leave
<1>13. ASSUME NEW i \in Tasks, FailSend(i) PROVE WorkInv'
  BY <1>h, <1>13 DEF FailSend, Goto, Resume
<1>14. ASSUME NEW i \in Tasks, FailClosed(i) PROVE WorkInv'
  BY <1>h, <1>d, <1>14 DEF FailClosed, Goto, Leave
<1>15. ASSUME NEW i \in Tasks, TaskExit(i) PROVE WorkInv'
  BY <1>h, <1>15 DEF TaskExit, Goto
<1> QED
  BY <1>1, <1>2, <1>3, <1>4, <1>5, <1>6, <1>7, <1>8, <1>9, <1>10, <1>11, <1>12, <1>13,
     <1>14, <1>15
     DEF Next, StageStep, SendStep, Finished, Cancel,
     DlqStep, DlqRecv, DlqDrained, DlqWriteOk, DlqWriteErr, DlqFlush, DlqPanic, DlqEnd,
     CallerStep, Deliver, Drained, Joined, JoinPanicked, GraceExpired, Return, Abandon,
     data, vars

-----------------------------------------------------------------------------
\* Nothing is dropped in a step of a healthy run: what would be dropped is empty.
LEMMA LossStep == IInv /\ [Next]_vars => NoSilentLoss'
<1> SUFFICES ASSUME IInv, Healthy', Monotone PROVE [Next]_vars => lost' = {}
  BY MonotoneStep DEF NoSilentLoss, Healthy, IInv
<1>h. Healthy /\ lost = {}
  BY DEF Healthy, Monotone, IInv, NoSilentLoss
<1>c. \A i \in Tasks : Closed(i) => Ended(i)
  BY <1>h, ClosedLate DEF IInv
<1>d. DlqClosed => \A i \in Tasks : Ended(i)
  BY <1>h, ClosedLate DEF SendersGone, IInv
<1>e. Range(<<>>) = {}
  BY DEF Range
<1> USE Neighbours DEF IInv, TypeOK
<1>1. ASSUME UNCHANGED lost PROVE lost' = {}
  BY <1>h, <1>1
<1>2. ASSUME NEW i \in Stages, StageRecv(i) PROVE lost' = {}
  BY <1>h, <1>c, <1>2 DEF StageRecv, Ended
<1>3. ASSUME NEW i \in Stages, NodeFlush(i) PROVE lost' = {}
  BY <1>h, <1>3 DEF NodeFlush, Inject, Healthy, Destructive
<1>4. ASSUME NEW i \in Tasks, EmitClosed(i) PROVE FALSE
  BY <1>c, <1>4 DEF EmitClosed, Ended
<1>5. ASSUME NEW i \in Tasks, FailClosed(i) PROVE FALSE
  BY <1>d, <1>5 DEF FailClosed, Ended
<1>6. ASSUME NEW i \in Tasks, TaskExit(i) PROVE lost' = {}
  <2>1. work[i] = <<>> /\ held[i] = <<>>
    BY <1>h, <1>6 DEF TaskExit, WorkInv
  <2>2. i # 0 => buf[i - 1] = <<>>
    BY <1>h, <1>6 DEF TaskExit, StageInv, Past, Tasks, Stages
  <2> QED
    BY <1>h, <1>e, <1>6, <2>1, <2>2 DEF TaskExit
<1>7. ASSUME DlqStep PROVE lost' = {}
  <2>1. CASE DlqRecv \/ DlqDrained \/ DlqWriteOk
    BY <1>h, <2>1 DEF DlqRecv, DlqDrained, DlqWriteOk, history
  <2>2. CASE DlqWriteErr \/ DlqPanic
    BY <2>2 DEF DlqWriteErr, DlqPanic, Inject, Healthy, Destructive
  <2>3. CASE DlqFlush
    <3>1. errbuf = <<>> /\ dlqCur = <<>>
      BY <1>h, <2>3 DEF DlqFlush, DlqInv, Healthy, Destructive, DlqSound
    <3> QED
      BY <1>h, <1>e, <2>3, <3>1 DEF DlqFlush, DlqEnd, ItemsOf
  <2> QED
    BY <1>7, <2>1, <2>2, <2>3 DEF DlqStep
<1>8. ASSUME Abandon PROVE FALSE
  BY <1>8 DEF Abandon, Inject, Healthy, Destructive
<1> QED
  BY <1>1, <1>2, <1>3, <1>4, <1>5, <1>6, <1>7, <1>8
     DEF Next, SourceStep, SourceNext, SourceExhausted, SourceError, SourceShutdown, Cancel,
     StageStep, StageDrained, NodeOk, NodeHold, NodeFilter, NodeErr, SendStep, EmitSend,
     FailSend, TaskPanic, CallerStep, Deliver, Drained, Joined, JoinPanicked, GraceExpired,
     Return, Finished, history, vars

-----------------------------------------------------------------------------
LEMMA FailingFinite == IsFiniteSet(Failing) /\ Cardinality(Failing) \in Nat
<1>1. IsFiniteSet(Tasks)
  BY FS_Interval DEF Tasks
<1>2. IsFiniteSet(Failing)
  BY <1>1, FS_Subset DEF Failing
<1> QED
  BY <1>2, FS_CardinalityType

\* A task that starts, or stops, sending a payload changes their number by one.
LEMMA FailingGoto ==
  ASSUME TypeOK, NEW i \in Tasks, NEW l, Goto(i, l)
  PROVE  /\ pc[i] # "fail" /\ l = "fail" => Cardinality(Failing') = Cardinality(Failing) + 1
         /\ pc[i] = "fail" /\ l # "fail" => Cardinality(Failing') = Cardinality(Failing) - 1
         /\ pc[i] # "fail" /\ l # "fail" => Failing' = Failing
<1>1. CASE pc[i] # "fail" /\ l = "fail"
  <2>1. Failing' = Failing \cup {i} /\ i \notin Failing
    BY <1>1 DEF TypeOK, Goto, Failing
  <2> QED
    BY <1>1, <2>1, FailingFinite, FS_AddElement
<1>2. CASE pc[i] = "fail" /\ l # "fail"
  <2>1. Failing' = Failing \ {i} /\ i \in Failing
    BY <1>2 DEF TypeOK, Goto, Failing
  <2> QED
    BY <1>2, <2>1, FailingFinite, FS_RemoveElement
<1>3. CASE pc[i] # "fail" /\ l # "fail"
  <2>1. Failing' = Failing
    BY <1>3 DEF TypeOK, Goto, Failing
  <2> QED
    BY <1>3, <2>1
<1>4. CASE pc[i] = "fail" /\ l = "fail"
  BY <1>4
<1> QED
  BY <1>1, <1>2, <1>3, <1>4

\* The accounting of payloads from the task that raises them to the worker.
LEMMA CountInvStep == IInv /\ [Next]_vars => CountInv'
<1> SUFFICES ASSUME IInv, DlqSound', Monotone, [Next]_vars
             PROVE  /\ raised' = Cardinality(Failing') + Len(errbuf') + errCount'
                    /\ errCount' = Len(written') + Len(dlqCur')
  BY MonotoneStep DEF CountInv, IInv
<1> DEFINE Count == /\ raised' = Cardinality(Failing') + Len(errbuf') + errCount'
                    /\ errCount' = Len(written') + Len(dlqCur')
<1>h. /\ DlqSound /\ TypeOK
      /\ raised = Cardinality(Failing) + Len(errbuf) + errCount
      /\ errCount = Len(written) + Len(dlqCur)
  BY DEF IInv, CountInv, DlqSound, Monotone
<1>t. /\ errbuf \in Seq(Payloads) /\ Len(errbuf) \in Nat /\ errCount \in Nat
      /\ written \in Seq(Payloads) /\ dlqCur \in Seq(Payloads) /\ raised \in Nat
      /\ Cardinality(Failing) \in Nat
  BY <1>h, FailingFinite DEF TypeOK
<1>g. ASSUME NEW i \in Tasks, NEW l, Goto(i, l)
      PROVE  /\ pc[i] # "fail" /\ l = "fail" => Cardinality(Failing') = Cardinality(Failing) + 1
             /\ pc[i] = "fail" /\ l # "fail" => Cardinality(Failing') = Cardinality(Failing) - 1
             /\ pc[i] # "fail" /\ l # "fail" => Failing' = Failing
  BY <1>g, <1>h, FailingGoto
<1>1. ASSUME UNCHANGED <<pc, errs, raised, written>> PROVE Count
  BY <1>h, <1>1 DEF errs, Failing
<1>2. ASSUME SourceNext \/ SourceExhausted \/ SourceShutdown PROVE Count
  <2>1. \E l : Goto(0, l) /\ l # "fail" /\ pc[0] # "fail"
    BY <1>2 DEF SourceNext, SourceExhausted, SourceShutdown
  <2>2. Failing' = Failing
    BY <2>1, <1>g, Neighbours
  <2> QED
    BY <1>2, <1>h, <2>2 DEF SourceNext, SourceExhausted, SourceShutdown, errs, history
<1>3. ASSUME SourceError PROVE Count
  <2>1. Cardinality(Failing') = Cardinality(Failing) + 1
    BY <1>3, <1>g, Neighbours DEF SourceError
  <2> QED
    BY <1>3, <1>h, <1>t, <2>1 DEF SourceError, errs
<1>4. ASSUME NEW i \in Stages, NodeErr(i) PROVE Count
  <2>1. Cardinality(Failing') = Cardinality(Failing) + 1
    BY <1>4, <1>g, Neighbours DEF NodeErr
  <2> QED
    BY <1>4, <1>h, <1>t, <2>1 DEF NodeErr, errs
<1>5. ASSUME NEW i \in Stages, NodeFlush(i) PROVE Count
  <2>1. CASE raised' = raised
    <3>1. \E l : Goto(i, l) /\ l # "fail" /\ pc[i] # "fail"
      BY <1>5, <1>t, <2>1 DEF NodeFlush
    <3>2. Failing' = Failing
      BY <3>1, <1>g, Neighbours
    <3> QED
      BY <1>5, <1>h, <2>1, <3>2 DEF NodeFlush, errs
  <2>2. CASE raised' # raised
    <3>1. Goto(i, "fail") /\ pc[i] # "fail" /\ raised' = raised + 1
      BY <1>5, <2>2 DEF NodeFlush
    <3>2. Cardinality(Failing') = Cardinality(Failing) + 1
      BY <3>1, <1>g, Neighbours
    <3> QED
      BY <1>5, <1>h, <1>t, <3>1, <3>2 DEF NodeFlush, errs
  <2> QED
    BY <2>1, <2>2
<1>6. ASSUME NEW i \in Stages, StageRecv(i) \/ StageDrained(i) \/ NodeOk(i) \/ NodeHold(i)
                               \/ NodeFilter(i)
      PROVE  Count
  <2>1. \E l : Goto(i, l) /\ l # "fail" /\ pc[i] # "fail"
    BY <1>6 DEF StageRecv, StageDrained, NodeOk, NodeHold, NodeFilter, Leave
  <2>2. Failing' = Failing
    BY <2>1, <1>g, Neighbours
  <2> QED
    BY <1>6, <1>h, <2>2 DEF StageRecv, StageDrained, NodeOk, NodeHold, NodeFilter, errs,
       history
<1>7. ASSUME NEW i \in Tasks, TaskPanic(i) \/ EmitSend(i) \/ EmitClosed(i) \/ TaskExit(i)
      PROVE  Count
  <2>1. \E l : Goto(i, l) /\ l # "fail" /\ pc[i] # "fail"
    BY <1>7 DEF TaskPanic, EmitSend, EmitClosed, TaskExit, Leave, Resume
  <2>2. Failing' = Failing
    BY <2>1, <1>g
  <2> QED
    BY <1>7, <1>h, <2>2 DEF TaskPanic, EmitSend, EmitClosed, TaskExit, errs, history
<1>8. ASSUME NEW i \in Tasks, FailSend(i) PROVE Count
  <2>1. \E l : Goto(i, l) /\ l # "fail" /\ pc[i] = "fail"
    BY <1>8 DEF FailSend, Resume
  <2>2. Cardinality(Failing') = Cardinality(Failing) - 1
    BY <2>1, <1>g
  <2>3. Len(errbuf') = Len(errbuf) + 1
    BY <1>8, <1>t, AppendProperties DEF FailSend
  <2> QED
    BY <1>8, <1>h, <1>t, <2>2, <2>3 DEF FailSend, history
<1>9. ASSUME NEW i \in Tasks, FailClosed(i) PROVE FALSE
  BY <1>9, <1>h DEF FailClosed, DlqClosed, IInv, DlqInv, DlqSound, SendersGone, Ended
<1>10. ASSUME DlqStep PROVE Count
  <2>0. Failing' = Failing
    BY <1>10 DEF DlqStep, DlqRecv, DlqDrained, DlqWriteOk, DlqWriteErr, DlqFlush, DlqPanic,
       DlqEnd, data, Failing
  <2>1. CASE DlqRecv
    <3>1. Len(errbuf') = Len(errbuf) - 1 /\ Len(dlqCur') = 1 /\ Len(dlqCur) = 0
      BY <2>1, <1>t DEF DlqRecv, IInv, DlqInv
    <3>2. errCount' = errCount + 1 /\ UNCHANGED <<raised, written>>
      BY <2>1 DEF DlqRecv, history
    <3> QED
      BY <2>0, <1>h, <1>t, <3>1, <3>2
  <2>2. CASE DlqDrained
    BY <2>0, <2>2, <1>h DEF DlqDrained, history
  <2>3. CASE DlqWriteOk
    <3>1. Len(written') = Len(written) + Len(dlqCur) /\ Len(dlqCur') = 0
      BY <2>3, <1>t, ConcatProperties DEF DlqWriteOk
    <3> QED
      BY <2>0, <2>3, <1>h, <1>t, <3>1 DEF DlqWriteOk
  <2>4. CASE DlqWriteErr \/ DlqPanic
    BY <2>4 DEF DlqWriteErr, DlqPanic, Inject, DlqSound
  <2>5. CASE DlqFlush
    <3>1. errbuf = <<>> /\ dlqCur = <<>>
      BY <1>h, <2>5 DEF DlqFlush, IInv, DlqInv
    <3>2. UNCHANGED <<errbuf, dlqCur, errCount, raised, written>>
      BY <2>5, <3>1 DEF DlqFlush, DlqEnd
    <3> QED
      BY <2>0, <1>h, <3>2
  <2> QED
    BY <1>10, <2>1, <2>2, <2>3, <2>4, <2>5 DEF DlqStep
<1> QED
  BY <1>1, <1>2, <1>3, <1>4, <1>5, <1>6, <1>7, <1>8, <1>9, <1>10
     DEF Next, SourceStep, Cancel, StageStep, SendStep, CallerStep, Deliver, Drained, Joined,
     JoinPanicked, GraceExpired, Return, Abandon, Finished, data, errs, history, vars

-----------------------------------------------------------------------------
LEMMA InitInv == Init => IInv
<1> SUFFICES ASSUME Init PROVE IInv
  OBVIOUS
<1> USE DEF Init
<1>1. TypeOK
  <2>1. <<>> \in Seq(Items) /\ <<>> \in Seq(Payloads)
    OBVIOUS
  <2>2. /\ buf \in [Tasks -> Seq(Items)] /\ work \in [Tasks -> Seq(Items)]
        /\ held \in [Tasks -> Seq(Items)] /\ flushed \in [Tasks -> BOOLEAN]
    BY <2>1
  <2>3. pc \in [Tasks -> Labels]
    BY DEF Labels
  <2>4. pulled \in 0..NumItems /\ summary \in [ok : Nat, err : Nat]
    OBVIOUS
  <2> QED
    BY <2>1, <2>2, <2>3, <2>4 DEF TypeOK
<1>2. CallerInv /\ NoSilentLoss
  BY DEF CallerInv, NoSilentLoss
<1>5. DlqInv
  BY DEF DlqInv
<1>6. StageInv
  BY Neighbours DEF StageInv, Past
<1>7. WorkInv
  BY DEF WorkInv
<1>3. Failing = {}
  BY DEF Failing
<1>4. CountInv
  BY <1>3, FS_EmptySet DEF CountInv
<1> QED
  BY <1>1, <1>2, <1>4, <1>5, <1>6, <1>7 DEF IInv

\* IInv is an invariant of every run, whatever its stages, capacities and faults.
THEOREM Invariance == Spec => []IInv
<1>1. IInv /\ [Next]_vars => IInv'
  BY TypeStep, CallerInvStep, DlqInvStep, StageInvStep, WorkInvStep, CountInvStep, LossStep
     DEF IInv
<1> QED
  BY InitInv, <1>1, PTL DEF Spec

\* The variables keep their types.
THEOREM TypeCorrect == Spec => []TypeOK
<1>1. IInv => TypeOK
  BY DEF IInv
<1> QED
  BY Invariance, <1>1, PTL

\* Errors are routed, not dropped (lib.rs:7): without a panic, a failed flush, a
\* failed DLQ or an abandoned run no item is lost.
THEOREM Lossless == Spec => []NoSilentLoss
<1>1. IInv => NoSilentLoss
  BY DEF IInv
<1> QED
  BY Invariance, <1>1, PTL

\* execute / collect / for_each leave nothing running behind them, panics included,
\* if the DLQ worker is sound and answers within the grace period.
THEOREM Quiescence == Spec => []QuiescentReturn
<1>1. IInv => QuiescentReturn
  <2> SUFFICES ASSUME IInv, term = "done",
                      faults \cap {"dlq_write", "dlq_panic", "grace"} = {}
               PROVE  AllOver /\ errbuf = <<>>
    BY DEF QuiescentReturn
  <2>1. dlq = "done"
    BY DEF IInv, CallerInv, DlqInv
  <2>2. SendersGone /\ errbuf = <<>>
    BY <2>1 DEF IInv, DlqInv, DlqSound
  <2> QED
    BY <2>1, <2>2 DEF AllOver, SendersGone, DlqClosed
<1> QED
  BY Invariance, <1>1, PTL

\* The error_count of the summary is the number of errors raised in the whole run,
\* panics included, under the same conditions.
THEOREM ExactCount == Spec => []ExactErrorCount
<1>1. IInv => ExactErrorCount
  <2> SUFFICES ASSUME IInv, term = "done",
                      faults \cap {"dlq_write", "dlq_panic", "grace"} = {}
               PROVE  summary.err = raised /\ Len(written) = raised
    BY DEF ExactErrorCount
  <2>1. dlq = "done" /\ summary.err = errCount
    BY DEF IInv, CallerInv, DlqInv
  <2>2. SendersGone /\ errbuf = <<>> /\ dlqCur = <<>> /\ DlqSound
    BY <2>1 DEF IInv, DlqInv, DlqSound
  <2>3. Failing = {}
    BY <2>2 DEF SendersGone, Ended, Failing
  <2>4. Cardinality(Failing) = 0 /\ Len(errbuf) = 0 /\ Len(dlqCur) = 0
    BY <2>2, <2>3, FS_EmptySet
  <2>5. errCount \in Nat /\ Len(written) \in Nat /\ raised \in Nat
    BY LenProperties DEF IInv, TypeOK
  <2> QED
    BY <2>1, <2>2, <2>4, <2>5 DEF IInv, CountInv
<1> QED
  BY Invariance, <1>1, PTL

-----------------------------------------------------------------------------
(* The refinement of Delivery.  Besides IInv it needs to know where the     *)
(* items are: each one the source has yielded is in one place, and what a   *)
(* task has sent lies before what it still carries.                         *)

Asc(s)       == \A j, k \in DOMAIN s : j < k => s[j] < s[k]
Before(S, R) == \A x \in S, y \in R : x < y

\* What a task executes, and the items it carries besides.
ShapeInv ==
  \A i \in Tasks :
    /\ pc[i] \in {"recv", "flush"} => work[i] = <<>>
    /\ pc[i] = "exec" => Len(work[i]) = 1
    /\ pc[i] = "fail" => Len(work[i]) <= 1
    /\ pc[i] = "emit" => held[i] = <<>>

\* The items on their way through task i and the channel behind it.
Flow(i) == Range(buf[i]) \cup Range(held[i]) \cup Range(work[i])

InOrder(i) ==
  /\ Asc(buf[i]) /\ Asc(held[i]) /\ Asc(work[i])
  /\ Before(Range(buf[i]), Range(held[i]) \cup Range(work[i]))
  /\ Before(Range(held[i]), Range(work[i]))

\* The further an item has come, the smaller it is.
OrderInv ==
  /\ \A i \in Tasks : InOrder(i)
  /\ \A i, j \in Tasks : j < i => Before(Flow(i), Flow(j))
  /\ \A i \in Tasks : Before(Range(delivered), Flow(i))

Flowing   == UNION {Flow(i) : i \in Tasks}
Unwritten == ItemsOf(Range(errbuf) \cup Range(dlqCur))
Settled   == Range(delivered) \cup ItemsOf(Range(written)) \cup filtered \cup lost

\* Every item is on its way, on its way to the DLQ, or settled.
PartInv ==
  /\ Flowing \cup Unwritten \cup Settled = 1..pulled
  /\ Flowing \cap Unwritten = {}
  /\ (Flowing \cup Unwritten) \cap Settled = {}

\* No two records name the same item.
Once(s) == \A j, k \in DOMAIN s : s[j].item = s[k].item /\ s[j].item # NoItem => j = k

RecordInv ==
  /\ Once(errbuf) /\ Once(written)
  /\ ItemsOf(Range(errbuf)) \cap ItemsOf(Range(dlqCur)) = {}

PlaceInv == ShapeInv /\ OrderInv /\ PartInv /\ RecordInv

LEMMA Ranges ==
  ASSUME NEW S
  PROVE  /\ Range(<<>>) = {}
         /\ \A x \in S : Range(<<x>>) = {x}
         /\ \A s, t \in Seq(S) : Range(s \o t) = Range(s) \cup Range(t)
         /\ \A s \in Seq(S), x \in S : Range(Append(s, x)) = Range(s) \cup {x}
         /\ \A s \in Seq(S) : s # <<>> => Range(s) = {Head(s)} \cup Range(Tail(s))
<1>1. ASSUME NEW s \in Seq(S), NEW t \in Seq(S)
      PROVE  Range(s \o t) = Range(s) \cup Range(t)
  <2>1. ASSUME NEW j \in DOMAIN (s \o t) PROVE (s \o t)[j] \in Range(s) \cup Range(t)
    <3>1. CASE j <= Len(s)
      BY <3>1, <2>1 DEF Range
    <3>2. CASE j > Len(s)
      <4>1. j - Len(s) \in DOMAIN t /\ (s \o t)[j] = t[j - Len(s)]
        BY <3>2, <2>1
      <4> QED
        BY <4>1 DEF Range
    <3> QED
      BY <3>1, <3>2, <2>1
  <2>2. \A j \in DOMAIN s : j \in DOMAIN (s \o t) /\ (s \o t)[j] = s[j]
    OBVIOUS
  <2>3. \A j \in DOMAIN t : j + Len(s) \in DOMAIN (s \o t) /\ (s \o t)[j + Len(s)] = t[j]
    OBVIOUS
  <2> QED
    BY <2>1, <2>2, <2>3, ZenonT(60) DEF Range
<1>2. ASSUME NEW s \in Seq(S), NEW x \in S PROVE Range(Append(s, x)) = Range(s) \cup {x}
  <2>1. /\ \A j \in DOMAIN s : j \in DOMAIN Append(s, x) /\ Append(s, x)[j] = s[j]
        /\ Len(s) + 1 \in DOMAIN Append(s, x) /\ Append(s, x)[Len(s) + 1] = x
        /\ \A j \in DOMAIN Append(s, x) : j \in DOMAIN s \/ j = Len(s) + 1
    OBVIOUS
  <2> QED
    BY <2>1 DEF Range
<1>3. ASSUME NEW s \in Seq(S), s # <<>> PROVE Range(s) = {Head(s)} \cup Range(Tail(s))
  <2>1. /\ \A j \in DOMAIN Tail(s) : j + 1 \in DOMAIN s /\ Tail(s)[j] = s[j + 1]
        /\ 1 \in DOMAIN s /\ s[1] = Head(s)
    BY <1>3
  <2>2. \A j \in DOMAIN s : j = 1 \/ (j - 1 \in DOMAIN Tail(s) /\ Tail(s)[j - 1] = s[j])
    BY <1>3
  <2>3. ASSUME NEW x \in Range(s) PROVE x \in {Head(s)} \cup Range(Tail(s))
    <3>1. PICK j \in DOMAIN s : s[j] = x
      BY DEF Range
    <3> QED
      BY <2>1, <2>2, <3>1 DEF Range
  <2>4. ASSUME NEW x \in {Head(s)} \cup Range(Tail(s)) PROVE x \in Range(s)
    <3>1. CASE x = Head(s)
      BY <2>1, <3>1 DEF Range
    <3>2. CASE x \in Range(Tail(s))
      BY <2>1, <3>2 DEF Range
    <3> QED
      BY <3>1, <3>2
  <2> QED
    BY <2>3, <2>4
<1>4. \A x \in S : Range(<<x>>) = {x}
  BY DEF Range
<1>5. Range(<<>>) = {}
  BY DEF Range
<1> QED
  BY <1>1, <1>2, <1>3, <1>4, <1>5

LEMMA Ascents ==
  /\ Asc(<<>>)
  /\ \A s \in Seq(Items) : Len(s) <= 1 => Asc(s)
  /\ \A s, t \in Seq(Items) : Asc(s) /\ Asc(t) /\ Before(Range(s), Range(t)) => Asc(s \o t)
  /\ \A s \in Seq(Items), x \in Items : Asc(s) /\ Before(Range(s), {x}) => Asc(Append(s, x))
  /\ \A s \in Seq(Items) : s # <<>> /\ Asc(s) => Asc(Tail(s)) /\ Before({Head(s)}, Range(Tail(s)))
<1>1. ASSUME NEW s \in Seq(Items), NEW t \in Seq(Items), Asc(s), Asc(t),
             Before(Range(s), Range(t))
      PROVE  Asc(s \o t)
  <2> SUFFICES ASSUME NEW j \in DOMAIN (s \o t), NEW k \in DOMAIN (s \o t), j < k
               PROVE  (s \o t)[j] < (s \o t)[k]
    BY DEF Asc
  <2>1. CASE k <= Len(s)
    BY <1>1, <2>1 DEF Asc
  <2>2. CASE j > Len(s)
    <3>1. /\ j - Len(s) \in DOMAIN t /\ k - Len(s) \in DOMAIN t /\ j - Len(s) < k - Len(s)
          /\ (s \o t)[j] = t[j - Len(s)] /\ (s \o t)[k] = t[k - Len(s)]
      BY <2>2
    <3> QED
      BY <1>1, <3>1 DEF Asc
  <2>3. CASE j <= Len(s) /\ k > Len(s)
    <3>1. /\ j \in DOMAIN s /\ k - Len(s) \in DOMAIN t
          /\ (s \o t)[j] = s[j] /\ (s \o t)[k] = t[k - Len(s)]
      BY <2>3
    <3>2. s[j] \in Range(s) /\ t[k - Len(s)] \in Range(t)
      BY <3>1 DEF Range
    <3> QED
      BY <1>1, <3>1, <3>2 DEF Before
  <2> QED
    BY <2>1, <2>2, <2>3
<1>2. ASSUME NEW s \in Seq(Items), NEW x \in Items, Asc(s), Before(Range(s), {x})
      PROVE  Asc(Append(s, x))
  <2> SUFFICES ASSUME NEW j \in DOMAIN Append(s, x), NEW k \in DOMAIN Append(s, x), j < k
               PROVE  Append(s, x)[j] < Append(s, x)[k]
    BY DEF Asc
  <2>1. j \in DOMAIN s /\ Append(s, x)[j] = s[j] /\ s[j] \in Range(s)
    BY DEF Range
  <2>2. CASE k = Len(s) + 1
    BY <1>2, <2>1, <2>2 DEF Before
  <2>3. CASE k # Len(s) + 1
    BY <1>2, <2>1, <2>3 DEF Asc
  <2> QED
    BY <2>2, <2>3
<1>3. ASSUME NEW s \in Seq(Items), s # <<>>, Asc(s)
      PROVE  Asc(Tail(s)) /\ Before({Head(s)}, Range(Tail(s)))
  <2>1. /\ \A j \in DOMAIN Tail(s) : j + 1 \in DOMAIN s /\ Tail(s)[j] = s[j + 1] /\ j \in Nat
        /\ 1 \in DOMAIN s /\ s[1] = Head(s) /\ \A j \in DOMAIN Tail(s) : 1 < j + 1
    BY <1>3
  <2>2. Asc(Tail(s))
    BY <1>3, <2>1 DEF Asc
  <2>3. \A j \in DOMAIN Tail(s) : Head(s) < Tail(s)[j]
    BY <1>3, <2>1 DEF Asc
  <2> QED
    BY <2>2, <2>3 DEF Before, Range
<1>4. ASSUME NEW s \in Seq(Items), Len(s) <= 1 PROVE Asc(s)
  BY <1>4 DEF Asc
<1>5. Asc(<<>>)
  BY DEF Asc
<1> QED
  BY <1>1, <1>2, <1>3, <1>4, <1>5

LEMMA Single ==
  ASSUME NEW S, NEW s \in Seq(S)
  PROVE  /\ Len(s) <= 1 => s = <<>> \/ (s # <<>> /\ s = <<Head(s)>> /\ Head(s) \in S)
         /\ Len(s) = 1 => s # <<>>
<1>1. ASSUME Len(s) <= 1, s # <<>> PROVE s = <<Head(s)>> /\ Head(s) \in S
  <2>0. 1 \in DOMAIN s /\ s[1] = Head(s) /\ s[1] \in S
    BY <1>1
  <2>1. Len(s) = 1 /\ Head(s) \in S /\ Head(s) = s[1]
    BY <1>1, <2>0, SMTT(40)
  <2>2. Len(<<Head(s)>>) = 1 /\ <<Head(s)>>[1] = Head(s) /\ <<Head(s)>> \in Seq(S)
    BY <2>1
  <2>3. \A k \in 1..Len(s) : s[k] = <<Head(s)>>[k]
    BY ONLY <2>1, <2>2
  <2>4. s = <<Head(s)>>
    BY ONLY <2>1, <2>2, <2>3, s \in Seq(S), SeqEqual
  <2> QED
    BY <2>1, <2>4
<1>2. ASSUME Len(s) = 1 PROVE s # <<>>
  <2>1. Len(<<>>) = 0
    OBVIOUS
  <2> QED
    BY ONLY <2>1, <1>2
<1> QED
  BY ONLY <1>1, <1>2

\* No task takes up an item before it has let go of the last one.
LEMMA ShapeStep == TypeOK /\ WorkInv /\ ShapeInv /\ [Next]_vars => ShapeInv'
<1> SUFFICES ASSUME TypeOK, WorkInv, ShapeInv PROVE [Next]_vars => ShapeInv'
  OBVIOUS
<1> USE Neighbours DEF TypeOK, ShapeInv
<1>1. ASSUME UNCHANGED <<pc, work, held>> PROVE ShapeInv'
  BY <1>1
<1>e. /\ Len(<<>>) = 0
      /\ \A x : Len(<<x>>) = 1
  OBVIOUS
<1>2. ASSUME SourceStep PROVE ShapeInv'
  <2>1. held[0] = <<>> /\ work[0] = <<>> /\ pc[0] = "recv"
    BY <1>2 DEF WorkInv, SourceStep, SourceNext, SourceExhausted, SourceError, SourceShutdown
  <2>2. CASE SourceNext
    BY <2>1, <2>2, <1>e DEF SourceNext, Goto
  <2>3. CASE SourceError
    BY <2>1, <2>3, <1>e DEF SourceError, Goto
  <2>4. CASE SourceExhausted \/ SourceShutdown
    BY <2>1, <2>4, <1>e DEF SourceExhausted, SourceShutdown, Goto
  <2> QED
    BY <1>2, <2>2, <2>3, <2>4 DEF SourceStep
<1>3. ASSUME NEW i \in Stages, StageRecv(i) PROVE ShapeInv'
  <2>1. CASE Closed(i)
    BY <1>3, <2>1, SMTT(40) DEF StageRecv, Goto, Leave
  <2>2. CASE ~Closed(i)
    <3>1. /\ pc' = [pc EXCEPT ![i] = "exec"] /\ held' = held
          /\ work' = [work EXCEPT ![i] = <<Head(buf[i - 1])>>]
      BY <1>3, <2>2 DEF StageRecv, Goto
    <3> QED
      BY <3>1, <1>e
  <2> QED
    BY <2>1, <2>2
<1>9. ASSUME NEW i \in Stages, StageDrained(i) PROVE ShapeInv'
  BY <1>9 DEF StageDrained, Goto, Leave
<1>4. ASSUME NEW i \in Stages, NodeOk(i) PROVE ShapeInv'
  <2>1. /\ pc' = [pc EXCEPT ![i] = "emit"] /\ held' = [held EXCEPT ![i] = <<>>]
        /\ \A j \in Tasks \ {i} : work'[j] = work[j]
    BY <1>4 DEF NodeOk, Goto
  <2> QED
    BY <2>1
<1>10. ASSUME NEW i \in Stages, NodeHold(i) \/ NodeFilter(i) PROVE ShapeInv'
  <2>1. /\ pc' = [pc EXCEPT ![i] = "recv"] /\ work' = [work EXCEPT ![i] = <<>>]
        /\ \A j \in Tasks \ {i} : held'[j] = held[j]
    BY <1>10 DEF NodeHold, NodeFilter, Goto
  <2> QED
    BY <2>1
<1>11. ASSUME NEW i \in Stages, NodeErr(i) PROVE ShapeInv'
  <2>1. pc' = [pc EXCEPT ![i] = "fail"] /\ work' = work /\ held' = held
    BY <1>11 DEF NodeErr, Goto
  <2>2. work'[i] = work[i] /\ pc[i] = "exec"
    BY <1>11, <2>1 DEF NodeErr
  <2>3. Len(work'[i]) = 1
    BY <2>2
  <2>4. Len(work'[i]) <= 1
    BY ONLY <2>3
  <2> QED
    BY <2>1, <2>4
<1>5. ASSUME NEW i \in Stages, NodeFlush(i) PROVE ShapeInv'
  <2>1. /\ held' = [held EXCEPT ![i] = <<>>] /\ work[i] = <<>>
        /\ \A j \in Tasks \ {i} : work'[j] = work[j]
        /\ \A j \in Tasks \ {i} : pc'[j] = pc[j]
        /\ \/ pc'[i] \in {"exit", "emit"}
           \/ pc'[i] = "fail" /\ work'[i] = <<>>
    BY <1>5 DEF NodeFlush, Goto
  <2>2. Len(<<>>) <= 1
    BY ONLY <1>e
  <2> QED
    BY <2>1, <2>2
<1>6. ASSUME NEW i \in Tasks, TaskPanic(i) \/ TaskExit(i) PROVE ShapeInv'
  BY <1>6, ZenonT(60) DEF TaskPanic, TaskExit, Goto
<1>7. ASSUME NEW i \in Tasks, EmitSend(i) \/ EmitClosed(i) PROVE ShapeInv'
  BY <1>7, ZenonT(60) DEF EmitSend, EmitClosed, Goto, Resume, Leave
<1>8. ASSUME NEW i \in Tasks, FailSend(i) \/ FailClosed(i) PROVE ShapeInv'
  BY <1>8, ZenonT(60) DEF FailSend, FailClosed, Goto, Resume, Leave
<1> QED
  BY <1>1, <1>2, <1>3, <1>4, <1>5, <1>6, <1>7, <1>8, <1>9, <1>10, <1>11
     DEF Next, StageStep, SendStep, Finished, Cancel,
     DlqStep, DlqRecv, DlqDrained, DlqWriteOk, DlqWriteErr, DlqFlush, DlqPanic, DlqEnd,
     CallerStep, Deliver, Drained, Joined, JoinPanicked, GraceExpired, Return, Abandon,
     data, vars

LEMMA ItemNumbers ==
  /\ \A x \in Items : x \in Nat /\ x >= 1
  /\ TypeOK => /\ \A i \in Tasks : /\ Range(buf[i]) \subseteq Items
                                   /\ Range(held[i]) \subseteq Items
                                   /\ Range(work[i]) \subseteq Items
                                   /\ Flow(i) \subseteq Items
               /\ Range(delivered) \subseteq Items
<1>1. ASSUME TypeOK, NEW i \in Tasks
      PROVE  Range(buf[i]) \subseteq Items /\ Range(held[i]) \subseteq Items
             /\ Range(work[i]) \subseteq Items
  BY <1>1, ItemSequences DEF TypeOK
<1>2. ASSUME TypeOK PROVE Range(delivered) \subseteq Items
  BY <1>2, ItemSequences DEF TypeOK
<1>3. \A x \in Items : x \in Nat /\ x >= 1
  BY DEF Items
<1> QED
  BY <1>1, <1>2, <1>3 DEF Flow

\* No item is in two places along the way.
LEMMA Apart ==
  ASSUME TypeOK, OrderInv
  PROVE  /\ \A i, j \in Tasks : i # j => Flow(i) \cap Flow(j) = {}
         /\ \A i \in Tasks : /\ Range(buf[i]) \cap (Range(held[i]) \cup Range(work[i])) = {}
                             /\ Range(held[i]) \cap Range(work[i]) = {}
<1>1. \A S, R : Before(S, R) /\ S \subseteq Items => S \cap R = {}
  BY ItemNumbers DEF Before
<1>2. ASSUME NEW i \in Tasks, NEW j \in Tasks, i # j PROVE Flow(i) \cap Flow(j) = {}
  <2>1. i < j \/ j < i
    BY <1>2 DEF Tasks
  <2>2. Before(Flow(i), Flow(j)) \/ Before(Flow(j), Flow(i))
    BY <2>1 DEF OrderInv
  <2> QED
    BY <1>1, <2>2, ItemNumbers
<1>3. ASSUME NEW i \in Tasks
      PROVE  /\ Range(buf[i]) \cap (Range(held[i]) \cup Range(work[i])) = {}
             /\ Range(held[i]) \cap Range(work[i]) = {}
  BY <1>1, <1>3, ItemNumbers, ZenonT(60) DEF OrderInv, InOrder
<1> QED
  BY <1>2, <1>3

LEMMA Shrinks ==
  ASSUME OrderInv, NEW S, delivered' = delivered,
         \A i \in Tasks : InOrder(i)' /\ Flow(i)' = Flow(i) \ S
  PROVE  OrderInv' /\ Flowing' = Flowing \ S
<1>1. Flowing' = Flowing \ S
  BY DEF Flowing
<1>2. \A i, j \in Tasks : j < i => Before(Flow(i)', Flow(j)')
  BY DEF OrderInv, Before
<1>3. \A i \in Tasks : Before(Range(delivered), Flow(i)')
  BY DEF OrderInv, Before
<1> QED
  BY <1>1, <1>2, <1>3 DEF OrderInv

\* What is dropped: the channels B, the items held by the nodes H, the work of W.
Dropped(B, H, W) ==
  {x \in Items : \/ \E i \in B : x \in Range(buf[i])
                 \/ \E i \in H : x \in Range(held[i])
                 \/ \E i \in W : x \in Range(work[i])}

LEMMA Drops ==
  ASSUME TypeOK, OrderInv, delivered' = delivered,
         NEW B \in SUBSET Tasks, NEW H \in SUBSET Tasks, NEW W \in SUBSET Tasks,
         \A i \in Tasks : /\ buf'[i] = IF i \in B THEN <<>> ELSE buf[i]
                          /\ held'[i] = IF i \in H THEN <<>> ELSE held[i]
                          /\ work'[i] = IF i \in W THEN <<>> ELSE work[i]
  PROVE  /\ OrderInv' /\ Flowing' = Flowing \ Dropped(B, H, W)
         /\ Dropped(B, H, W) \subseteq Flowing
<1>e. Range(<<>>) = {} /\ Asc(<<>>)
  BY Ranges, Ascents
<1>1. ASSUME NEW i \in Tasks PROVE InOrder(i)'
  <2>1. InOrder(i)
    BY DEF OrderInv
  <2>2. \A R : Before({}, R) /\ Before(R, {})
    BY DEF Before
  <2>3. /\ Range(buf[i])' \in {Range(buf[i]), {}} /\ Range(held[i])' \in {Range(held[i]), {}}
        /\ Range(work[i])' \in {Range(work[i]), {}}
        /\ Asc(buf[i])' /\ Asc(held[i])' /\ Asc(work[i])'
    BY <1>e, <2>1 DEF InOrder
  <2> QED
    BY <2>1, <2>3 DEF InOrder, Before
<1>2. ASSUME NEW i \in Tasks PROVE Flow(i)' = Flow(i) \ Dropped(B, H, W)
  <2>1. \A x \in Flow(i) : \A j \in Tasks \ {i} :
          x \notin Range(buf[j]) /\ x \notin Range(held[j]) /\ x \notin Range(work[j])
    BY Apart DEF Flow
  <2>2. ASSUME NEW x \in Flow(i)
        PROVE  x \in Dropped(B, H, W) <=> \/ i \in B /\ x \in Range(buf[i])
                                          \/ i \in H /\ x \in Range(held[i])
                                          \/ i \in W /\ x \in Range(work[i])
    BY <2>1, ItemNumbers DEF Dropped, Flow
  <2>3. /\ Range(buf'[i]) = IF i \in B THEN {} ELSE Range(buf[i])
        /\ Range(held'[i]) = IF i \in H THEN {} ELSE Range(held[i])
        /\ Range(work'[i]) = IF i \in W THEN {} ELSE Range(work[i])
    BY <1>e
  <2>4. /\ Range(buf[i]) \cap (Range(held[i]) \cup Range(work[i])) = {}
        /\ Range(held[i]) \cap Range(work[i]) = {}
    BY Apart
  <2>5. Flow(i)' = Range(buf'[i]) \cup Range(held'[i]) \cup Range(work'[i])
    BY DEF Flow
  <2>6. ASSUME NEW x \in Flow(i)', x \in Dropped(B, H, W) PROVE FALSE
    BY <2>2, <2>3, <2>4, <2>5, <2>6 DEF Flow
  <2> QED
    BY <2>2, <2>3, <2>5, <2>6 DEF Flow
<1>3. Dropped(B, H, W) \subseteq Flowing
  <2>1. \A i \in Tasks : Flow(i) \subseteq Flowing
    BY DEF Flowing
  <2>2. \A i \in Tasks : /\ Range(buf[i]) \subseteq Flowing /\ Range(held[i]) \subseteq Flowing
                         /\ Range(work[i]) \subseteq Flowing
    BY <2>1 DEF Flow
  <2> QED
    BY <2>2, ItemNumbers DEF Dropped
<1> QED
  BY <1>1, <1>2, <1>3, Shrinks

\* Items A leave the flow, C of them for the DLQ; of those on the way to it B settle.
LEMMA Transfer ==
  ASSUME PartInv, pulled' = pulled, NEW A \in SUBSET Flowing, NEW C \in SUBSET A,
         NEW B \in SUBSET Unwritten,
         Flowing' = Flowing \ A, Unwritten' = (Unwritten \ B) \cup C,
         Settled' = Settled \cup (A \ C) \cup B
  PROVE  PartInv'
<1>1. Flowing' \cup Unwritten' \cup Settled' = Flowing \cup Unwritten \cup Settled
  OBVIOUS
<1>2. Flowing' \cap Unwritten' = {}
  BY DEF PartInv
<1>3. (Flowing' \cup Unwritten') \cap Settled' = {}
  BY DEF PartInv
<1> QED
  BY <1>1, <1>2, <1>3 DEF PartInv

LEMMA SameSettled == Abstract!Settled = Settled
<1>1. Abstract!Range(delivered) = Range(delivered)
  BY DEF Range, Abstract!Range
<1> QED
  BY <1>1 DEF Settled, Abstract!Settled

\* A step whose only effect outside is that S vanishes is a fault or a stutter.
LEMMA Vanishes ==
  ASSUME PartInv, NoSilentLoss', faults \subseteq faults',
         NEW S \in SUBSET (Flowing \cup Unwritten), lost' = lost \cup S,
         UNCHANGED <<pulled, delivered, written, filtered, summary>>,
         term' = "done" <=> term = "done"
  PROVE  [Abstract!Next]_(Abstract!vars)
<1>1. (term' = "done") = (term = "done")
  OBVIOUS
<1>2. S \subseteq Abstract!InFlight
  <2>1. Abstract!Settled = Settled
    BY SameSettled
  <2>2. Abstract!InFlight = (1..pulled) \ Settled
    BY <2>1 DEF Abstract!InFlight
  <2>3. S \subseteq 1..pulled /\ S \cap Settled = {}
    BY DEF PartInv
  <2> QED
    BY <2>2, <2>3
<1>3. CASE ~(faults' \subseteq {"dlq_flush"})
  <2>1. Abstract!Fault
    BY <1>1, <1>2, <1>3 DEF Abstract!Fault
  <2> QED
    BY <2>1 DEF Abstract!Next
<1>4. CASE faults' \subseteq {"dlq_flush"}
  <2>1. lost' = {}
    BY <1>4 DEF NoSilentLoss, Destructive
  <2>2. lost' = lost /\ faults \subseteq {"dlq_flush"}
    BY <1>4, <2>1
  <2>3. (~(faults' \subseteq {"dlq_flush"})) = (~(faults \subseteq {"dlq_flush"}))
    BY <1>4, <2>2
  <2> QED
    BY <1>1, <2>2, <2>3 DEF Abstract!vars
<1> QED
  BY <1>3, <1>4

\* What a step has to show: the items are in their places, and outside it is a step of
\* Delivery or none.
Whole == IInv /\ PlaceInv
Fine  == OrderInv' /\ PartInv' /\ RecordInv' /\ [Abstract!Next]_(Abstract!vars)

\* What is known of every step of the run.
Sound == TypeOK' /\ NoSilentLoss' /\ faults \subseteq faults'

\* Of the run nothing but the way of the items and their loss is seen outside.
Hidden == /\ UNCHANGED <<pulled, delivered, written, filtered, summary>>
          /\ term' = "done" <=> term = "done"

\* A step that drops channels, held items or work, and says so.
LEMMA DropFine ==
  ASSUME Whole, Sound, Hidden, UNCHANGED <<errbuf, dlqCur>>,
         NEW B \in SUBSET Tasks, NEW H \in SUBSET Tasks, NEW W \in SUBSET Tasks,
         \A i \in Tasks : /\ buf'[i] = IF i \in B THEN <<>> ELSE buf[i]
                          /\ held'[i] = IF i \in H THEN <<>> ELSE held[i]
                          /\ work'[i] = IF i \in W THEN <<>> ELSE work[i],
         lost' = lost \cup Dropped(B, H, W)
  PROVE  Fine
<1> DEFINE A == Dropped(B, H, W)
<1>1. OrderInv' /\ Flowing' = Flowing \ A /\ A \subseteq Flowing
  BY Drops DEF Whole, IInv, PlaceInv, Hidden
<1>2. RecordInv'
  BY DEF Whole, PlaceInv, RecordInv, Hidden
<1>3. PartInv'
  <2>1. Unwritten' = (Unwritten \ {}) \cup {}
    BY DEF Unwritten
  <2>2. Settled' = Settled \cup (A \ {}) \cup {}
    BY DEF Settled, Hidden
  <2>3. PartInv /\ pulled' = pulled
    BY DEF Whole, PlaceInv, Hidden
  <2> HIDE DEF A
  <2> QED
    BY <1>1, <2>1, <2>2, <2>3, Transfer
<1>4. [Abstract!Next]_(Abstract!vars)
  <2>1. /\ PartInv /\ NoSilentLoss' /\ faults \subseteq faults' /\ lost' = lost \cup A
        /\ A \in SUBSET (Flowing \cup Unwritten)
    BY <1>1 DEF Whole, PlaceInv, Sound
  <2> HIDE DEF A
  <2> QED
    BY <1>1, <2>1, Vanishes DEF Hidden
<1> QED
  BY <1>1, <1>2, <1>3, <1>4 DEF Fine

\* A step that moves items only within a task and the channel behind it.
LEMMA StayFine ==
  ASSUME Whole, Sound, Hidden, UNCHANGED <<errbuf, dlqCur, lost>>,
         \A i \in Tasks : InOrder(i)' /\ Flow(i)' = Flow(i)
  PROVE  Fine
<1>1. OrderInv' /\ Flowing' = Flowing
  <2>1. \A i \in Tasks : InOrder(i)' /\ Flow(i)' = Flow(i) \ {}
    OBVIOUS
  <2>2. OrderInv /\ delivered' = delivered
    BY DEF Whole, PlaceInv, Hidden
  <2>3. OrderInv' /\ Flowing' = Flowing \ {}
    BY ONLY <2>1, <2>2, Shrinks
  <2> QED
    BY <2>3
<1>2. RecordInv' /\ PartInv'
  BY <1>1 DEF Whole, PlaceInv, RecordInv, PartInv, Hidden, Unwritten, Settled
<1>3. [Abstract!Next]_(Abstract!vars)
  <2>1. PartInv /\ NoSilentLoss' /\ faults \subseteq faults' /\ lost' = lost \cup {}
    BY DEF Whole, PlaceInv, Sound
  <2> QED
    BY <2>1, Vanishes DEF Hidden
<1> QED
  BY <1>1, <1>2, <1>3 DEF Fine

LEMMA QuietFine ==
  ASSUME Whole, Sound, Hidden, UNCHANGED <<buf, held, work, errbuf, dlqCur, lost>>
  PROVE  Fine
<1>1. \A i \in Tasks : InOrder(i)' /\ Flow(i)' = Flow(i)
  BY DEF Whole, PlaceInv, OrderInv, InOrder, Flow
<1> QED
  BY <1>1, StayFine

\* The steps of the tasks, by what they do to the items.
LEMMA QuietSteps ==
  ASSUME Whole, Sound,
         \/ SourceExhausted \/ SourceError \/ SourceShutdown \/ Cancel
         \/ \E i \in Stages : StageDrained(i) \/ NodeErr(i)
         \/ \E i \in Tasks : TaskPanic(i)
         \/ DlqDrained \/ Drained \/ UNCHANGED vars
  PROVE  Fine
<1>1. UNCHANGED <<buf, held, work, errbuf, dlqCur, lost>>
  BY DEF SourceExhausted, SourceError, SourceShutdown, Cancel, StageDrained, NodeErr,
     TaskPanic, DlqDrained, Drained, data, errs, caller, history, vars
<1>2. Hidden
  BY DEF Hidden, SourceExhausted, SourceError, SourceShutdown, Cancel, StageDrained, NodeErr,
     TaskPanic, DlqDrained, Drained, data, errs, caller, history, vars
<1> QED
  BY <1>1, <1>2, QuietFine

LEMMA DropSteps ==
  ASSUME Whole, Sound,
         \/ \E i \in Tasks : EmitClosed(i) \/ FailClosed(i) \/ TaskExit(i)
         \/ Abandon
  PROVE  Fine
<1>t. TypeOK
  BY DEF Whole, IInv
<1>1. ASSUME NEW i \in Tasks, EmitClosed(i) \/ FailClosed(i) PROVE Fine
  <2>1. Hidden /\ UNCHANGED <<errbuf, dlqCur>>
    BY <1>1 DEF Hidden, EmitClosed, FailClosed, errs, caller
  <2>2. /\ lost' = lost \cup Range(work[i])
        /\ \A j \in Tasks : /\ buf'[j] = buf[j] /\ held'[j] = held[j]
                            /\ work'[j] = IF j \in {i} THEN <<>> ELSE work[j]
    BY <1>1, <1>t DEF EmitClosed, FailClosed, TypeOK
  <2>3. Dropped({}, {}, {i}) = Range(work[i])
    BY <1>t, ItemNumbers DEF Dropped
  <2> QED
    BY <2>1, <2>2, <2>3, DropFine
<1>2. ASSUME NEW i \in Tasks, TaskExit(i) PROVE Fine
  <2>0. PICK B \in SUBSET Tasks : \A j \in Tasks : j \in B <=> j = i - 1
    <3>1. {j \in Tasks : j = i - 1} \in SUBSET Tasks
      OBVIOUS
    <3> QED
      BY <3>1
  <2>1. Hidden /\ UNCHANGED <<errbuf, dlqCur>>
    BY <1>2 DEF Hidden, TaskExit, errs, caller
  <2>2. /\ lost' = lost \cup Range(work[i]) \cup Range(held[i])
                        \cup (IF i = 0 THEN {} ELSE Range(buf[i - 1]))
        /\ \A j \in Tasks : /\ buf'[j] = IF j \in B THEN <<>> ELSE buf[j]
                            /\ held'[j] = IF j \in {i} THEN <<>> ELSE held[j]
                            /\ work'[j] = IF j \in {i} THEN <<>> ELSE work[j]
    BY <1>2, <1>t, <2>0 DEF TaskExit, TypeOK
  <2>3. Dropped(B, {i}, {i})
          = Range(work[i]) \cup Range(held[i]) \cup (IF i = 0 THEN {} ELSE Range(buf[i - 1]))
    <3>1. CASE i = 0
      <4>1. B = {}
        BY <2>0, <3>1 DEF Tasks
      <4> QED
        BY <3>1, <4>1, <1>t, ItemNumbers DEF Dropped
    <3>2. CASE i # 0
      <4>1. i - 1 \in Tasks
        BY <3>2 DEF Tasks
      <4>2. B = {i - 1}
        BY <2>0, <4>1
      <4> QED
        BY <3>2, <4>1, <4>2, <1>t, ItemNumbers DEF Dropped
    <3> QED
      BY <3>1, <3>2
  <2>4. lost' = lost \cup Dropped(B, {i}, {i})
    BY <2>2, <2>3
  <2>5. {i} \in SUBSET Tasks
    OBVIOUS
  <2> QED
    BY <2>1, <2>2, <2>4, <2>5, DropFine, SMTT(40)
<1>3. ASSUME Abandon PROVE Fine
  <2>1. Hidden /\ UNCHANGED <<errbuf, dlqCur>>
    BY <1>3 DEF Hidden, Abandon, errs
  <2>2. /\ lost' = lost \cup Range(buf[N])
        /\ \A j \in Tasks : /\ buf'[j] = IF j \in {N} THEN <<>> ELSE buf[j]
                            /\ held'[j] = held[j] /\ work'[j] = work[j]
    BY <1>3, <1>t, Neighbours DEF Abandon, TypeOK
  <2>3. Dropped({N}, {}, {}) = Range(buf[N])
    BY <1>t, ItemNumbers, Neighbours DEF Dropped
  <2> QED
    BY <2>1, <2>2, <2>3, Neighbours, DropFine
<1> QED
  BY <1>1, <1>2, <1>3

\* If the pieces of one task are rearranged in order, all of them are.
LEMMA Rearranged ==
  ASSUME Whole, NEW i \in Tasks, InOrder(i)', Flow(i)' = Flow(i),
         \A j \in Tasks \ {i} : buf'[j] = buf[j] /\ held'[j] = held[j] /\ work'[j] = work[j]
  PROVE  \A j \in Tasks : InOrder(j)' /\ Flow(j)' = Flow(j)
<1>1. ASSUME NEW j \in Tasks, j # i PROVE InOrder(j)' /\ Flow(j)' = Flow(j)
  <2>1. buf'[j] = buf[j] /\ held'[j] = held[j] /\ work'[j] = work[j] /\ InOrder(j)
    BY <1>1 DEF Whole, PlaceInv, OrderInv
  <2> QED
    BY <2>1 DEF InOrder, Flow
<1> QED
  BY <1>1

LEMMA StaySteps ==
  ASSUME Whole, Sound,
         \/ \E i \in Stages : NodeOk(i) \/ NodeHold(i)
         \/ \E i \in Tasks : EmitSend(i)
  PROVE  Fine
<1>t. TypeOK /\ OrderInv /\ ShapeInv
  BY DEF Whole, IInv, PlaceInv
<1>e. Range(<<>>) = {} /\ Asc(<<>>)
  BY Ranges, Ascents
<1>b. \A R : Before(R, {}) /\ Before({}, R)
  BY DEF Before
<1>1. ASSUME NEW i \in Stages, NodeOk(i) \/ NodeHold(i) PROVE Fine
  <2>0. i \in Tasks
    BY Neighbours
  <2>1. Hidden /\ UNCHANGED <<errbuf, dlqCur, lost>>
    BY <1>1 DEF Hidden, NodeOk, NodeHold, errs, caller, history
  <2>2. /\ buf' = buf
        /\ \/ held'[i] = <<>> /\ work'[i] = held[i] \o work[i]
           \/ held'[i] = held[i] \o work[i] /\ work'[i] = <<>>
        /\ \A j \in Tasks \ {i} : held'[j] = held[j] /\ work'[j] = work[j]
    BY <1>1, <1>t, <2>0 DEF NodeOk, NodeHold, TypeOK
  <2>3. held[i] \in Seq(Items) /\ work[i] \in Seq(Items) /\ InOrder(i)
    BY <1>t, <2>0 DEF TypeOK, OrderInv
  <2>4. /\ Range(held[i] \o work[i]) = Range(held[i]) \cup Range(work[i])
        /\ Asc(held[i] \o work[i])
    BY <2>3, Ranges, Ascents DEF InOrder
  <2>5. InOrder(i)' /\ Flow(i)' = Flow(i)
    <3>1. CASE held'[i] = <<>> /\ work'[i] = held[i] \o work[i]
      BY <1>e, <1>b, <2>2, <2>3, <2>4, <3>1 DEF InOrder, Flow
    <3>2. CASE held'[i] = held[i] \o work[i] /\ work'[i] = <<>>
      BY <1>e, <1>b, <2>2, <2>3, <2>4, <3>2 DEF InOrder, Flow
    <3> QED
      BY <2>2, <3>1, <3>2
  <2>6. \A j \in Tasks : InOrder(j)' /\ Flow(j)' = Flow(j)
    BY <2>0, <2>2, <2>5, Rearranged
  <2> QED
    BY <2>1, <2>6, StayFine
<1>2. ASSUME NEW i \in Tasks, EmitSend(i) PROVE Fine
  <2>1. Hidden /\ UNCHANGED <<errbuf, dlqCur, lost>>
    BY <1>2 DEF Hidden, EmitSend, errs, caller, history
  <2>2. /\ work[i] # <<>> /\ held[i] = <<>> /\ held' = held
        /\ buf'[i] = Append(buf[i], Head(work[i])) /\ work'[i] = Tail(work[i])
        /\ \A j \in Tasks \ {i} : buf'[j] = buf[j] /\ work'[j] = work[j]
    BY <1>2, <1>t DEF EmitSend, TypeOK, ShapeInv
  <2>3. /\ buf[i] \in Seq(Items) /\ work[i] \in Seq(Items) /\ InOrder(i)
        /\ Head(work[i]) \in Items
    BY <1>t, <2>2, HeadTail DEF TypeOK, OrderInv
  <2>4. /\ Range(buf'[i]) = Range(buf[i]) \cup {Head(work[i])}
        /\ Range(work[i]) = {Head(work[i])} \cup Range(work'[i])
    BY <2>2, <2>3, Ranges
  <2>5. Before(Range(buf[i]), Range(work[i])) /\ Before(Range(buf[i]), {Head(work[i])})
    BY <2>3, <2>4 DEF InOrder, Before
  <2>6. /\ Asc(buf'[i]) /\ Asc(work'[i]) /\ Before({Head(work[i])}, Range(work'[i]))
    BY <2>2, <2>3, <2>5, Ascents DEF InOrder
  <2>7. Before(Range(buf'[i]), Range(work'[i]))
    BY <2>4, <2>5, <2>6 DEF Before
  <2>8. InOrder(i)' /\ Flow(i)' = Flow(i)
    BY <1>e, <1>b, <2>2, <2>4, <2>6, <2>7 DEF InOrder, Flow
  <2>9. \A j \in Tasks : InOrder(j)' /\ Flow(j)' = Flow(j)
    BY <2>2, <2>8, Rearranged
  <2> QED
    BY <2>1, <2>9, StayFine
<1> QED
  BY <1>1, <1>2

LEMMA FlushSteps ==
  ASSUME Whole, Sound, NEW i \in Stages, NodeFlush(i)
  PROVE  Fine
<1>t. TypeOK /\ OrderInv /\ ShapeInv /\ i \in Tasks
  BY Neighbours DEF Whole, IInv, PlaceInv
<1>e. Range(<<>>) = {} /\ Asc(<<>>)
  BY Ranges, Ascents
<1>b. \A R : Before(R, {}) /\ Before({}, R)
  BY DEF Before
<1>1. Hidden /\ UNCHANGED <<errbuf, dlqCur>>
  BY DEF Hidden, NodeFlush, errs, caller
<1>2. /\ buf' = buf /\ work[i] = <<>> /\ held'[i] = <<>>
      /\ \A j \in Tasks \ {i} : held'[j] = held[j] /\ work'[j] = work[j]
  BY <1>t DEF NodeFlush, TypeOK, ShapeInv
<1>3. CASE work'[i] = held[i] /\ lost' = lost
  <2>1. InOrder(i)
    BY <1>t DEF OrderInv
  <2>2. InOrder(i)' /\ Flow(i)' = Flow(i)
    BY <1>2, <1>3, <1>e, <1>b, <2>1 DEF InOrder, Flow
  <2>3. \A j \in Tasks : InOrder(j)' /\ Flow(j)' = Flow(j)
    BY <1>t, <1>2, <2>2, Rearranged
  <2> QED
    BY <1>1, <1>3, <2>3, StayFine
<1>4. CASE work' = work /\ lost' = lost \cup Range(held[i])
  <2>1. Dropped({}, {i}, {}) = Range(held[i])
    BY <1>t, ItemNumbers DEF Dropped
  <2>2. \A j \in Tasks : /\ buf'[j] = buf[j] /\ work'[j] = work[j]
                         /\ held'[j] = IF j \in {i} THEN <<>> ELSE held[j]
    BY <1>2, <1>4
  <2> QED
    BY <1>1, <1>4, <1>t, <2>1, <2>2, DropFine
<1> QED
  BY <1>t, <1>3, <1>4 DEF NodeFlush, TypeOK

LEMMA StillInFlight == PartInv => Abstract!InFlight = Flowing \cup Unwritten
  BY SameSettled DEF PartInv, Abstract!InFlight

\* The first item of a channel: the largest of what is sent, the least of what follows.
LEMMA First ==
  ASSUME TypeOK, OrderInv, NEW i \in Tasks, buf[i] # <<>>
  PROVE  /\ Head(buf[i]) \in Flow(i) /\ Head(buf[i]) \in Items
         /\ Range(buf[i]) = {Head(buf[i])} \cup Range(Tail(buf[i]))
         /\ Asc(Tail(buf[i]))
         /\ Before({Head(buf[i])},
                   Range(Tail(buf[i])) \cup Range(held[i]) \cup Range(work[i]))
         /\ \A j \in Tasks : j < i => Before({Head(buf[i])}, Flow(j))
         /\ \A j \in Tasks : i < j => Before(Flow(j), {Head(buf[i])})
         /\ \A j \in Tasks \ {i} : Head(buf[i]) \notin Flow(j)
         /\ Before(Range(delivered), {Head(buf[i])})
<1>1. /\ buf[i] \in Seq(Items) /\ InOrder(i)
  BY DEF TypeOK, OrderInv
<1>2. /\ Range(buf[i]) = {Head(buf[i])} \cup Range(Tail(buf[i])) /\ Head(buf[i]) \in Items
  BY <1>1, Ranges, HeadTail
<1>3. /\ Asc(Tail(buf[i])) /\ Before({Head(buf[i])}, Range(Tail(buf[i])))
  BY <1>1, Ascents DEF InOrder
<1>4. Head(buf[i]) \in Flow(i)
  BY <1>2 DEF Flow
<1>5. Before({Head(buf[i])}, Range(held[i]) \cup Range(work[i]))
  BY <1>1, <1>2 DEF InOrder, Before
<1>6. /\ \A j \in Tasks : j < i => Before({Head(buf[i])}, Flow(j))
      /\ \A j \in Tasks : i < j => Before(Flow(j), {Head(buf[i])})
      /\ Before(Range(delivered), {Head(buf[i])})
  BY <1>4 DEF OrderInv, Before
<1>7. \A j \in Tasks \ {i} : Head(buf[i]) \notin Flow(j)
  BY <1>4, Apart
<1>8. Before({Head(buf[i])}, Range(Tail(buf[i])) \cup Range(held[i]) \cup Range(work[i]))
  BY <1>3, <1>5 DEF Before
<1> QED
  BY <1>2, <1>3, <1>4, <1>6, <1>7, <1>8

\* The task behind a channel without its first item.
LEMMA Behind ==
  ASSUME TypeOK, OrderInv, NEW i \in Tasks, buf[i] # <<>>,
         buf'[i] = Tail(buf[i]), held'[i] = held[i], work'[i] = work[i]
  PROVE  InOrder(i)' /\ Flow(i)' = Flow(i) \ {Head(buf[i])}
<1>1. InOrder(i)
  BY DEF OrderInv
<1>2. /\ Range(buf[i]) = {Head(buf[i])} \cup Range(Tail(buf[i])) /\ Asc(Tail(buf[i]))
      /\ Before({Head(buf[i])}, Range(Tail(buf[i])) \cup Range(held[i]) \cup Range(work[i]))
      /\ Head(buf[i]) \in Nat
  BY First, ItemNumbers
<1>3. InOrder(i)'
  BY <1>1, <1>2 DEF InOrder, Before
<1>4. Head(buf[i]) \notin Range(Tail(buf[i])) \cup Range(held[i]) \cup Range(work[i])
  BY <1>2 DEF Before
<1> QED
  BY <1>2, <1>3, <1>4 DEF Flow

LEMMA RecvSteps ==
  ASSUME Whole, Sound, NEW i \in Stages, StageRecv(i)
  PROVE  Fine
<1> DEFINE k == i - 1
           h == Head(buf[k])
<1>t. /\ TypeOK /\ OrderInv /\ ShapeInv /\ PartInv /\ PartInv /\ RecordInv
      /\ i \in Tasks /\ k \in Tasks /\ k # i /\ k < i
  BY Neighbours DEF Whole, IInv, PlaceInv, Tasks, Stages
<1>1. Hidden /\ UNCHANGED <<errbuf, dlqCur>>
  BY DEF Hidden, StageRecv, errs, caller
<1>2. /\ buf[k] # <<>> /\ work[i] = <<>> /\ held' = held
      /\ \A j \in Tasks : buf'[j] = IF j = k THEN Tail(buf[k]) ELSE buf[j]
  BY <1>t DEF StageRecv, TypeOK, ShapeInv
<1>3. /\ h \in Flow(k) /\ h \in Items
      /\ \A j \in Tasks : j < k => Before({h}, Flow(j))
      /\ \A j \in Tasks : k < j => Before(Flow(j), {h})
      /\ \A j \in Tasks \ {k} : h \notin Flow(j)
      /\ Before(Range(delivered), {h})
  BY <1>t, <1>2, First
<1>4. CASE work' = work /\ lost' = lost \cup {h}
  <2>1. InOrder(k)' /\ Flow(k)' = Flow(k) \ {h}
    BY <1>t, <1>2, <1>4, Behind
  <2>2. ASSUME NEW j \in Tasks, j # k PROVE InOrder(j)' /\ Flow(j)' = Flow(j) \ {h}
    <3>1. InOrder(j) /\ buf'[j] = buf[j] /\ h \notin Flow(j)
      BY <1>t, <1>2, <1>3, <2>2 DEF OrderInv
    <3> QED
      BY <1>2, <1>4, <3>1 DEF InOrder, Flow
  <2> HIDE DEF k, h
  <2>3. OrderInv' /\ Flowing' = Flowing \ {h}
    <3>1. \A j \in Tasks : InOrder(j)' /\ Flow(j)' = Flow(j) \ {h}
      BY <2>1, <2>2
    <3> QED
      BY <1>1, <1>t, <3>1, Shrinks DEF Hidden
  <2>4. h \in Flowing
    BY <1>3, <1>t DEF Flowing
  <2>5. RecordInv'
    BY <1>1, <1>t DEF RecordInv, Hidden
  <2>6. PartInv'
    <3>1. Unwritten' = (Unwritten \ {}) \cup {}
      BY <1>1 DEF Unwritten
    <3>2. Settled' = Settled \cup ({h} \ {}) \cup {}
      BY <1>1, <1>4 DEF Settled, Hidden
    <3>3. {h} \in SUBSET Flowing /\ pulled' = pulled
      BY <1>1, <2>4 DEF Hidden
    <3> QED
      BY <1>t, <2>3, <3>1, <3>2, <3>3, Transfer
  <2>7. [Abstract!Next]_(Abstract!vars)
    <3>1. /\ NoSilentLoss' /\ faults \subseteq faults' /\ {h} \in SUBSET (Flowing \cup Unwritten)
      BY <2>4 DEF Sound
    <3> QED
      BY <1>1, <1>4, <1>t, <3>1, Vanishes DEF Hidden
  <2> QED
    BY <2>3, <2>5, <2>6, <2>7 DEF Fine
<1>5. CASE work' = [work EXCEPT ![i] = <<h>>] /\ lost' = lost
  <2>0. work'[i] = <<h>> /\ \A j \in Tasks \ {i} : work'[j] = work[j]
    BY <1>5, <1>t DEF TypeOK
  <2>1. InOrder(k)' /\ Flow(k)' = Flow(k) \ {h}
    BY <1>t, <1>2, <2>0, Behind
  <2>2. ASSUME NEW j \in Tasks, j # k, j # i PROVE InOrder(j)' /\ Flow(j)' = Flow(j)
    <3>1. InOrder(j) /\ buf'[j] = buf[j] /\ work'[j] = work[j]
      BY <1>t, <1>2, <2>0, <2>2 DEF OrderInv
    <3> QED
      BY <1>2, <3>1 DEF InOrder, Flow
  <2>3. /\ Range(<<h>>) = {h} /\ Asc(<<h>>) /\ Range(<<>>) = {}
    <3>1. <<h>> \in Seq(Items) /\ Len(<<h>>) <= 1
      BY <1>3
    <3> QED
      BY <1>3, <3>1, Ranges, Ascents
  <2>4. InOrder(i)' /\ Flow(i)' = Flow(i) \cup {h}
    <3>1. InOrder(i) /\ buf'[i] = buf[i]
      BY <1>t, <1>2 DEF OrderInv
    <3>2. Before(Flow(i), {h})
      BY <1>3, <1>t
    <3>3. Before(Range(buf[i]), {h}) /\ Before(Range(held[i]), {h})
      BY <3>2 DEF Before, Flow
    <3>4. Flow(i)' = Range(buf'[i]) \cup Range(held'[i]) \cup Range(work'[i])
      BY DEF Flow
    <3>5. Flow(i)' = Flow(i) \cup {h}
      BY <1>2, <2>0, <2>3, <3>1, <3>4 DEF Flow
    <3> QED
      BY <1>2, <2>0, <2>3, <3>1, <3>3, <3>5 DEF InOrder, Before
  <2>b. Before({h}, Flow(k) \ {h})
    BY <1>t, <1>2, First DEF Flow, Before
  <2> HIDE DEF h
  <2>5. OrderInv'
    <3>1. ASSUME NEW a \in Tasks, NEW b \in Tasks, b < a
          PROVE  Before(Flow(a)', Flow(b)')
      <4>0. Before(Flow(a), Flow(b))
        BY <1>t, <3>1 DEF OrderInv
      <4>1. CASE a = i /\ b = k
        BY <4>0, <4>1, <2>1, <2>4, <2>b DEF Before
      <4>2. CASE a = i /\ b # k
        <5>1. b < k /\ b # i
          BY <3>1, <4>2 DEF Tasks
        <5>2. Flow(b)' = Flow(b) /\ Flow(a)' = Flow(a) \cup {h} /\ Before({h}, Flow(b))
          BY <1>3, <2>2, <2>4, <3>1, <4>2, <5>1
        <5> QED
          BY <4>0, <5>2 DEF Before
      <4>3. CASE b = i
        <5>1. a # k /\ a # i /\ k < a
          BY <3>1, <4>3 DEF Tasks
        <5>2. Flow(a)' = Flow(a) /\ Flow(b)' = Flow(b) \cup {h} /\ Before(Flow(a), {h})
          BY <1>3, <2>2, <2>4, <4>3, <5>1
        <5> QED
          BY <4>0, <5>2 DEF Before
      <4>4. CASE a # i /\ b # i
        <5>1. Flow(a)' \subseteq Flow(a) /\ Flow(b)' \subseteq Flow(b)
          BY <2>1, <2>2, <4>4
        <5> QED
          BY <4>0, <5>1 DEF Before
      <4> QED
        BY <4>1, <4>2, <4>3, <4>4
    <3>2. ASSUME NEW j \in Tasks PROVE Before(Range(delivered), Flow(j)')
      <4>1. Before(Range(delivered), Flow(j)) /\ Flow(j)' \subseteq Flow(j) \cup {h}
        BY <1>t, <2>1, <2>2, <2>4 DEF OrderInv
      <4> QED
        BY <1>3, <4>1 DEF Before
    <3>3. \A j \in Tasks : InOrder(j)'
      BY <2>1, <2>2, <2>4
    <3>4. Range(delivered)' = Range(delivered)
      BY <1>1 DEF Hidden
    <3> QED
      BY <3>1, <3>2, <3>3, <3>4 DEF OrderInv
  <2>6. Flowing' = Flowing
    <3>1. \A j \in Tasks : Flow(j)' \subseteq Flow(j) \cup {h}
      BY <2>1, <2>2, <2>4
    <3>2. \A j \in Tasks : Flow(j) \subseteq Flow(j)' \cup {h}
      BY <2>1, <2>2, <2>4
    <3>3. h \in Flowing
      BY <1>3, <1>t DEF Flowing
    <3>4. h \in Flowing'
      BY <2>4, <1>t DEF Flowing
    <3>5. Flowing' \subseteq Flowing
      BY <3>1, <3>3 DEF Flowing
    <3>6. Flowing \subseteq Flowing'
      BY <3>2, <3>4 DEF Flowing
    <3> QED
      BY <3>5, <3>6
  <2>7. RecordInv' /\ PartInv'
    BY <1>1, <1>5, <1>t, <2>6 DEF RecordInv, PartInv, Hidden, Unwritten, Settled
  <2>8. [Abstract!Next]_(Abstract!vars)
    <3>1. /\ NoSilentLoss' /\ faults \subseteq faults' /\ {} \in SUBSET (Flowing \cup Unwritten)
          /\ lost' = lost \cup {}
      BY <1>5 DEF Sound
    <3> QED
      BY <1>1, <1>t, <3>1, Vanishes DEF Hidden
  <2> QED
    BY <2>5, <2>7, <2>8 DEF Fine
<1> QED
  BY <1>4, <1>5 DEF StageRecv

\* A step of the caller: the next item comes out after all that have come.
LEMMA DeliverStep ==
  ASSUME Whole, Sound, Deliver
  PROVE  Fine
<1> DEFINE h == Head(buf[N])
<1>t. /\ TypeOK /\ OrderInv /\ PartInv /\ RecordInv /\ N \in Tasks
      /\ delivered \in Seq(Items)
  BY Neighbours DEF Whole, IInv, PlaceInv, TypeOK
<1>1. /\ buf[N] # <<>> /\ work' = work /\ held' = held
      /\ \A j \in Tasks : buf'[j] = IF j = N THEN Tail(buf[N]) ELSE buf[j]
      /\ delivered' = Append(delivered, h) /\ term # "done" /\ term' = term
      /\ UNCHANGED <<pulled, errbuf, dlqCur, written, filtered, lost, faults, summary>>
  BY <1>t DEF Deliver, TypeOK, errs, history
<1>2. /\ h \in Flow(N) /\ h \in Items
      /\ \A j \in Tasks : j < N => Before({h}, Flow(j))
      /\ \A j \in Tasks \ {N} : h \notin Flow(j)
      /\ Before(Range(delivered), {h})
      /\ Before({h}, Range(Tail(buf[N])) \cup Range(held[N]) \cup Range(work[N]))
  BY <1>t, <1>1, First
<1>3. InOrder(N)' /\ Flow(N)' = Flow(N) \ {h}
  BY <1>t, <1>1, Behind
<1>4. ASSUME NEW j \in Tasks, j # N PROVE InOrder(j)' /\ Flow(j)' = Flow(j) \ {h}
  <2>1. InOrder(j) /\ buf'[j] = buf[j] /\ h \notin Flow(j)
    BY <1>t, <1>1, <1>2, <1>4 DEF OrderInv
  <2> QED
    BY <1>1, <2>1 DEF InOrder, Flow
<1>b. Before({h}, Flow(N)')
  BY <1>1, <1>2, <1>t DEF Flow
<1>5. Range(delivered') = Range(delivered) \cup {h}
  BY <1>1, <1>2, <1>t, Ranges
<1> HIDE DEF h
<1>6. OrderInv' /\ Flowing' = Flowing \ {h}
  <2>1. Flowing' = Flowing \ {h}
    BY <1>3, <1>4 DEF Flowing
  <2>2. \A i, j \in Tasks : j < i => Before(Flow(i)', Flow(j)')
    BY <1>3, <1>4, <1>t DEF OrderInv, Before
  <2>3. ASSUME NEW j \in Tasks PROVE Before(Range(delivered'), Flow(j)')
    <3>1. Before(Range(delivered), Flow(j)) /\ Flow(j)' \subseteq Flow(j)
      BY <1>3, <1>4, <1>t DEF OrderInv
    <3>2. Before({h}, Flow(j)')
      <4>1. CASE j = N
        BY <1>b, <4>1
      <4>2. CASE j # N
        <5>1. j < N
          BY <4>2 DEF Tasks
        <5> QED
          BY <1>2, <3>1, <5>1 DEF Before
      <4> QED
        BY <4>1, <4>2
    <3> QED
      BY <1>5, <3>1, <3>2 DEF Before
  <2> QED
    BY <1>3, <1>4, <2>1, <2>2, <2>3 DEF OrderInv
<1>7. h \in Flowing
  BY <1>2, <1>t DEF Flowing
<1>8. RecordInv'
  BY <1>1, <1>t DEF RecordInv
<1>9. PartInv'
  <2>1. Unwritten' = (Unwritten \ {}) \cup {}
    BY <1>1 DEF Unwritten
  <2>2. Settled' = Settled \cup ({h} \ {}) \cup {}
    BY <1>1, <1>5 DEF Settled
  <2>3. {h} \in SUBSET Flowing /\ pulled' = pulled
    BY <1>1, <1>7
  <2> QED
    BY <1>t, <1>6, <2>1, <2>2, <2>3, Transfer
<1>10. [Abstract!Next]_(Abstract!vars)
  <2>1. h \in Abstract!InFlight
    BY <1>7, <1>t, StillInFlight
  <2>2. \A y \in Abstract!Range(delivered) : y < h
    BY <1>2 DEF Before, Range, Abstract!Range
  <2>3. Abstract!Deliver(h)
    BY <1>1, <2>2 DEF Abstract!Deliver
  <2> QED
    BY <2>1, <2>3 DEF Abstract!Next
<1> QED
  BY <1>6, <1>8, <1>9, <1>10 DEF Fine

LEMMA SourceNextStep ==
  ASSUME Whole, Sound, SourceNext
  PROVE  Fine
<1> DEFINE x == pulled + 1
<1>t. /\ TypeOK /\ OrderInv /\ PartInv /\ RecordInv /\ ShapeInv /\ 0 \in Tasks
      /\ pulled \in Nat
  BY Neighbours DEF Whole, IInv, PlaceInv, TypeOK
<1>1. /\ work'[0] = <<x>> /\ \A j \in Tasks \ {0} : work'[j] = work[j]
      /\ held' = held /\ buf' = buf /\ pulled' = x /\ pulled < NumItems
      /\ work[0] = <<>> /\ held[0] = <<>> /\ pc[0] = "recv"
      /\ UNCHANGED <<errbuf, dlqCur, delivered, written, filtered, lost, faults, summary, term>>
  BY <1>t DEF SourceNext, TypeOK, ShapeInv, Whole, IInv, WorkInv, errs, caller, history
<1>2. /\ \A y \in Flowing \cup Unwritten \cup Settled : y \in Nat /\ y < x
      /\ 1..x = (1..pulled) \cup {x} /\ x \in Items /\ x \in Nat
      /\ x \notin Flowing \cup Unwritten \cup Settled
  BY <1>1, <1>t DEF PartInv, Items
<1>3. /\ Range(<<x>>) = {x} /\ Asc(<<x>>) /\ Range(<<>>) = {}
  <2>1. <<x>> \in Seq(Items) /\ Len(<<x>>) <= 1
    BY <1>2
  <2> QED
    BY <1>2, <2>1, Ranges, Ascents
<1> HIDE DEF x
<1>4. \A j \in Tasks : Flow(j) \subseteq Flowing
  BY DEF Flowing
<1>5. InOrder(0)' /\ Flow(0)' = Flow(0) \cup {x}
  <2>1. InOrder(0) /\ Before(Range(buf[0]), {x})
    BY <1>2, <1>4, <1>t DEF OrderInv, Before, Flow
  <2>2. Flow(0)' = Range(buf'[0]) \cup Range(held'[0]) \cup Range(work'[0])
    BY DEF Flow
  <2>3. Flow(0)' = Flow(0) \cup {x}
    BY <1>1, <1>3, <2>2 DEF Flow
  <2> QED
    BY <1>1, <1>3, <2>1, <2>3 DEF InOrder, Before
<1>6. ASSUME NEW j \in Tasks, j # 0 PROVE InOrder(j)' /\ Flow(j)' = Flow(j)
  <2>1. InOrder(j) /\ work'[j] = work[j]
    BY <1>1, <1>6, <1>t DEF OrderInv
  <2> QED
    BY <1>1, <2>1 DEF InOrder, Flow
<1>7. OrderInv'
  <2>1. ASSUME NEW a \in Tasks, NEW b \in Tasks, b < a PROVE Before(Flow(a)', Flow(b)')
    <3>1. /\ Before(Flow(a), Flow(b)) /\ a # 0
          /\ \A y \in Flow(a) : y < x
      BY <1>2, <1>4, <1>t, <2>1 DEF OrderInv, Tasks
    <3>2. Flow(a)' = Flow(a) /\ Flow(b)' \subseteq Flow(b) \cup {x}
      BY <1>5, <1>6, <3>1
    <3> QED
      BY <3>1, <3>2 DEF Before
  <2>2. ASSUME NEW j \in Tasks PROVE Before(Range(delivered), Flow(j)')
    <3>1. /\ Before(Range(delivered), Flow(j)) /\ Flow(j)' \subseteq Flow(j) \cup {x}
          /\ \A y \in Range(delivered) : y < x
      BY <1>2, <1>5, <1>6, <1>t DEF OrderInv, Settled
    <3> QED
      BY <3>1 DEF Before
  <2> QED
    BY <1>1, <1>5, <1>6, <2>1, <2>2 DEF OrderInv
<1>8. Flowing' = Flowing \cup {x}
  <2>1. \A j \in Tasks : Flow(j)' \subseteq Flowing \cup {x}
    BY <1>4, <1>5, <1>6
  <2>2. \A j \in Tasks : Flow(j) \subseteq Flow(j)'
    BY <1>5, <1>6
  <2>3. x \in Flow(0)'
    BY <1>5
  <2> QED
    BY <2>1, <2>2, <2>3, <1>t DEF Flowing
<1>9. RecordInv' /\ PartInv'
  <2>1. Unwritten' = Unwritten /\ Settled' = Settled
    BY <1>1 DEF Unwritten, Settled
  <2> QED
    BY <1>1, <1>2, <1>8, <1>t, <2>1 DEF RecordInv, PartInv
<1>10. [Abstract!Next]_(Abstract!vars)
  <2>1. term = "done" => ~(faults \subseteq {"dlq_flush"})
    <3> SUFFICES ASSUME term = "done", faults \subseteq {"dlq_flush"} PROVE FALSE
      OBVIOUS
    <3>1. dlq = "done" /\ DlqSound
      BY DEF Whole, IInv, CallerInv, DlqInv, DlqSound
    <3>2. SendersGone
      BY <3>1 DEF Whole, IInv, DlqInv
    <3> QED
      BY <1>1, <1>t, <3>2 DEF SendersGone, Ended
  <2>2. Abstract!Accept
    BY <1>1, <2>1 DEF Abstract!Accept, x
  <2> QED
    BY <2>2 DEF Abstract!Next
<1> QED
  BY <1>7, <1>9, <1>10 DEF Fine

LEMMA ItemsOfUnion ==
  /\ ItemsOf({}) = {}
  /\ \A P, Q : ItemsOf(P \cup Q) = ItemsOf(P) \cup ItemsOf(Q)
  /\ \A p : ItemsOf({p}) = {p.item} \ {NoItem}
BY DEF ItemsOf

LEMMA OnceAppend ==
  ASSUME NEW s \in Seq(Payloads), NEW p \in Payloads, Once(s),
         p.item = NoItem \/ p.item \notin ItemsOf(Range(s))
  PROVE  Once(Append(s, p))
<1> SUFFICES ASSUME NEW j \in DOMAIN Append(s, p), NEW k \in DOMAIN Append(s, p),
                    Append(s, p)[j].item = Append(s, p)[k].item,
                    Append(s, p)[j].item # NoItem
             PROVE  j = k
  BY DEF Once
<1>0. \A n \in DOMAIN s : s[n].item = NoItem \/ s[n].item \in ItemsOf(Range(s))
  BY DEF ItemsOf, Range
<1>1. /\ j \in DOMAIN s => Append(s, p)[j] = s[j]
      /\ j \notin DOMAIN s => j = Len(s) + 1 /\ Append(s, p)[j] = p
      /\ k \in DOMAIN s => Append(s, p)[k] = s[k]
      /\ k \notin DOMAIN s => k = Len(s) + 1 /\ Append(s, p)[k] = p
  OBVIOUS
<1>2. CASE j \in DOMAIN s /\ k \in DOMAIN s
  BY <1>1, <1>2 DEF Once
<1>3. CASE j \in DOMAIN s /\ k \notin DOMAIN s
  BY <1>0, <1>1, <1>3
<1>4. CASE j \notin DOMAIN s /\ k \in DOMAIN s
  BY <1>0, <1>1, <1>4
<1>5. CASE j \notin DOMAIN s /\ k \notin DOMAIN s
  BY <1>1, <1>5
<1> QED
  BY <1>2, <1>3, <1>4, <1>5

LEMMA OnceTail ==
  ASSUME NEW s \in Seq(Payloads), Once(s), s # <<>>
  PROVE  /\ Once(Tail(s))
         /\ Head(s).item # NoItem => Head(s).item \notin ItemsOf(Range(Tail(s)))
<1>1. /\ \A j \in DOMAIN Tail(s) : j + 1 \in DOMAIN s /\ Tail(s)[j] = s[j + 1] /\ j \in Nat
                                   /\ j # 0
      /\ 1 \in DOMAIN s /\ s[1] = Head(s)
  OBVIOUS
<1>2. Once(Tail(s))
  <2> SUFFICES ASSUME NEW j \in DOMAIN Tail(s), NEW k \in DOMAIN Tail(s),
                      Tail(s)[j].item = Tail(s)[k].item, Tail(s)[j].item # NoItem
               PROVE  j = k
    BY DEF Once
  <2>1. j + 1 = k + 1
    BY <1>1 DEF Once
  <2> QED
    BY <1>1, <2>1
<1>3. ASSUME NEW j \in DOMAIN Tail(s), Head(s).item # NoItem
      PROVE  Tail(s)[j].item # Head(s).item
  <2>1. j + 1 # 1
    BY <1>1
  <2> QED
    BY <1>1, <1>3, <2>1 DEF Once
<1>4. Head(s).item # NoItem => Head(s).item \notin ItemsOf(Range(Tail(s)))
  BY <1>3 DEF ItemsOf, Range
<1> QED
  BY <1>2, <1>4

LEMMA FilterSteps ==
  ASSUME Whole, Sound, NEW i \in Stages, NodeFilter(i)
  PROVE  Fine
<1>t. /\ TypeOK /\ OrderInv /\ PartInv /\ RecordInv /\ ShapeInv /\ i \in Tasks
  BY Neighbours DEF Whole, IInv, PlaceInv
<1>1. /\ pc[i] = "exec" /\ filtered' = filtered \cup Range(work[i])
      /\ \A j \in Tasks : /\ buf'[j] = buf[j] /\ held'[j] = held[j]
                          /\ work'[j] = IF j \in {i} THEN <<>> ELSE work[j]
      /\ UNCHANGED <<pulled, errbuf, dlqCur, delivered, written, lost, faults, summary, term>>
  BY <1>t DEF NodeFilter, TypeOK, errs, caller
<1>2. PICK x \in Items : Range(work[i]) = {x}
  <2>1. work[i] \in Seq(Items) /\ Len(work[i]) = 1
    BY <1>1, <1>t DEF TypeOK, ShapeInv
  <2>2. work[i] = <<Head(work[i])>> /\ Head(work[i]) \in Items
    BY <2>1, Single
  <2>3. Range(work[i]) = {Head(work[i])}
    BY <2>2, Ranges
  <2> QED
    BY <2>2, <2>3
<1>3. Dropped({}, {}, {i}) = {x}
  <2>1. Dropped({}, {}, {i}) = Range(work[i])
    BY <1>t, ItemNumbers DEF Dropped
  <2> QED
    BY <1>2, <2>1
<1>4. OrderInv' /\ Flowing' = Flowing \ {x} /\ {x} \subseteq Flowing
  <2>1. /\ OrderInv' /\ Flowing' = Flowing \ Dropped({}, {}, {i})
        /\ Dropped({}, {}, {i}) \subseteq Flowing
    BY <1>1, <1>t, Drops
  <2> QED
    BY <1>3, <2>1
<1>5. RecordInv' /\ PartInv'
  <2>1. Unwritten' = (Unwritten \ {}) \cup {}
    BY <1>1 DEF Unwritten
  <2>2. Settled' = Settled \cup ({x} \ {}) \cup {}
    BY <1>1, <1>2 DEF Settled
  <2>3. PartInv'
    BY <1>1, <1>4, <1>t, <2>1, <2>2, Transfer
  <2> QED
    BY <1>1, <1>t, <2>3 DEF RecordInv
<1>6. [Abstract!Next]_(Abstract!vars)
  <2>1. x \in Abstract!InFlight
    BY <1>4, <1>t, StillInFlight
  <2>2. Abstract!Filter(x)
    BY <1>1, <1>2 DEF Abstract!Filter
  <2> QED
    BY <2>1, <2>2 DEF Abstract!Next
<1> QED
  BY <1>4, <1>5, <1>6 DEF Fine

LEMMA FailSteps ==
  ASSUME Whole, Sound, NEW i \in Tasks, FailSend(i)
  PROVE  Fine
<1> DEFINE p == PayloadOf(i)
           A == Range(work[i])
<1>t. /\ TypeOK /\ OrderInv /\ PartInv /\ RecordInv /\ ShapeInv
  BY DEF Whole, IInv, PlaceInv
<1>1. /\ pc[i] = "fail" /\ errbuf' = Append(errbuf, p)
      /\ \A j \in Tasks : /\ buf'[j] = buf[j] /\ held'[j] = held[j]
                          /\ work'[j] = IF j \in {i} THEN <<>> ELSE work[j]
      /\ UNCHANGED <<dlqCur, lost>> /\ Hidden
  BY <1>t DEF FailSend, TypeOK, caller, history, Hidden
<1>2. p \in Payloads /\ ItemsOf({p}) = A /\ errbuf \in Seq(Payloads) /\ A \subseteq Items
  <2>1. work[i] \in Seq(Items) /\ Len(work[i]) <= 1
    BY <1>1, <1>t DEF TypeOK, ShapeInv
  <2>2. CASE work[i] = <<>>
    <3>1. p.item = NoItem /\ p \in Payloads
      BY <2>2 DEF PayloadOf, Payload, Payloads
    <3> QED
      BY <1>t, <2>2, <3>1, Ranges, ItemsOfUnion DEF TypeOK
  <2>3. CASE work[i] # <<>>
    <3>1. work[i] = <<Head(work[i])>> /\ Head(work[i]) \in Items
      BY <2>1, <2>3, Single
    <3>2. p.item = Head(work[i]) /\ p \in Payloads /\ Head(work[i]) # NoItem
      BY <2>3, <3>1 DEF PayloadOf, Payload, Payloads, NoItem, Items
    <3>3. A = {Head(work[i])}
      BY <3>1, Ranges
    <3> QED
      BY <1>t, <3>1, <3>2, <3>3, ItemsOfUnion DEF TypeOK
  <2> QED
    BY <2>2, <2>3
<1>3. Dropped({}, {}, {i}) = A
  BY <1>t, ItemNumbers DEF Dropped
<1> HIDE DEF A, p
<1>4. OrderInv' /\ Flowing' = Flowing \ A /\ A \subseteq Flowing
  <2>1. /\ OrderInv' /\ Flowing' = Flowing \ Dropped({}, {}, {i})
        /\ Dropped({}, {}, {i}) \subseteq Flowing
    BY <1>1, <1>t, Drops DEF Hidden
  <2> QED
    BY <1>3, <2>1
<1>5. Range(errbuf') = Range(errbuf) \cup {p}
  BY <1>1, <1>2, Ranges
<1>6. Unwritten' = Unwritten \cup A
  <2>1. Range(errbuf') \cup Range(dlqCur') = (Range(errbuf) \cup Range(dlqCur)) \cup {p}
    BY <1>1, <1>5
  <2> QED
    BY <1>2, <2>1, ItemsOfUnion DEF Unwritten
<1>7. PartInv'
  <2>1. Unwritten' = (Unwritten \ {}) \cup A /\ Settled' = Settled \cup (A \ A) \cup {}
    BY <1>1, <1>6 DEF Settled, Hidden
  <2>2. A \in SUBSET Flowing /\ A \in SUBSET A /\ {} \in SUBSET Unwritten /\ pulled' = pulled
    BY <1>1, <1>4 DEF Hidden
  <2> QED
    BY <1>4, <1>t, <2>1, <2>2, Transfer
<1>8. RecordInv'
  <2>1. A \cap Unwritten = {}
    BY <1>4, <1>t DEF PartInv
  <2>2. A \cap ItemsOf(Range(errbuf)) = {} /\ A \cap ItemsOf(Range(dlqCur)) = {}
    BY <2>1, ItemsOfUnion DEF Unwritten
  <2>3. p.item = NoItem \/ p.item \notin ItemsOf(Range(errbuf))
    BY <1>2, <2>2, ItemsOfUnion
  <2>4. Once(errbuf')
    BY <1>1, <1>2, <1>t, <2>3, OnceAppend DEF RecordInv
  <2>5. ItemsOf(Range(errbuf')) \cap ItemsOf(Range(dlqCur)) = {}
    BY <1>2, <1>5, <1>t, <2>2, ItemsOfUnion DEF RecordInv
  <2> QED
    BY <1>1, <1>t, <2>4, <2>5 DEF RecordInv, Hidden
<1>9. [Abstract!Next]_(Abstract!vars)
  <2>1. /\ NoSilentLoss' /\ faults \subseteq faults' /\ {} \in SUBSET (Flowing \cup Unwritten)
        /\ lost' = lost \cup {}
    BY <1>1 DEF Sound
  <2> QED
    BY <1>1, <1>t, <2>1, Vanishes DEF Hidden
<1> QED
  BY <1>4, <1>7, <1>8, <1>9 DEF Fine

\* A step of the DLQ worker that drops the records of some items on the way to it.
LEMMA RecordDrop ==
  ASSUME Whole, Sound, UNCHANGED data, Hidden, Once(errbuf'),
         ItemsOf(Range(errbuf')) \cap ItemsOf(Range(dlqCur')) = {},
         NEW B \in SUBSET Unwritten, Unwritten' = Unwritten \ B, lost' = lost \cup B
  PROVE  Fine
<1>t. OrderInv /\ PartInv /\ RecordInv
  BY DEF Whole, PlaceInv
<1>1. \A i \in Tasks : InOrder(i)' /\ Flow(i)' = Flow(i) \ {}
  BY <1>t DEF OrderInv, InOrder, Flow, data
<1>2. OrderInv' /\ Flowing' = Flowing \ {}
  BY <1>1, <1>t, Shrinks DEF Hidden
<1>3. PartInv'
  <2>1. Unwritten' = (Unwritten \ B) \cup {} /\ Settled' = Settled \cup ({} \ {}) \cup B
    BY DEF Settled, Hidden
  <2>2. {} \in SUBSET Flowing /\ {} \in SUBSET {} /\ pulled' = pulled
    BY DEF Hidden
  <2> QED
    BY <1>2, <1>t, <2>1, <2>2, Transfer
<1>4. RecordInv'
  BY <1>t DEF RecordInv, Hidden
<1>5. [Abstract!Next]_(Abstract!vars)
  <2>1. NoSilentLoss' /\ faults \subseteq faults' /\ B \in SUBSET (Flowing \cup Unwritten)
    BY DEF Sound
  <2> QED
    BY <1>t, <2>1, Vanishes DEF Hidden
<1> QED
  BY <1>2, <1>3, <1>4, <1>5 DEF Fine

LEMMA DlqDropSteps ==
  ASSUME Whole, Sound, DlqRecv \/ DlqWriteErr \/ DlqFlush \/ DlqPanic
  PROVE  Fine
<1>t. /\ TypeOK /\ OrderInv /\ PartInv /\ RecordInv /\ DlqInv
      /\ errbuf \in Seq(Payloads) /\ dlqCur \in Seq(Payloads)
  BY DEF Whole, IInv, PlaceInv, TypeOK
<1>0. UNCHANGED data /\ Hidden
  BY DEF DlqRecv, DlqWriteErr, DlqFlush, DlqPanic, DlqEnd, Hidden, caller, history, data
<1>e. Range(<<>>) = {} /\ Once(<<>>) /\ ItemsOf({}) = {}
  BY Ranges, ItemsOfUnion DEF Once
<1>u. Unwritten = ItemsOf(Range(errbuf)) \cup ItemsOf(Range(dlqCur))
  BY ItemsOfUnion DEF Unwritten
<1>v. Unwritten' = ItemsOf(Range(errbuf')) \cup ItemsOf(Range(dlqCur'))
  BY ItemsOfUnion DEF Unwritten
<1>1. CASE DlqRecv
  <2> DEFINE p == Head(errbuf)
  <2>1. /\ errbuf # <<>> /\ dlqCur = <<>> /\ dlqCur' = <<p>> /\ errbuf' = Tail(errbuf)
        /\ lost' = lost
    BY <1>1, <1>t DEF DlqRecv, DlqInv, history
  <2>2. Range(errbuf) = {p} \cup Range(errbuf') /\ p \in Payloads /\ Range(dlqCur') = {p}
    BY <1>t, <2>1, Ranges, HeadTail
  <2>3. Once(errbuf') /\ (p.item # NoItem => p.item \notin ItemsOf(Range(errbuf')))
    BY <1>t, <2>1, OnceTail DEF RecordInv
  <2>4. ItemsOf(Range(errbuf')) \cap ItemsOf(Range(dlqCur')) = {}
    BY <2>2, <2>3, ItemsOfUnion
  <2>5. Unwritten' = Unwritten
    <3>1. ItemsOf(Range(errbuf)) = ItemsOf({p}) \cup ItemsOf(Range(errbuf'))
      BY <2>2, ItemsOfUnion
    <3> QED
      BY <1>e, <1>u, <1>v, <2>1, <2>2, <3>1
  <2>6. {} \in SUBSET Unwritten /\ Unwritten' = Unwritten \ {} /\ lost' = lost \cup {}
    BY <2>1, <2>5
  <2> QED
    BY <1>0, <2>3, <2>4, <2>6, RecordDrop
<1>2. CASE DlqWriteErr
  <2>1. /\ dlqCur' = <<>> /\ errbuf' = errbuf /\ lost' = lost \cup ItemsOf(Range(dlqCur))
    BY <1>2 DEF DlqWriteErr
  <2>2. ItemsOf(Range(dlqCur)) \in SUBSET Unwritten
    BY <1>u
  <2>3. Unwritten' = Unwritten \ ItemsOf(Range(dlqCur))
    BY <1>e, <1>u, <1>v, <1>t, <2>1 DEF RecordInv
  <2>4. Once(errbuf') /\ ItemsOf(Range(errbuf')) \cap ItemsOf(Range(dlqCur')) = {}
    BY <1>e, <1>t, <2>1 DEF RecordInv
  <2> QED
    BY <1>0, <2>1, <2>2, <2>3, <2>4, RecordDrop
<1>3. CASE DlqFlush \/ DlqPanic
  <2>1. /\ dlqCur' = <<>> /\ errbuf' = <<>> /\ lost' = lost \cup Unwritten
    BY <1>3 DEF DlqFlush, DlqPanic, DlqEnd, Unwritten
  <2>2. Unwritten \in SUBSET Unwritten /\ Unwritten' = Unwritten \ Unwritten
    BY <1>e, <1>v, <2>1
  <2>3. Once(errbuf') /\ ItemsOf(Range(errbuf')) \cap ItemsOf(Range(dlqCur')) = {}
    BY <1>e, <2>1
  <2> QED
    BY <1>0, <2>1, <2>2, <2>3, RecordDrop
<1> QED
  BY <1>1, <1>2, <1>3

\* The records without an item, in the order in which they were written.
Notices(s) == {k \in DOMAIN s : s[k].item = NoItem}

LEMMA NoticesAppend ==
  ASSUME NEW s \in Seq(Payloads), NEW p \in Payloads
  PROVE  /\ p.item # NoItem => Cardinality(Notices(Append(s, p))) = Cardinality(Notices(s))
         /\ p.item = NoItem => Cardinality(Notices(Append(s, p))) = Cardinality(Notices(s)) + 1
<1>1. /\ \A k \in DOMAIN s : Append(s, p)[k] = s[k]
      /\ DOMAIN Append(s, p) = DOMAIN s \cup {Len(s) + 1} /\ Append(s, p)[Len(s) + 1] = p
      /\ Len(s) + 1 \notin DOMAIN s
  OBVIOUS
<1>2. IsFiniteSet(Notices(s))
  <2>1. IsFiniteSet(1..Len(s)) /\ DOMAIN s = 1..Len(s)
    BY FS_Interval, LenProperties
  <2> QED
    BY <2>1, FS_Subset DEF Notices
<1>3. ASSUME p.item # NoItem PROVE Notices(Append(s, p)) = Notices(s)
  BY <1>1, <1>3 DEF Notices
<1>4. ASSUME p.item = NoItem
      PROVE  /\ Notices(Append(s, p)) = Notices(s) \cup {Len(s) + 1}
             /\ Len(s) + 1 \notin Notices(s)
  BY <1>1, <1>4 DEF Notices
<1> QED
  BY <1>2, <1>3, <1>4, FS_AddElement

LEMMA WriteStep ==
  ASSUME Whole, Sound, DlqWriteOk
  PROVE  Fine
<1>t. /\ TypeOK /\ OrderInv /\ PartInv /\ RecordInv /\ DlqInv
      /\ dlqCur \in Seq(Payloads) /\ written \in Seq(Payloads)
  BY DEF Whole, IInv, PlaceInv, TypeOK
<1>1. PICK p \in Payloads : dlqCur = <<p>>
  <2>1. dlqCur # <<>> /\ Len(dlqCur) <= 1
    BY <1>t DEF DlqWriteOk, DlqInv
  <2> QED
    BY <1>t, <2>1, Single
<1>2. /\ written' = Append(written, p) /\ dlqCur' = <<>> /\ errbuf' = errbuf
      /\ UNCHANGED <<buf, held, work, pulled, delivered, filtered, lost, faults, summary, term>>
  <2>1. written \o <<p>> = Append(written, p)
    BY <1>t, AppendIsConcat
  <2> QED
    BY <1>1, <2>1 DEF DlqWriteOk, data, caller
<1>3. Range(written') = Range(written) \cup {p} /\ Range(<<p>>) = {p} /\ Range(<<>>) = {}
  BY <1>2, <1>t, Ranges
<1>4. /\ Unwritten = ItemsOf(Range(errbuf)) \cup ItemsOf({p})
      /\ Unwritten' = ItemsOf(Range(errbuf)) /\ Settled' = Settled \cup ItemsOf({p})
      /\ ItemsOf(Range(written')) = ItemsOf(Range(written)) \cup ItemsOf({p})
  <2>1. Range(dlqCur) = {p} /\ Range(dlqCur') = {}
    BY <1>1, <1>2, <1>3
  <2>2. ItemsOf(Range(written')) = ItemsOf(Range(written)) \cup ItemsOf({p})
    BY <1>3, ItemsOfUnion
  <2> QED
    BY <1>2, <2>1, <2>2, ItemsOfUnion DEF Unwritten, Settled
<1>5. OrderInv' /\ Flowing' = Flowing
  <2>1. \A i \in Tasks : InOrder(i)' /\ Flow(i)' = Flow(i) \ {}
    BY <1>2, <1>t DEF OrderInv, InOrder, Flow
  <2>2. OrderInv' /\ Flowing' = Flowing \ {}
    BY <1>2, <1>t, <2>1, Shrinks
  <2> QED
    BY <2>2
<1>6. PartInv'
  <2>1. ItemsOf(Range(errbuf)) \cap ItemsOf({p}) = {}
    BY <1>1, <1>3, <1>t DEF RecordInv
  <2>2. /\ Flowing' = Flowing \ {} /\ Unwritten' = (Unwritten \ ItemsOf({p})) \cup {}
        /\ Settled' = Settled \cup ({} \ {}) \cup ItemsOf({p})
    BY <1>4, <1>5, <2>1
  <2>3. /\ ItemsOf({p}) \in SUBSET Unwritten /\ {} \in SUBSET Flowing /\ {} \in SUBSET {}
        /\ pulled' = pulled
    BY <1>2, <1>4
  <2> QED
    BY <1>t, <2>2, <2>3, Transfer
<1>7. RecordInv'
  <2>1. ItemsOf({p}) \cap ItemsOf(Range(written)) = {}
    BY <1>4, <1>t DEF PartInv, Settled
  <2>2. p.item = NoItem \/ p.item \notin ItemsOf(Range(written))
    BY <2>1, ItemsOfUnion
  <2>3. Once(written')
    BY <1>2, <1>t, <2>2, OnceAppend DEF RecordInv
  <2> QED
    BY <1>2, <1>3, <1>t, <2>3, ItemsOfUnion DEF RecordInv
<1>8. [Abstract!Next]_(Abstract!vars)
  <2>n. /\ p.item # NoItem => Cardinality(Notices(written')) = Cardinality(Notices(written))
        /\ p.item = NoItem => Cardinality(Notices(written')) = Cardinality(Notices(written)) + 1
    BY <1>2, <1>t, NoticesAppend
  <2>1. CASE p.item = NoItem
    <3>1. ItemsOf(Range(written')) = ItemsOf(Range(written))
      BY <1>4, <2>1, ItemsOfUnion
    <3>2. term = "done" => ~(faults \subseteq {"dlq_flush"})
      BY DEF DlqWriteOk, Whole, IInv, CallerInv, DlqInv
    <3>3. Abstract!Notice
      BY <1>2, <2>1, <2>n, <3>1, <3>2 DEF Abstract!Notice, Notices
    <3> QED
      BY <3>3 DEF Abstract!Next
  <2>2. CASE p.item # NoItem
    <3>1. ItemsOf(Range(written')) = ItemsOf(Range(written)) \cup {p.item}
      BY <1>4, <2>2, ItemsOfUnion
    <3>2. p.item \in Abstract!InFlight
      BY <1>4, <1>t, <2>2, ItemsOfUnion, StillInFlight
    <3>3. Abstract!DeadLetter(p.item)
      BY <1>2, <2>2, <2>n, <3>1 DEF Abstract!DeadLetter, Notices
    <3> QED
      BY <3>2, <3>3 DEF Abstract!Next
  <2> QED
    BY <2>1, <2>2
<1> QED
  BY <1>5, <1>6, <1>7, <1>8 DEF Fine

\* Every record counts: as the item that it names, or as a notice.
LEMMA RecordsCounted ==
  ASSUME NEW s \in Seq(Payloads), Once(s)
  PROVE  Len(s) = Cardinality(ItemsOf(Range(s))) + Cardinality(Notices(s))
<1> DEFINE A == DOMAIN s \ Notices(s)
           f == [k \in A |-> s[k].item]
<1>1. IsFiniteSet(DOMAIN s) /\ Cardinality(DOMAIN s) = Len(s) /\ Len(s) \in Nat
  <2>1. Len(s) \in Nat /\ DOMAIN s = 1..Len(s)
    BY LenProperties
  <2> QED
    BY <2>1, FS_Interval
<1>2. IsFiniteSet(Notices(s)) /\ Notices(s) \subseteq DOMAIN s
  BY <1>1, FS_Subset DEF Notices
<1>3. Cardinality(A) = Cardinality(DOMAIN s) - Cardinality(DOMAIN s \cap Notices(s))
  BY <1>1, <1>2, FS_Difference
<1>4. DOMAIN s \cap Notices(s) = Notices(s)
  BY <1>2
<1>5. IsFiniteSet(A) /\ Cardinality(A) \in Nat /\ Cardinality(Notices(s)) \in Nat
  BY <1>1, <1>2, FS_Subset, FS_CardinalityType
<1>6. f \in Bijection(A, ItemsOf(Range(s)))
  <2>1. \A k \in A : f[k] \in ItemsOf(Range(s))
    BY DEF ItemsOf, Range, Notices
  <2>2. \A j, k \in A : f[j] = f[k] => j = k
    BY DEF Once, Notices
  <2>3. \A x \in ItemsOf(Range(s)) : \E k \in A : f[k] = x
    BY DEF ItemsOf, Range, Notices
  <2> QED
    BY <2>1, <2>2, <2>3 DEF Bijection, Injection, Surjection, IsInjective
<1> HIDE DEF A, f
<1>7. Cardinality(ItemsOf(Range(s))) = Cardinality(A)
  <2>1. ExistsBijection(A, ItemsOf(Range(s)))
    BY <1>6 DEF ExistsBijection
  <2> QED
    BY ONLY <1>5, <2>1, FS_Bijection
<1>8. Cardinality(A) = Len(s) - Cardinality(Notices(s))
  BY <1>1, <1>3, <1>4
<1> QED
  BY ONLY <1>1, <1>5, <1>7, <1>8

\* A run that returns without a fault leaves nothing in flight.
LEMMA NothingLeft ==
  ASSUME Whole, term = "wait", dlq = "done", faults \subseteq {"dlq_flush"}
  PROVE  /\ Flowing = {} /\ Unwritten = {}
         /\ errCount = Cardinality(ItemsOf(Range(written))) + Cardinality(Notices(written))
<1>t. /\ TypeOK /\ CallerInv /\ DlqInv /\ StageInv /\ WorkInv /\ CountInv /\ RecordInv
      /\ written \in Seq(Payloads)
  BY DEF Whole, IInv, PlaceInv, TypeOK
<1>1. Healthy /\ DlqSound
  BY DEF Healthy, DlqSound, Destructive
<1>2. (\A i \in Tasks : Ended(i)) /\ errbuf = <<>> /\ dlqCur = <<>>
  BY <1>1, <1>t DEF DlqInv, SendersGone
<1>e. Range(<<>>) = {} /\ ItemsOf({}) = {} /\ Len(<<>>) = 0
  BY Ranges, ItemsOfUnion
<1>3. Unwritten = {}
  BY <1>2, <1>e DEF Unwritten
<1>4. ASSUME NEW i \in Tasks PROVE Flow(i) = {}
  <2>1. work[i] = <<>> /\ held[i] = <<>>
    BY <1>1, <1>2, <1>t DEF WorkInv, Ended
  <2>2. buf[i] = <<>>
    <3>1. CASE i = N
      BY <1>t, <3>1 DEF CallerInv
    <3>2. CASE i # N
      <4>1. i + 1 \in Stages /\ i + 1 \in Tasks /\ (i + 1) - 1 = i
        BY <3>2 DEF Tasks, Stages
      <4>2. Past(i + 1)
        BY <1>2, <4>1 DEF Past, Ended
      <4>3. buf[(i + 1) - 1] = <<>>
        BY <1>1, <1>t, <4>1, <4>2 DEF StageInv
      <4> QED
        BY <4>1, <4>3
    <3> QED
      BY <3>1, <3>2
  <2> QED
    BY <2>1, <2>2, <1>e DEF Flow
<1>5. Flowing = {}
  BY <1>4 DEF Flowing
<1>6. errCount = Len(written)
  <2>1. Len(written) \in Nat /\ errCount = Len(written) + 0
    BY <1>1, <1>2, <1>e, <1>t, LenProperties DEF CountInv
  <2> QED
    BY <2>1
<1> QED
  BY <1>3, <1>5, <1>6, <1>t, RecordsCounted DEF RecordInv

LEMMA ReturnSteps ==
  ASSUME Whole, Sound, Joined \/ JoinPanicked \/ GraceExpired
  PROVE  Fine
<1>t. /\ TypeOK /\ OrderInv /\ PartInv /\ RecordInv /\ DlqInv
  BY DEF Whole, IInv, PlaceInv
<1>1. PICK e \in Nat : summary' = [ok |-> Len(delivered), err |-> e]
                       /\ (faults' \subseteq {"dlq_flush"} => dlq = "done" /\ e = errCount)
  <2>1. errCount \in Nat
    BY <1>t DEF TypeOK
  <2>2. CASE Joined
    BY <2>1, <2>2 DEF Joined, Return
  <2>3. CASE JoinPanicked
    <3>1. summary' = [ok |-> Len(delivered), err |-> 0] /\ "dlq_panic" \in faults'
      BY <1>t, <2>3 DEF JoinPanicked, Return, DlqInv
    <3> QED
      BY <3>1
  <2>4. CASE GraceExpired
    <3>1. summary' = [ok |-> Len(delivered), err |-> 0] /\ "grace" \in faults'
      BY <2>4 DEF GraceExpired, Return, Inject
    <3> QED
      BY <3>1
  <2> QED
    BY <2>2, <2>3, <2>4
<1>2. /\ term = "wait" /\ term' = "done" /\ faults \subseteq faults'
      /\ UNCHANGED <<buf, held, work, pulled, errbuf, dlqCur, delivered, written, filtered, lost>>
  BY DEF Joined, JoinPanicked, GraceExpired, Return, data, errs, Sound
<1>3. OrderInv' /\ Flowing' = Flowing
  <2>1. \A i \in Tasks : InOrder(i)' /\ Flow(i)' = Flow(i) \ {}
    BY <1>2, <1>t DEF OrderInv, InOrder, Flow
  <2>2. OrderInv' /\ Flowing' = Flowing \ {}
    BY <1>2, <1>t, <2>1, Shrinks
  <2> QED
    BY <2>2
<1>4. RecordInv' /\ PartInv'
  BY <1>2, <1>3, <1>t DEF RecordInv, PartInv, Unwritten, Settled
<1>5. [Abstract!Next]_(Abstract!vars)
  <2>1. ASSUME faults' \subseteq {"dlq_flush"}
        PROVE  /\ Abstract!InFlight = {}
               /\ e = Cardinality(ItemsOf(Range(written))) + Cardinality(Notices(written))
    BY <1>1, <1>2, <1>t, <2>1, NothingLeft, StillInFlight
  <2>2. summary' \in [ok : {Len(delivered)}, err : Nat] /\ summary'.err = e
    BY <1>1
  <2>3. (~(faults' \subseteq {"dlq_flush"})) \in {~(faults \subseteq {"dlq_flush"}), TRUE}
    BY <1>2
  <2>4. (term' = "done") = TRUE /\ ~(term = "done")
    BY <1>2
  <2>5. Abstract!Return
    <3>1. Abstract!Cardinality(ItemsOf(Range(written))) = Cardinality(ItemsOf(Range(written)))
      BY DEF Cardinality, Abstract!Cardinality
    <3> QED
      BY <1>2, <2>1, <2>2, <2>3, <2>4, <3>1 DEF Abstract!Return, Notices
  <2> QED
    BY <2>5 DEF Abstract!Next
<1> QED
  BY <1>3, <1>4, <1>5 DEF Fine

LEMMA EveryStep == Whole /\ [Next]_vars => Whole' /\ [Abstract!Next]_(Abstract!vars)
<1> SUFFICES ASSUME Whole, [Next]_vars PROVE Whole' /\ [Abstract!Next]_(Abstract!vars)
  OBVIOUS
<1>1. IInv'
  BY TypeStep, CallerInvStep, DlqInvStep, StageInvStep, WorkInvStep, CountInvStep, LossStep
     DEF IInv, Whole
<1>2. Sound
  BY <1>1, MonotoneStep DEF Sound, Monotone, IInv, Whole
<1>3. ShapeInv'
  BY ShapeStep DEF Whole, IInv, PlaceInv
<1>4. Fine
  BY <1>2, QuietSteps, DropSteps, StaySteps, FlushSteps, RecvSteps, DeliverStep,
     SourceNextStep, FilterSteps, FailSteps, DlqDropSteps, WriteStep, ReturnSteps
     DEF Next, SourceStep, StageStep, SendStep, DlqStep, CallerStep, Finished
<1> QED
  BY <1>1, <1>3, <1>4 DEF Whole, PlaceInv, Fine

LEMMA FirstState == Init => Whole /\ Abstract!Init
<1> SUFFICES ASSUME Init PROVE Whole /\ Abstract!Init
  OBVIOUS
<1>1. IInv
  BY InitInv
<1>2. /\ pulled = 0 /\ delivered = <<>> /\ written = <<>> /\ errbuf = <<>> /\ dlqCur = <<>>
      /\ filtered = {} /\ lost = {} /\ faults = {} /\ summary = [ok |-> 0, err |-> 0]
      /\ term = "recv"
      /\ \A i \in Tasks : buf[i] = <<>> /\ held[i] = <<>> /\ work[i] = <<>> /\ pc[i] = "recv"
  BY DEF Init
<1>e. /\ Range(<<>>) = {} /\ ItemsOf({}) = {} /\ Asc(<<>>) /\ Once(<<>>)
      /\ \A R : Before({}, R) /\ Before(R, {})
  BY Ranges, ItemsOfUnion, Ascents DEF Once, Before
<1>3. \A i \in Tasks : InOrder(i) /\ Flow(i) = {}
  BY <1>2, <1>e DEF InOrder, Flow
<1>4. OrderInv /\ Flowing = {}
  BY <1>2, <1>3, <1>e DEF OrderInv, Flowing
<1>5. Unwritten = {} /\ Settled = {}
  BY <1>2, <1>e DEF Unwritten, Settled
<1>6. PartInv /\ RecordInv /\ ShapeInv
  <2>1. 1..0 = {}
    OBVIOUS
  <2>2. PartInv
    BY <1>2, <1>4, <1>5, <2>1 DEF PartInv
  <2>3. RecordInv
    BY <1>2, <1>e DEF RecordInv
  <2>4. ShapeInv
    BY <1>2 DEF ShapeInv
  <2> QED
    BY <2>2, <2>3, <2>4
<1>7. Cardinality({k \in DOMAIN written : written[k].item = NoItem}) = 0
  <2>1. {k \in DOMAIN written : written[k].item = NoItem} = {}
    BY <1>2
  <2> QED
    BY <2>1, FS_EmptySet
<1>8. Abstract!Init
  <2>1. (~(faults \subseteq {"dlq_flush"})) = FALSE /\ (term = "done") = FALSE
    BY <1>2
  <2>2. ItemsOf(Range(written)) = {}
    BY <1>2, <1>e
  <2> QED
    BY <1>2, <1>7, <2>1, <2>2 DEF Abstract!Init
<1> QED
  BY <1>1, <1>4, <1>6, <1>8 DEF Whole, PlaceInv

\* The run implements Delivery, for every number and kind of stages, every buffer size
\* and any faults: each item is delivered in order, dead-lettered or filtered, once;
\* a run that returns without a fault has settled all of them and its
\* ExecutionSummary is exact (lib.rs:7-10, pipeline.rs:482-517).
THEOREM Refinement == Spec => Delivers
<1>1. Init => Whole /\ Abstract!Init
  BY FirstState
<1>2. Whole /\ [Next]_vars => Whole' /\ [Abstract!Next]_(Abstract!vars)
  BY EveryStep
<1> QED
  BY <1>1, <1>2, PTL DEF Spec, Delivers, Abstract!Spec
=============================================================================
