------------------------------ MODULE Pipeline ------------------------------
(***************************************************************************)
(* One ferrorag Pipeline at run time: a source task, a chain of N stage    *)
(* tasks (validate or pipe), the caller that runs execute / collect /      *)
(* for_each, and the dead-letter (DLQ) worker.  The tasks are joined by    *)
(* bounded mpsc channels; every task and the caller hold a sender of one   *)
(* shared error channel whose receiver is the DLQ worker                   *)
(* (crates/core/src/pipeline.rs).                                          *)
(*                                                                         *)
(* Task 0 is the source, tasks 1..N are the stages; buf[i] is the channel  *)
(* from task i to task i+1, and buf[N] the one the caller drains.  A task  *)
(* takes one step between two awaits.  Items are numbered in the order the *)
(* source yields them.                                                     *)
(***************************************************************************)
EXTENDS Integers, Sequences, FiniteSets, Functions

CONSTANTS
  N,          \* number of stages
  Kind,       \* Kind[i] : "validate" or "pipe", the constructor of stage i
  NumItems,   \* the source yields at most this many items (a bound)
  Capacity,   \* Capacity[i] : the buffer_size of channel i
  WithToken,  \* is there a cancellation token somebody can cancel
  Faults      \* the faults the environment may inject

Stages == 1..N
Tasks  == 0..N
Items  == 1..NumItems

FaultKinds == {"panic", "node_flush", "dlq_write", "dlq_panic", "dlq_flush",
               "grace", "abandon"}

ASSUME SizeAssumption     == N \in Nat /\ NumItems \in Nat
ASSUME KindAssumption     == Kind \in [Stages -> {"validate", "pipe"}]
ASSUME CapacityAssumption == Capacity \in [Tasks -> Nat \ {0}]
ASSUME FaultAssumption    == Faults \subseteq FaultKinds /\ WithToken \in BOOLEAN

VARIABLES
  pulled,     \* items the source has yielded so far
  cancelled,  \* the cancellation token has been triggered
  pc,         \* pc[i] : where task i is in its loop
  buf,        \* buf[i] : the content of channel i
  work,       \* work[i] : the item task i is executing, or its unsent outputs
  held,       \* held[i] : items the node of stage i keeps for a later output
  flushed,    \* flushed[i] : the node of stage i has been flushed
  errbuf,     \* the content of the error channel
  dlq,        \* where the DLQ worker is in its loop
  dlqCur,     \* the payloads the DLQ worker has taken and not yet written
  errCount,   \* its local error_count
  term,       \* where the caller of execute / collect / for_each is
  delivered,  \* what the caller has received
  summary,    \* the ExecutionSummary
  \* History variables: no step of the code reads them.
  raised,     \* payloads made so far
  written,    \* the payloads dlq.write has accepted, in order
  filtered,   \* items a node consumed without an output
  lost,       \* items that were dropped with a channel, a task or a payload
  faults      \* the faults that have happened

data    == <<pulled, cancelled, pc, buf, work, held, flushed>>
errs    == <<errbuf, dlq, dlqCur, errCount>>
caller  == <<term, delivered, summary>>
history == <<raised, written, filtered, lost, faults>>
vars    == <<data, errs, caller, history>>

Payload(i, x) == [node |-> i, item |-> x]
NoItem        == 0
Payloads      == [node : Tasks, item : Items \cup {NoItem}]
ItemsOf(P)    == {p.item : p \in P} \ {NoItem}

-----------------------------------------------------------------------------
Init ==
  /\ pulled = 0
  /\ cancelled = FALSE
  /\ pc = [i \in Tasks |-> "recv"]
  /\ buf = [i \in Tasks |-> <<>>]
  /\ work = [i \in Tasks |-> <<>>]
  /\ held = [i \in Tasks |-> <<>>]
  /\ flushed = [i \in Tasks |-> FALSE]
  /\ errbuf = <<>> /\ dlq = "recv" /\ dlqCur = <<>> /\ errCount = 0
  /\ term = "recv" /\ delivered = <<>> /\ summary = [ok |-> 0, err |-> 0]
  /\ raised = 0
  /\ written = <<>>
  /\ filtered = {} /\ lost = {} /\ faults = {}

-----------------------------------------------------------------------------
(* Channels.  A receiver is dropped when the task that owns it ends.       *)

Ended(i)   == pc[i] = "done"
Closed(i)  == IF i = N THEN term \in {"done", "gone"} ELSE Ended(i + 1)

DlqClosed  == dlq \in {"done", "panicked"}

\* Mutant: only the source task got a sender of the error channel.
OnlySourceSends == Ended(0)

\* Mutant: the caller drops its sender after the join, not before.
SenderKept == (\A i \in Tasks : Ended(i)) /\ term \in {"done", "gone"}

SendersGone == (\A i \in Tasks : Ended(i)) /\ term # "recv"

\* Mutant: the outputs of a flush are sent as those of an execute.
ResumeLoop(i) == "recv"

\* Where a task goes after a send: on with its loop, or, in a flush, out of it.
Resume(i) == IF flushed[i] THEN "exit" ELSE "recv"

\* Where a `break` leads: a pipe still flushes its node, the others just end.
Leave(i) == IF i \in Stages /\ Kind[i] = "pipe" /\ ~flushed[i]
            THEN "flush" ELSE "exit"

Goto(i, label) == pc' = [pc EXCEPT ![i] = label]

Inject(f) == f \in Faults /\ faults' = faults \cup {f}

-----------------------------------------------------------------------------
(* The source polling task.                                                *)

SourceNext ==
  /\ pc[0] = "recv" /\ pulled < NumItems
  /\ pulled' = pulled + 1
  /\ work' = [work EXCEPT ![0] = <<pulled + 1>>]
  /\ Goto(0, "emit")
  /\ UNCHANGED <<cancelled, buf, held, flushed, errs, caller, history>>

SourceExhausted ==
  /\ pc[0] = "recv"
  /\ Goto(0, "exit")
  /\ UNCHANGED <<pulled, cancelled, buf, work, held, flushed, errs, caller,
                 history>>

SourceError ==
  /\ pc[0] = "recv"
  /\ raised' = raised + 1
  /\ Goto(0, "fail")
  /\ UNCHANGED <<pulled, cancelled, buf, work, held, flushed, errs, caller,
                 written, filtered, lost, faults>>

Cancel ==
  /\ WithToken /\ ~cancelled
  /\ cancelled' = TRUE
  /\ UNCHANGED <<pulled, pc, buf, work, held, flushed, errs, caller, history>>

\* Both branches of the select! may be ready: either may win.
SourceShutdown ==
  /\ pc[0] = "recv" /\ cancelled
  /\ Goto(0, "exit")
  /\ UNCHANGED <<pulled, cancelled, buf, work, held, flushed, errs, caller,
                 history>>

-----------------------------------------------------------------------------
(* A stage task: receive, look at the downstream channel, run the node.    *)

StageRecv(i) ==
  /\ pc[i] = "recv" /\ buf[i - 1] # <<>>
  /\ buf' = [buf EXCEPT ![i - 1] = Tail(@)]
  /\ IF Closed(i)
     THEN /\ Goto(i, Leave(i))
          /\ lost' = lost \cup {Head(buf[i - 1])}
          /\ UNCHANGED work
     ELSE /\ Goto(i, "exec")
          /\ work' = [work EXCEPT ![i] = <<Head(buf[i - 1])>>]
          /\ UNCHANGED lost
  /\ UNCHANGED <<pulled, cancelled, held, flushed, errs, caller, raised,
                 written, filtered, faults>>

\* Mutant: an empty channel is taken for a closed one (try_recv).
StageEmpty(i) ==
  /\ pc[i] = "recv" /\ buf[i - 1] = <<>>
  /\ Goto(i, Leave(i))
  /\ UNCHANGED <<pulled, cancelled, buf, work, held, flushed, errs, caller,
                 history>>

StageDrained(i) ==
  /\ pc[i] = "recv" /\ buf[i - 1] = <<>> /\ Ended(i - 1)
  /\ Goto(i, Leave(i))
  /\ UNCHANGED <<pulled, cancelled, buf, work, held, flushed, errs, caller,
                 history>>

\* Ok(outputs): what the node held back, then the input.
NodeOk(i) ==
  /\ pc[i] = "exec"
  /\ work' = [work EXCEPT ![i] = held[i] \o work[i]]
  /\ held' = [held EXCEPT ![i] = <<>>]
  /\ Goto(i, "emit")
  /\ UNCHANGED <<pulled, cancelled, buf, flushed, errs, caller, history>>

\* Ok(vec![]): the node keeps the input for a later output (ChunkNode).
NodeHold(i) ==
  /\ pc[i] = "exec" /\ Kind[i] = "pipe"
  /\ held' = [held EXCEPT ![i] = held[i] \o work[i]]
  /\ work' = [work EXCEPT ![i] = <<>>]
  /\ Goto(i, "recv")
  /\ UNCHANGED <<pulled, cancelled, buf, flushed, errs, caller, history>>

\* Ok(vec![]): the node has nothing to say about the input.
NodeFilter(i) ==
  /\ pc[i] = "exec" /\ Kind[i] = "pipe"
  /\ filtered' = filtered \cup Range(work[i])
  /\ work' = [work EXCEPT ![i] = <<>>]
  /\ Goto(i, "recv")
  /\ UNCHANGED <<pulled, cancelled, buf, held, flushed, errs, caller, raised,
                 written, lost, faults>>

NodeErr(i) ==
  /\ pc[i] = "exec"
  /\ raised' = raised + 1
  /\ Goto(i, "fail")
  /\ UNCHANGED <<pulled, cancelled, buf, work, held, flushed, errs, caller,
                 written, filtered, lost, faults>>

\* A panic in the source, the validator or the node unwinds the whole task.
TaskPanic(i) ==
  /\ IF i = 0 THEN pc[i] = "recv" ELSE pc[i] \in {"exec", "flush"}
  /\ Inject("panic")
  /\ Goto(i, "exit")
  /\ UNCHANGED <<pulled, cancelled, buf, work, held, flushed, errs, caller,
                 raised, written, filtered, lost>>

\* node.flush() at the end of a pipe; its Err carries no item.
NodeFlush(i) ==
  /\ pc[i] = "flush"
  /\ flushed' = [flushed EXCEPT ![i] = TRUE]
  /\ held' = [held EXCEPT ![i] = <<>>]
  /\ \/ /\ work' = [work EXCEPT ![i] = held[i]]
        /\ Goto(i, IF held[i] = <<>> THEN "exit" ELSE "emit")
        /\ UNCHANGED <<raised, lost, faults>>
     \/ /\ Inject("node_flush")
        /\ Goto(i, "fail")
        /\ raised' = raised + 1
        /\ lost' = lost \cup Range(held[i])
        /\ UNCHANGED work
  /\ UNCHANGED <<pulled, cancelled, buf, errs, caller, written, filtered>>

-----------------------------------------------------------------------------
(* Sending: the outputs one by one downstream, or one payload to the DLQ.  *)
(* A send waits while the channel is full and fails once it is closed.     *)

EmitSend(i) ==
  /\ pc[i] = "emit" /\ work[i] # <<>>
  /\ ~Closed(i) /\ Len(buf[i]) < Capacity[i]
  /\ buf' = [buf EXCEPT ![i] = Append(@, Head(work[i]))]
  /\ work' = [work EXCEPT ![i] = Tail(@)]
  /\ Goto(i, IF Tail(work[i]) = <<>> THEN Resume(i) ELSE "emit")
  /\ UNCHANGED <<pulled, cancelled, held, flushed, errs, caller, history>>

EmitClosed(i) ==
  /\ pc[i] = "emit" /\ Closed(i)
  /\ lost' = lost \cup Range(work[i])
  /\ work' = [work EXCEPT ![i] = <<>>]
  /\ Goto(i, Leave(i))
  /\ UNCHANGED <<pulled, cancelled, buf, held, flushed, errs, caller, raised,
                 written, filtered, faults>>

PayloadOf(i) == Payload(i, IF work[i] = <<>> THEN NoItem ELSE Head(work[i]))

FailSend(i) ==
  /\ pc[i] = "fail"
  /\ ~DlqClosed /\ Len(errbuf) < Capacity[0]
  /\ errbuf' = Append(errbuf, PayloadOf(i))
  /\ work' = [work EXCEPT ![i] = <<>>]
  /\ Goto(i, IF i = 0 THEN "exit" ELSE Resume(i))
  /\ UNCHANGED <<pulled, cancelled, buf, held, flushed, dlq, dlqCur, errCount,
                 caller, history>>

\* validate only logs that it halts, and goes on with its loop.
FailClosed(i) ==
  /\ pc[i] = "fail" /\ DlqClosed
  /\ lost' = lost \cup Range(work[i])
  /\ work' = [work EXCEPT ![i] = <<>>]
  /\ Goto(i, IF i \in Stages /\ Kind[i] = "validate" THEN "recv" ELSE Leave(i))
  /\ UNCHANGED <<pulled, cancelled, buf, held, flushed, errs, caller, raised,
                 written, filtered, faults>>

\* The end of the task: its receiver, its senders and its node are dropped.
TaskExit(i) ==
  /\ pc[i] = "exit"
  /\ lost' = lost \cup Range(work[i]) \cup Range(held[i])
                  \cup (IF i = 0 THEN {} ELSE Range(buf[i - 1]))
  /\ work' = [work EXCEPT ![i] = <<>>]
  /\ held' = [held EXCEPT ![i] = <<>>]
  /\ buf' = [j \in Tasks |-> IF j = i - 1 THEN <<>> ELSE buf[j]]
  /\ Goto(i, "done")
  /\ UNCHANGED <<pulled, cancelled, flushed, errs, caller, raised, written,
                 filtered, faults>>

-----------------------------------------------------------------------------
(* The DLQ worker.  error_count is incremented before the write.           *)

DlqRecv ==
  /\ dlq = "recv" /\ errbuf # <<>>
  /\ dlqCur' = <<Head(errbuf)>>
  /\ errbuf' = Tail(errbuf)
  /\ errCount' = errCount + 1
  /\ dlq' = "write"
  /\ UNCHANGED <<data, caller, history>>

\* Mutant: the worker stops when it has caught up (try_recv).
DlqIdle ==
  /\ dlq = "recv" /\ errbuf = <<>>
  /\ dlq' = "flush"
  /\ UNCHANGED <<data, errbuf, dlqCur, errCount, caller, history>>

DlqDrained ==
  /\ dlq = "recv" /\ errbuf = <<>> /\ SendersGone
  /\ dlq' = "flush"
  /\ UNCHANGED <<data, errbuf, dlqCur, errCount, caller, history>>

DlqWriteOk ==
  /\ dlq = "write"
  /\ written' = written \o dlqCur
  /\ dlqCur' = <<>>
  /\ dlq' = "recv"
  /\ UNCHANGED <<data, errbuf, errCount, caller, raised, filtered, lost, faults>>

DlqWriteErr ==
  /\ dlq = "write" /\ Inject("dlq_write")
  /\ lost' = lost \cup ItemsOf(Range(dlqCur))
  /\ dlqCur' = <<>>
  /\ dlq' = "flush"
  /\ UNCHANGED <<data, errbuf, errCount, caller, raised, written, filtered>>

\* The receiver, and what is still queued, goes when the worker ends.
DlqEnd(label) ==
  /\ dlq' = label
  /\ lost' = lost \cup ItemsOf(Range(errbuf) \cup Range(dlqCur))
  /\ errbuf' = <<>> /\ dlqCur' = <<>>
  /\ UNCHANGED <<data, errCount, caller, raised, written, filtered>>

\* A failed flush is logged and changes nothing else.
DlqFlush ==
  /\ dlq = "flush"
  /\ UNCHANGED faults \/ Inject("dlq_flush")
  /\ DlqEnd("done")

DlqPanic == dlq \in {"write", "flush"} /\ Inject("dlq_panic") /\ DlqEnd("panicked")

-----------------------------------------------------------------------------
(* The caller: drain the last channel, drop the error sender, join the DLQ *)
(* worker for at most the grace period.                                    *)

Deliver ==
  /\ term = "recv" /\ buf[N] # <<>>
  /\ delivered' = Append(delivered, Head(buf[N]))
  /\ buf' = [buf EXCEPT ![N] = Tail(@)]
  /\ UNCHANGED <<pulled, cancelled, pc, work, held, flushed, errs, term,
                 summary, history>>

Drained ==
  /\ term = "recv" /\ buf[N] = <<>> /\ Ended(N)
  /\ term' = "wait"
  /\ UNCHANGED <<data, errs, delivered, summary, history>>

Return(err) ==
  /\ term' = "done"
  /\ summary' = [ok |-> Len(delivered), err |-> err]
  /\ UNCHANGED <<data, errs, delivered, raised, written, filtered, lost>>

\* Mutant: the count is read without joining the worker.
NotJoined == term = "wait" /\ Return(errCount) /\ UNCHANGED faults

Joined       == term = "wait" /\ dlq = "done" /\ Return(errCount) /\ UNCHANGED faults
JoinPanicked == term = "wait" /\ dlq = "panicked" /\ Return(0) /\ UNCHANGED faults
GraceExpired == term = "wait" /\ ~DlqClosed /\ Inject("grace") /\ Return(0)

\* for_each's action panics, or the future of the run is dropped.
Abandon ==
  /\ term \in {"recv", "wait"} /\ Inject("abandon")
  /\ term' = "gone"
  /\ lost' = lost \cup Range(buf[N])
  /\ buf' = [buf EXCEPT ![N] = <<>>]
  /\ UNCHANGED <<pulled, cancelled, pc, work, held, flushed, errs, delivered,
                 summary, raised, written, filtered>>

-----------------------------------------------------------------------------
SourceStep == SourceNext \/ SourceExhausted \/ SourceError \/ SourceShutdown

StageStep(i) ==
  \/ StageRecv(i) \/ StageDrained(i)
  \/ NodeOk(i) \/ NodeHold(i) \/ NodeFilter(i) \/ NodeErr(i) \/ NodeFlush(i)

SendStep(i) ==
  EmitSend(i) \/ EmitClosed(i) \/ FailSend(i) \/ FailClosed(i) \/ TaskExit(i)

DlqStep == DlqRecv \/ DlqDrained \/ DlqWriteOk \/ DlqWriteErr \/ DlqFlush \/ DlqPanic

CallerStep == Deliver \/ Drained \/ Joined \/ JoinPanicked \/ GraceExpired

\* Nothing of the run is left: every task, the DLQ worker and the caller ended.
AllOver == (\A i \in Tasks : Ended(i)) /\ DlqClosed /\ term \in {"done", "gone"}
Finished == AllOver /\ UNCHANGED vars

Next ==
  \/ SourceStep \/ Cancel
  \/ \E i \in Stages : StageStep(i)
  \/ \E i \in Tasks : SendStep(i) \/ TaskPanic(i)
  \/ DlqStep
  \/ CallerStep \/ Abandon
  \/ Finished

Spec == Init /\ [][Next]_vars

\* Every spawned task, the DLQ worker and the caller are polled by tokio as long
\* as they are ready; the source answers, and nodes and the DLQ writer return.  The
\* grace period may expire, but nothing is taken to end because it does.
Fairness ==
  /\ WF_vars(SourceStep)
  /\ \A i \in Stages : WF_vars(StageStep(i))
  /\ \A i \in Tasks : WF_vars(SendStep(i))
  /\ WF_vars(DlqStep)
  /\ WF_vars(Deliver \/ Drained \/ Joined \/ JoinPanicked)

FairSpec == Spec /\ Fairness

-----------------------------------------------------------------------------
Labels == {"recv", "exec", "emit", "fail", "flush", "exit", "done"}

TypeOK ==
  /\ pulled \in 0..NumItems /\ cancelled \in BOOLEAN
  /\ pc \in [Tasks -> Labels]
  /\ buf \in [Tasks -> Seq(Items)]
  /\ work \in [Tasks -> Seq(Items)]
  /\ held \in [Tasks -> Seq(Items)]
  /\ flushed \in [Tasks -> BOOLEAN]
  /\ errbuf \in Seq(Payloads) /\ dlqCur \in Seq(Payloads) /\ errCount \in Nat
  /\ dlq \in {"recv", "write", "flush", "done", "panicked"}
  /\ term \in {"recv", "wait", "done", "gone"}
  /\ delivered \in Seq(Items)
  /\ summary \in [ok : Nat, err : Nat]
  /\ raised \in Nat /\ written \in Seq(Payloads)
  /\ filtered \subseteq Items /\ lost \subseteq Items
  /\ faults \subseteq Faults

\* The faults that may destroy items; the others spoil only the summary.
Destructive == {"panic", "node_flush", "dlq_write", "dlq_panic", "abandon"}

\* "Errors are routed, not dropped" (lib.rs:7): as long as nothing panicked, no
\* flush and no DLQ write failed and the run was not abandoned, no item is in a
\* channel, a task or the error channel when that is dropped.  It rests on every
\* task ending only after its upstream has ended and its channel is empty, and on
\* the DLQ worker ending only after every error sender is gone.
NoSilentLoss == faults \cap Destructive = {} => lost = {}

\* The error_count of the ExecutionSummary (pipeline.rs:482-517) is the number of
\* errors raised anywhere in the run, even if tasks have panicked, as long as the
\* DLQ worker itself did not fail and was joined within the grace period.
ExactErrorCount ==
  term = "done" /\ faults \cap {"dlq_write", "dlq_panic", "grace"} = {} =>
    /\ summary.err = raised
    /\ Len(written) = raised

\* When execute / collect / for_each return after joining the DLQ worker, nothing
\* of the run is left behind, not even after a panic: all tasks and the worker have
\* ended and the error channel is empty (close_and_wait, pipeline.rs:482-517).
QuiescentReturn ==
  term = "done" /\ faults \cap {"dlq_write", "dlq_panic", "grace"} = {} =>
    AllOver /\ errbuf = <<>>

\* Whatever fails, whoever is blocked on whichever full channel: the run, its tasks
\* and the DLQ worker all come to an end.
WindsDown == <>[]AllOver

\* The run implements what a pipeline promises: the records of the DLQ are the
\* dead letters, and every fault but a failed flush of the DLQ voids the promise
\* about loss and counts.
Abstract == INSTANCE Delivery WITH
  accepted <- pulled,
  dead     <- ItemsOf(Range(written)),
  notices  <- Cardinality({k \in DOMAIN written : written[k].item = NoItem}),
  faulty   <- ~(faults \subseteq {"dlq_flush"}),
  returned <- term = "done"

\* In every run, a cancelled one included, each item the source has yielded is
\* delivered in order, dead-lettered or filtered, and only once; a run that returns
\* without a fault has settled all of them, and its ExecutionSummary is exact
\* (lib.rs:7-10).
Delivers == Abstract!Spec

-----------------------------------------------------------------------------
(* The inductive invariant behind TypeOK, NoSilentLoss, ExactErrorCount and *)
(* QuiescentReturn: how the run winds down, from the source to the DLQ.     *)

Past(i)   == flushed[i] \/ pc[i] \in {"flush", "exit", "done"}
Healthy   == faults \cap Destructive = {}
DlqSound  == faults \cap {"dlq_write", "dlq_panic"} = {}

\* The caller leaves its loop only after the last task; a normal end of the caller
\* is a join of the worker, a panic of it or an expired grace period.
CallerInv ==
  /\ term \in {"wait", "done"} => Ended(N) /\ buf[N] = <<>>
  /\ term = "gone" => "abandon" \in faults
  /\ term = "done" =>
       \/ dlq = "done" /\ summary.err = errCount
       \/ dlq = "panicked"
       \/ "grace" \in faults

\* A sound worker leaves its loop only when no error sender is left.
DlqInv ==
  /\ dlq = "panicked" => "dlq_panic" \in faults
  /\ dlq = "write" <=> dlqCur # <<>>
  /\ Len(dlqCur) <= 1
  /\ DlqSound /\ dlq \in {"flush", "done"} => SendersGone /\ errbuf = <<>>

\* Without a destructive fault a stage leaves its loop only behind its upstream.
StageInv ==
  Healthy => \A i \in Stages : Past(i) => Ended(i - 1) /\ buf[i - 1] = <<>>

\* Outside its sends a task carries nothing, and a flushed node holds nothing.
WorkInv ==
  \A i \in Tasks :
    /\ i = 0 \/ Kind[i] # "pipe" => held[i] = <<>> /\ ~flushed[i] /\ pc[i] # "flush"
    /\ flushed[i] => held[i] = <<>> /\ pc[i] \in {"emit", "fail", "exit", "done"}
    /\ Healthy /\ pc[i] \in {"recv", "flush", "exit", "done"} => work[i] = <<>>
    /\ Healthy /\ pc[i] \in {"exit", "done"} => held[i] = <<>>

Failing == {i \in Tasks : pc[i] = "fail"}

\* Every raised payload is being sent, queued, or counted by the worker.
CountInv ==
  DlqSound =>
    /\ raised = Cardinality(Failing) + Len(errbuf) + errCount
    /\ errCount = Len(written) + Len(dlqCur)

IInv ==
  TypeOK /\ CallerInv /\ DlqInv /\ StageInv /\ WorkInv /\ CountInv /\ NoSilentLoss
=============================================================================
