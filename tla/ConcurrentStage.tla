--------------------------- MODULE ConcurrentStage ---------------------------
(***************************************************************************)
(* One stage made with pipe_concurrently (crates/core/src/pipeline.rs:     *)
(* 318-431): a loop that receives items and spawns a worker for each into  *)
(* a JoinSet of at most Limit workers, and reaps the workers that have     *)
(* ended.  A worker executes the shared node and then sends the outputs    *)
(* downstream, or the error to the DLQ, on its own.  The node is one       *)
(* without state, an OrderingNode (module Ordering), or a RetryNode that   *)
(* executes an OrderingNode once more after an error and a back-off.       *)
(***************************************************************************)
EXTENDS Ordering, FiniteSets, SequencesExt

CONSTANTS
  Limit,      \* concurrency_limit
  Capacity,   \* buffer_size of the downstream channel
  Faults      \* the faults the environment may inject

ASSUME StageAssumption ==
  /\ Limit \in Nat \ {0} /\ Capacity \in Nat \ {0}
  /\ Faults \subseteq {"panic", "consumer_gone", "dlq_dead"}

VARIABLES
  kind,       \* the node: "plain", "ordered" or "retried", chosen once
  taken,      \* items 1..taken have been received from upstream
  upClosed,   \* is_upstream_closed
  loop,       \* where the stage task is
  aborting,   \* abort_all was called, or the JoinSet is dropped
  worker,     \* worker[i] : where the worker of item i is
  out,        \* out[i] : the outputs worker i still has to send
  tail,       \* the outputs of the flush still to send
  chan,       \* the downstream channel
  delivered,  \* what the consumer has taken from it
  dead,       \* items whose error payload has reached the DLQ
  filtered,   \* items the node had no output for
  panics,     \* "Task panicked" payloads sent
  faults      \* the faults that have happened

stageVars == <<taken, upClosed, loop, aborting, worker, out, tail, chan,
               delivered, dead, filtered, panics, faults>>
vars == <<orderingVars, stageVars>>

Init ==
  /\ kind \in {"plain", "ordered", "retried"}
  /\ InitOrdering
  /\ taken = 0 /\ upClosed = FALSE /\ loop = "select" /\ aborting = FALSE
  /\ worker = [i \in Items |-> "none"]
  /\ out = [i \in Items |-> <<>>]
  /\ tail = <<>> /\ chan = <<>> /\ delivered = <<>>
  /\ dead = {} /\ filtered = {} /\ panics = 0 /\ faults = {}

Gone    == "consumer_gone" \in faults
DlqDead == "dlq_dead" \in faults

Ordered == kind # "plain"
Running   == {"run", "backoff", "emit", "fail"}
Ended     == {"ok", "fatal", "panicked", "cancelled"}
InSet     == {i \in Items : worker[i] \in Running \cup Ended}   \* the JoinSet
\* The elements of S from the smallest to the largest.
Ascending(S) == CHOOSE q \in SetToSeqs(S) : \A j, k \in DOMAIN q : j < k => q[j] < q[k]

WorkerGoto(i, label) == worker' = [worker EXCEPT ![i] = label]

-----------------------------------------------------------------------------
(* The stage task.                                                         *)

\* Branch 1 of the select!: an item, and either a new worker or the end.
Recv ==
  LET i == taken + 1 IN
  /\ loop = "select" /\ ~upClosed /\ Cardinality(InSet) < Limit
  /\ taken < NumItems
  /\ taken' = i
  /\ IF Gone
     THEN /\ aborting' = TRUE /\ loop' = "flush"
          /\ UNCHANGED <<orderingVars, worker>>
     ELSE /\ WorkerGoto(i, "run")
          /\ Begin(i)
          /\ UNCHANGED <<aborting, loop>>
  /\ UNCHANGED <<upClosed, out, tail, chan, delivered, dead, filtered, panics,
                 faults>>

\* Mutant: the None of recv is not remembered.
RecvNoneForgotten ==
  /\ loop = "select" /\ ~upClosed /\ Cardinality(InSet) < Limit
  /\ UNCHANGED vars

\* The upstream stage has ended and its channel is empty.
RecvNone ==
  /\ loop = "select" /\ ~upClosed /\ Cardinality(InSet) < Limit
  /\ upClosed' = TRUE
  /\ UNCHANGED <<orderingVars, taken, loop, aborting, worker, out, tail, chan,
                 delivered, dead, filtered, panics, faults>>

\* Branch 2 of the select!: join_next.
Join(i) ==
  /\ loop = "select" /\ worker[i] \in Ended
  /\ WorkerGoto(i, "reaped")
  /\ CASE worker[i] = "fatal"    -> aborting' = TRUE /\ loop' = "flush"
       [] worker[i] = "panicked" -> loop' = "report" /\ UNCHANGED aborting
       [] OTHER                  -> UNCHANGED <<aborting, loop>>
  /\ UNCHANGED <<orderingVars, taken, upClosed, out, tail, chan, delivered,
                 dead, filtered, panics, faults>>

\* Mutant: the loop goes on after a panic.
ReportAndGoOn ==
  /\ loop = "report"
  /\ panics' = IF DlqDead THEN panics ELSE panics + 1
  /\ loop' = "select"
  /\ UNCHANGED <<orderingVars, taken, upClosed, aborting, worker, out, tail, chan,
                 delivered, dead, filtered, faults>>

\* A panicked worker is reported without its item, then all others are aborted.
ReportPanic ==
  /\ loop = "report"
  /\ panics' = IF DlqDead THEN panics ELSE panics + 1
  /\ aborting' = TRUE /\ loop' = "flush"
  /\ UNCHANGED <<orderingVars, taken, upClosed, worker, out, tail, chan,
                 delivered, dead, filtered, faults>>

\* Mutant: the loop ends with its upstream, workers or not.
LoopEndsEarly ==
  /\ loop = "select" /\ upClosed
  /\ loop' = "flush"
  /\ UNCHANGED <<orderingVars, taken, upClosed, aborting, worker, out, tail,
                 chan, delivered, dead, filtered, panics, faults>>

LoopEnds ==
  /\ loop = "select" /\ upClosed /\ InSet = {}
  /\ loop' = "flush"
  /\ UNCHANGED <<orderingVars, taken, upClosed, aborting, worker, out, tail,
                 chan, delivered, dead, filtered, panics, faults>>

\* Mutant: the node is not flushed.
FlushSkipped ==
  /\ loop = "flush"
  /\ loop' = "emit"
  /\ UNCHANGED <<orderingVars, taken, upClosed, aborting, worker, out, tail, chan,
                 delivered, dead, filtered, panics, faults>>

\* shared_node.flush(), then its outputs one by one.
FlushNode ==
  /\ loop = "flush"
  /\ loop' = "emit"
  /\ IF Ordered THEN FlushBuffer /\ tail' = Ascending(ready)
                ELSE UNCHANGED <<orderingVars, tail>>
  /\ UNCHANGED <<taken, upClosed, aborting, worker, out, chan, delivered, dead,
                 filtered, panics, faults>>

FlushSend ==
  /\ loop = "emit" /\ tail # <<>>
  /\ ~Gone /\ Len(chan) < Capacity
  /\ chan' = Append(chan, Head(tail))
  /\ tail' = Tail(tail)
  /\ UNCHANGED <<orderingVars, taken, upClosed, loop, aborting, worker, out,
                 delivered, dead, filtered, panics, faults>>

\* The end of the task drops the JoinSet, which aborts what is left in it.
StageEnds ==
  /\ loop = "emit" /\ (tail = <<>> \/ Gone)
  /\ loop' = "done" /\ aborting' = TRUE
  /\ tail' = <<>>
  /\ UNCHANGED <<orderingVars, taken, upClosed, worker, out, chan, delivered,
                 dead, filtered, panics, faults>>

-----------------------------------------------------------------------------
(* A worker.                                                               *)

\* A node without an OrderingNode around it keeps nothing between its calls.
Return(i, label) ==
  /\ call' = [call EXCEPT ![i] = label]
  /\ UNCHANGED <<next, queued, ready, flushed, released, produced, retried, late>>

\* Ok: what the node returns is this worker's to send.
Executed(i) ==
  /\ worker[i] = "run"
  /\ \E hasOutput \in BOOLEAN :
       /\ filtered' = IF hasOutput THEN filtered ELSE filtered \cup {i}
       /\ IF Ordered
          THEN /\ InnerOk(i, hasOutput)
               /\ out' = [out EXCEPT ![i] = Ascending(Last(released'))]
          ELSE /\ Return(i, "done")
               /\ out' = [out EXCEPT ![i] = IF hasOutput THEN <<i>> ELSE <<>>]
       /\ WorkerGoto(i, IF out'[i] = <<>> THEN "ok" ELSE "emit")
  /\ UNCHANGED <<taken, upClosed, loop, aborting, tail, chan, delivered, dead,
                 panics, faults>>

ExecuteFails(i) ==
  /\ worker[i] = "run"
  /\ IF Ordered THEN InnerErr(i) ELSE Return(i, "failed")
  /\ WorkerGoto(i, IF kind = "retried" /\ i \notin retried THEN "backoff" ELSE "fail")
  /\ UNCHANGED <<taken, upClosed, loop, aborting, out, tail, chan, delivered,
                 dead, filtered, panics, faults>>

\* RetryNode has slept and executes the OrderingNode again.
Again(i) ==
  /\ worker[i] = "backoff"
  /\ Begin(i)
  /\ WorkerGoto(i, "run")
  /\ UNCHANGED <<taken, upClosed, loop, aborting, out, tail, chan, delivered,
                 dead, filtered, panics, faults>>

ExecutePanics(i) ==
  /\ worker[i] = "run"
  /\ "panic" \in Faults /\ faults' = faults \cup {"panic"}
  /\ CallDropped(i)
  /\ WorkerGoto(i, "panicked")
  /\ UNCHANGED <<taken, upClosed, loop, aborting, out, tail, chan, delivered,
                 dead, filtered, panics>>

\* Mutant: what has been sent is not taken off the outputs.
SendAgain(i) ==
  /\ worker[i] = "emit" /\ ~Gone /\ Len(chan) < Capacity
  /\ Len(delivered) < 2 * NumItems
  /\ chan' = Append(chan, Head(out[i]))
  /\ UNCHANGED <<orderingVars, taken, upClosed, loop, aborting, worker, out, tail,
                 delivered, dead, filtered, panics, faults>>

Send(i) ==
  /\ worker[i] = "emit" /\ ~Gone /\ Len(chan) < Capacity
  /\ chan' = Append(chan, Head(out[i]))
  /\ out' = [out EXCEPT ![i] = Tail(@)]
  /\ WorkerGoto(i, IF Len(out[i]) = 1 THEN "ok" ELSE "emit")
  /\ UNCHANGED <<orderingVars, taken, upClosed, loop, aborting, tail, delivered,
                 dead, filtered, panics, faults>>

SendFails(i) ==
  /\ worker[i] = "emit" /\ Gone
  /\ out' = [out EXCEPT ![i] = <<>>]
  /\ WorkerGoto(i, "fatal")
  /\ UNCHANGED <<orderingVars, taken, upClosed, loop, aborting, tail, chan,
                 delivered, dead, filtered, panics, faults>>

SendError(i) ==
  /\ worker[i] = "fail"
  /\ dead' = IF DlqDead THEN dead ELSE dead \cup {i}
  /\ WorkerGoto(i, IF DlqDead THEN "fatal" ELSE "ok")
  /\ UNCHANGED <<orderingVars, taken, upClosed, loop, aborting, out, tail, chan,
                 delivered, filtered, panics, faults>>

\* An aborted worker is dropped at an await; until then it may still go on.
WorkerAborted(i) ==
  /\ aborting /\ worker[i] \in Running
  /\ IF call[i] = "inner" THEN CallDropped(i) ELSE UNCHANGED orderingVars
  /\ out' = [out EXCEPT ![i] = <<>>]
  /\ WorkerGoto(i, "cancelled")
  /\ UNCHANGED <<taken, upClosed, loop, aborting, tail, chan, delivered, dead,
                 filtered, panics, faults>>

-----------------------------------------------------------------------------
(* The consumer of the channel and the DLQ worker.                         *)

Take ==
  /\ chan # <<>> /\ ~Gone
  /\ delivered' = Append(delivered, Head(chan))
  /\ chan' = Tail(chan)
  /\ UNCHANGED <<orderingVars, taken, upClosed, loop, aborting, worker, out,
                 tail, dead, filtered, panics, faults>>

EnvironmentFails(f) ==
  /\ f \in Faults \cap {"consumer_gone", "dlq_dead"}
  /\ f \notin faults
  /\ faults' = faults \cup {f}
  /\ chan' = IF f = "consumer_gone" THEN <<>> ELSE chan
  /\ UNCHANGED <<orderingVars, taken, upClosed, loop, aborting, worker, out,
                 tail, delivered, dead, filtered, panics>>

-----------------------------------------------------------------------------
LoopStep == \/ Recv \/ RecvNone \/ ReportPanic \/ LoopEnds
            \/ \E i \in Items : Join(i)
FlushStep == FlushNode \/ FlushSend \/ StageEnds
WorkerStep(i) == Executed(i) \/ ExecuteFails(i) \/ Again(i) \/ Send(i)
                 \/ SendFails(i) \/ SendError(i)

Over == loop = "done" /\ (chan = <<>> \/ Gone)
        /\ \A i \in Items : worker[i] \notin Running

Next ==
  /\ \/ LoopStep \/ FlushStep \/ Take
     \/ \E i \in Items : WorkerStep(i) \/ ExecutePanics(i) \/ WorkerAborted(i)
     \/ \E f \in Faults : EnvironmentFails(f)
     \/ Over /\ UNCHANGED vars
  /\ UNCHANGED kind

Spec == Init /\ [][Next]_<<kind, vars>>

\* Ready tasks are polled, the node returns, the consumer drains its channel, and
\* an aborted task is dropped when it is next scheduled.
FairSpec ==
  /\ Spec
  /\ WF_vars(LoopStep) /\ WF_vars(FlushStep) /\ WF_vars(Take)
  /\ \A i \in Items : WF_vars(WorkerStep(i)) /\ WF_vars(WorkerAborted(i))

-----------------------------------------------------------------------------
TypeOK ==
  /\ OrderingTypeOK
  /\ taken \in 0..NumItems /\ upClosed \in BOOLEAN /\ aborting \in BOOLEAN
  /\ loop \in {"select", "report", "flush", "emit", "done"}
  /\ worker \in [Items -> {"none", "reaped"} \cup Running \cup Ended]
  /\ out \in [Items -> Seq(Items)] /\ tail \in Seq(Items)
  /\ chan \in Seq(Items) /\ delivered \in Seq(Items)
  /\ dead \subseteq Items /\ filtered \subseteq Items
  /\ panics \in 0..1 /\ faults \subseteq Faults

\* Without a panic, a lost consumer or a dead DLQ every item the stage has taken is
\* delivered once, dead-lettered or filtered when the stage is over: no output is
\* left in the ordering buffer, behind a blocked send or in an unreaped worker, nor
\* lost by a retry.  If workers panic the DLQ is told once (pipeline.rs:394-410).
\* Whatever fails, nothing is delivered twice, and nothing both delivered and
\* dead-lettered.
Complete ==
  /\ Over /\ faults = {} =>
       /\ Range(delivered) \cup dead \cup filtered = 1..taken
       /\ Len(delivered) + Cardinality(dead) + Cardinality(filtered) = taken
  /\ Over /\ faults = {"panic"} => panics = 1
  /\ \A j, k \in DOMAIN delivered : j # k => delivered[j] # delivered[k]
  /\ Range(delivered) \cap dead = {}

\* OrderingNode "restores sequential ordering in a concurrent pipeline"
\* (ordering.rs:22-26): what the consumer of the stage gets is in order.
DeliveredInOrder ==
  kind = "ordered" =>
    \A j, k \in DOMAIN delivered : j < k => delivered[j] < delivered[k]

\* Whatever fails, the stage, its workers and the flush come to an end.
StageIsOver == <>[]Over

\* Whatever happens to the workers, the stage uses an OrderingNode the way module
\* Ordering allows, so that what is true of OrderingSpec is true of the node in the
\* stage; and as long as nothing has failed it flushes the node after its last call.
CallsNode ==
  /\ Ordered => InitOrdering
  /\ [][Ordered => NextOrdering]_orderingVars
  /\ [][faults' = {} /\ flushed' # flushed => InSet = {}]_orderingVars
=============================================================================
