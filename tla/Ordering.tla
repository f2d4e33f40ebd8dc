------------------------------ MODULE Ordering ------------------------------
(***************************************************************************)
(* OrderingNode (crates/core/src/node/ordering.rs): a node around another  *)
(* one that is executed for many items at a time and releases the outputs  *)
(* by sequence id.  The inner node runs without the lock; what happens to  *)
(* its result - the insertion into the buffer and the drain of the         *)
(* contiguous prefix - is one critical section, hence one step.            *)
(*                                                                         *)
(* Sequence ids are 1..NumItems and start_id is 1.  The buffer, a          *)
(* BTreeMap<u64, Vec<O>>, is the set `queued` of its keys and the set      *)
(* `ready` of the keys whose vector is not empty; the others are           *)
(* tombstones, or items the inner node had no output for.  A batch of      *)
(* released outputs is the set of their ids: the loop and pop_first take   *)
(* them in ascending order.                                                *)
(*                                                                         *)
(* The callers are any: a RetryNode around the OrderingNode executes an id *)
(* again after an error or a timeout, and a stage that breaks off flushes  *)
(* the node while workers are still in it.                                 *)
(***************************************************************************)
EXTENDS Integers, Sequences, FiniteSets, Functions

CONSTANT NumItems   \* the sequence ids are 1..NumItems (a bound)

ASSUME OrderingAssumption == NumItems \in Nat

Items == 1..NumItems

VARIABLES
  next,       \* next_expected_id
  queued,     \* the keys of the buffer
  ready,      \* the keys that hold an output
  call,       \* call[i] : what became of the last execute(item i)
  flushed,    \* the batch flush() returned, 0 before it has run
  \* History variables.
  released,   \* the batches returned by execute and flush, in the order of the lock
  produced,   \* the ids for which the inner node has made an output
  retried,    \* the ids executed again after an error
  late        \* the ids with a result from after the flush

orderingVars == <<next, queued, ready, call, flushed, released, produced, retried,
                  late>>

InitOrdering ==
  /\ next = 1
  /\ queued = {} /\ ready = {}
  /\ call = [i \in Items |-> "idle"]
  /\ flushed = 0
  /\ released = <<>> /\ produced = {} /\ retried = {} /\ late = {}

\* Mutant: pop_first without a look at the id.
DrainAll(keys, full) ==
  /\ next' = next + Cardinality(keys)
  /\ queued' = {} /\ ready' = {}
  /\ released' = Append(released, full)

\* The drain loop takes next, next + 1, ... out of the buffer, up to the first id
\* that is not there.
Drain(keys, full) ==
  \E gap \in next..(NumItems + 1) :
    /\ gap \notin keys
    /\ next..(gap - 1) \subseteq keys
    /\ next' = gap
    /\ queued' = keys \ (next..(gap - 1))
    /\ ready' = full \ (next..(gap - 1))
    /\ released' = Append(released, full \cap (next..(gap - 1)))

Begin(i) ==
  /\ call[i] \in {"idle", "failed", "dropped"}
  /\ call' = [call EXCEPT ![i] = "inner"]
  /\ retried' = IF call[i] = "failed" THEN retried \cup {i} ELSE retried
  /\ UNCHANGED <<next, queued, ready, flushed, released, produced, late>>

\* inner_node.execute(i) is Ok, with an output or with none.
InnerOk(i, hasOutput) ==
  /\ call[i] = "inner"
  /\ call' = [call EXCEPT ![i] = "done"]
  /\ produced' = IF hasOutput THEN produced \cup {i} ELSE produced
  /\ LET keys == queued \cup {i}
         full == IF hasOutput THEN ready \cup {i} ELSE ready
     IN  Drain(keys, full)
  /\ late' = IF flushed > 0 THEN late \cup {i} ELSE late
  /\ UNCHANGED <<flushed, retried>>

\* Mutant: no tombstone for a failed item.
InnerErrUnmarked(i) ==
  /\ call[i] = "inner"
  /\ call' = [call EXCEPT ![i] = "failed"]
  /\ UNCHANGED <<next, queued, ready, flushed, released, produced, retried, late>>

\* Err: a tombstone takes the place of whatever the buffer had, and nothing drains.
InnerErr(i) ==
  /\ call[i] = "inner"
  /\ call' = [call EXCEPT ![i] = "failed"]
  /\ queued' = queued \cup {i}
  /\ ready' = ready \ {i}
  /\ UNCHANGED <<next, flushed, released, produced, retried, late>>

\* The future is dropped while the inner node runs (a timeout, an abort): the id
\* never reaches the buffer.
CallDropped(i) ==
  /\ call[i] = "inner"
  /\ call' = [call EXCEPT ![i] = "dropped"]
  /\ UNCHANGED <<next, queued, ready, flushed, released, produced, retried, late>>

\* Mutant: flush only flushes the inner node.
FlushInner ==
  /\ flushed = 0
  /\ flushed' = Len(released) + 1
  /\ released' = Append(released, {})
  /\ UNCHANGED <<next, queued, ready, call, produced, retried, late>>

\* flush() force-drains the buffer, gaps or not; next_expected_id stays.
FlushBuffer ==
  /\ flushed = 0
  /\ flushed' = Len(released) + 1
  /\ released' = Append(released, ready)
  /\ queued' = {} /\ ready' = {}
  /\ UNCHANGED <<next, call, produced, retried, late>>

NextOrdering ==
  \/ \E i \in Items :
       \/ Begin(i) \/ InnerErr(i) \/ CallDropped(i)
       \/ \E hasOutput \in BOOLEAN : InnerOk(i, hasOutput)
  \/ FlushBuffer

OrderingSpec == InitOrdering /\ [][NextOrdering]_orderingVars

-----------------------------------------------------------------------------
OrderingTypeOK ==
  /\ next \in 1..(NumItems + 1)
  /\ queued \subseteq Items /\ ready \subseteq queued
  /\ call \in [Items -> {"idle", "inner", "done", "failed", "dropped"}]
  /\ released \in Seq(SUBSET Items)
  /\ flushed \in 0..Len(released)
  /\ produced \subseteq Items /\ retried \subseteq Items /\ late \subseteq Items

AllReleased == UNION Range(released)

\* "emits them strictly in the order of their sequence IDs" (ordering.rs:25-26):
\* later batches have larger ids, gaps and dropped calls or not.  Two things can
\* come late: an id that was executed again after its tombstone had been drained,
\* which only the flush lets out, and what a broken stage still executes after
\* the flush has emptied the buffer over a gap.
ReleasedInOrder ==
  \A j, k \in DOMAIN released : j < k /\ j # flushed =>
    \A x \in released[j], y \in released[k] : x < y \/ (k = flushed /\ y \in retried)

\* "This causes no data loss" (ordering.rs:39): an output the inner node has made is
\* released once or still in the buffer, no tombstone, retry or later result
\* overwrites it (insert, ordering.rs:139), and what the flush leaves behind was
\* made after it.
NothingSwallowed ==
  /\ AllReleased \cup ready = produced
  /\ AllReleased \cap ready = {}
  /\ flushed > 0 => ready \subseteq late

\* The latency note (ordering.rs:35-39), and nothing worse: once every item has
\* been executed, an output waits only behind a failed item at the head of the
\* buffer - or, which the note leaves out, because its id was retried after the
\* drain had passed its tombstone: then it waits for the flush.
OnlyErrorsDelay ==
  flushed = 0 /\ (\A i \in Items : call[i] \in {"done", "failed"}) =>
    \A x \in ready :
      \/ x < next /\ x \in retried
      \/ next < x /\ next \in queued \ ready /\ call[next] = "failed"
=============================================================================
