# ferrorag in TLA+

ferrorag is a Rust workspace for ETL and RAG jobs. `crates/core` is a small
asynchronous runtime: pipelines of tasks joined by bounded channels, a
dead-letter queue (DLQ), middleware nodes (retry, timeout, rate limit, circuit
breaker, concurrency limit, idempotency, ordering) and an engine for state graphs
with checkpoints. `crates/rag-pipeline` is an application of it: it reads PDF and
text files, chunks them, embeds the chunks and writes them to a vector store.

This directory models both: everything in `crates/core` that runs concurrently,
can fail half-way or has to happen eventually, and the path of a file through the
application, from the directory walk to the rows of the table. Paths below are
relative to `crates/core/src/`, those that begin with `rag/` to
`crates/rag-pipeline/src/`.

    tlc -workers 4 -config <run>.cfg <module>.tla     # the runs of PROJECT.json
    tlapm <Component>Proofs.tla                        # the proofs

## Inventory

| Component | State | Operations | Interacts with |
|---|---|---|---|
| Pipeline runtime (`pipeline.rs`, `source.rs`, `cancel.rs`, `dlq.rs`) | one mpsc channel between two tasks, one shared error channel, `error_count` of the DLQ worker, the join handle of that worker, the cancellation token | `from_source*`, `validate`, `pipe`, `execute`, `collect`, `for_each`, `close_and_wait`, `into_source` | sources, nodes and the DLQ writer it calls; its tasks interact through the channels and by dropping them |
| Concurrent stage (`pipe_concurrently`) | a `JoinSet`, `is_upstream_closed` | a `select!` of receive and `join_next`, `abort_all`, flush | its workers share one node, one sender and one error sender |
| `OrderingNode` (`node/ordering.rs`) | `next_expected_id` and a `BTreeMap` under a mutex | `execute`, `flush` | the inner node, called without the lock; the workers of a concurrent stage |
| `GraphEngine` (`graph.rs`) | an `ExecutionContext` and the state, a checkpoint per `thread_id` | `execute`, `resume`, `save`, `force_save` | graph nodes, the `Checkpoint` service, a cancellation token |
| `CircuitBreakerNode` | `BreakerState` under a mutex, `probe_id` | `execute` | the inner node, called without the lock |
| `IdempotencyNode` (`node/idempotency.rs`, `idempotency.rs`) | none of its own: a status per id in a store | `execute` | the `IdempotencyStore` service, the inner node, workers in other processes |
| `RateLimitNode` | a token bucket under a mutex | `execute` | the clock, the inner node |
| `RetryNode`, `TimeoutNode`, `ConcurrencyLimitNode` | a retry budget, a deadline, a semaphore and a gauge | `execute` | each other: what they do depends on the order in which they are nested |
| `ChunkNode` (`node/chunk.rs`) | a batch | `execute`, `flush` | the stage that flushes it |
| `FileSource` (`rag/source`) | a stack of open directories, a queue of found files | `new`, `next` | the file system, whose entries come in any order and may fail one by one |
| `PdfInspectorStrategy` (`rag/document/pdf.rs`), `DocumentParserNode` | the current element, the elements of the document being filled | `parse`, `execute` | the text extraction; a registry of strategies |
| `StructuralChunkerStrategy`, `TokenGreedyStrategy` (`rag/chunk`) | a window of blocks and its token count, the active headers; a chunk being filled | `chunk` | the tokenizer, which may fail or panic |
| `LocalEmbeddingNode` (`rag/embedding.rs`) | a model behind a `std::sync::Mutex` | `execute` | the model, whose panic poisons the mutex |
| `VectorStore`, `VectorStorageNode` (`rag/store`) | a table that other processes can see | `store_chunks` (check, then add or create), `search` | the database |
| `main` (`rag/main.rs`) | - | builds one pipeline of the above | - |
| telemetry (`rag/telemetry.rs`) | - | logging and metrics set-up | - |

What is hard about these parts, and what makes them correct:

* **Pipeline.** A task ends by dropping its channel ends, and that is all its
  neighbours ever learn. So the order in which tasks, senders and receivers go
  decides whether an item is lost. An item must be delivered, dead-lettered or
  filtered, once; the order of the source must be kept; the summary must be
  exact; and no circle of full channels may block the run.
* **Concurrent stage.** Workers return, fail, panic and are aborted at any time,
  the loop ends by a conjunction that two branches of a `select!` establish, and
  the flush must be the last call of the node.
* **OrderingNode.** Results arrive in any order, some never. Nothing may overtake
  or be swallowed.
* **GraphEngine.** Crashes and failing saves between any two steps, a token that
  races the node, two callers that resume one thread. A checkpoint must be a
  consistent pair, history must not be rewritten, a crash must repeat little.
* **CircuitBreakerNode.** Everything may change between the admission of a call
  and its result. One probe at a time, resolved by its own result only.
* **IdempotencyNode.** The lock, the work and the mark are separate steps, locks
  expire while the work goes on, store calls fail after they took effect.
* **RateLimitNode.** Sleepers take tokens that do not exist yet.
* **Middleware.** A dropped future runs no code but destructors: what is given
  back on that way out depends on the nesting.
* **FileSource.** A directory is popped, read one entry further and pushed back, and
  every early return in between must leave the stack right: each file once,
  whatever the order, with the unreadable directories passed over.
* **Parsing and chunking.** Long loops that carry an unfinished element, window or
  chunk past every item, with a flush at each of several places: text must not be
  dropped or repeated, a document or chunk not grow past its limit, and a heading
  must apply to what it heads.
* **Ingestion.** Batches of two sizes in buffers that only a flush empties, six
  bounded channels in a row, a node that fails for ever once it has panicked, and
  a table that may come into being between the check and the create.

`PROJECT.json` lists the hazards one by one at the line where they bite, with the
properties that watch them.

## Modules

| Module | What it is |
|---|---|
| `Delivery` | the abstract promise of a pipeline: no tasks, no channels |
| `Pipeline` | one run of a sequential pipeline; implements `Delivery` |
| `MCPipeline` | an instance of `Pipeline` for TLC |
| `PipelineProofs` | proofs about `Pipeline`, its refinement of `Delivery` among them |
| `Ordering` | `OrderingNode`, called, again and again, by any number of workers |
| `ConcurrentStage` | a `pipe_concurrently` stage; extends `Ordering`, whose actions are part of its own |
| `ConcurrentProofs` | proofs about `Ordering`; that the stage implements it, so that they hold in the stage; and proofs about the stage |
| `GraphEngine`, `MCGraphEngine`, `GraphProofs` | the graph engine, a graph with a loop and an interrupt, and the proofs for every graph |
| `CircuitBreaker`, `BreakerProofs` | the circuit breaker |
| `Idempotency`, `IdempotencyProofs` | workers on one item of the store |
| `RateLimit`, `RateLimitProofs` | the token bucket |
| `Middleware`, `MiddlewareProofs` | retry, timeout and concurrency limit, nested in three orders |
| `PdfPartition` | text items to elements to documents |
| `Chunking` | documents to chunks, by either strategy; extends `PdfPartition` |
| `FileSource` | the directory walk |
| `Ingestion`, `MCIngestion` | the pipeline of `main`, from the files to the consumer; extends `FileSource` |
| `RagProofs` | proofs about all of `rag-pipeline`: `Chunking` with `PdfPartition`, `FileSource` and `Ingestion` |

### Pipeline

Task 0 is the source, tasks 1..N are the stages, `buf[i]` is the channel from task
`i` to `i + 1`, and `buf[N]` is drained by the caller. A task takes one step
between two awaits; `pc[i]` names the await: `recv` (`rx.recv()`), `exec` (the
node), `emit` (sends of outputs), `fail` (a send of an `ErrorPayload`), `flush`,
`exit` (the code after the loop, which drops the ends of the channels) and `done`.

| Actions | Code |
|---|---|
| `SourceNext`, `SourceExhausted`, `SourceError`, `SourceShutdown`, `Cancel` | the polling task and `handle_source_result`, pipeline.rs:122-202 |
| `StageRecv`, `StageDrained`, `NodeOk`, `NodeHold`, `NodeFilter`, `NodeErr` | the loops of `validate` and `pipe`, pipeline.rs:207-308 |
| `EmitSend`, `EmitClosed`, `FailSend`, `FailClosed` | `handle_node_result`, pipeline.rs:433-479, and the inlined copy of it in `validate` |
| `NodeFlush`, `TaskExit`, `TaskPanic` | the end of a stage: the flush, the drops, and an unwinding task |
| `DlqRecv`, `DlqWriteOk`, `DlqWriteErr`, `DlqDrained`, `DlqFlush`, `DlqPanic` | the DLQ worker, pipeline.rs:99-120 |
| `Deliver`, `Drained`, `Joined`, `JoinPanicked`, `GraceExpired`, `Abandon` | `execute`, `collect`, `for_each` and `close_and_wait`, pipeline.rs:482-562 |

Two differences between the constructors matter and are kept: `pipe` flushes its
node after every way out of the loop while `validate` has nothing to flush, and
`validate` continues after the error channel has refused a payload while `pipe`
breaks. A node holds inputs back as `ChunkNode` does (`NodeHold`), and returns
what it held with a later output or at the flush.

`raised`, `written`, `filtered`, `lost` and `faults` are history variables. `lost`
collects the items that are in a channel, a task or a node when that is dropped.

`Delivery` says what lib.rs:7-10 promises: items settle as delivered (in order),
dead or filtered, only a fault makes them vanish, and the summary that is returned
without a fault is exact and leaves nothing in flight. `Pipeline!Abstract` maps the
run onto it: `dead` is what the DLQ has written, `faulty` is any fault but a failed
`flush` of the DLQ, which is only logged, and
`accepted` is what the source has yielded.

### Ordering and ConcurrentStage

The lock of the node is held for the whole of "insert and drain", so that is one
step (`InnerOk`, `InnerErr`); the inner node runs without it, so everything may
happen between `Begin` and those. The buffer is the set of its keys and the subset
of keys that have outputs. A call may also be dropped, and then leaves a gap that
only `flush` passes; and a failed or dropped id may be executed again, when its
tombstone waits in the buffer or has been drained past.

`ConcurrentStage` has the loop (`Recv`, `RecvNone`, `Join`, `ReportPanic`,
`LoopEnds`, then `FlushNode`, `FlushSend`, `StageEnds`), the workers (`Executed`,
`ExecuteFails`, `Again`, `ExecutePanics`, `Send`, `SendFails`, `SendError`,
`WorkerAborted`) and its environment (`Take`, `EnvironmentFails`). `kind`, chosen
at `Init` and never changed, says what the workers share: a plain node, an
`OrderingNode`, or a `RetryNode` around one. `CallsNode` is the composition seen
from the node: in whatever way workers end, every step of the stage is a step of
`NextOrdering` or leaves the node alone, so what is true of `Ordering` is true of the
node in the stage; and without a fault the flush comes after the last call.

### GraphEngine

A runner is a call of `execute` or `resume` for one thread. Its control points are
the head of the loop, the node, the save after it and the save of a suspension.
The state of the graph is its trail, the sequence of nodes reduced into it, which
is all that coherence and repetition can depend on; `route` chooses any edge. The
checkpoint service is atomic and may fail; a crash forgets the runner.

### CircuitBreaker, Idempotency, RateLimit, Middleware

`CircuitBreaker` has the two critical sections of `execute` as actions (`Admit` and
`Probe`; `Succeed` and `Fail`), a clock, and `Drop` for a future that is dropped
or unwinds in the inner node. Rejections change nothing but metrics.

`Idempotency` has one action per branch of `execute` and store call. The `now`
read before `check_and_lock` ages while the call is under way (`lag`), the lock
expires relatively (`left`), and every store call may fail before or after its
effect. Ids do not interact, so there is one. The store itself is external and
modelled from the trait and from the in-memory store of the tests.

`RateLimit` counts parts of a token, so that its arithmetic is exact: the rounding
of `f64` is the one thing it leaves out.

`Middleware` puts the three wrappers around one node in the orders
retry(timeout(limit)), retry(limit(timeout)) and limit(retry(timeout)), the one
that concurrency.rs:11-20 warns of. `order` is chosen at `Init`. The end of an
attempt - a return, a timeout, a drop of the request - gives back what the
nesting makes it give back: the place in the FIFO of the semaphore, the permit, the
gauge.

### PdfPartition and Chunking

A text item is its number, and comes down to what the code asks of it: is it skipped,
is it a header (and of which level), a list item, a caption or a paragraph, is it
near its predecessor. An element is the lines it was made of, so that "nothing is
lost" can be said. `ReadItem` is one turn of the loop of `parse`, `ParseEnds` what
comes after it.

In `Chunking` a block - an element, a sentence of an oversize one, a slice of one -
is its number and its token count, which the environment chooses; a chunk is the
first and the last of its blocks, and the count the code gives it. `headers` has the
positions of the active headers: the vector of the code is in document order, since
`update_headers` removes some and appends the newest. Blocks
before `lo` have left the window. `PushToWindow` and `FlushedTo` are `push_to_window` and
`flush_window` with the loop that pops blocks down to the overlap,
`GreedyBlock`, `Oversize` and `Slice` the loop of `TokenGreedyStrategy`, which
counts two more tokens than it has for each blank line it writes. `EncodeFails` is the
tokenizer's error, and its panic at a sentence.

### FileSource and Ingestion

`FileSource` takes the entries of a directory in any order. `FileEntry`, `DirEntry`,
`EntrySkipped` and `DirDone` are the four ways through the loop of `next`,
`NextEntryFails` and `FileTypeFails` its two errors, which differ in whether the
directory is back on the stack; `Yield` returns a queued file. What is below an entry
(`Within`) is the least set of entries that has it and is closed under `EntriesOf`.

`Ingestion` is `main`: six stages with a channel before each, and a consumer. The chunks
are numbered in the order in which the source reads their files, so that order is `<`: a
record is a file and the number of chunks before its first (`numbered` when it was
yielded), a document and a batch are the sequences of their chunks. How a file is cut
is a parameter (`ChunksOf`, `DocsOf`); `DocumentAssumption` says that its documents have each
of its chunks once and in order, which is what `PartitionTiles` and `NoGap` say of the
parser and the chunker. `Places` numbers where a chunk can be, from the first channel
(1) to the consumer (20), and `At(p)` is what is there. `Gather` and `Flush` are `ChunkNode` with its two batch sizes,
`Embed` has the mutex that a panic poisons, and `store_chunks` is three steps: `CheckTable`,
then `AddRows` or `CreateTable`, or `StoreFails` before or after the rows are in;
`OtherCreates` is another process at the same table.

## Runs

| Run | Question and answer |
|---|---|
| `Pipeline_faults` | With every fault (panics, failing flushes, DLQ failures, an expired grace period, an abandoned run) and a cancellation: `NoSilentLoss`, `ExactErrorCount`, `QuiescentReturn` hold, `Pipeline` implements `Delivery` (`Delivers`: each item settles once, deliveries are in order, and a clean run has settled all), `IInv`, the type invariant in it, is an invariant, and every run comes to an end (`WindsDown`). |
| `Concurrent_faults` | Around each of the three nodes the stage delivers, dead-letters or filters each item once, sends nothing twice when workers are aborted and reports a panic once (`Complete`), calls its node as `Ordering` assumes (`CallsNode`), and ends. The node releases in order but for what a retry brings late, swallows nothing, and keeps outputs waiting only behind a failed head - or, for a retried id, for the flush. |
| `Graph_strategies` | Every checkpoint is a coherent pair within the step limit, with one runner it only ever grows, a crash repeats at most what the strategy leaves unsaved, every call returns, and with `OnSuspendOnly` an interrupt node runs only after a suspension. |
| `Breaker_races` | One probe at a time, resolved by itself only, probes `reset_after` apart, and a probe that is not dropped gets an answer. |
| `Idempotency_faults` | In orderly runs: one worker at a time, one success, a permanent mark. In all runs: no false success, and no orphaned lock blocks the item. |
| `RateLimit_both` | The rate is bounded with either strategy, sleepers keep their distance, and only excess is rejected. |
| `Middleware_orders` | Permits are conserved on every way out and the gauge is right unless a timeout is outside (`PermitsConserved`), the retry budget is exact and waiting costs no attempt where it must not (`AttemptsExact`), nobody waits for a back-off in the right orders, and every request is answered in all of them. |
| `Chunking_strategies` | Every line of a file is in one element of one document, and documents are full but for the last (`PartitionTiles`); token counts are exact and chunks as large as they may be (`ChunkSize`); chunks leave no gap and share no more than the overlap (`NoGap`); the active headers are those a reader would see above the text (`HeaderScope`). |
| `Ingestion_faults` | Every readable file is read once and every chunk of it is, in order, at the consumer, on its way, or dead-lettered (`EveryFileAndChunkOnce`); the table has what went downstream, once, and loses no row, another writer's included (`RowsKept`); the run ends. |
| `Concurrent_scrambled` | finding, see below |
| `Graph_bypass` | finding, see below |
| `Breaker_dropped` | finding, see below |

Every property is broken by a mutant of the code's model: an operator that makes a
plausible mistake (a dropped guard, a swapped order, a missing reset). They stand
before the definition they change and are used by nothing else.

### Where the code does not do what it says

* `Concurrent_scrambled`: an `OrderingNode` in a concurrent stage releases batches
  in order, but the workers send them after they have given up the lock
  (pipeline.rs:367). The consumer can get item 2 before item 1, although the
  node "restores sequential ordering in a concurrent pipeline"
  (node/ordering.rs:22).
* `Graph_bypass`: `resume` sets `is_resuming` for every checkpoint (graph.rs:213).
  With `Always`, the checkpoint after a node can point at an interrupt node that
  was never suspended at; a crash and a resume then run it (graph.rs:141).
* `Breaker_dropped`: half-open is left only by the result of the probe. If its
  future is dropped, the breaker rejects everything from then on
  (node/circuit_breaker.rs:96, against :23).

Read off the code, visible in the models, and stated by no property of a run:

* `validate` logs that it is "Halting pipeline to prevent data loss"
  (pipeline.rs:252) and goes on with the next item (`FailClosed`).
* An expired grace period returns an `error_count` of 0, whatever was counted
  (pipeline.rs:504, `GraceExpired`); `ExactErrorCount` excludes it.
* A panic in a sequential stage ends it like the end of its input
  (pipeline.rs:280, `TaskPanic`): the items it had are in no count.
* A `RetryNode` around an `OrderingNode` calls it again after the tombstone has
  been drained past: the output, which is below `next_expected_id` then, waits in the buffer
  for the flush and is released behind its successors. `ReleasedInOrder` and `OnlyErrorsDelay`
  name the exception; the latency note (node/ordering.rs:35-39) does not.
* `steal_lock` has no condition (node/idempotency.rs:89): two workers that saw the
  same stale lock both execute, and a worker that outlives its lock undoes the
  mark of the one that took over. This is why `Orderly` excludes `late`.
* The `active_requests` gauge is decremented after the await only
  (node/concurrency.rs:93), so a timeout around the limit leaves it incremented.
* With `tokens_per_minute` below 1 the bucket never holds the token that a request
  costs (node/rate_limit.rs:84), and `Reject` rejects everything.
* A structural chunk can have more than `max_tokens`: the tail that is carried over and
  the next block are not measured together (rag/chunk/structural.rs:149-153).
  `ChunkSize` says by how much. With an overlap of `max_tokens` or more a window is carried
  over whole, and its chunk is contained in the next one.
* A sentence with more than `max_tokens` is left out of every chunk (rag/chunk/structural.rs:98,
  "Hard token slice logic omitted"); so is a slice that cannot be decoded
  (`SliceOmitted`). They are no blocks, and `NoGap` says nothing of them.
* A document ends where `max_elements` are full, in the middle of a section, and the
  chunker starts each document without headers: the text after the cut has lost
  its headings (`NextDocument`).
* An error of `FileSource` ends the source like the end of its files (pipeline.rs:182-199): the rest of
  the tree is in no count (`SourceFails`, `EveryFileOnce`).
* A panic under the mutex of the embedding model poisons it, and every later batch is
  dead-lettered (rag/embedding.rs, `Embed`).
* `store_chunks` reads the table names, then creates: the loser of a race gets an error,
  and its batch is dead-lettered, though a retry would add it (rag/store/mod.rs:91-98). A failure after the
  rows are in dead-letters rows that are in the table.

## Bounds

* `Pipeline_faults`: two stages give a task with neighbours on both sides, one of
  each kind. Channels of capacity 1 make every send block. Three items fill a
  channel, a task and a node at once. Faults are not limited in number, they are a set
  of kinds. The proofs have no bounds.
* `Concurrent_faults`: three items and three workers over a channel of capacity 1: a gap, a
  tombstone and a successor, with one worker blocked, one failed and one running. (A limit of
  2 with four items, so that workers are replaced, holds as well.)
* `Graph_strategies`: two runners, `EveryN` = 2 and `MaxSteps` = 4: two turns of
  the loop, past two saves. Faults are unlimited.
* `Breaker_races`: three callers are a probe, a lingering call and a competitor;
  `MaxTime` = 9 with `ResetAfter` = 2 allows for four probes.
* `Idempotency_faults`: three workers - an owner, a thief and a late one - and two
  faults; the clock is relative and has no end. `successes` stops at 2.
* `RateLimit_both`: a token is five parts and two come per tick, so refills leave
  fractions; the bucket has two tokens; six admissions in ten ticks.
* `Middleware_orders`: three requests for one permit, one retry.
* `Chunking_strategies`: five items make two documents, the first of three elements, the second
  unfinished; blocks of up to three tokens with a limit of 3 and an overlap of 2 give windows
  that are carried over in part, whole and not at all; an oversize element has up to
  five tokens, a full slice and a rest.
* `Ingestion_faults`: a file with three chunks, one with two documents, one without a parser (whose
  chunk can only be dead-lettered), a subdirectory and a link; batches of two and three, so that both buffers end half full; two failing
  calls, wherever they hurt; channels of capacity 1. `RagProofs` has no bounds, on this
  or on the chunkers.

`kind`, `strategy` and `order` are variables that `Init` chooses and no step
changes: one run checks all configurations. Deadlock is checked, except in
three modules: graph runners whose calls have returned and whose thread has no checkpoint
have nothing to do, the clock of the rate limiter is bounded, and the middleware
is at rest when every request is answered. In `Pipeline`, `ConcurrentStage`,
`CircuitBreaker`, `Chunking` and `Ingestion` the legal end has a stuttering step of its own.

## Fairness

Everything is weak fairness of a task's own steps: tokio polls a ready task again.

* `Pipeline`: the source answers, nodes and the DLQ writer return, the caller keeps
  polling. Nothing makes a fault, a cancellation or an item happen, and `GraceExpired`
  is not fair either: a run in which the DLQ worker never ends would still return
  after the timeout, and the property would hide it. A source that blocks in `next()`
  for ever, without a token, does keep the task, the DLQ worker and the error
  channel (pipeline.rs:140); that the source answers is an assumption.
* `ConcurrentStage`: the same, and an aborted worker is dropped when it is next
  polled; the consumer drains its channel unless it goes away.
* `GraphEngine`: runners go on; nobody has to resume.
* `CircuitBreaker`: the inner node answers calls that are not dropped.
* `Idempotency`: the clock goes on and a failed item is delivered again. There is
  no fairness for faults, and they are finite.
* `Middleware`: semaphore and timer wake their waiters, while the inner node may
  hang forever: the timeout is there for that. Back-offs end only where
  `AllAnswered` says so; `NoHostages` holds without.

* `Ingestion`: every task goes on, and every call of a node, the store or the file
  system returns, if only with an error; the consumer takes what there is.

`SourceNext` and the other alternatives of a task are fair together, not each:
no run has to see an item, an error or a cancellation.

## Proofs

All are for every value of the constants, under the assumptions named in the
modules (positive capacities, a positive number of allowed failures, and so on).

* **`PipelineProofs`**: `Spec => []IInv` (`Invariance`), and from it `TypeOK`
  (`TypeCorrect`), `NoSilentLoss` (`Lossless`), `QuiescentReturn` (`Quiescence`)
  and `ExactErrorCount` (`ExactCount`). None of these is inductive. `IInv` adds how
  a run winds down: the caller leaves its loop after the last task (`CallerInv`), a
  sound DLQ worker leaves its own after the last sender (`DlqInv`), a stage leaves
  behind its upstream (`StageInv`), a task carries nothing outside its sends
  (`WorkInv`), and every raised payload is being sent, queued or counted
  (`CountInv`). The chain "the DLQ worker has ended, so the senders are gone, so
  every task has ended" is `QuiescentReturn`; "nothing is failing or queued, so
  raised = counted = written" is `ExactErrorCount`. `Cardinality` of the failing
  tasks changes by one per step, for which there are two lemmas on finite sets.
  *Refinement.* `Spec => Delivers` (`Refinement`): the run implements `Delivery`. The initial
  states map to initial states, and every step is a step of `Delivery` or a stutter. `IInv` does
  not say where an item is, so there is a second inductive invariant, `PlaceInv`: the
  further an item has come, the smaller it is (`OrderInv`; channels, held items and work
  ascend, and what a later task has lies before what an earlier one has), every item that was
  yielded is on its way, on its way to the DLQ or settled, and only one of these
  (`PartInv`), and no two error payloads name the same item (`RecordInv`). From there a
  delivery is the least item that is not settled, a DLQ write an item that was not written
  before, and the return of a clean run finds everything settled (by `QuiescentReturn`
  and `ExactErrorCount`). `DropFine` covers all steps that drop channels, held items or work.
* **`ConcurrentProofs`**, the node: `OrderInv` is inductive (`OrderInvariance`), and gives
  `ReleasedInOrder` (`ReleaseOrder`; `NothingSwallowed` with it) and `OnlyErrorsDelay`
  (`BoundedDelay`). The strengthening places every id (`Position`): below `next` it has been
  through the buffer, in the buffer it is above `next` or retried, and before the flush
  everything executed is one or the other. `HeadWaits` says that a drain has left nothing
  it could take, `MadeOnce` that the output of an id is made by its last call.
* **`ConcurrentProofs`**, the stage: a stage around an `OrderingNode` implements `Ordering`
  (`StageUsesNode`, for `CallsNode`): the initial states map to initial states, and every step is a
  step of the node or a stutter. So `OrderInv` is an invariant of the stage (`StageInvariance`), and
  `NothingSwallowed` with it (`StageKeepsOrder`). `Orderly` is what remains to be said
  of the stage itself: it breaks off only after a fault, and goes to its flush
  without workers otherwise. `Complete` (`StageComplete`) needs all of it and the types
  (`StageTypesOK`): `CompleteInv` adds that an output is on one of the ways through the stage at
  most (`FlowInv`: with a worker, in the flush, in the channel, delivered) and, without a fault,
  that each output the node has given away is on one; that a worker's place, the call of the node
  and the fate of the item go together (`ItemInv`); and that a stage without a fault
  flushes when nothing runs, and has reported its panic (`LoopInv`).
* **`GraphProofs`**: five results about every graph, with any number of callers. `EngineInv` is
  inductive and gives `TypeOK` (`EngineTypes`) and `CheckpointCoherent` (`CheckpointsCohere`): not
  only the checkpoint but every runner's pair is coherent, and a runner that has not been
  called is where a new one begins. `PauseInv` is inductive with it and gives
  `InterruptSuspends` (`InterruptsSuspend`): with `OnSuspendOnly` the checkpoint, whoever resumes
  from it and whoever executes stands behind a suspension, if an interrupt node comes
  next. `HistoryInv`, of one caller at a time: its trail continues that of the
  checkpoint, and what should have been saved at the steps behind it has been. It gives
  `HistoryOnlyGrows` (`HistoryGrows`) and `RepeatBound` (`RepeatsBounded`), the latter since one of
  any `EveryN` consecutive steps is a multiple of it.
* **`RagProofs`**, the parser and the chunkers: `ChunkInv` is inductive, and gives `ChunkSize` (`ChunkSizes`) and
  `NoGap` (`NothingLost`), for every file, limit and overlap, an overlap above the limit
  included. `Window` is the heart of it: the count is that of the blocks `lo+1..hi`, what lies between
  `lo` and the end of the last chunk (`Covered`) is within the overlap, and the newest block
  is in no chunk. `Rising` says that the sums of token counts ascend; `Cuts`, that a chunk keeps its
  size and its overlap with the one before as blocks are added. There is one lemma for each way of
  cutting (`EmitWindow`, `SliceCut`) and growing (`AddBlock`, `FlushAndAdd`, `FlushAll`),
  since both strategies consist of these. `TileInv` is inductive and gives
  `PartitionTiles` (`Partition`), for every file and every limit of elements: a
  document begins where the one before ends, the vector that is being filled where the last
  document ends, and the element that may still grow where the vector ends. `HeaderInv` gives `HeaderScope`
  (`Headers`): at every position the active headers are those in scope there (`InScope`),
  and an element that is being split is no heading.
* **`RagProofs`**, the files: `WalkInv` is inductive. It is `EveryFileOnce` with the types and
  the shape of the stack (`StackOk`): a path from the root, each directory with some of its own
  entries left. The lemmas are about `Within`: a directory has itself and what its entries have
  (`ReachedDir`), below the root nothing contains a directory above it (`Acyclic`), and two
  entries of a directory have nothing in common (`Apart`). All three come from its being the
  least closed set and from `TreeAssumption`, not from an induction on depth, which the provers
  could not do. So an entry that is opened, queued or skipped splits what is `Ahead` in two
  (`EntryTaken`).
* **`RagProofs`**, the ingestion: `IngestInv` is inductive, and gives `EveryFileAndChunkOnce`
  (`FilesAndChunks`) and `RowsKept` (`RowsSafe`), for every tree, every cut of its files, all
  sizes of batches and channels, and any number of faults. The argument is that the twenty
  places are a line: each is in order, of two places the later has the smaller chunks, and the
  places and `dead` together have `1..numbered`, nothing twice (`LineInv`). A step moves the least
  chunks of a place onto the next one (`LineMoved`), takes some of them off to `dead`
  (`LineDropped`), or is the source's and puts new ones, above all others, at the start
  (`LineGrown`); each action has to show only which of these it is. `StageInv` says what
  a stage keeps in which state - only the two `ChunkNode`s and the storage keep anything, and what has
  flushed has neither input nor a buffer - so that at the end only the consumer has chunks.
  `BatchInv` says that only a flush emits a batch that is not full. `RowsInv` adds to
  `RowsMatch` what the store knows of the table. `RowsMatch` is not inductive without `LineInv`: that
  a batch is new to the table follows from its place, which is behind all that went through the
  store and apart from what is dead (`StoredFresh`), and every row of ours is one of these.
* **`BreakerProofs`**: `ProbeInv` is inductive, and gives `OneProbe`
  (`SingleProbe`), `OnlyProbeResolves` (`ProbeResolution`) and `ProbesSpaced`
  (`Spacing`): no probe id is used twice, and an open breaker stays so for
  `reset_after` from its last probe on.
* **`IdempotencyProofs`**: `LockInv` is inductive, and gives `WorksAlone`
  (`Exclusion`), `ProcessedOnce` (`AtMostOneSuccess`) and `PermanentlySuccessful`
  (`Permanence`): in an orderly run a lock in progress is fresh and has exactly
  one worker, and success is possible only from a status that has seen none. `NeverFalselyDone`
  (`HonestMarks`) needs no orderly run: `DoneInv` says that a worker about to mark the item has
  seen a success.
* **`RateLimitProofs`**: `RateInv` is inductive (`BucketInvariance`), and gives `RateBound` (`Rates`)
  and `SleepersSpaced` (`Sleepers`). `Taken` says that the tokens left and those taken since any
  request are within a full bucket and the refills since then; `Owed`, that the debt
  after a sleeper is less than a tick's refill when it wakes; `Unowed`, that without sleepers
  nothing is owed. `RejectsOnlyExcess` (`Rejections`) is a property of the steps and follows from
  `Unowed`, if `Capacity >= Cost`: a smaller bucket is never full enough for one request and rejects
  all of them.
* **`MiddlewareProofs`**: `MiddlewareInv` is inductive in each of the three orders
  (`MiddlewareInvariance`), and gives `PermitsConserved` (`Permits`) and `AttemptsExact`
  (`Attempts`). `Budget` ties attempts and calls to what is left of the retries, at every place
  a request can be in. Each action moves one request: `PermitsFollow` says how its
  place before and after decides on permits and gauge, `RequestStep` that the others are
  undisturbed, and `RetryKeeps` covers every way an attempt returns to the retry node.

Only model-checked:

* Liveness under fairness (`WindsDown`, `StageIsOver`, `CallsReturn`, `HalfOpenAnswered`,
  `OrphanTakenOver`, `NoHostages`, `AllAnswered`, `IngestionEnds`), which the proof system
  does not decide, like `ENABLED`.
Every safety invariant and action property that a run checks is also proved, but for the three
that the code violates (see the runs). No property is stated with a
fold or a recursive function, since what those compute takes induction over data, and
the theorems for that have an operator as parameter, which no installed prover can instantiate:
`PartitionTiles`, `HeaderScope` and the ingestion are stated element by element.

No module declares a `RECURSIVE` operator.

## Not modelled, and why

* `into_source` (a pipeline as the source of another): it forwards the receiver and drops the
  handle of the DLQ worker, so that the first summary does not exist; a model would be two
  copies of `Pipeline` with nothing between them.
* Telemetry, metrics, tracing and messages, except the gauge of the concurrency limit.
* `VectorStore::search`, which changes nothing. Embedding vectors, texts, page numbers and
  metadata: nothing above depends on them.
* The extraction of text items from a PDF and the tokenizer: libraries. Their results are
  arbitrary choices.
* Paths that end the program before it starts: a network scheme or a root that does not exist in
  `FileSource::new`, a model that does not load.
* In `Ingestion`: a DLQ that fails and stages that panic as a whole; `Pipeline` has them for any
  source and nodes. The result of an inner `flush` inside `OrderingNode` (taken as empty).
* Configuration errors are excluded by assumptions: a concurrency limit, a channel size, `max_elements`, `max_tokens`
  or a batch size of 0, `EveryNSteps(0)`.
* `f64` rounding in the rate limiter.

## Plan

1. Done: all components but telemetry, with a run each, and the proofs above.
2. Models that could be added: two pipelines chained by `into_source`; a concurrent stage inside
   `Pipeline`.
3. Proofs that could be added: that `Chunking` and `PdfPartition` deliver what
   `DocumentAssumption` of `Ingestion` assumes of a file.
