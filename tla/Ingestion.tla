------------------------------ MODULE Ingestion -----------------------------
(***************************************************************************)
(* The ingestion of crates/rag-pipeline/src/main.rs: FileSource, a parser, *)
(* a chunker, ChunkNode(2), LocalEmbeddingNode, ChunkNode(500) and         *)
(* VectorStorageNode, each in a pipe() stage of its own with a bounded     *)
(* channel before it, and a consumer (for_each).                           *)
(*                                                                         *)
(* Stage s takes from queue[s] and sends to queue[s + 1]; the consumer     *)
(* takes from queue[7].  The chunks are numbered in the order of the       *)
(* source; a record is a file and the number of chunks before its first, a *)
(* document and a batch are the sequences of their chunks.  The dead       *)
(* letter queue does not fail (NoOpDLQ); module Pipeline has one that      *)
(* does, and the faults of the tasks themselves.                           *)
(***************************************************************************)
EXTENDS FileSource

CONSTANTS
  ChunksOf,    \* how many chunks a file has, a function
  DocsOf,      \* the documents the parser makes of it, its chunks numbered from 1
  Registered,  \* the files whose mime type has a strategy
  Pair, Rows,  \* the batch sizes of the two ChunkNodes
  Capacity,    \* of the channels
  MaxFaults,   \* at most this many failing calls (a bound)
  OtherWriter  \* whether another process may create the table

Ascending(ns) == \A j, k \in DOMAIN ns : j < k => ns[j] < ns[k]

ASSUME DocumentAssumption ==
  /\ ChunksOf \in [Files -> Nat] /\ DocsOf \in [Files -> Seq(Seq(Nat))]
  /\ \A f \in Files : LET docs == DocsOf[f] IN
       /\ UNION {ToSet(docs[k]) : k \in DOMAIN docs} = 1..ChunksOf[f]
       /\ \A k \in DOMAIN docs : Ascending(docs[k])
       /\ \A j, k \in DOMAIN docs : j < k =>
            \A m \in ToSet(docs[j]), n \in ToSet(docs[k]) : m < n

ASSUME IngestionAssumption ==
  /\ Registered \subseteq Files
  /\ {Pair, Rows, Capacity} \subseteq Nat \ {0}
  /\ MaxFaults \in Nat /\ OtherWriter \in BOOLEAN

Stages   == 1..6
Parser   == 1
Chunker  == 2
Pairing  == 3
Embedder == 4
Batching == 5
Storage  == 6

BatchSize(s) == IF s = Pairing THEN Pair ELSE Rows

VARIABLES
  queue,      \* the channels
  task,       \* of a stage: "open", "checked" (Storage only), "flush" or "done"
  buffer,     \* the ChunkNodes' buffers; the batch that VectorStore is storing
  out,        \* what handle_node_result has still to send
  dead,       \* the chunks of what went to the dead letter queue
  faults,     \* the calls that have failed
  poisoned,   \* the embedding model's mutex
  exists,     \* what VectorStore read of table_names
  table,      \* whether the table exists
  rows,       \* its rows: the chunks, or Other
  delivered,  \* what the consumer got
  numbered    \* history: the chunks of the files yielded so far

stageVars == <<queue, task, buffer, out, dead, delivered>>
storeVars == <<table, rows, exists>>
readVars  == <<sourceVars, numbered>>
vars == <<readVars, stageVars, storeVars, faults, poisoned>>

Other == 0   \* a row of another writer

Init ==
  /\ InitSource /\ numbered = 0
  /\ queue = [s \in 1..7 |-> <<>>] /\ task = [s \in Stages |-> "open"]
  /\ buffer = [s \in Stages |-> <<>>] /\ out = [s \in Stages |-> <<>>]
  /\ dead = {} /\ delivered = <<>>
  /\ faults = 0 /\ poisoned = FALSE
  /\ table \in BOOLEAN /\ exists = FALSE /\ rows = IF table THEN <<Other>> ELSE <<>>

-----------------------------------------------------------------------------
(* The source task: a record is sent before next() is called again; an     *)
(* error ends it like the end of the files.                                *)

SourceYields ==
  /\ Yield /\ Len(queue[1]) < Capacity
  /\ queue' = [queue EXCEPT ![1] = Append(@, [file |-> Head(pending), before |-> numbered])]
  /\ numbered' = numbered + ChunksOf[Head(pending)]
  /\ UNCHANGED <<task, buffer, out, dead, delivered, storeVars, faults, poisoned>>

Source ==
  \/ SourceYields
  \/ (ReadEntry \/ DirDone \/ Exhausted)
       /\ UNCHANGED <<numbered, stageVars, storeVars, faults, poisoned>>
  \/ SourceFails /\ faults < MaxFaults /\ faults' = faults + 1
       /\ UNCHANGED <<numbered, stageVars, storeVars, poisoned>>

-----------------------------------------------------------------------------
(* A pipe() stage.                                                         *)

Receives(s) == task[s] = "open" /\ out[s] = <<>> /\ queue[s] # <<>>
Input(s)    == Head(queue[s])
Received(s) == queue' = [queue EXCEPT ![s] = Tail(@)]

\* The chunks of an item of queue[s].
Carried(s, item) ==
  CASE s = 1           -> (item.before + 1)..(item.before + ChunksOf[item.file])
    [] s \in {2, 4, 6} -> ToSet(item)
    [] OTHER           -> {item}

Emits(s, items)      == out' = [out EXCEPT ![s] = items] /\ UNCHANGED dead
DeadLetters(s, item) == dead' = dead \cup Carried(s, item) /\ UNCHANGED out

Fault == faults < MaxFaults /\ faults' = faults + 1

Send(s) ==
  /\ out[s] # <<>> /\ Len(queue[s + 1]) < Capacity
  /\ queue' = [queue EXCEPT ![s + 1] = Append(@, Head(out[s]))]
  /\ out' = [out EXCEPT ![s] = Tail(@)]
  /\ UNCHANGED <<readVars, task, buffer, dead, delivered, storeVars, faults, poisoned>>

UpstreamDone(s) == IF s = 1 THEN source # "open" ELSE task[s - 1] = "done"

Ends(s) == task[s] = "open" /\ out[s] = <<>> /\ queue[s] = <<>> /\ UpstreamDone(s)

\* Mutant: the stage ends without a flush.
FlushSkipped(s) ==
  /\ Ends(s)
  /\ task' = [task EXCEPT ![s] = "flush"]
  /\ UNCHANGED <<readVars, queue, buffer, out, dead, delivered, storeVars, faults, poisoned>>

\* The channel is closed and drained: node.flush(), of which only that of ChunkNode
\* has anything to give.
Flush(s) ==
  /\ Ends(s)
  /\ task' = [task EXCEPT ![s] = "flush"]
  /\ Emits(s, IF buffer[s] = <<>> THEN <<>> ELSE <<buffer[s]>>)
  /\ buffer' = [buffer EXCEPT ![s] = <<>>]
  /\ UNCHANGED <<readVars, queue, delivered, storeVars, faults, poisoned>>

\* Mutant: the task ends, but a clone of its sender lives on.
SenderKept(s) == task[s] = "flush" /\ out[s] = <<>> /\ UNCHANGED vars

\* The task ends and drops its sender, which closes the channel.
StageDone(s) ==
  /\ task[s] = "flush" /\ out[s] = <<>>
  /\ task' = [task EXCEPT ![s] = "done"]
  /\ UNCHANGED <<readVars, queue, buffer, out, dead, delivered, storeVars, faults, poisoned>>

-----------------------------------------------------------------------------
(* The nodes.                                                              *)

Documents(record) ==
  LET docs == DocsOf[record.file]
  IN  [k \in DOMAIN docs |-> [i \in DOMAIN docs[k] |-> record.before + docs[k][i]]]

\* DocumentParserNode: no strategy for the mime type, or the strategy's answer.
Parse ==
  /\ Receives(Parser) /\ Received(Parser)
  /\ LET record == Input(Parser) IN
     \/ record.file \in Registered /\ Emits(Parser, Documents(record)) /\ UNCHANGED faults
     \/ /\ IF record.file \in Registered THEN Fault ELSE UNCHANGED faults
        /\ DeadLetters(Parser, record)
  /\ UNCHANGED <<readVars, task, buffer, delivered, storeVars, poisoned>>

\* ChunkerNode.
CutDocument ==
  /\ Receives(Chunker) /\ Received(Chunker)
  /\ \/ Emits(Chunker, Input(Chunker)) /\ UNCHANGED faults
     \/ Fault /\ DeadLetters(Chunker, Input(Chunker))
  /\ UNCHANGED <<readVars, task, buffer, delivered, storeVars, poisoned>>

\* ChunkNode::execute.
Gather(s) ==
  /\ Receives(s) /\ Received(s)
  /\ LET gathered == Append(buffer[s], Input(s)) IN
     IF Len(gathered) >= BatchSize(s)
     THEN Emits(s, <<gathered>>) /\ buffer' = [buffer EXCEPT ![s] = <<>>]
     ELSE Emits(s, <<>>) /\ buffer' = [buffer EXCEPT ![s] = gathered]
  /\ UNCHANGED <<readVars, task, delivered, storeVars, faults, poisoned>>

\* LocalEmbeddingNode: a panic under the mutex poisons it, and every later batch
\* fails to lock it.
Embed ==
  /\ Receives(Embedder) /\ Received(Embedder)
  /\ \/ ~poisoned /\ Emits(Embedder, Input(Embedder)) /\ UNCHANGED <<faults, poisoned>>
     \/ ~poisoned /\ Fault /\ poisoned' \in BOOLEAN /\ DeadLetters(Embedder, Input(Embedder))
     \/ poisoned /\ DeadLetters(Embedder, Input(Embedder)) /\ UNCHANGED <<faults, poisoned>>
  /\ UNCHANGED <<readVars, task, buffer, delivered, storeVars>>

\* VectorStore::store_chunks first asks whether the table exists ...
CheckTable ==
  /\ Receives(Storage) /\ Received(Storage)
  /\ task' = [task EXCEPT ![Storage] = "checked"]
  /\ buffer' = [buffer EXCEPT ![Storage] = Input(Storage)]
  /\ exists' = table
  /\ UNCHANGED <<readVars, out, dead, delivered, table, rows, faults, poisoned>>

Stored == buffer[Storage]

StoreAnswers(ok) ==
  /\ task[Storage] = "checked"
  /\ task' = [task EXCEPT ![Storage] = "open"]
  /\ buffer' = [buffer EXCEPT ![Storage] = <<>>]
  /\ IF ok THEN Emits(Storage, Stored) ELSE DeadLetters(Storage, Stored)
  /\ UNCHANGED <<readVars, queue, delivered, exists, poisoned>>

\* ... then adds to it,
AddRows ==
  /\ exists /\ StoreAnswers(TRUE)
  /\ rows' = rows \o Stored
  /\ UNCHANGED <<table, faults>>

\* Mutant: a table that is there is replaced.
CreateOverwrites ==
  /\ ~exists /\ StoreAnswers(TRUE)
  /\ table' = TRUE /\ rows' = Stored
  /\ UNCHANGED faults

\* or creates it, which is an error if somebody has in the meantime.
CreateTable ==
  /\ ~exists /\ StoreAnswers(~table)
  /\ table' = TRUE /\ rows' = IF table THEN rows ELSE Stored
  /\ UNCHANGED faults

\* The store fails, before or after the rows are in.
StoreFails ==
  /\ StoreAnswers(FALSE) /\ Fault
  /\ \/ UNCHANGED <<table, rows>>
     \/ table = exists /\ table' = TRUE /\ rows' = rows \o Stored

OtherCreates ==
  /\ OtherWriter /\ ~table
  /\ table' = TRUE /\ rows' = <<Other>>
  /\ UNCHANGED <<readVars, stageVars, exists, faults, poisoned>>

\* for_each.
Deliver ==
  /\ queue[7] # <<>>
  /\ delivered' = Append(delivered, Head(queue[7]))
  /\ queue' = [queue EXCEPT ![7] = Tail(@)]
  /\ UNCHANGED <<readVars, task, buffer, out, dead, storeVars, faults, poisoned>>

-----------------------------------------------------------------------------
Step(s) ==
  \/ Send(s) \/ Flush(s) \/ StageDone(s)
  \/ s = Parser /\ Parse
  \/ s = Chunker /\ CutDocument
  \/ s \in {Pairing, Batching} /\ Gather(s)
  \/ s = Embedder /\ Embed
  \/ s = Storage /\ (CheckTable \/ AddRows \/ CreateTable \/ StoreFails)

Over == (\A s \in Stages : task[s] = "done") /\ queue[7] = <<>>

Next ==
  \/ Source \/ Deliver \/ OtherCreates
  \/ \E s \in Stages : Step(s)
  \/ Over /\ UNCHANGED vars

Spec == Init /\ [][Next]_vars

\* Every task is scheduled, and every call of a node, the store or the file system
\* returns, if only with an error.
FairSpec ==
  Spec /\ WF_vars(Source) /\ WF_vars(Deliver) /\ \A s \in Stages : WF_vars(Step(s))

-----------------------------------------------------------------------------
\* The chunks of a sequence of items of queue[s], and whether they are in order.
In(s, items) == UNION {Carried(s, items[k]) : k \in DOMAIN items}

Sorted(s, items) ==
  /\ \A j, k \in DOMAIN items : j < k =>
       \A m \in Carried(s, items[j]), n \in Carried(s, items[k]) : m < n
  /\ s \in {2, 4, 6} => \A k \in DOMAIN items : Ascending(items[k])

\* The places a chunk passes: of stage s the channel before it, its buffer and its
\* output (3s - 2, 3s - 1 and 3s), then the channel of the consumer and the consumer.
Places == 1..20

At(p) ==
  IF p = 20 THEN ToSet(delivered)
  ELSE LET s == (p + 2) \div 3 IN
       CASE p % 3 = 1 -> In(s, queue[s])
         [] p % 3 = 2 -> ToSet(buffer[s])
         [] p % 3 = 0 -> In(s + 1, out[s])

InOrder ==
  /\ \A p, q \in Places : p < q => \A m \in At(q), n \in At(p) : m < n
  /\ \A s \in 1..7 : Sorted(s, queue[s])
  /\ \A s \in Stages : Ascending(buffer[s]) /\ Sorted(s + 1, out[s])
  /\ Ascending(delivered)

\* The chunks of the files that were yielded are at the consumer, on their way or
\* dead-lettered, each at one place and no chunk behind a later one: nothing is lost,
\* doubled or overtaken in a channel, a batch, a blocked send or a flush, whatever
\* fails, and in the end nothing is on its way.  Only a flush emits a batch that is not
\* full (chunk.rs:47-116, pipeline.rs:286-308).
EveryChunkOnce ==
  /\ InOrder
  /\ LET alive == UNION {At(p) : p \in Places}
     IN  alive \cup dead = 1..numbered /\ alive \cap dead = {}
  /\ Over => ToSet(delivered) = (1..numbered) \ dead
  /\ \A s \in {Pairing, Batching} :
       /\ Len(buffer[s]) < BatchSize(s)
       /\ \A batch \in ToSet(out[s]) \cup ToSet(queue[s + 1]) :
            Len(batch) = BatchSize(s) \/ task[s] # "open"

\* The path from the files to the consumer.
EveryFileAndChunkOnce == EveryFileOnce /\ EveryChunkOnce

\* What went downstream of the store is in the table, once, and what is there besides
\* was reported as failed; no row is ever overwritten, those of another writer least of
\* all, though the table may come into being between check and create
\* (store/mod.rs:91-98).
RowsMatch ==
  LET through == At(18) \cup At(19) \cup At(20)
      ours    == ToSet(rows) \ {Other}
  IN  /\ \A j, k \in DOMAIN rows : rows[j] = rows[k] /\ rows[j] # Other => j = k
      /\ through \subseteq ours /\ ours \subseteq through \cup dead

RowsKept == []RowsMatch /\ [][IsPrefix(rows, rows')]_rows

\* The ingestion comes to an end: no ring of full channels, and no failing or poisoned
\* node, keeps a stage waiting.
IngestionEnds == <>Over
=============================================================================
