------------------------------ MODULE Chunking ------------------------------
(***************************************************************************)
(* ChunkerNode (crates/rag-pipeline/src/chunk): the documents of a file    *)
(* (module PdfPartition) are cut into chunks, one after the other, by one  *)
(* of two strategies.  StructuralChunkerStrategy keeps a window of blocks, *)
(* carries its tail over into the next chunk and puts the active headers   *)
(* before a block; TokenGreedyStrategy fills chunks without an overlap.    *)
(*                                                                         *)
(* Blocks - elements, sentences or slices of one - are numbered 1, 2, ...  *)
(* within a document and come down to their token counts, chosen by the    *)
(* environment: `sums[k]` is what the blocks 1..k have together.  The      *)
(* window, or the chunk that is being filled, is the blocks lo+1..hi.      *)
(***************************************************************************)
EXTENDS PdfPartition, SequencesExt

CONSTANTS
  MaxTokens,            \* max_tokens
  OverlapTokens,        \* overlap_tokens
  MaxSentences,   \* sentences of an oversize element (a bound)
  MaxOversize     \* tokens of an oversize element (a bound)

ASSUME ChunkAssumption ==
  /\ MaxTokens \in Nat \ {0} /\ OverlapTokens \in Nat
  /\ MaxSentences \in Nat /\ MaxOversize \in Nat

VARIABLES
  strategy,   \* "structural" or "greedy", chosen once
  doc, pos,   \* the document and its element the chunker is at
  left,       \* sentences, or tokens, of an oversize element still to do
  headers,    \* the positions of the active_headers, which are in document order
  sums,       \* the token counts of the blocks, summed up
  lo,         \* the blocks that have left the window
  tokens,     \* window_tokens, or current_chunk_tokens
  chunks,     \* all_chunks of the document
  ended       \* the chunker has returned for the document

chunkVars == <<doc, pos, left, headers, sums, lo, tokens, chunks, ended>>
chunkingVars == <<partitionVars, chunkVars>>

Fresh ==
  /\ pos' = 1 /\ left' = 0 /\ headers' = {} /\ sums' = <<>> /\ lo' = 0
  /\ tokens' = 0 /\ chunks' = <<>> /\ ended' = FALSE

InitChunking ==
  /\ InitPartition
  /\ strategy \in {"structural", "greedy"}
  /\ doc = 1 /\ pos = 1 /\ left = 0 /\ headers = {} /\ sums = <<>> /\ lo = 0
  /\ tokens = 0 /\ chunks = <<>> /\ ended = FALSE

hi == Len(sums)
UpTo(k) == IF k = 0 THEN 0 ELSE sums[k]   \* the tokens of blocks 1..k

AtDocument == parsed /\ doc <= Len(docs) /\ ~ended
AtElement  == AtDocument /\ pos <= Len(docs[doc])
Element    == docs[doc][pos]
AtText     == AtElement /\ left = 0 /\ Element.level = 0
Structural == strategy = "structural"

Chunk(a, b, n) == [first |-> a + 1, last |-> b, tokens |-> n]

-----------------------------------------------------------------------------
(* StructuralChunkerStrategy.                                              *)

LevelAt(k) == docs[doc][k].level

\* Mutant: a header of the same level stays.
UpdateKeepingLevel(k) == {h \in headers : LevelAt(h) <= LevelAt(k)} \cup {k}

\* update_headers: a header ends the scope of those that are not above it.
UpdateHeaders(k) == {h \in headers : LevelAt(h) < LevelAt(k)} \cup {k}

HeaderSeen ==
  /\ AtElement /\ left = 0 /\ Element.level > 0
  /\ headers' = IF Structural THEN UpdateHeaders(pos) ELSE headers
  /\ pos' = pos + 1
  /\ UNCHANGED <<doc, left, sums, lo, tokens, chunks, ended>>

\* flush_window pops blocks from the front until what is left is within the
\* overlap or the window is empty; m blocks are out of the window then.
FlushedTo(m) ==
  /\ m \in lo..hi
  /\ tokens - (UpTo(m) - UpTo(lo)) <= OverlapTokens \/ m = hi
  /\ \A k \in lo..(m - 1) : tokens - (UpTo(k) - UpTo(lo)) > OverlapTokens

\* push_to_window: a block that does not fit flushes the window first.
PushToWindow(t) ==
  /\ sums' = Append(sums, UpTo(hi) + t)
  /\ IF tokens + t > MaxTokens /\ lo < hi
     THEN \E m \in lo..hi :
            /\ FlushedTo(m)
            /\ chunks' = Append(chunks, Chunk(lo, hi, tokens))
            /\ lo' = m
            /\ tokens' = tokens - (UpTo(m) - UpTo(lo)) + t
     ELSE tokens' = tokens + t /\ UNCHANGED <<lo, chunks>>

StructuralBlock(t) ==
  /\ Structural /\ AtText /\ t <= MaxTokens
  /\ PushToWindow(t)
  /\ pos' = pos + 1
  /\ UNCHANGED <<doc, left, headers, ended>>

\* An element with more than MaxTokens tokens is split into its sentences.
Split(sentences) ==
  /\ Structural /\ AtText /\ sentences > 0
  /\ left' = sentences
  /\ UNCHANGED <<doc, pos, headers, sums, lo, tokens, chunks, ended>>

SentenceDone ==
  /\ left' = left - 1
  /\ pos' = IF left = 1 THEN pos + 1 ELSE pos

Sentence(t) ==
  /\ Structural /\ left > 0 /\ t <= MaxTokens
  /\ PushToWindow(t)
  /\ SentenceDone
  /\ UNCHANGED <<doc, headers, ended>>

\* "Hard token slice logic omitted": a sentence of more than MaxTokens is left out.
SentenceOmitted ==
  /\ Structural /\ left > 0
  /\ SentenceDone
  /\ UNCHANGED <<doc, headers, sums, lo, tokens, chunks, ended>>

-----------------------------------------------------------------------------
(* TokenGreedyStrategy.                                                    *)

\* The chunk is closed if t more tokens do not fit; then an element is appended,
\* with two tokens for the blank line after it.
GreedyBlock(t) ==
  /\ ~Structural /\ AtText /\ t <= MaxTokens
  /\ sums' = Append(sums, UpTo(hi) + t)
  /\ IF tokens > 0 /\ tokens + t > MaxTokens
     THEN /\ chunks' = Append(chunks, Chunk(lo, hi, tokens))
          /\ lo' = hi /\ tokens' = t + 2
     ELSE tokens' = tokens + t + 2 /\ UNCHANGED <<lo, chunks>>
  /\ pos' = pos + 1
  /\ UNCHANGED <<doc, left, headers, ended>>

\* Mutant: the chunk before an oversize element stays open.
OversizeUnflushed(n) ==
  /\ ~Structural /\ AtText /\ n > MaxTokens
  /\ left' = n
  /\ UNCHANGED <<doc, pos, headers, sums, lo, tokens, chunks, ended>>

\* An element with more than MaxTokens tokens closes the chunk and is sliced.
Oversize(n) ==
  /\ ~Structural /\ AtText /\ n > MaxTokens
  /\ left' = n
  /\ IF tokens > 0
     THEN /\ chunks' = Append(chunks, Chunk(lo, hi, tokens))
          /\ lo' = hi /\ tokens' = 0
     ELSE UNCHANGED <<chunks, lo, tokens>>
  /\ UNCHANGED <<doc, pos, headers, sums, ended>>

SliceSize == IF left < MaxTokens THEN left ELSE MaxTokens
SliceDone ==
  /\ left' = left - SliceSize
  /\ pos' = IF left = SliceSize THEN pos + 1 ELSE pos

\* A slice is a chunk of its own.
Slice ==
  /\ ~Structural /\ left > 0
  /\ sums' = Append(sums, UpTo(hi) + SliceSize)
  /\ chunks' = Append(chunks, Chunk(hi, hi + 1, SliceSize))
  /\ lo' = hi + 1
  /\ SliceDone
  /\ UNCHANGED <<doc, headers, tokens, ended>>

\* The tokenizer cannot decode it: it is left out.
SliceOmitted ==
  /\ ~Structural /\ left > 0
  /\ SliceDone
  /\ UNCHANGED <<doc, headers, sums, lo, tokens, chunks, ended>>

-----------------------------------------------------------------------------
\* Mutant: what is left in the window is not flushed.
DocumentEndsUnflushed ==
  /\ AtDocument /\ ~AtElement
  /\ ended' = TRUE
  /\ UNCHANGED <<doc, pos, left, headers, sums, lo, tokens, chunks>>

\* After the last element the rest becomes a chunk, and chunk() returns.
DocumentEnds ==
  /\ AtDocument /\ ~AtElement
  /\ ended' = TRUE
  /\ IF lo < hi THEN /\ chunks' = Append(chunks, Chunk(lo, hi, tokens))
                     /\ lo' = hi /\ tokens' = 0
                ELSE UNCHANGED <<chunks, lo, tokens>>
  /\ UNCHANGED <<doc, pos, left, headers, sums>>

\* The tokenizer fails: chunk() returns Err - or panics, for a sentence - and its
\* chunks are dropped.
EncodeFails ==
  /\ AtText \/ (Structural /\ left > 0)
  /\ ended' = TRUE /\ chunks' = <<>> /\ left' = 0
  /\ UNCHANGED <<doc, pos, headers, sums, lo, tokens>>

\* The node is executed for the next document of the file, and starts from nothing.
NextDocument == ended /\ doc' = doc + 1 /\ Fresh

ChunkStep ==
  \/ HeaderSeen
  \/ \E t \in 0..MaxTokens : StructuralBlock(t) \/ Sentence(t) \/ GreedyBlock(t)
  \/ \E n \in 1..MaxSentences : Split(n)
  \/ \E n \in 1..MaxOversize : Oversize(n)
  \/ SentenceOmitted \/ Slice \/ SliceOmitted
  \/ DocumentEnds \/ EncodeFails \/ NextDocument

Done == parsed /\ doc > Len(docs)

ChunkingNext ==
  /\ \/ PartitionStep /\ UNCHANGED chunkVars
     \/ ChunkStep /\ UNCHANGED partitionVars
     \/ Done /\ UNCHANGED chunkingVars
  /\ UNCHANGED strategy

ChunkingSpec == InitChunking /\ [][ChunkingNext]_<<strategy, chunkingVars>>

-----------------------------------------------------------------------------
\* The two tokens that the greedy strategy adds for a blank line.
Blank(n) == IF Structural THEN 0 ELSE 2 * n

\* The window's count is what its blocks have, so that it never underflows; a chunk
\* has at most max_tokens and the overlap, and more than max_tokens only if without
\* its last block it would be within the overlap; a greedy one may exceed max_tokens
\* by its last blank line (structural.rs:149-153, token_greedy.rs:52-90).
ChunkSize ==
  /\ tokens = UpTo(hi) - UpTo(lo) + Blank(hi - lo)
  /\ \A k \in DOMAIN chunks : LET c == chunks[k] IN
       /\ c.tokens - (UpTo(c.last) - UpTo(c.first - 1))
            \in {0, Blank(c.last + 1 - c.first)}
       /\ c.tokens > MaxTokens =>
            IF Structural THEN UpTo(c.last - 1) - UpTo(c.first - 1) <= OverlapTokens
                          ELSE c.tokens <= MaxTokens + 2

\* Chunks have no gap: each begins in or right after the one before and ends after
\* it, with at most overlap_tokens in both, none for the greedy strategy; what is in
\* no chunk yet is in the window, and when the document ends, but not by a failure at
\* an element, all of it has been in one (structural.rs:130-132, 184-189;
\* token_greedy.rs:98).
NoGap ==
  LET end == IF chunks = <<>> THEN 0 ELSE Last(chunks).last IN
  /\ \A k \in 2..Len(chunks) :
       LET c == chunks[k]  before == chunks[k - 1] IN
       /\ c.first \in before.first..(before.last + 1) /\ c.last > before.last
       /\ UpTo(before.last) - UpTo(c.first - 1) <= IF Structural THEN OverlapTokens ELSE 0
  /\ chunks # <<>> => chunks[1].first = 1
  /\ AtDocument => lo <= end /\ (lo < hi => end < hi) /\ UpTo(end) - UpTo(lo) <= OverlapTokens
  /\ ended => end = hi \/ pos <= Len(docs[doc])

\* The active headers are the headings that a reader would see above the element:
\* those of this document with no later one of their level or above between
\* (structural.rs:27-31); headings of the documents before it are not among them.
HeaderScope ==
  Structural /\ AtDocument =>
    LET seen == {k \in 1..(pos - 1) : LevelAt(k) > 0}
    IN  headers = {k \in seen : \A j \in seen : j > k => LevelAt(j) > LevelAt(k)}
=============================================================================
