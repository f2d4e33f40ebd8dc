------------------------------ MODULE RagProofs -----------------------------
(***************************************************************************)
(* Proofs about crates/rag-pipeline, for every file and every tree of      *)
(* files, every size and every overlap.                                    *)
(*                                                                         *)
(* Chunking: the counts of both chunkers are exact, chunks are as large as *)
(* ChunkSize says, and leave no gap - an inductive invariant describes the *)
(* window and what it owes to the last chunk; the parser puts every line   *)
(* into one element of one document; and the active headers are those      *)
(* above the element.                                                      *)
(*                                                                         *)
(* FileSource: what is within an entry is a least closed set, and the      *)
(* remaining entries of the open directories have disjoint ones.           *)
(*                                                                         *)
(* Ingestion: the places from the source to the consumer are a line that   *)
(* chunks move along in order; every step moves some forward, takes some   *)
(* off to the dead letter queue, or is the source's, which adds some at    *)
(* its start.  What the store adds to the table is ahead of what it added  *)
(* before, and so is new.                                                  *)
(***************************************************************************)
EXTENDS Chunking, Ingestion, SequenceTheorems, TLAPS

Chunk3 == [first : Nat, last : Nat, tokens : Nat]

ChunkType ==
  /\ strategy \in {"structural", "greedy"}
  /\ sums \in Seq(Nat) /\ lo \in 0..hi
  /\ tokens \in Nat /\ left \in Nat /\ ended \in BOOLEAN
  /\ chunks \in Seq(Chunk3)

Rising ==
  \A i, j \in 0..hi : UpTo(i) \in Nat /\ (i <= j => UpTo(i) <= UpTo(j))

Covered == IF chunks = <<>> THEN 0 ELSE chunks[Len(chunks)].last

\* The window: its count, its bound, and what it shares with the last chunk.
Window ==
  /\ tokens = UpTo(hi) - UpTo(lo) + Blank(hi - lo)
  /\ Structural /\ tokens > MaxTokens => lo < hi /\ UpTo(hi - 1) - UpTo(lo) <= OverlapTokens
  /\ ~Structural => tokens <= MaxTokens + 2
  /\ ~ended =>
       /\ lo <= Covered /\ Covered <= hi /\ (lo < hi => Covered < hi)
       /\ UpTo(Covered) - UpTo(lo) <= OverlapTokens
       /\ ~Structural => lo = Covered
       /\ IF chunks = <<>> THEN lo = 0 ELSE chunks[Len(chunks)].first <= lo + 1

\* Where the chunker is in the document, and that it has not left out anything.
Place ==
  /\ left > 0 => parsed /\ ~ended /\ pos <= Len(docs[doc]) /\ (~Structural => lo = hi)
  /\ ended => parsed /\ (Covered = hi \/ pos <= Len(docs[doc]))

CutWell(c) ==
  /\ 0 < c.first /\ c.first <= c.last /\ c.last <= hi
  /\ c.tokens - (UpTo(c.last) - UpTo(c.first - 1)) \in {0, Blank(c.last + 1 - c.first)}
  /\ c.tokens > MaxTokens =>
       IF Structural THEN UpTo(c.last - 1) - UpTo(c.first - 1) <= OverlapTokens
                     ELSE c.tokens <= MaxTokens + 2

Follows(c, before) ==
  /\ before.first <= c.first /\ c.first <= before.last + 1 /\ before.last < c.last
  /\ UpTo(before.last) - UpTo(c.first - 1) <= IF Structural THEN OverlapTokens ELSE 0

Cuts ==
  /\ \A k \in 1..Len(chunks) : CutWell(chunks[k])
  /\ \A k \in 2..Len(chunks) : Follows(chunks[k], chunks[k - 1])
  /\ chunks # <<>> => chunks[1].first = 1

CutInv == ChunkType /\ Rising /\ Window /\ Cuts

ChunkInv == CutInv /\ Place

-----------------------------------------------------------------------------
\* The next block, or none.
Grows == sums' = sums \/ \E n \in Nat : sums' = Append(sums, UpTo(hi) + n)

LEMMA SumsGrow ==
  ASSUME sums \in Seq(Nat), Rising, Grows
  PROVE  /\ sums' \in Seq(Nat) /\ hi <= hi' /\ Rising'
         /\ \A k \in 0..hi : UpTo(k)' = UpTo(k)
<1>1. CASE sums' = sums
  BY <1>1 DEF Rising, UpTo, hi
<1>2. CASE \E n \in Nat : sums' = Append(sums, UpTo(hi) + n)
  <2>1. PICK h : h = hi
    OBVIOUS
  <2>2. PICK n \in Nat : sums' = Append(sums, UpTo(h) + n)
    BY <1>2, <2>1
  <2>3. h \in Nat /\ UpTo(h) \in Nat /\ \A i \in 0..h : UpTo(i) \in Nat /\ UpTo(i) <= UpTo(h)
    BY <2>1 DEF Rising, hi
  <2>4. /\ sums' \in Seq(Nat) /\ hi' = h + 1
        /\ \A k \in 1..h : sums'[k] = sums[k]
        /\ sums'[h + 1] = UpTo(h) + n
    BY <2>1, <2>2, <2>3 DEF hi
  <2>5. UpTo(h + 1)' = UpTo(h) + n /\ \A k \in 0..h : UpTo(k)' = UpTo(k)
    BY <2>3, <2>4 DEF UpTo
  <2>6. \A i, j \in 0..h : UpTo(i) <= UpTo(j) \/ j < i
    BY <2>1, <2>3 DEF Rising
  <2>7. Rising'
    <3> SUFFICES ASSUME NEW i \in 0..(h + 1), NEW j \in 0..(h + 1)
                 PROVE  UpTo(i)' \in Nat /\ (i <= j => UpTo(i)' <= UpTo(j)')
      BY <2>4 DEF Rising
    <3> HIDE DEF UpTo
    <3>1. CASE i \in 0..h /\ j \in 0..h
      BY <3>1, <2>3, <2>5, <2>6
    <3>2. CASE i \in 0..h /\ j = h + 1
      BY <3>2, <2>3, <2>5
    <3>3. CASE i = h + 1
      BY <3>3, <2>3, <2>5
    <3> QED
      BY <3>1, <3>2, <3>3, <2>3
  <2> QED
    BY <2>1, <2>3, <2>4, <2>5, <2>7
<1> QED
  BY <1>1, <1>2 DEF Grows

\* What has been cut stays well cut.
LEMMA CutStays ==
  ASSUME ChunkType, Rising, Grows, strategy' = strategy,
         NEW c \in Chunk3, CutWell(c)
  PROVE  /\ CutWell(c)'
         /\ \A b \in Chunk3 : CutWell(b) /\ Follows(c, b) => Follows(c, b)'
<1>1. hi \in Nat /\ hi' \in Nat /\ hi <= hi' /\ \A k \in 0..hi : UpTo(k)' = UpTo(k)
  BY SumsGrow DEF ChunkType, hi
<1>2. /\ c.first - 1 \in 0..hi /\ c.last \in 0..hi /\ c.last - 1 \in 0..hi
      /\ c.first \in Nat /\ c.last \in Nat
  BY <1>1 DEF CutWell, Chunk3
<1>3. /\ UpTo(c.first - 1)' = UpTo(c.first - 1) /\ UpTo(c.last)' = UpTo(c.last)
      /\ UpTo(c.last - 1)' = UpTo(c.last - 1)
  BY <1>1, <1>2
<1>4. CutWell(c)'
  BY <1>1, <1>2, <1>3 DEF CutWell, Structural, Blank
<1>5. ASSUME NEW b \in Chunk3, CutWell(b), Follows(c, b)
      PROVE  Follows(c, b)'
  <2>1. UpTo(b.last)' = UpTo(b.last)
    BY <1>1, <1>5 DEF CutWell, Chunk3
  <2> QED
    BY <1>3, <1>5, <2>1 DEF Follows, Structural
<1> QED
  BY <1>4, <1>5

LEMMA CutsStay ==
  ASSUME ChunkType, Rising, Cuts, Grows, strategy' = strategy
  PROVE  /\ \A k \in 1..Len(chunks) : \A c : c = chunks[k] => CutWell(c)'
         /\ \A k \in 2..Len(chunks) :
              \A c, b : c = chunks[k] /\ b = chunks[k - 1] => Follows(c, b)'
<1>1. \A k \in 1..Len(chunks) : chunks[k] \in Chunk3 /\ CutWell(chunks[k])
  BY DEF ChunkType, Cuts
<1>2. ASSUME NEW k \in 1..Len(chunks), NEW c, c = chunks[k]
      PROVE  CutWell(c)'
  <2>1. c \in Chunk3 /\ CutWell(c)
    BY <1>1, <1>2
  <2> QED
    BY <2>1, CutStays
<1>3. ASSUME NEW k \in 2..Len(chunks), NEW c, NEW b, c = chunks[k], b = chunks[k - 1]
      PROVE  Follows(c, b)'
  <2>1. k \in 1..Len(chunks) /\ k - 1 \in 1..Len(chunks)
    BY <1>3 DEF ChunkType
  <2>2. c \in Chunk3 /\ CutWell(c) /\ b \in Chunk3 /\ CutWell(b)
    BY <1>1, <1>3, <2>1
  <2>3. Follows(c, b)
    BY <1>3 DEF Cuts
  <2> QED
    BY <2>2, <2>3, CutStays
<1> QED
  BY <1>2, <1>3

LEMMA SameCuts ==
  ASSUME ChunkType, Rising, Cuts, Grows, strategy' = strategy, chunks' = chunks
  PROVE  Cuts' /\ Covered' = Covered
<1>1. ASSUME NEW k \in 1..Len(chunks) PROVE CutWell(chunks[k])'
  BY CutsStay
<1>2. ASSUME NEW k \in 2..Len(chunks) PROVE Follows(chunks[k], chunks[k - 1])'
  BY CutsStay
<1>3. Cuts'
  BY <1>1, <1>2 DEF Cuts
<1>4. Covered' = Covered
  BY DEF Covered
<1> QED
  BY <1>3, <1>4

\* A new chunk that is well cut and follows the last one.
LEMMA CutsGrow ==
  ASSUME ChunkType, Rising, Cuts, Grows, strategy' = strategy,
         NEW c \in Chunk3, chunks' = Append(chunks, c), CutWell(c)',
         chunks = <<>> => c.first = 1,
         chunks # <<>> => \E b : b = chunks[Len(chunks)] /\ Follows(c, b)'
  PROVE  Cuts' /\ Covered' = c.last
<1>1. PICK n : n = Len(chunks)
  OBVIOUS
<1>2. /\ n \in Nat /\ Len(chunks') = n + 1
      /\ \A k \in 1..n : chunks'[k] = chunks[k]
      /\ chunks'[n + 1] = c /\ chunks' # <<>> /\ (chunks # <<>> <=> n > 0)
  BY <1>1 DEF ChunkType
<1>3. Covered' = c.last
  BY <1>2 DEF Covered
<1>4. ASSUME NEW k \in 1..(n + 1) PROVE CutWell(chunks[k])'
  <2>1. CASE k \in 1..n
    BY <1>1, <1>2, <2>1, CutsStay
  <2>2. CASE k = n + 1
    BY <1>2, <2>2
  <2> QED
    BY <1>2, <2>1, <2>2
<1>5. ASSUME NEW k \in 2..(n + 1) PROVE Follows(chunks[k], chunks[k - 1])'
  <2>1. CASE k \in 2..n
    <3>1. k - 1 \in 1..n /\ k \in 1..n
      BY <1>2, <2>1
    <3>2. chunks'[k] = chunks[k] /\ chunks'[k - 1] = chunks[k - 1]
      BY <1>2, <3>1
    <3> QED
      BY <1>1, <2>1, <3>2, CutsStay
  <2>2. CASE k = n + 1
    <3>1. n \in 1..n /\ k - 1 = n /\ chunks # <<>>
      BY <1>2, <1>5, <2>2
    <3>2. chunks'[k - 1] = chunks[Len(chunks)] /\ chunks'[k] = c
      BY <1>1, <1>2, <2>2, <3>1
    <3> QED
      BY <3>1, <3>2
  <2> QED
    BY <1>2, <2>1, <2>2
<1>6. chunks'[1].first = 1
  BY <1>2 DEF Cuts
<1> QED
  BY <1>2, <1>3, <1>4, <1>5, <1>6 DEF Cuts
-----------------------------------------------------------------------------
(* The three ways of cutting and growing.                                  *)

LEMMA InvFacts ==
  ASSUME CutInv
  PROVE  /\ hi \in Nat /\ lo \in 0..hi /\ tokens \in Nat
         /\ \A i, j \in 0..hi : UpTo(i) \in Nat /\ (i <= j => UpTo(i) <= UpTo(j))
         /\ chunks # <<>> => Len(chunks) \in 1..Len(chunks) /\ chunks[Len(chunks)] \in Chunk3
         /\ Covered \in Nat
         /\ Structural => \A n : Blank(n) = 0
         /\ ~Structural => \A n : Blank(n) = 2 * n
<1>1. chunks # <<>> => Len(chunks) \in 1..Len(chunks) /\ chunks[Len(chunks)] \in Chunk3
  BY DEF CutInv, ChunkType
<1>2. Covered \in Nat
  BY <1>1 DEF Covered, Chunk3
<1> QED
  BY <1>1, <1>2 DEF CutInv, ChunkType, Rising, Blank, hi

\* The window becomes a chunk.
LEMMA EmitWindow ==
  ASSUME CutInv, ~ended, lo < hi, Grows, strategy' = strategy,
         chunks' = Append(chunks, Chunk(lo, hi, tokens))
  PROVE  /\ Cuts' /\ \A h : h = hi => Covered' = h
         /\ chunks' \in Seq(Chunk3) /\ chunks' # <<>>
         /\ chunks'[Len(chunks')].first = lo + 1
<1> DEFINE c == [first |-> lo + 1, last |-> hi, tokens |-> tokens]
<1>0. PICK d : d = c
  OBVIOUS
<1>1. /\ hi \in Nat /\ lo \in 0..hi /\ tokens \in Nat /\ MaxTokens \in Nat /\ OverlapTokens \in Nat
      /\ \A i, j \in 0..hi : UpTo(i) \in Nat /\ (i <= j => UpTo(i) <= UpTo(j))
      /\ Covered \in Nat
  BY InvFacts, ChunkAssumption
<1>2. d \in Chunk3 /\ d.first = lo + 1 /\ d.last = hi /\ d.tokens = tokens
  BY <1>0, <1>1 DEF Chunk3
<1>3. CutWell(d)
  <2>1. /\ d.first - 1 = lo /\ d.last - 1 = hi - 1 /\ d.last + 1 - d.first = hi - lo
        /\ 0 < d.first /\ d.first <= d.last /\ d.last <= hi
    BY <1>1, <1>2
  <2>2. d.tokens - (UpTo(d.last) - UpTo(d.first - 1)) = Blank(d.last + 1 - d.first)
    <3>1. tokens = UpTo(hi) - UpTo(lo) + Blank(hi - lo)
      BY DEF CutInv, Window
    <3>2. UpTo(hi) \in Nat /\ UpTo(lo) \in Nat /\ Blank(hi - lo) \in Int
      BY <1>1 DEF Blank
    <3> QED
      BY <1>2, <2>1, <3>1, <3>2
  <2>3. d.tokens > MaxTokens =>
          IF Structural THEN UpTo(d.last - 1) - UpTo(d.first - 1) <= OverlapTokens
                        ELSE d.tokens <= MaxTokens + 2
    BY <1>2, <2>1 DEF CutInv, Window
  <2> QED
    BY <2>1, <2>2, <2>3 DEF CutWell
<1>4. CutWell(d)'
  BY <1>2, <1>3, CutStays DEF CutInv
<1>5. chunks = <<>> => d.first = 1
  BY <1>2 DEF CutInv, Window
<1>6. ASSUME chunks # <<>>
      PROVE  \E b : b = chunks[Len(chunks)] /\ Follows(d, b)'
  <2>1. PICK b : b = chunks[Len(chunks)]
    OBVIOUS
  <2>2. b \in Chunk3 /\ CutWell(b) /\ b.last = Covered /\ b.first <= lo + 1
    BY <1>6, <2>1, InvFacts DEF CutInv, Cuts, Covered, Window
  <2>3. UpTo(Covered) - UpTo(lo) <= IF Structural THEN OverlapTokens ELSE 0
    BY <1>1 DEF CutInv, Window
  <2>4. Follows(d, b)
    BY <1>1, <1>2, <2>2, <2>3 DEF Follows, CutInv, Window, Chunk3
  <2>5. Follows(d, b)'
    BY <1>2, <1>3, <2>2, <2>4, CutStays DEF CutInv
  <2> QED
    BY <2>1, <2>5
<1>7. chunks' = Append(chunks, d) /\ chunks \in Seq(Chunk3)
  BY <1>0 DEF Chunk, CutInv, ChunkType
<1>8. Cuts' /\ Covered' = d.last
  BY <1>2, <1>4, <1>5, <1>6, <1>7, CutsGrow DEF CutInv
<1>9. chunks' \in Seq(Chunk3) /\ chunks' # <<>> /\ chunks'[Len(chunks')] = d
  BY <1>2, <1>7
<1> QED
  BY <1>2, <1>8, <1>9
LEMMA NextBlock ==
  ASSUME CutInv, NEW n \in Nat, sums' = Append(sums, UpTo(hi) + n), NEW h, h = hi
  PROVE  /\ h \in Nat /\ hi' = h + 1 /\ UpTo(h) \in Nat /\ UpTo(h + 1)' = UpTo(h) + n
         /\ \A k \in 0..h : UpTo(k)' = UpTo(k) /\ UpTo(k) \in Nat /\ UpTo(k) <= UpTo(h)
         /\ sums' \in Seq(Nat) /\ Rising'
<1>1. h \in Nat /\ UpTo(h) \in Nat /\ \A k \in 0..h : UpTo(k) \in Nat /\ UpTo(k) <= UpTo(h)
  BY InvFacts
<1>2. Grows
  BY DEF Grows
<1>3. sums' \in Seq(Nat) /\ Rising' /\ \A k \in 0..h : UpTo(k)' = UpTo(k)
  BY <1>2, SumsGrow DEF CutInv, ChunkType
<1>4. hi' = h + 1 /\ sums'[h + 1] = UpTo(h) + n
  <2>1. sums' = Append(sums, UpTo(h) + n) /\ sums \in Seq(Nat) /\ h = Len(sums)
    BY DEF CutInv, ChunkType, hi
  <2> QED
    BY <1>1, <2>1 DEF hi
<1>5. UpTo(h + 1)' = UpTo(h) + n
  <2>1. h + 1 # 0
    BY <1>1
  <2>2. UpTo(h + 1)' = sums'[h + 1]
    BY <2>1 DEF UpTo
  <2> QED
    BY <1>4, <2>2
<1> QED
  BY <1>1, <1>3, <1>4, <1>5

\* A block that fits.
LEMMA AddBlock ==
  ASSUME CutInv, ~ended, ended' = ended, strategy' = strategy, left' \in Nat,
         NEW n \in 0..MaxTokens, sums' = Append(sums, UpTo(hi) + n),
         lo' = lo, chunks' = chunks, tokens' = tokens + n + Blank(1),
         tokens + n <= MaxTokens \/ lo = hi
  PROVE  CutInv'
<1>1. PICK h : h = hi
  OBVIOUS
<1>2. MaxTokens \in Nat /\ OverlapTokens \in Nat /\ n \in Nat
  BY ChunkAssumption
<1>3. /\ h \in Nat /\ hi' = h + 1 /\ UpTo(h) \in Nat /\ UpTo(h + 1)' = UpTo(h) + n
      /\ \A k \in 0..h : UpTo(k)' = UpTo(k) /\ UpTo(k) \in Nat /\ UpTo(k) <= UpTo(h)
      /\ sums' \in Seq(Nat) /\ Rising'
  BY <1>1, <1>2, NextBlock
<1>4. lo \in 0..h /\ tokens \in Nat /\ Covered \in Nat
  BY <1>1, InvFacts
<1>5. Cuts' /\ Covered' = Covered
  BY <1>2, SameCuts DEF CutInv, Grows
<1>6. /\ tokens = UpTo(h) - UpTo(lo) + Blank(h - lo)
      /\ lo <= Covered /\ Covered <= h
      /\ UpTo(Covered) - UpTo(lo) <= OverlapTokens
      /\ ~Structural => lo = Covered
      /\ IF chunks = <<>> THEN lo = 0 ELSE chunks[Len(chunks)].first <= lo + 1
  BY <1>1 DEF CutInv, Window
<1>7. /\ Structural' = Structural /\ \A k : Blank(k)' = Blank(k)
      /\ Blank(h + 1 - lo) = Blank(h - lo) + Blank(1) /\ Blank(h - lo) \in Nat /\ Blank(1) \in 0..2
      /\ Blank(0) = 0
  BY <1>3, <1>4 DEF Structural, Blank
<1>8. UpTo(lo)' = UpTo(lo) /\ UpTo(Covered)' = UpTo(Covered)
  <2>1. PICK a, b : a = lo /\ b = Covered
    OBVIOUS
  <2>2. a \in 0..h /\ b \in 0..h
    BY <1>3, <1>4, <1>6, <2>1
  <2>3. UpTo(a)' = UpTo(a) /\ UpTo(b)' = UpTo(b)
    BY <1>3, <2>2
  <2>4. a = lo' /\ b = Covered'
    BY <1>5, <2>1
  <2> QED
    BY <2>1, <2>3, <2>4
<1>9. PICK u, v, w : u = UpTo(h) /\ v = UpTo(lo) /\ w = UpTo(Covered)
  OBVIOUS
<1>10. u \in Nat /\ v \in Nat /\ w \in Nat
  BY <1>3, <1>4, <1>6, <1>9
<1>11. PICK d : d = h - lo
  OBVIOUS
<1>12. /\ d \in Nat /\ hi' - lo' = d + 1 /\ Blank(d + 1) = Blank(d) + Blank(1)
       /\ Blank(d) \in Nat /\ Blank(d + 1)' = Blank(d + 1)
  BY <1>3, <1>4, <1>11 DEF Structural, Blank
<1>13. tokens' = (u + n) - v + Blank(d + 1)
  <2>1. tokens = u - v + Blank(d) /\ tokens' = tokens + n + Blank(1) /\ Blank(1) \in Nat
    BY <1>6, <1>7, <1>9, <1>11
  <2> QED
    BY <1>2, <1>10, <1>12, <2>1
<1>14. tokens' = UpTo(hi)' - UpTo(lo)' + Blank(hi - lo)'
  <2>1. UpTo(hi)' = u + n /\ UpTo(lo)' = v
    BY <1>3, <1>8, <1>9
  <2>2. Blank(hi - lo)' = Blank(d + 1)
    BY <1>12
  <2> QED
    BY <1>13, <2>1, <2>2
<1>15. tokens + n <= MaxTokens
  <2>1. CASE lo = hi
    <3>1. u = v /\ h - lo = 0
      BY <1>1, <1>3, <1>9, <2>1
    <3>2. tokens = 0
      BY <1>6, <1>7, <1>9, <1>10, <3>1
    <3> QED
      BY <1>2, <3>2
  <2> QED
    BY <2>1
<1>16. Window'
  <2>2. tokens' \in Nat /\ tokens' <= MaxTokens + 2 /\ (Structural => tokens' <= MaxTokens)
    <3>1. Structural => Blank(1) = 0
      BY DEF Blank
    <3> QED
      BY <1>2, <1>4, <1>7, <1>15, <3>1
  <2>3. /\ lo' <= Covered' /\ Covered' < hi'
        /\ UpTo(Covered)' - UpTo(lo)' <= OverlapTokens
        /\ ~Structural => lo' = Covered'
    BY <1>3, <1>4, <1>5, <1>6, <1>8
  <2> QED
    BY <1>14, <1>2, <1>3, <1>4, <1>5, <1>6, <1>7, <2>2, <2>3 DEF Window
<1>17. ChunkType'
  <2>1. tokens' \in Nat
    BY <1>2, <1>4, <1>7
  <2>2. lo' \in 0..hi'
    BY <1>3, <1>4
  <2> QED
    BY <1>3, <2>1, <2>2 DEF CutInv, ChunkType
<1> QED
  BY <1>3, <1>5, <1>16, <1>17 DEF CutInv
\* A block that does not fit: the blocks m+1..hi stay in the window.
LEMMA FlushAndAdd ==
  ASSUME CutInv, ~ended, ended' = ended, strategy' = strategy, left' \in Nat, lo < hi,
         NEW n \in 0..MaxTokens, sums' = Append(sums, UpTo(hi) + n),
         NEW m \in lo..hi, lo' = m, UpTo(hi) - UpTo(m) <= OverlapTokens,
         ~Structural => m = hi,
         tokens' = UpTo(hi) - UpTo(m) + n + Blank(hi + 1 - m),
         chunks' = Append(chunks, Chunk(lo, hi, tokens))
  PROVE  CutInv'
<1>1. PICK h : h = hi
  OBVIOUS
<1>2. MaxTokens \in Nat /\ OverlapTokens \in Nat /\ n \in Nat
  BY ChunkAssumption
<1>3. /\ h \in Nat /\ hi' = h + 1 /\ UpTo(h) \in Nat /\ UpTo(h + 1)' = UpTo(h) + n
      /\ \A k \in 0..h : UpTo(k)' = UpTo(k) /\ UpTo(k) \in Nat /\ UpTo(k) <= UpTo(h)
      /\ sums' \in Seq(Nat) /\ Rising'
  BY <1>1, <1>2, NextBlock
<1>4. lo \in 0..h /\ tokens \in Nat /\ m \in 0..h /\ lo <= m
  BY <1>1, InvFacts
<1>5. /\ Cuts' /\ Covered' = h
      /\ chunks' \in Seq(Chunk3) /\ chunks' # <<>>
      /\ chunks'[Len(chunks')].first = lo + 1
  <2>1. Grows
    BY <1>2 DEF Grows
  <2> QED
    BY <1>1, <2>1, EmitWindow
<1>6. PICK u, v : u = UpTo(h) /\ v = UpTo(m)
  OBVIOUS
<1>7. u \in Nat /\ v \in Nat /\ v <= u /\ u - v <= OverlapTokens
  BY <1>1, <1>3, <1>4, <1>6
<1>8. UpTo(h + 1)' = u + n /\ UpTo(m)' = v /\ UpTo(h)' = u
  BY <1>3, <1>4, <1>6
<1>9. PICK d : d = h + 1 - m
  OBVIOUS
<1>10. /\ d \in Nat /\ hi' - lo' = d /\ Blank(d)' = Blank(d) /\ Blank(d) \in Nat
       /\ Structural' = Structural /\ (Structural => Blank(d) = 0)
  BY <1>3, <1>4, <1>9 DEF Structural, Blank
<1>11. tokens' = (u - v) + n + Blank(d)
  BY <1>1, <1>6, <1>9
<1>12. tokens' = UpTo(hi)' - UpTo(lo)' + Blank(hi - lo)'
  <2>1. UpTo(hi)' = u + n /\ UpTo(lo)' = v
    BY <1>3, <1>8
  <2>2. Blank(hi - lo)' = Blank(d)
    BY <1>10
  <2> QED
    BY <1>2, <1>7, <1>10, <1>11, <2>1, <2>2
<1>13. Structural' => lo' < hi' /\ UpTo(hi - 1)' - UpTo(lo)' <= OverlapTokens
  <2>1. hi' - 1 = h
    BY <1>3
  <2>2. UpTo(hi - 1)' = u /\ UpTo(lo)' = v
    BY <1>8, <2>1
  <2> QED
    BY <1>3, <1>4, <1>7, <2>2
<1>14. ~Structural' => tokens' <= MaxTokens + 2
  <2> SUFFICES ASSUME ~Structural PROVE tokens' <= MaxTokens + 2
    BY <1>10
  <2>1. m = h /\ d = 1
    BY <1>1, <1>3, <1>9
  <2>2. Blank(d) = 2 /\ u = v
    BY <1>6, <2>1 DEF Blank
  <2> QED
    BY <1>2, <1>7, <1>11, <2>2
<1>15. /\ lo' <= Covered' /\ Covered' < hi'
       /\ UpTo(Covered)' - UpTo(lo)' <= OverlapTokens
       /\ ~Structural' => lo' = Covered'
       /\ chunks'[Len(chunks')].first <= lo' + 1
  <2>1. UpTo(Covered)' = u /\ UpTo(lo)' = v
    BY <1>5, <1>8
  <2> QED
    BY <1>1, <1>3, <1>4, <1>5, <1>7, <1>10, <2>1
<1>16. Window'
  BY <1>3, <1>5, <1>12, <1>13, <1>14, <1>15 DEF Window
<1>17. ChunkType'
  <2>1. tokens' \in Nat
    BY <1>2, <1>7, <1>10, <1>11
  <2>2. lo' \in 0..hi'
    BY <1>3, <1>4
  <2> QED
    BY <1>3, <1>5, <2>1, <2>2 DEF CutInv, ChunkType
<1> QED
  BY <1>3, <1>5, <1>16, <1>17 DEF CutInv

\* The window becomes a chunk and is empty.
LEMMA FlushAll ==
  ASSUME CutInv, ~ended, ended' \in BOOLEAN, strategy' = strategy, left' \in Nat, lo < hi,
         sums' = sums, lo' = hi, tokens' = 0,
         chunks' = Append(chunks, Chunk(lo, hi, tokens))
  PROVE  CutInv' /\ Covered' = hi' /\ lo' = hi'
<1>1. PICK h : h = hi
  OBVIOUS
<1>2. OverlapTokens \in Nat /\ MaxTokens \in Nat
  BY ChunkAssumption
<1>3. /\ h \in Nat /\ hi' = h /\ UpTo(h) \in Nat /\ UpTo(h)' = UpTo(h)
      /\ sums' \in Seq(Nat) /\ Rising' /\ lo \in 0..h
  <2>1. Grows
    BY DEF Grows
  <2>2. sums' \in Seq(Nat) /\ Rising' /\ \A k \in 0..h : UpTo(k)' = UpTo(k)
    BY <1>1, <2>1, SumsGrow DEF CutInv, ChunkType
  <2>3. h \in Nat /\ UpTo(h) \in Nat /\ lo \in 0..h
    BY <1>1, InvFacts
  <2>4. hi' = h
    BY <1>1 DEF hi
  <2> QED
    BY <2>2, <2>3, <2>4
<1>4. /\ Cuts' /\ Covered' = h
      /\ chunks' \in Seq(Chunk3) /\ chunks' # <<>>
      /\ chunks'[Len(chunks')].first = lo + 1
  <2>1. Grows
    BY DEF Grows
  <2> QED
    BY <1>1, <2>1, EmitWindow
<1>5. lo' = h
  BY <1>1
<1>6. tokens' = UpTo(hi)' - UpTo(lo)' + Blank(hi - lo)'
  <2>1. UpTo(hi)' = UpTo(h) /\ UpTo(lo)' = UpTo(h)
    BY <1>3, <1>5
  <2>2. hi' - lo' = 0
    BY <1>3, <1>5
  <2>3. Blank(hi - lo)' = 0
    BY <2>2 DEF Blank
  <2> QED
    BY <1>3, <2>1, <2>3
<1>7. UpTo(Covered)' - UpTo(lo)' <= OverlapTokens
  <2>1. UpTo(Covered)' = UpTo(h) /\ UpTo(lo)' = UpTo(h)
    BY <1>3, <1>4, <1>5
  <2> QED
    BY <1>2, <1>3, <2>1
<1>8. Window'
  BY <1>2, <1>3, <1>4, <1>5, <1>6, <1>7 DEF Window
<1>9. ChunkType'
  BY <1>3, <1>4, <1>5 DEF CutInv, ChunkType
<1> QED
  BY <1>3, <1>4, <1>5, <1>8, <1>9 DEF CutInv
\* A chunk of its own after all that has been cut.
LEMMA SliceCut ==
  ASSUME CutInv, ~ended, ended' = ended, strategy' = strategy, left' \in Nat, lo = hi,
         ~Structural, NEW n \in 0..MaxTokens, sums' = Append(sums, UpTo(hi) + n),
         lo' = hi + 1, tokens' = tokens,
         chunks' = Append(chunks, Chunk(hi, hi + 1, n))
  PROVE  CutInv' /\ lo' = hi'
<1>1. PICK h : h = hi
  OBVIOUS
<1>2. MaxTokens \in Nat /\ OverlapTokens \in Nat /\ n \in Nat
  BY ChunkAssumption
<1>3. /\ h \in Nat /\ hi' = h + 1 /\ UpTo(h) \in Nat /\ UpTo(h + 1)' = UpTo(h) + n
      /\ \A k \in 0..h : UpTo(k)' = UpTo(k) /\ UpTo(k) \in Nat /\ UpTo(k) <= UpTo(h)
      /\ sums' \in Seq(Nat) /\ Rising'
  BY <1>1, <1>2, NextBlock
<1>4. lo = h /\ Covered = h /\ h \in 0..h
  BY <1>1, <1>3 DEF CutInv, Window
<1>5. tokens = 0
  <2>1. h - lo = 0 /\ UpTo(lo) = UpTo(h) /\ tokens = UpTo(h) - UpTo(lo) + Blank(h - lo)
    BY <1>1, <1>3, <1>4 DEF CutInv, Window
  <2>2. Blank(h - lo) = 0
    BY <2>1 DEF Blank
  <2> QED
    BY <1>3, <2>1, <2>2
<1>6. PICK c : c = [first |-> h + 1, last |-> h + 1, tokens |-> n]
  OBVIOUS
<1>7. c \in Chunk3 /\ c.first = h + 1 /\ c.last = h + 1 /\ c.tokens = n
  BY <1>2, <1>3, <1>6 DEF Chunk3
<1>8. chunks' = Append(chunks, c) /\ chunks \in Seq(Chunk3)
  BY <1>1, <1>6 DEF Chunk, CutInv, ChunkType
<1>9. UpTo(c.last)' = UpTo(h) + n /\ UpTo(c.first - 1)' = UpTo(h) /\ c.first - 1 = h
  <2>1. c.first - 1 = h
    BY <1>3, <1>7
  <2> QED
    BY <1>3, <1>4, <1>7, <2>1
<1>10. CutWell(c)'
  <2>1. c.tokens - (UpTo(c.last)' - UpTo(c.first - 1)') = 0
    BY <1>2, <1>3, <1>7, <1>9
  <2>2. 0 < c.first /\ c.first <= c.last /\ c.last <= hi' /\ c.tokens <= MaxTokens
    BY <1>2, <1>3, <1>7
  <2> QED
    BY <1>2, <1>7, <2>1, <2>2 DEF CutWell
<1>11. chunks = <<>> => c.first = 1
  BY <1>4, <1>3, <1>7 DEF CutInv, Window
<1>12. ASSUME chunks # <<>>
       PROVE  \E b : b = chunks[Len(chunks)] /\ Follows(c, b)'
  <2>1. PICK b : b = chunks[Len(chunks)]
    OBVIOUS
  <2>2. b \in Chunk3 /\ b.last = h /\ b.first <= h + 1
    BY <1>4, <1>12, <2>1, InvFacts DEF CutInv, Window, Covered
  <2>3. UpTo(b.last)' - UpTo(c.first - 1)' = 0
    BY <1>3, <1>4, <1>9, <2>2
  <2>4. Follows(c, b)'
    BY <1>2, <1>3, <1>7, <2>2, <2>3 DEF Follows
  <2> QED
    BY <2>1, <2>4
<1>13. Cuts' /\ Covered' = h + 1
  <2>1. Grows
    BY <1>2 DEF Grows
  <2> QED
    BY <1>7, <1>8, <1>10, <1>11, <1>12, <2>1, CutsGrow DEF CutInv
<1>14. lo' = h + 1
  BY <1>1
<1>15. chunks' # <<>> /\ chunks'[Len(chunks')] = c /\ chunks' \in Seq(Chunk3)
  BY <1>7, <1>8
<1>16. Window'
  <2>1. UpTo(hi)' = UpTo(lo)' /\ UpTo(Covered)' = UpTo(lo)' /\ UpTo(lo)' \in Nat
    <3>1. UpTo(h + 1)' \in Nat
      BY <1>2, <1>3
    <3> QED
      BY <1>3, <1>13, <1>14, <3>1
  <2>2. Blank(hi - lo)' = 0
    <3>1. hi' - lo' = 0
      BY <1>3, <1>14
    <3> QED
      BY <3>1 DEF Blank
  <2>3. tokens' = UpTo(hi)' - UpTo(lo)' + Blank(hi - lo)'
    BY <1>5, <2>1, <2>2
  <2>4. UpTo(Covered)' - UpTo(lo)' <= OverlapTokens
    BY <1>2, <2>1
  <2>5. tokens' <= MaxTokens
    BY <1>2, <1>5
  <2> QED
    BY <1>2, <1>3, <1>5, <1>7, <1>13, <1>14, <1>15, <2>3, <2>4, <2>5 DEF Window
<1>17. ChunkType'
  BY <1>3, <1>5, <1>14, <1>15 DEF CutInv, ChunkType
<1> QED
  BY <1>3, <1>13, <1>14, <1>16, <1>17 DEF CutInv

\* Nothing is cut and nothing added.
LEMMA SameWindow ==
  ASSUME CutInv, ended' \in BOOLEAN, ended => ended', left' \in Nat,
         UNCHANGED <<strategy, sums, lo, tokens, chunks>>
  PROVE  CutInv' /\ Covered' = Covered /\ hi' = hi
<1>1. Grows
  BY DEF Grows
<1>2. Cuts' /\ Rising' /\ Covered' = Covered /\ hi' = hi
  BY <1>1, SameCuts, SumsGrow DEF CutInv, ChunkType, hi
<1>3. ChunkType'
  BY <1>2 DEF CutInv, ChunkType
<1>4. Window'
  BY <1>2 DEF CutInv, Window, UpTo, Blank, Structural
<1> QED
  BY <1>2, <1>3, <1>4 DEF CutInv

\* The chunks of a document whose chunker fails are dropped.
LEMMA Dropped ==
  ASSUME CutInv, ended' = TRUE, left' = 0, chunks' = <<>>,
         UNCHANGED <<strategy, sums, lo, tokens>>
  PROVE  CutInv'
<1>1. Rising' /\ hi' = hi
  BY SumsGrow DEF CutInv, ChunkType, Grows, hi
<1>2. ChunkType'
  BY <1>1 DEF CutInv, ChunkType
<1>3. Cuts'
  BY DEF Cuts
<1>4. Window'
  BY <1>1 DEF CutInv, Window, UpTo, Blank, Structural
<1> QED
  BY <1>1, <1>2, <1>3, <1>4 DEF CutInv

LEMMA StartsWell ==
  ASSUME Fresh, strategy' \in {"structural", "greedy"}
  PROVE  CutInv' /\ left' = 0 /\ ~ended'
<1>1. /\ sums' = <<>> /\ lo' = 0 /\ tokens' = 0 /\ chunks' = <<>> /\ ended' = FALSE /\ left' = 0
      /\ hi' = 0 /\ OverlapTokens \in Nat /\ MaxTokens \in Nat
  BY ChunkAssumption DEF Fresh, hi
<1>2. UpTo(0)' = 0 /\ Covered' = 0 /\ \A k \in 0..0 : k = 0
  BY <1>1 DEF UpTo, Covered
<1>3. ChunkType'
  <2>1. lo' \in 0..hi' /\ <<>> \in Seq(Nat) /\ <<>> \in Seq(Chunk3)
    BY <1>1
  <2> QED
    BY <1>1, <2>1 DEF ChunkType
<1>4. Rising'
  BY <1>1, <1>2 DEF Rising
<1>5. Window'
  BY <1>1, <1>2 DEF Window, Blank, UpTo
<1>6. Cuts'
  BY <1>1 DEF Cuts
<1> QED
  BY <1>1, <1>3, <1>4, <1>5, <1>6 DEF CutInv
-----------------------------------------------------------------------------
LEMMA ChunkInit == InitChunking => ChunkInv
<1> SUFFICES ASSUME InitChunking PROVE ChunkInv
  OBVIOUS
<1>1. /\ sums = <<>> /\ lo = 0 /\ tokens = 0 /\ chunks = <<>> /\ ended = FALSE /\ left = 0
      /\ hi = 0 /\ OverlapTokens \in Nat /\ MaxTokens \in Nat
      /\ strategy \in {"structural", "greedy"}
  BY ChunkAssumption DEF InitChunking, hi
<1>2. UpTo(0) = 0 /\ Covered = 0 /\ \A k \in 0..0 : k = 0
  BY <1>1 DEF UpTo, Covered
<1>3. ChunkType
  <2>1. lo \in 0..hi /\ <<>> \in Seq(Nat) /\ <<>> \in Seq(Chunk3)
    BY <1>1
  <2> QED
    BY <1>1, <2>1 DEF ChunkType
<1>4. Rising
  BY <1>1, <1>2 DEF Rising
<1>5. Window
  BY <1>1, <1>2 DEF Window, Blank, UpTo
<1>6. Cuts
  BY <1>1 DEF Cuts
<1>7. Place
  BY <1>1 DEF Place
<1> QED
  BY <1>3, <1>4, <1>5, <1>6, <1>7 DEF ChunkInv, CutInv

\* push_to_window, whichever way it goes.
LEMMA PushKeeps ==
  ASSUME CutInv, Structural, ~ended, ended' = ended, strategy' = strategy, left' \in Nat,
         NEW t \in 0..MaxTokens, PushToWindow(t)
  PROVE  CutInv'
<1>1. MaxTokens \in Nat /\ OverlapTokens \in Nat /\ t \in Nat
  BY ChunkAssumption
<1>2. /\ hi \in Nat /\ lo \in 0..hi /\ tokens \in Nat
      /\ \A k \in 0..hi : UpTo(k) \in Nat /\ UpTo(k) <= UpTo(hi)
      /\ \A n : Blank(n) = 0
  BY InvFacts
<1>3. tokens = UpTo(hi) - UpTo(lo)
  <2>1. tokens = UpTo(hi) - UpTo(lo) + Blank(hi - lo)
    BY DEF CutInv, Window
  <2> QED
    BY <1>2, <2>1
<1>4. CASE tokens + t > MaxTokens /\ lo < hi
  <2>1. PICK m \in lo..hi :
          /\ FlushedTo(m)
          /\ chunks' = Append(chunks, Chunk(lo, hi, tokens))
          /\ lo' = m
          /\ tokens' = tokens - (UpTo(m) - UpTo(lo)) + t
    BY <1>4 DEF PushToWindow
  <2>2. m \in 0..hi
    BY <1>2
  <2>3. UpTo(m) \in Nat /\ UpTo(lo) \in Nat /\ UpTo(hi) \in Nat
    BY <1>2, <2>2
  <2>4. UpTo(hi) - UpTo(m) <= OverlapTokens
    BY <1>1, <1>3, <2>1, <2>3 DEF FlushedTo
  <2>5. tokens' = UpTo(hi) - UpTo(m) + t + Blank(hi + 1 - m)
    BY <1>1, <1>2, <1>3, <2>1, <2>3
  <2>6. sums' = Append(sums, UpTo(hi) + t)
    BY DEF PushToWindow
  <2> QED
    BY <1>4, <2>1, <2>4, <2>5, <2>6, FlushAndAdd
<1>5. CASE ~(tokens + t > MaxTokens /\ lo < hi)
  <2>1. /\ sums' = Append(sums, UpTo(hi) + t) /\ lo' = lo /\ chunks' = chunks
        /\ tokens' = tokens + t
    BY <1>5 DEF PushToWindow
  <2>2. tokens' = tokens + t + Blank(1)
    BY <1>1, <1>2, <2>1
  <2>3. tokens + t <= MaxTokens \/ lo = hi
    BY <1>1, <1>2, <1>5
  <2> QED
    BY <2>1, <2>2, <2>3, AddBlock
<1> QED
  BY <1>4, <1>5

\* The greedy chunk is empty exactly if it has no tokens.
LEMMA GreedyEmpty ==
  ASSUME CutInv, ~Structural
  PROVE  tokens = 0 <=> lo = hi
<1>1. /\ hi \in Nat /\ lo \in 0..hi
      /\ UpTo(hi) \in Nat /\ UpTo(lo) \in Nat /\ UpTo(lo) <= UpTo(hi)
      /\ Blank(hi - lo) = 2 * (hi - lo)
  BY InvFacts
<1>2. PICK a, b, d : a = UpTo(lo) /\ b = UpTo(hi) /\ d = hi - lo
  OBVIOUS
<1>3. tokens = b - a + 2 * d
  BY <1>1, <1>2 DEF CutInv, Window
<1>4. a \in Nat /\ b \in Nat /\ d \in Nat /\ a <= b /\ (d = 0 <=> lo = hi) /\ (d = 0 => a = b)
  BY <1>1, <1>2
<1> QED
  BY <1>3, <1>4
LEMMA ChunkStepInv ==
  ASSUME ChunkInv, ChunkStep, UNCHANGED partitionVars, UNCHANGED strategy
  PROVE  ChunkInv'
<1>1. CutInv /\ left \in Nat /\ ended \in BOOLEAN
  BY DEF ChunkInv, CutInv, ChunkType
<1>2. MaxTokens \in Nat /\ MaxSentences \in Nat /\ MaxOversize \in Nat
  BY ChunkAssumption
<1>3. docs' = docs /\ parsed' = parsed /\ strategy' = strategy
      /\ (left > 0 => parsed /\ ~ended /\ pos <= Len(docs[doc]) /\ (~Structural => lo = hi))
  BY DEF partitionVars, ChunkInv, Place
<1>4. Structural' = Structural
  BY <1>3 DEF Structural
<1>5. ASSUME HeaderSeen PROVE ChunkInv'
  <2>1. CutInv'
    BY <1>1, <1>3, <1>5, SameWindow DEF HeaderSeen
  <2>2. Place'
    BY <1>3, <1>5 DEF HeaderSeen, AtElement, AtDocument, Place
  <2> QED
    BY <2>1, <2>2 DEF ChunkInv
<1>6. ASSUME NEW t \in 0..MaxTokens, StructuralBlock(t) PROVE ChunkInv'
  <2>1. /\ Structural /\ ~ended /\ ended' = ended /\ left = 0 /\ left' = 0 /\ PushToWindow(t)
    BY <1>6 DEF StructuralBlock, AtText, AtElement, AtDocument
  <2>2. CutInv'
    BY <1>1, <1>3, <2>1, PushKeeps
  <2>3. Place'
    BY <2>1 DEF Place
  <2> QED
    BY <2>2, <2>3 DEF ChunkInv
<1>7. ASSUME NEW t \in 0..MaxTokens, Sentence(t) PROVE ChunkInv'
  <2>1. /\ Structural /\ ~ended /\ ended' = ended /\ left' \in Nat /\ PushToWindow(t)
        /\ left' > 0 => pos' = pos /\ doc' = doc
    BY <1>1, <1>3, <1>7 DEF Sentence, SentenceDone
  <2>2. CutInv'
    BY <1>1, <1>3, <2>1, PushKeeps
  <2>3. Place'
    BY <1>3, <1>4, <1>7, <2>1 DEF Place, Sentence
  <2> QED
    BY <2>2, <2>3 DEF ChunkInv
<1>8. ASSUME NEW t \in 0..MaxTokens, GreedyBlock(t) PROVE ChunkInv'
  <2>1. /\ ~Structural /\ ~ended /\ ended' = ended /\ left = 0 /\ left' = 0
        /\ sums' = Append(sums, UpTo(hi) + t)
    BY <1>8 DEF GreedyBlock, AtText, AtElement, AtDocument
  <2>2. /\ hi \in Nat /\ lo \in 0..hi /\ tokens \in Nat /\ t \in Nat
        /\ UpTo(hi) \in Nat /\ Blank(1) = 2 /\ (tokens = 0 <=> lo = hi)
    BY <1>1, <1>2, <2>1, InvFacts, GreedyEmpty
  <2>3. CASE tokens > 0 /\ tokens + t > MaxTokens
    <3>1. lo' = hi /\ tokens' = t + 2 /\ chunks' = Append(chunks, Chunk(lo, hi, tokens))
      BY <1>8, <2>3 DEF GreedyBlock
    <3>2. PICK m \in lo..hi : m = hi
      BY <2>2
    <3>3. /\ lo < hi /\ UpTo(hi) - UpTo(m) <= OverlapTokens
          /\ tokens' = UpTo(hi) - UpTo(m) + t + Blank(hi + 1 - m)
      <4>1. UpTo(m) = UpTo(hi) /\ hi + 1 - m = 1 /\ OverlapTokens \in Nat
        BY <2>2, <3>2, ChunkAssumption
      <4> QED
        BY <2>2, <2>3, <3>1, <4>1
    <3>4. CutInv'
      BY <1>1, <1>3, <2>1, <3>1, <3>2, <3>3, FlushAndAdd
    <3> QED
      BY <2>1, <3>4 DEF ChunkInv, Place
  <2>4. CASE ~(tokens > 0 /\ tokens + t > MaxTokens)
    <3>1. tokens' = tokens + t + 2 /\ lo' = lo /\ chunks' = chunks
      BY <1>8, <2>4 DEF GreedyBlock
    <3>2. tokens + t <= MaxTokens \/ lo = hi
      BY <1>2, <2>2, <2>4
    <3>3. CutInv'
      BY <1>1, <1>3, <2>1, <2>2, <3>1, <3>2, AddBlock
    <3> QED
      BY <2>1, <3>3 DEF ChunkInv, Place
  <2> QED
    BY <2>3, <2>4
<1>9. ASSUME NEW n \in 1..MaxSentences, Split(n) PROVE ChunkInv'
  <2>1. /\ Structural /\ parsed /\ ~ended /\ pos <= Len(docs[doc])
        /\ left' \in Nat /\ ended' = ended /\ UNCHANGED <<doc, pos, sums, lo, tokens, chunks>>
    BY <1>2, <1>9 DEF Split, AtText, AtElement, AtDocument
  <2>2. CutInv'
    BY <1>1, <1>3, <2>1, SameWindow
  <2>3. Place'
    BY <1>3, <1>4, <2>1 DEF Place
  <2> QED
    BY <2>2, <2>3 DEF ChunkInv
<1>10. ASSUME NEW n \in 1..MaxOversize, Oversize(n) PROVE ChunkInv'
  <2>1. /\ ~Structural /\ parsed /\ ~ended /\ pos <= Len(docs[doc])
        /\ left' \in Nat /\ ended' = ended /\ UNCHANGED <<doc, pos, sums>>
    BY <1>2, <1>10 DEF Oversize, AtText, AtElement, AtDocument
  <2>2. hi \in Nat /\ lo \in 0..hi /\ tokens \in Nat /\ (tokens = 0 <=> lo = hi)
    BY <1>1, <2>1, InvFacts, GreedyEmpty
  <2>3. CASE tokens > 0
    <3>1. lo < hi /\ lo' = hi /\ tokens' = 0 /\ chunks' = Append(chunks, Chunk(lo, hi, tokens))
      BY <1>10, <2>2, <2>3 DEF Oversize
    <3>2. CutInv' /\ lo' = hi'
      BY <1>1, <1>3, <2>1, <3>1, FlushAll
    <3> QED
      BY <1>3, <2>1, <3>2 DEF ChunkInv, Place
  <2>4. CASE tokens = 0
    <3>1. UNCHANGED <<chunks, lo, tokens>>
      BY <1>10, <2>4 DEF Oversize
    <3>2. CutInv' /\ hi' = hi
      BY <1>1, <1>3, <2>1, <3>1, SameWindow
    <3> QED
      BY <1>3, <2>1, <2>2, <2>4, <3>1, <3>2 DEF ChunkInv, Place
  <2> QED
    BY <2>2, <2>3, <2>4
<1>11. ASSUME SentenceOmitted PROVE ChunkInv'
  <2>1. /\ left' \in Nat /\ ended' = ended /\ UNCHANGED <<doc, sums, lo, tokens, chunks>>
        /\ Structural /\ ~ended /\ (left' > 0 => pos' = pos)
    BY <1>1, <1>3, <1>11 DEF SentenceOmitted, SentenceDone
  <2>2. CutInv'
    BY <1>1, <1>3, <2>1, SameWindow
  <2>3. Place'
    BY <1>3, <1>4, <1>11, <2>1 DEF Place, SentenceOmitted
  <2> QED
    BY <2>2, <2>3 DEF ChunkInv
<1>12. left > 0 => SliceSize \in 0..MaxTokens /\ left - SliceSize \in Nat
  BY <1>1, <1>2 DEF SliceSize
<1>13. ASSUME Slice PROVE ChunkInv'
  <2>1. /\ ~Structural /\ left > 0 /\ left' \in Nat /\ ended' = ended /\ doc' = doc
        /\ left' > 0 => pos' = pos
        /\ tokens' = tokens /\ lo' = hi + 1
        /\ sums' = Append(sums, UpTo(hi) + SliceSize)
        /\ chunks' = Append(chunks, Chunk(hi, hi + 1, SliceSize))
    <3>1. left \in Nat /\ SliceSize \in Nat /\ (left - SliceSize > 0 => left # SliceSize)
      BY <1>1, <1>12, <1>13 DEF Slice
    <3> QED
      BY <1>12, <1>13, <3>1 DEF Slice, SliceDone
  <2>2. CutInv' /\ lo' = hi'
    BY <1>1, <1>3, <1>12, <2>1, SliceCut
  <2>3. Place'
    BY <1>3, <2>1, <2>2 DEF Place
  <2> QED
    BY <2>2, <2>3 DEF ChunkInv
<1>14. ASSUME SliceOmitted PROVE ChunkInv'
  <2>1. /\ ~Structural /\ left > 0 /\ left' \in Nat /\ ended' = ended /\ doc' = doc
        /\ left' > 0 => pos' = pos
        /\ UNCHANGED <<sums, lo, tokens, chunks>>
    <3>1. left \in Nat /\ SliceSize \in Nat /\ (left - SliceSize > 0 => left # SliceSize)
      BY <1>1, <1>12, <1>14 DEF SliceOmitted
    <3> QED
      BY <1>12, <1>14, <3>1 DEF SliceOmitted, SliceDone
  <2>2. CutInv' /\ hi' = hi
    BY <1>1, <1>3, <2>1, SameWindow
  <2>3. Place'
    BY <1>3, <2>1, <2>2 DEF Place
  <2> QED
    BY <2>2, <2>3 DEF ChunkInv
<1>15. ASSUME DocumentEnds PROVE ChunkInv'
  <2>1. /\ parsed /\ ~ended /\ ended' = TRUE /\ left' = left /\ sums' = sums
        /\ ~(pos <= Len(docs[doc])) /\ doc' = doc /\ pos' = pos
    BY <1>15 DEF DocumentEnds, AtElement, AtDocument
  <2>2. ~(left > 0) /\ hi \in Nat /\ lo \in 0..hi
    BY <1>1, <1>3, <2>1, InvFacts
  <2>3. CASE lo < hi
    <3>1. lo' = hi /\ tokens' = 0 /\ chunks' = Append(chunks, Chunk(lo, hi, tokens))
      BY <1>15, <2>3 DEF DocumentEnds
    <3>2. CutInv' /\ Covered' = hi'
      BY <1>1, <1>3, <2>1, <2>3, <3>1, FlushAll
    <3> QED
      BY <1>3, <2>1, <2>2, <3>2 DEF ChunkInv, Place
  <2>4. CASE ~(lo < hi)
    <3>1. UNCHANGED <<chunks, lo, tokens>>
      BY <1>15, <2>4 DEF DocumentEnds
    <3>2. CutInv' /\ hi' = hi /\ Covered' = Covered
      BY <1>1, <1>3, <2>1, <3>1, SameWindow
    <3>3. lo <= Covered /\ Covered <= hi /\ Covered \in Nat
      BY <1>1, <2>1, InvFacts DEF CutInv, Window
    <3>4. Covered' = hi'
      BY <2>2, <2>4, <3>2, <3>3
    <3> QED
      BY <1>3, <2>1, <2>2, <3>2, <3>4 DEF ChunkInv, Place
  <2> QED
    BY <2>3, <2>4
<1>16. ASSUME EncodeFails PROVE ChunkInv'
  <2>1. CutInv'
    BY <1>1, <1>3, <1>16, Dropped DEF EncodeFails
  <2>2. parsed /\ pos <= Len(docs[doc])
    BY <1>3, <1>16 DEF EncodeFails, AtText, AtElement, AtDocument
  <2>3. Place'
    BY <1>3, <1>16, <2>2 DEF EncodeFails, Place
  <2> QED
    BY <2>1, <2>3 DEF ChunkInv
<1>17. ASSUME NextDocument PROVE ChunkInv'
  <2>1. strategy' \in {"structural", "greedy"}
    BY <1>1, <1>3 DEF CutInv, ChunkType
  <2>2. CutInv' /\ left' = 0 /\ ~ended'
    BY <1>17, <2>1, StartsWell DEF NextDocument
  <2> QED
    BY <2>2 DEF ChunkInv, Place
<1> QED
  BY <1>5, <1>6, <1>7, <1>8, <1>9, <1>10, <1>11, <1>13, <1>14, <1>15, <1>16, <1>17
     DEF ChunkStep

\* The file is read first: no document is chunked then.
LEMMA PartitionStepInv ==
  ASSUME ChunkInv, PartitionStep, UNCHANGED chunkVars, UNCHANGED strategy
  PROVE  ChunkInv'
<1>1. ~parsed
  BY DEF PartitionStep, SkipItem, ReadItem, ParseEnds
<1>2. left \in Nat /\ ~(left > 0) /\ ~ended /\ ended \in BOOLEAN
  BY <1>1 DEF ChunkInv, CutInv, ChunkType, Place
<1>3. CutInv'
  BY <1>2, SameWindow DEF ChunkInv, chunkVars
<1>4. Place'
  BY <1>2 DEF Place, chunkVars
<1> QED
  BY <1>3, <1>4 DEF ChunkInv

LEMMA ChunkNext == ChunkInv /\ [ChunkingNext]_<<strategy, chunkingVars>> => ChunkInv'
<1> SUFFICES ASSUME ChunkInv, [ChunkingNext]_<<strategy, chunkingVars>> PROVE ChunkInv'
  OBVIOUS
<1>1. CASE PartitionStep /\ UNCHANGED chunkVars /\ UNCHANGED strategy
  BY <1>1, PartitionStepInv
<1>2. CASE ChunkStep /\ UNCHANGED partitionVars /\ UNCHANGED strategy
  BY <1>2, ChunkStepInv
<1>3. CASE UNCHANGED <<strategy, chunkingVars>>
  <2>1. left \in Nat /\ ended \in BOOLEAN /\ ended' = ended /\ left' = left
        /\ UNCHANGED <<strategy, sums, lo, tokens, chunks, doc, pos, docs, parsed>>
    BY <1>3 DEF chunkingVars, chunkVars, partitionVars, ChunkInv, CutInv, ChunkType
  <2>2. CutInv' /\ Covered' = Covered /\ hi' = hi
    BY <2>1, SameWindow DEF ChunkInv
  <2>3. Place'
    BY <2>1, <2>2 DEF ChunkInv, Place, Structural
  <2> QED
    BY <2>2, <2>3 DEF ChunkInv
<1> QED
  BY <1>1, <1>2, <1>3 DEF ChunkingNext

LEMMA Chunked == ChunkingSpec => []ChunkInv
  BY ChunkInit, ChunkNext, PTL DEF ChunkingSpec

\* Of both chunkers: the count of the window is exact, and no chunk exceeds max_tokens
\* by more than the overlap, or by more than a blank line, before its last block.
THEOREM ChunkSizes == ChunkingSpec => []ChunkSize
<1>1. ChunkInv => ChunkSize
  <2> SUFFICES ASSUME ChunkInv PROVE ChunkSize
    OBVIOUS
  <2>1. tokens = UpTo(hi) - UpTo(lo) + Blank(hi - lo)
    BY DEF ChunkInv, CutInv, Window
  <2>2. DOMAIN chunks = 1..Len(chunks)
    BY DEF ChunkInv, CutInv, ChunkType
  <2>3. \A k \in DOMAIN chunks : CutWell(chunks[k])
    BY <2>2 DEF ChunkInv, CutInv, Cuts
  <2> QED
    BY <2>1, <2>3 DEF ChunkSize, CutWell
<1> QED
  BY <1>1, Chunked, PTL

\* Of both chunkers: every block of a document is in a chunk, in the order of the
\* document, and in two only within the overlap.
THEOREM NothingLost == ChunkingSpec => []NoGap
<1>1. ChunkInv => NoGap
  <2> SUFFICES ASSUME ChunkInv PROVE NoGap
    OBVIOUS
  <2> DEFINE end == IF chunks = <<>> THEN 0 ELSE Last(chunks).last
  <2>1. end = Covered
    BY DEF Covered, Last
  <2>2. ASSUME NEW k \in 2..Len(chunks)
        PROVE  /\ chunks[k].first \in chunks[k - 1].first..(chunks[k - 1].last + 1)
               /\ chunks[k].last > chunks[k - 1].last
               /\ UpTo(chunks[k - 1].last) - UpTo(chunks[k].first - 1)
                    <= IF Structural THEN OverlapTokens ELSE 0
    <3>1. chunks[k] \in Chunk3 /\ chunks[k - 1] \in Chunk3
      <4>1. k \in 1..Len(chunks) /\ k - 1 \in 1..Len(chunks)
        BY <2>2 DEF ChunkInv, CutInv, ChunkType
      <4> QED
        BY <4>1 DEF ChunkInv, CutInv, ChunkType
    <3>2. Follows(chunks[k], chunks[k - 1])
      BY <2>2 DEF ChunkInv, CutInv, Cuts
    <3> QED
      BY <3>1, <3>2 DEF Follows, Chunk3
  <2>3. chunks # <<>> => chunks[1].first = 1
    BY DEF ChunkInv, CutInv, Cuts
  <2>4. AtDocument => lo <= end /\ (lo < hi => end < hi) /\ UpTo(end) - UpTo(lo) <= OverlapTokens
    BY <2>1 DEF ChunkInv, CutInv, Window, AtDocument
  <2>5. ended => end = hi \/ pos <= Len(docs[doc])
    BY <2>1 DEF ChunkInv, Place
  <2> QED
    BY <2>2, <2>3, <2>4, <2>5 DEF NoGap
<1> QED
  BY <1>1, Chunked, PTL

-----------------------------------------------------------------------------
(* The parser: lines, elements, documents.                                 *)

Elements == [level : Nat, first : Nat, last : Nat]
Growing  == [kind : Kinds, level : Nat, first : Nat, last : Nat]

PartitionType ==
  /\ lines \in Nat /\ parsed \in BOOLEAN
  /\ elements \in Seq(Elements) /\ docs \in Seq(Seq(Elements))
  /\ current = <<>> \/ \E e \in Growing : current = <<e>>

\* The documents that are finished, all of them full while there is more to come.
DocumentsTile ==
  \A d \in 1..Len(docs) :
    /\ Tiles(docs[d], LinesIn(d - 1))
    /\ Len(docs[d]) \in 1..MaxElements
    /\ d < Len(docs) \/ ~parsed => Len(docs[d]) = MaxElements

\* The document that is being filled, and the element that may still grow.
OpenTiles ==
  /\ Tiles(elements, LinesIn(Len(docs))) /\ Len(elements) < MaxElements
  /\ lines = IF current = <<>> THEN EndOf(elements, LinesIn(Len(docs)))
             ELSE current[1].last
  /\ current # <<>> =>
       /\ current[1].first = 1 + EndOf(elements, LinesIn(Len(docs)))
       /\ current[1].first <= current[1].last
  /\ parsed => current = <<>> /\ elements = <<>>

TileInv == PartitionType /\ DocumentsTile /\ OpenTiles

LEMMA LinesInNat ==
  ASSUME docs \in Seq(Seq(Elements)), NEW d \in 0..Len(docs)
  PROVE  LinesIn(d) \in Nat
<1>1. CASE d = 0
  BY <1>1 DEF LinesIn
<1>2. CASE d # 0
  <2>1. docs[d] \in Seq(Elements)
    BY <1>2
  <2>2. docs[d] # <<>> => docs[d][Len(docs[d])] \in Elements
    BY <2>1
  <2> QED
    BY <1>2, <2>1, <2>2 DEF LinesIn, EndOf, Elements
<1> QED
  BY <1>1, <1>2

LEMMA EndOfNat ==
  ASSUME NEW es \in Seq(Elements), NEW b \in Nat
  PROVE  EndOf(es, b) \in Nat
<1>1. es # <<>> => es[Len(es)] \in Elements
  OBVIOUS
<1> QED
  BY <1>1 DEF EndOf, Elements

\* One more element, right after the last one.
LEMMA OneMore ==
  ASSUME NEW S, NEW es \in Seq(S), NEW b \in Nat, Tiles(es, b),
         NEW e \in S, e.first = 1 + EndOf(es, b), e.first <= e.last
  PROVE  Tiles(Append(es, e), b) /\ EndOf(Append(es, e), b) = e.last
<1>1. PICK n : n = Len(es)
  OBVIOUS
<1>2. PICK fs : fs = Append(es, e)
  OBVIOUS
<1>3. /\ n \in Nat /\ Len(fs) = n + 1 /\ fs # <<>> /\ DOMAIN fs = 1..(n + 1) /\ DOMAIN es = 1..n
      /\ \A k \in 1..n : fs[k] = es[k]
      /\ fs[n + 1] = e
  BY <1>1, <1>2
<1>4. ASSUME NEW k \in 1..(n + 1)
      PROVE  /\ fs[k].first = 1 + (IF k = 1 THEN b ELSE fs[k - 1].last)
             /\ fs[k].first <= fs[k].last
  <2>1. CASE k \in 1..n
    <3>1. fs[k] = es[k] /\ (k # 1 => fs[k - 1] = es[k - 1])
      BY <1>3, <2>1
    <3>2. es[k].first = 1 + (IF k = 1 THEN b ELSE es[k - 1].last) /\ es[k].first <= es[k].last
      BY <1>3, <2>1 DEF Tiles
    <3>3. CASE k = 1
      BY <3>1, <3>2, <3>3
    <3>4. CASE k # 1
      <4>1. fs[k].first = es[k].first /\ fs[k].last = es[k].last /\ fs[k - 1].last = es[k - 1].last
        BY <3>1, <3>4
      <4> QED
        BY <3>2, <3>4, <4>1
    <3> QED
      BY <3>3, <3>4
  <2>2. CASE k = n + 1 /\ n = 0
    <3>1. Len(es) = 0
      BY <1>1, <2>2
    <3>2. es = <<>>
      BY <3>1
    <3> QED
      BY <1>3, <2>2, <3>2 DEF EndOf
  <2>3. CASE k = n + 1 /\ n # 0
    <3>1. es # <<>> /\ fs[k - 1] = es[n] /\ k # 1
      BY <1>1, <1>3, <2>3
    <3>2. EndOf(es, b) = es[n].last
      BY <1>1, <3>1 DEF EndOf
    <3>3. k - 1 = n /\ fs[k] = e
      BY <1>3, <2>3
    <3> QED
      BY <3>1, <3>2, <3>3
  <2> QED
    BY <1>3, <2>1, <2>2, <2>3
<1>5. Tiles(fs, b)
  BY <1>3, <1>4 DEF Tiles
<1>6. EndOf(fs, b) = e.last
  BY <1>3 DEF EndOf
<1> QED
  BY <1>2, <1>5, <1>6

\* A finished document is appended: it is full, or the last one.
LEMMA DocumentCut ==
  ASSUME PartitionType, DocumentsTile, ~parsed, parsed' \in BOOLEAN,
         NEW es \in Seq(Elements), Tiles(es, LinesIn(Len(docs))),
         Len(es) \in 1..MaxElements, parsed' \/ Len(es) = MaxElements,
         docs' = Append(docs, es)
  PROVE  /\ DocumentsTile' /\ docs' \in Seq(Seq(Elements))
         /\ \A b : LinesIn(Len(docs))' = EndOf(es, b)
<1>1. PICK n : n = Len(docs)
  OBVIOUS
<1>2. MaxElements \in Nat
  BY PartitionAssumption
<1>3. /\ n \in Nat /\ Len(docs') = n + 1 /\ docs' \in Seq(Seq(Elements))
      /\ \A d \in 1..n : docs'[d] = docs[d]
      /\ docs'[n + 1] = es /\ es # <<>>
  BY <1>1 DEF PartitionType
<1>4. \A d \in 0..n : LinesIn(d)' = LinesIn(d)
  BY <1>3 DEF LinesIn
<1>5. ASSUME NEW d \in 1..(n + 1)
      PROVE  /\ Tiles(docs'[d], LinesIn(d - 1)')
             /\ Len(docs'[d]) \in 1..MaxElements
             /\ d < n + 1 \/ ~parsed' => Len(docs'[d]) = MaxElements
  <2>0. d - 1 \in 0..n
    BY <1>3
  <2>1. LinesIn(d - 1)' = LinesIn(d - 1)
    BY <1>4, <2>0
  <2>2. CASE d \in 1..n
    <3>1. docs'[d] = docs[d]
      BY <1>3, <2>2
    <3> QED
      BY <1>1, <2>1, <2>2, <3>1 DEF DocumentsTile
  <2>3. CASE d = n + 1
    <3>1. docs'[d] = es /\ d - 1 = n
      BY <1>3, <2>3
    <3> QED
      BY <1>1, <2>1, <2>3, <3>1
  <2> QED
    BY <1>3, <2>2, <2>3
<1>6. DocumentsTile'
  BY <1>3, <1>5 DEF DocumentsTile
<1>7. \A b : LinesIn(Len(docs))' = EndOf(es, b)
  BY <1>3 DEF LinesIn, EndOf
<1> QED
  BY <1>3, <1>6, <1>7

\* The current element is pushed: what is in the vector then ends where it ended.
LEMMA Pushes ==
  ASSUME TileInv, current # <<>>, NEW es, es = Append(elements, Pushed(current[1]))
  PROVE  /\ es \in Seq(Elements) /\ Len(es) = Len(elements) + 1
         /\ Tiles(es, LinesIn(Len(docs))) /\ EndOf(es, LinesIn(Len(docs))) = lines
<1>1. PICK b : b = LinesIn(Len(docs))
  OBVIOUS
<1>2. /\ elements \in Seq(Elements) /\ current[1] \in Growing /\ b \in Nat
      /\ Tiles(elements, b) /\ lines = current[1].last
      /\ current[1].first = 1 + EndOf(elements, b) /\ current[1].first <= current[1].last
  <2>1. Len(docs) \in 0..Len(docs)
    BY DEF TileInv, PartitionType
  <2> QED
    BY <1>1, <2>1, LinesInNat DEF TileInv, PartitionType, OpenTiles
<1>3. PICK e : e = Pushed(current[1])
  OBVIOUS
<1>4. e \in Elements /\ e.first = current[1].first /\ e.last = current[1].last
  BY <1>2, <1>3 DEF Pushed, Elements, Growing
<1>5. es = Append(elements, e)
  BY <1>3
<1>6. Tiles(es, b) /\ EndOf(es, b) = e.last
  BY <1>2, <1>4, <1>5, OneMore
<1> QED
  BY <1>1, <1>2, <1>4, <1>5, <1>6

\* A vector that is full becomes a document, and the next one goes on where it ends.
LEMMA FlushTiles ==
  ASSUME PartitionType, DocumentsTile, ~parsed, parsed' = parsed,
         NEW es \in Seq(Elements), Tiles(es, LinesIn(Len(docs))), Len(es) <= MaxElements,
         FlushFull(es)
  PROVE  /\ DocumentsTile' /\ docs' \in Seq(Seq(Elements))
         /\ elements' \in Seq(Elements) /\ Len(elements') < MaxElements
         /\ Tiles(elements', LinesIn(Len(docs))')
         /\ EndOf(elements', LinesIn(Len(docs))') = EndOf(es, LinesIn(Len(docs)))
<1>1. MaxElements \in Nat /\ MaxElements # 0 /\ Len(es) \in Nat
  BY PartitionAssumption
<1>2. CASE Len(es) >= MaxElements
  <2>1. docs' = Append(docs, es) /\ elements' = <<>> /\ Len(es) = MaxElements
    BY <1>1, <1>2 DEF FlushFull
  <2>2. /\ DocumentsTile' /\ docs' \in Seq(Seq(Elements))
        /\ \A b : LinesIn(Len(docs))' = EndOf(es, b)
    <3>1. Len(es) \in 1..MaxElements /\ parsed' \in BOOLEAN
      BY <1>1, <2>1 DEF PartitionType
    <3> QED
      BY <2>1, <3>1, DocumentCut
  <2>3. Tiles(<<>>, LinesIn(Len(docs))')
    BY DEF Tiles
  <2>4. EndOf(<<>>, LinesIn(Len(docs))') = LinesIn(Len(docs))'
    BY DEF EndOf
  <2> QED
    BY <1>1, <2>1, <2>2, <2>3, <2>4
<1>3. CASE Len(es) < MaxElements
  <2>1. docs' = docs /\ elements' = es
    BY <1>1, <1>3 DEF FlushFull
  <2>2. \A d : LinesIn(d)' = LinesIn(d)
    BY <2>1 DEF LinesIn
  <2>3. DocumentsTile'
    BY <2>1, <2>2 DEF DocumentsTile
  <2> QED
    BY <1>3, <2>1, <2>2, <2>3 DEF PartitionType
<1> QED
  BY <1>1, <1>2, <1>3

LEMMA ItemTiles ==
  ASSUME TileInv, NEW kind \in Kinds, NEW level \in Levels \cup {0}, NEW near \in BOOLEAN,
         ReadItem(kind, level, near)
  PROVE  TileInv'
<1>1. PICK b : b = LinesIn(Len(docs))
  OBVIOUS
<1>2. /\ ~parsed /\ parsed' = parsed /\ lines \in Nat /\ lines' = lines + 1
      /\ elements \in Seq(Elements) /\ b \in Nat /\ level \in Nat
      /\ PartitionType /\ DocumentsTile /\ Tiles(elements, b) /\ Len(elements) < MaxElements
      /\ MaxElements \in Nat
  <2>1. Len(docs) \in 0..Len(docs)
    BY DEF TileInv, PartitionType
  <2> QED
    BY <1>1, <2>1, LinesInNat, PartitionAssumption DEF TileInv, PartitionType, OpenTiles, ReadItem
<1>3. current # <<>> => current[1] \in Growing /\ current = <<current[1]>> /\ lines = current[1].last
  BY DEF TileInv, PartitionType, OpenTiles
<1>4. PICK c : c = LinesIn(Len(docs))'
  OBVIOUS
\* It is enough to say where the current element begins.
<1>5. SUFFICES /\ DocumentsTile' /\ docs' \in Seq(Seq(Elements))
               /\ elements' \in Seq(Elements) /\ Len(elements') < MaxElements
               /\ Tiles(elements', c)
               /\ \E e \in Growing : /\ current' = <<e>> /\ e.last = lines + 1
                                     /\ e.first = 1 + EndOf(elements', c) /\ e.first <= e.last
  <2> SUFFICES ASSUME DocumentsTile', docs' \in Seq(Seq(Elements)),
                      elements' \in Seq(Elements), Len(elements') < MaxElements,
                      Tiles(elements', c),
                      NEW e \in Growing, current' = <<e>>, e.last = lines + 1,
                      e.first = 1 + EndOf(elements', c), e.first <= e.last
               PROVE  TileInv'
    OBVIOUS
  <2>1. current' # <<>> /\ current'[1] = e
    OBVIOUS
  <2>2. PartitionType'
    BY <1>2 DEF PartitionType
  <2>3. OpenTiles'
    BY <1>2, <1>4, <2>1 DEF OpenTiles
  <2> QED
    BY <2>2, <2>3 DEF TileInv
<1>6. CASE current # <<>> /\ near /\ Mergeable(current[1], kind)
  <2>1. PICK e : e = [current[1] EXCEPT !.last = lines + 1]
    OBVIOUS
  <2>2. current' = <<e>> /\ FlushFull(elements)
    BY <1>6, <2>1 DEF ReadItem
  <2>3. /\ e \in Growing /\ e.last = lines + 1 /\ e.first = current[1].first
        /\ e.first = 1 + EndOf(elements, b) /\ e.first <= e.last
    <3>1. /\ current[1] \in Growing /\ lines = current[1].last
          /\ current[1].first = 1 + EndOf(elements, b) /\ current[1].first <= current[1].last
      BY <1>1, <1>3, <1>6 DEF TileInv, OpenTiles
    <3>2. e \in Growing /\ e.last = lines + 1 /\ e.first = current[1].first
      BY <1>2, <2>1, <3>1 DEF Growing
    <3>3. e.first \in Nat
      BY <3>2 DEF Growing
    <3> QED
      BY <1>2, <3>1, <3>2, <3>3
  <2>4. /\ DocumentsTile' /\ docs' \in Seq(Seq(Elements))
        /\ elements' \in Seq(Elements) /\ Len(elements') < MaxElements
        /\ Tiles(elements', c) /\ EndOf(elements', c) = EndOf(elements, b)
    <3>1. Len(elements) <= MaxElements
      BY <1>2
    <3> QED
      BY <1>1, <1>2, <1>4, <2>2, <3>1, FlushTiles
  <2> QED
    BY <2>2, <2>3, <2>4
<1>7. CASE ~(current # <<>> /\ near /\ Mergeable(current[1], kind))
  <2>1. PICK es : es = IF current = <<>> THEN elements ELSE Append(elements, Pushed(current[1]))
    OBVIOUS
  <2>2. PICK e : e = [kind |-> kind, level |-> level, first |-> lines + 1, last |-> lines + 1]
    OBVIOUS
  <2>3. current' = <<e>> /\ FlushFull(es)
    BY <1>7, <2>1, <2>2 DEF ReadItem
  <2>4. e \in Growing /\ e.first = lines + 1 /\ e.last = lines + 1
    BY <1>2, <2>2 DEF Growing
  <2>5. es \in Seq(Elements) /\ Tiles(es, b) /\ EndOf(es, b) = lines /\ Len(es) <= MaxElements
    <3>1. CASE current = <<>>
      <4>1. es = elements /\ lines = EndOf(elements, b)
        BY <1>1, <2>1, <3>1 DEF TileInv, OpenTiles
      <4> QED
        BY <1>2, <4>1
    <3>2. CASE current # <<>>
      <4>1. es = Append(elements, Pushed(current[1]))
        BY <2>1, <3>2
      <4>2. /\ es \in Seq(Elements) /\ Len(es) = Len(elements) + 1
            /\ Tiles(es, LinesIn(Len(docs))) /\ EndOf(es, LinesIn(Len(docs))) = lines
        BY <3>2, <4>1, Pushes
      <4> QED
        BY <1>1, <1>2, <4>2
    <3> QED
      BY <3>1, <3>2
  <2>6. /\ DocumentsTile' /\ docs' \in Seq(Seq(Elements))
        /\ elements' \in Seq(Elements) /\ Len(elements') < MaxElements
        /\ Tiles(elements', c) /\ EndOf(elements', c) = lines
    BY <1>1, <1>2, <1>4, <2>3, <2>5, FlushTiles
  <2> QED
    BY <1>2, <2>3, <2>4, <2>6
<1> QED
  BY <1>6, <1>7

LEMMA EndTiles ==
  ASSUME TileInv, ParseEnds
  PROVE  TileInv'
<1>1. PICK b : b = LinesIn(Len(docs))
  OBVIOUS
<1>2. PICK es : es = IF current = <<>> THEN elements ELSE Append(elements, Pushed(current[1]))
  OBVIOUS
<1>3. /\ ~parsed /\ parsed' = TRUE /\ current' = <<>> /\ elements' = <<>> /\ lines' = lines
      /\ docs' = IF es = <<>> THEN docs ELSE Append(docs, es)
  BY <1>2 DEF ParseEnds
<1>4. /\ lines \in Nat /\ docs \in Seq(Seq(Elements)) /\ PartitionType /\ DocumentsTile
      /\ MaxElements \in Nat /\ MaxElements # 0
  BY PartitionAssumption DEF TileInv, PartitionType
<1>5. es \in Seq(Elements) /\ Tiles(es, b) /\ EndOf(es, b) = lines /\ Len(es) <= MaxElements
  <2>1. elements \in Seq(Elements) /\ Tiles(elements, b) /\ Len(elements) < MaxElements
    BY <1>1 DEF TileInv, PartitionType, OpenTiles
  <2>2. CASE current = <<>>
    <3>1. es = elements /\ lines = EndOf(elements, b)
      BY <1>1, <1>2, <2>2 DEF TileInv, OpenTiles
    <3> QED
      BY <1>4, <2>1, <3>1
  <2>3. CASE current # <<>>
    <3>1. es = Append(elements, Pushed(current[1]))
      BY <1>2, <2>3
    <3>2. /\ es \in Seq(Elements) /\ Len(es) = Len(elements) + 1
          /\ Tiles(es, LinesIn(Len(docs))) /\ EndOf(es, LinesIn(Len(docs))) = lines
      BY <2>3, <3>1, Pushes
    <3> QED
      BY <1>1, <1>4, <2>1, <3>2
  <2> QED
    BY <2>2, <2>3
<1>6. /\ DocumentsTile' /\ docs' \in Seq(Seq(Elements))
      /\ LinesIn(Len(docs))' = lines
  <2>1. CASE es = <<>>
    <3>1. docs' = docs /\ \A d : LinesIn(d)' = LinesIn(d)
      BY <1>3, <2>1 DEF LinesIn
    <3>2. DocumentsTile'
      BY <1>3, <1>4, <3>1 DEF DocumentsTile
    <3>3. b = lines
      BY <1>5, <2>1 DEF EndOf
    <3> QED
      BY <1>1, <1>4, <3>1, <3>2, <3>3
  <2>2. CASE es # <<>>
    <3>1. Len(es) \in 1..MaxElements /\ docs' = Append(docs, es) /\ parsed' \in BOOLEAN
      BY <1>3, <1>4, <1>5, <2>2
    <3>2. Tiles(es, LinesIn(Len(docs)))
      BY <1>1, <1>5
    <3> QED
      BY <1>3, <1>4, <1>5, <3>1, <3>2, DocumentCut
  <2> QED
    BY <2>1, <2>2
<1>7. PartitionType'
  BY <1>3, <1>4, <1>6 DEF PartitionType
<1>8. OpenTiles'
  BY <1>3, <1>4, <1>6 DEF OpenTiles, Tiles, EndOf
<1> QED
  BY <1>6, <1>7, <1>8 DEF TileInv

LEMMA TilesInit == InitChunking => TileInv
<1> SUFFICES ASSUME InitChunking PROVE TileInv
  OBVIOUS
<1>1. /\ lines = 0 /\ current = <<>> /\ elements = <<>> /\ docs = <<>> /\ parsed = FALSE
      /\ MaxElements \in Nat /\ MaxElements # 0
  BY PartitionAssumption DEF InitChunking, InitPartition
<1>2. PartitionType
  <2>1. <<>> \in Seq(Elements) /\ <<>> \in Seq(Seq(Elements))
    OBVIOUS
  <2> QED
    BY <1>1, <2>1 DEF PartitionType
<1>3. DocumentsTile
  BY <1>1 DEF DocumentsTile
<1>4. OpenTiles
  BY <1>1 DEF OpenTiles, Tiles, EndOf, LinesIn
<1> QED
  BY <1>2, <1>3, <1>4 DEF TileInv

\* The chunkers only read the documents.
LEMMA SameTiles ==
  ASSUME TileInv, UNCHANGED <<lines, current, elements, docs, parsed>>
  PROVE  TileInv'
  BY DEF TileInv, PartitionType, DocumentsTile, OpenTiles, LinesIn

LEMMA TilesNext == TileInv /\ [ChunkingNext]_<<strategy, chunkingVars>> => TileInv'
<1> SUFFICES ASSUME TileInv, [ChunkingNext]_<<strategy, chunkingVars>> PROVE TileInv'
  OBVIOUS
<1>1. CASE SkipItem
  BY <1>1, SameTiles DEF SkipItem
<1>2. CASE ParseEnds
  BY <1>2, EndTiles
<1>3. ASSUME NEW kind \in Kinds, NEW level \in Levels \cup {0}, NEW near \in BOOLEAN,
             ReadItem(kind, level, near)
      PROVE  TileInv'
  BY <1>3, ItemTiles
<1>4. CASE UNCHANGED partitionVars
  BY <1>4, SameTiles DEF partitionVars
<1> QED
  BY <1>1, <1>2, <1>3, <1>4 DEF ChunkingNext, PartitionStep, chunkingVars

\* The open element is the last one of those that PartitionTiles speaks of.
LEMMA TilesShown == TileInv => PartitionTiles
<1> SUFFICES ASSUME TileInv PROVE PartitionTiles
  OBVIOUS
<1>1. PICK b : b = LinesIn(Len(docs))
  OBVIOUS
<1>2. /\ elements \in Seq(Elements) /\ docs \in Seq(Seq(Elements)) /\ b \in Nat
      /\ Tiles(elements, b)
  <2>1. Len(docs) \in 0..Len(docs)
    BY DEF TileInv, PartitionType
  <2> QED
    BY <1>1, <2>1, LinesInNat DEF TileInv, PartitionType, OpenTiles
<1>3. Tiles(elements \o current, b) /\ lines = EndOf(elements \o current, b)
  <2>1. CASE current = <<>>
    <3>1. elements \o current = elements
      BY <1>2, <2>1
    <3> QED
      BY <1>1, <1>2, <2>1, <3>1 DEF TileInv, OpenTiles
  <2>2. CASE current # <<>>
    <3>1. PICK e \in Growing : current = <<e>>
      BY <2>2 DEF TileInv, PartitionType
    <3>2. e.first = 1 + EndOf(elements, b) /\ e.first <= e.last /\ lines = e.last
      BY <1>1, <2>2, <3>1 DEF TileInv, OpenTiles
    <3>3. PICK S : S = Elements \cup Growing
      OBVIOUS
    <3>4. elements \in Seq(S) /\ e \in S /\ elements \o current = Append(elements, e)
      BY <1>2, <3>1, <3>3
    <3>5. Tiles(Append(elements, e), b) /\ EndOf(Append(elements, e), b) = e.last
      BY <1>2, <3>2, <3>4, OneMore
    <3> QED
      BY <3>2, <3>4, <3>5
  <2> QED
    BY <2>1, <2>2
<1>4. DOMAIN docs = 1..Len(docs)
  BY <1>2
<1> QED
  BY <1>1, <1>3, <1>4 DEF TileInv, DocumentsTile, OpenTiles, PartitionTiles

\* The parser puts every line into one element of one document, in order, cuts where a
\* document is full and nowhere else, and drops nothing at a cut, a merge or the end:
\* for every file and every limit.
THEOREM Partition == ChunkingSpec => []PartitionTiles
  BY TilesInit, TilesNext, TilesShown, PTL DEF ChunkingSpec

-----------------------------------------------------------------------------
(* The active headers.                                                     *)

\* The headings before p that no later one before p ends.
InScope(p) ==
  {k \in 1..(p - 1) : /\ LevelAt(k) > 0
                      /\ \A j \in (k + 1)..(p - 1) : LevelAt(j) > 0 => LevelAt(j) > LevelAt(k)}

\* Only a text is split, and before the file is read there is no document.
HeaderInv ==
  /\ pos \in Nat \ {0}
  /\ left > 0 => LevelAt(pos) = 0
  /\ Structural => headers = InScope(pos)
  /\ ~parsed => pos = 1 /\ left = 0

\* At the beginning of a document there are none.
LEMMA NoneInScope == InScope(1) = {}
<1>1. 1..(1 - 1) = {}
  OBVIOUS
<1> QED
  BY <1>1 DEF InScope

\* A heading ends the scope of those that are not above it.
LEMMA HeadingScopes ==
  ASSUME NEW p \in Nat \ {0}, LevelAt(p) > 0
  PROVE  InScope(p + 1) = {k \in InScope(p) : LevelAt(k) < LevelAt(p)} \cup {p}
<1>1. ASSUME NEW k \in InScope(p + 1) PROVE k = p \/ (k \in InScope(p) /\ LevelAt(p) > LevelAt(k))
  <2>1. k \in 1..p /\ LevelAt(k) > 0
    BY <1>1 DEF InScope
  <2>2. \A j \in (k + 1)..p : LevelAt(j) > 0 => LevelAt(j) > LevelAt(k)
    BY <1>1 DEF InScope
  <2> QED
    BY <2>1, <2>2 DEF InScope
<1>2. ASSUME NEW k \in InScope(p), LevelAt(p) > LevelAt(k) PROVE k \in InScope(p + 1)
  <2>1. k \in 1..(p - 1) /\ LevelAt(k) > 0
        /\ \A j \in (k + 1)..(p - 1) : LevelAt(j) > 0 => LevelAt(j) > LevelAt(k)
    BY DEF InScope
  <2>2. \A j \in (k + 1)..p : LevelAt(j) > 0 => LevelAt(j) > LevelAt(k)
    BY <1>2, <2>1
  <2> QED
    BY <2>1, <2>2 DEF InScope
<1>3. p \in InScope(p + 1)
  BY DEF InScope
<1>4. \A k : LevelAt(p) > LevelAt(k) <=> LevelAt(k) < LevelAt(p)
  OBVIOUS
<1> QED
  BY <1>1, <1>2, <1>3, <1>4

\* A text changes nothing.
LEMMA TextScopes ==
  ASSUME NEW p \in Nat \ {0}, LevelAt(p) = 0
  PROVE  InScope(p + 1) = InScope(p)
<1>1. ASSUME NEW k \in InScope(p + 1) PROVE k \in InScope(p)
  <2>1. k \in 1..p /\ LevelAt(k) > 0
        /\ \A j \in (k + 1)..p : LevelAt(j) > 0 => LevelAt(j) > LevelAt(k)
    BY DEF InScope
  <2>2. k # p
    BY <2>1
  <2> QED
    BY <2>1, <2>2 DEF InScope
<1>2. ASSUME NEW k \in InScope(p) PROVE k \in InScope(p + 1)
  BY DEF InScope
<1> QED
  BY <1>1, <1>2

\* A step within a document: past a heading, past a text, or not past its element.
LEMMA ScopesGoOn ==
  ASSUME HeaderInv, parsed, UNCHANGED <<strategy, doc, docs, parsed>>, left' \in Nat,
         \/ HeaderSeen
         \/ /\ headers' = headers
            /\ \/ pos' = pos /\ (left' > 0 => LevelAt(pos) = 0)
               \/ pos' = pos + 1 /\ LevelAt(pos) = 0 /\ left' = 0
  PROVE  HeaderInv'
<1>1. Structural' = Structural /\ (\A k : LevelAt(k)' = LevelAt(k)) /\ \A p : InScope(p)' = InScope(p)
  BY DEF Structural, LevelAt, InScope
<1>2. pos \in Nat \ {0} /\ (Structural => headers = InScope(pos))
  BY DEF HeaderInv
<1>3. CASE HeaderSeen
  <2>1. pos' = pos + 1 /\ left' = 0 /\ LevelAt(pos) > 0 /\ (Structural => headers' = UpdateHeaders(pos))
    BY <1>3 DEF HeaderSeen, Element, LevelAt
  <2>2. Structural => headers' = InScope(pos + 1)
    BY <1>2, <2>1, HeadingScopes DEF UpdateHeaders
  <2>3. Structural' => headers' = InScope(pos)'
    BY <1>1, <2>1, <2>2
  <2> QED
    BY <1>2, <2>1, <2>3 DEF HeaderInv
<1>4. CASE headers' = headers /\ pos' = pos /\ (left' > 0 => LevelAt(pos) = 0)
  <2>1. Structural' => headers' = InScope(pos)'
    BY <1>1, <1>2, <1>4
  <2>2. LevelAt(pos)' = LevelAt(pos)
    BY <1>4 DEF LevelAt
  <2> QED
    BY <1>2, <1>4, <2>1, <2>2 DEF HeaderInv
<1>5. CASE headers' = headers /\ pos' = pos + 1 /\ LevelAt(pos) = 0 /\ left' = 0
  <2>1. Structural' => headers' = InScope(pos)'
    BY <1>1, <1>2, <1>5, TextScopes
  <2> QED
    BY <1>2, <1>5, <2>1 DEF HeaderInv
<1> QED
  BY <1>3, <1>4, <1>5

LEMMA HeadersInit == InitChunking => HeaderInv
  BY NoneInScope DEF InitChunking, InitPartition, HeaderInv

LEMMA HeadersNext ==
  ChunkInv /\ HeaderInv /\ [ChunkingNext]_<<strategy, chunkingVars>> => HeaderInv'
<1> SUFFICES ASSUME ChunkInv, HeaderInv, [ChunkingNext]_<<strategy, chunkingVars>>
             PROVE  HeaderInv'
  OBVIOUS
<1>1. /\ left \in Nat /\ MaxTokens \in Nat /\ MaxSentences \in Nat /\ MaxOversize \in Nat
      /\ pos \in Nat \ {0} /\ (left > 0 => parsed /\ LevelAt(pos) = 0)
  BY ChunkAssumption DEF ChunkInv, CutInv, ChunkType, Place, HeaderInv
<1>2. CASE PartitionStep /\ UNCHANGED chunkVars /\ UNCHANGED strategy
  <2>1. pos = 1 /\ left = 0 /\ pos' = 1 /\ left' = 0 /\ headers' = headers /\ Structural' = Structural
    BY <1>2 DEF HeaderInv, PartitionStep, SkipItem, ReadItem, ParseEnds, chunkVars, Structural
  <2>2. InScope(1)' = {}
    <3>1. 1..(1 - 1) = {}
      OBVIOUS
    <3> QED
      BY <3>1 DEF InScope
  <2> QED
    BY <2>1, <2>2, NoneInScope DEF HeaderInv
<1>3. CASE ChunkStep /\ UNCHANGED partitionVars /\ UNCHANGED strategy
  <2>1. docs' = docs /\ parsed' = parsed /\ strategy' = strategy
    BY <1>3 DEF partitionVars
  <2>2. CASE NextDocument
    <3>1. pos' = 1 /\ left' = 0 /\ headers' = {}
      BY <2>2 DEF NextDocument, Fresh
    <3>2. InScope(1)' = {}
      <4>1. 1..(1 - 1) = {}
        OBVIOUS
      <4> QED
        BY <4>1 DEF InScope
    <3> QED
      BY <3>1, <3>2 DEF HeaderInv
  <2>3. ASSUME parsed, doc' = doc, left' \in Nat,
               \/ HeaderSeen
               \/ /\ headers' = headers
                  /\ \/ pos' = pos /\ (left' > 0 => LevelAt(pos) = 0)
                     \/ pos' = pos + 1 /\ LevelAt(pos) = 0 /\ left' = 0
        PROVE  HeaderInv'
    BY <2>1, <2>3, ScopesGoOn
  <2>4. AtText => parsed /\ left = 0 /\ LevelAt(pos) = 0
    BY DEF AtText, AtElement, AtDocument, Element, LevelAt
  <2>5. CASE HeaderSeen
    BY <1>1, <2>3, <2>5 DEF HeaderSeen, AtElement, AtDocument
  <2>6. ASSUME NEW t \in 0..MaxTokens, StructuralBlock(t) \/ GreedyBlock(t) PROVE HeaderInv'
    BY <2>3, <2>4, <2>6 DEF StructuralBlock, GreedyBlock
  <2>7. ASSUME \/ \E n \in 1..MaxSentences : Split(n)
               \/ \E n \in 1..MaxOversize : Oversize(n)
        PROVE  HeaderInv'
    BY <1>1, <2>3, <2>4, <2>7 DEF Split, Oversize
  <2>8. ASSUME \/ \E t \in 0..MaxTokens : Sentence(t)
               \/ SentenceOmitted
        PROVE  HeaderInv'
    <3>1. left > 0 /\ SentenceDone /\ doc' = doc /\ headers' = headers
      BY <2>8 DEF Sentence, SentenceOmitted
    <3> QED
      BY <1>1, <2>3, <3>1 DEF SentenceDone
  <2>9. ASSUME Slice \/ SliceOmitted PROVE HeaderInv'
    <3>1. left > 0 /\ SliceDone /\ doc' = doc /\ headers' = headers
      BY <2>9 DEF Slice, SliceOmitted
    <3>2. SliceSize \in Nat /\ left - SliceSize \in Nat
      BY <1>1 DEF SliceSize
    <3> QED
      BY <1>1, <2>3, <3>1, <3>2 DEF SliceDone
  <2>10. CASE DocumentEnds
    BY <1>1, <2>3, <2>10 DEF DocumentEnds, AtDocument
  <2>11. CASE EncodeFails
    BY <1>1, <2>3, <2>4, <2>11 DEF EncodeFails
  <2> QED
    BY <1>3, <2>2, <2>5, <2>6, <2>7, <2>8, <2>9, <2>10, <2>11 DEF ChunkStep
<1>4. CASE UNCHANGED <<strategy, chunkingVars>>
  BY <1>4 DEF chunkingVars, chunkVars, partitionVars, HeaderInv, Structural, LevelAt, InScope
<1> QED
  BY <1>2, <1>3, <1>4 DEF ChunkingNext

LEMMA ScopesShown == HeaderInv => HeaderScope
<1> SUFFICES ASSUME HeaderInv, Structural
             PROVE  LET seen == {k \in 1..(pos - 1) : LevelAt(k) > 0}
                    IN  headers = {k \in seen : \A j \in seen : j > k => LevelAt(j) > LevelAt(k)}
  BY DEF HeaderScope
<1>1. pos \in Nat \ {0} /\ headers = InScope(pos)
  BY DEF HeaderInv
<1>2. PICK seen : seen = {k \in 1..(pos - 1) : LevelAt(k) > 0}
  OBVIOUS
<1>3. ASSUME NEW k \in seen
      PROVE  (\A j \in seen : j > k => LevelAt(j) > LevelAt(k))
               <=> \A j \in (k + 1)..(pos - 1) : LevelAt(j) > 0 => LevelAt(j) > LevelAt(k)
  BY <1>1, <1>2
<1>4. InScope(pos) = {k \in seen : \A j \in seen : j > k => LevelAt(j) > LevelAt(k)}
  BY <1>2, <1>3 DEF InScope
<1> QED
  BY <1>1, <1>2, <1>4

\* The structural chunker puts an element under the headings of its document that no later
\* one of their level or above has ended, whatever the order of the levels.
THEOREM Headers == ChunkingSpec => []HeaderScope
  BY ChunkInit, ChunkNext, HeadersInit, HeadersNext, ScopesShown, PTL DEF ChunkingSpec

-----------------------------------------------------------------------------
(* The files of a tree.                                                    *)

LEMMA ReachedSelf == ASSUME NEW e \in Entries PROVE e \in Within[e] /\ Within[e] \subseteq Entries
  BY DEF Within

LEMMA ReachedClosed == ASSUME NEW e \in Entries PROVE Closed(Within[e])
<1> SUFFICES ASSUME NEW d \in Within[e] \cap Dirs, NEW x \in EntriesOf[d] PROVE x \in Within[e]
  BY DEF Closed
<1>1. x \in Entries
  BY DEF Entries
<1>2. ASSUME NEW S \in SUBSET Entries, e \in S, Closed(S) PROVE x \in S
  <2>1. d \in S
    BY <1>2 DEF Within
  <2> QED
    BY <1>2, <2>1 DEF Closed
<1> QED
  BY <1>1, <1>2 DEF Within

LEMMA ReachedLeast ==
  ASSUME NEW e \in Entries, NEW S \in SUBSET Entries, e \in S, Closed(S)
  PROVE  Within[e] \subseteq S
  BY DEF Within

LEMMA ReachedOn ==
  ASSUME NEW e \in Entries, NEW x \in Within[e] PROVE Within[x] \subseteq Within[e]
  BY ReachedSelf, ReachedClosed, ReachedLeast

\* Whatever is below an entry is the entry itself or in a directory below it.
LEMMA ReachedFrom ==
  ASSUME NEW e \in Entries, NEW x \in Within[e], x # e
  PROVE  \E d \in Within[e] \cap Dirs : x \in EntriesOf[d]
<1> DEFINE S == {y \in Within[e] : y = e \/ \E d \in Within[e] \cap Dirs : y \in EntriesOf[d]}
<1>1. S \in SUBSET Entries /\ e \in S
  BY ReachedSelf
<1>2. Closed(S)
  BY ReachedClosed DEF Closed
<1>3. Within[e] \subseteq S
  BY <1>1, <1>2, ReachedLeast
<1> QED
  BY <1>3

LEMMA ReachedFile == ASSUME NEW f \in Files PROVE f \in Entries /\ Within[f] = {f}
<1>1. f \in Entries /\ {f} \in SUBSET Entries
  BY DEF Entries
<1>2. Closed({f})
  BY TreeAssumption DEF Closed
<1> QED
  BY <1>1, <1>2, ReachedLeast, ReachedSelf

LEMMA ReachedDir ==
  ASSUME NEW d \in Dirs
  PROVE  /\ d \in Entries /\ EntriesOf[d] \subseteq Entries
         /\ Within[d] = {d} \cup UNION {Within[x] : x \in EntriesOf[d]}
<1>1. d \in Entries /\ EntriesOf[d] \subseteq Entries
  BY DEF Entries
<1> DEFINE S == {d} \cup UNION {Within[x] : x \in EntriesOf[d]}
<1>2. S \in SUBSET Entries /\ d \in S
  BY <1>1, ReachedSelf
<1>3. Closed(S)
  <2> SUFFICES ASSUME NEW c \in S \cap Dirs, NEW y \in EntriesOf[c] PROVE y \in S
    BY DEF Closed
  <2>1. CASE c = d
    BY <1>1, <2>1, ReachedSelf
  <2>2. CASE c # d
    <3>1. PICK x \in EntriesOf[d] : c \in Within[x]
      BY <2>2
    <3>2. y \in Within[x]
      BY <1>1, <3>1, ReachedClosed DEF Closed
    <3> QED
      BY <3>2
  <2> QED
    BY <2>1, <2>2
<1>4. Within[d] \subseteq S
  BY <1>1, <1>2, <1>3, ReachedLeast
<1>5. \A x \in EntriesOf[d] : Within[x] \subseteq Within[d]
  BY <1>1, ReachedSelf, ReachedClosed, ReachedOn DEF Closed
<1> QED
  BY <1>1, <1>4, <1>5, ReachedSelf

\* The tree below the root has no cycle ...
LEMMA Acyclic ==
  ASSUME NEW d \in Within[Root] \cap Dirs, NEW x \in EntriesOf[d]
  PROVE  d \notin Within[x]
<1>0. Root \in Entries
  BY TreeAssumption DEF Entries
<1> DEFINE Good == {y \in Within[Root] : y \in Dirs => \A z \in EntriesOf[y] : y \notin Within[z]}
<1>1. Root \in Good
  <2> SUFFICES ASSUME Root \in Dirs, NEW z \in EntriesOf[Root], Root \in Within[z] PROVE FALSE
    BY <1>0, ReachedSelf
  <2>1. z \in Entries /\ z # Root
    BY TreeAssumption DEF Entries
  <2>2. PICK c \in Dirs : Root \in EntriesOf[c]
    BY <2>1, ReachedFrom
  <2> QED
    BY <2>2, TreeAssumption
<1>2. Closed(Good)
  <2> SUFFICES ASSUME NEW y \in Good \cap Dirs, NEW c \in EntriesOf[y] PROVE c \in Good
    BY DEF Closed
  <2>1. c \in Within[Root]
    BY <1>0, ReachedClosed DEF Closed
  <2> SUFFICES ASSUME c \in Dirs, NEW z \in EntriesOf[c], c \in Within[z] PROVE FALSE
    BY <2>1
  <2>2. z \in Entries /\ c \in Entries
    BY DEF Entries
  <2>3. CASE z = c
    <3>1. c = y
      BY <2>3, TreeAssumption
    <3> QED
      BY <2>2, <2>3, <3>1, ReachedSelf
  <2>4. CASE z # c
    <3>1. PICK p \in Within[z] \cap Dirs : c \in EntriesOf[p]
      BY <2>2, <2>4, ReachedFrom
    <3>2. p = y
      BY <3>1, TreeAssumption
    <3>3. z \in Within[c]
      BY <2>2, ReachedSelf, ReachedClosed DEF Closed
    <3>4. y \in Within[c]
      BY <2>2, <3>1, <3>2, <3>3, ReachedOn
    <3> QED
      BY <3>4
  <2> QED
    BY <2>3, <2>4
<1>3. Within[Root] \subseteq Good
  <2>1. Good \in SUBSET Entries
    BY <1>0, ReachedSelf
  <2> QED
    BY <1>0, <1>1, <1>2, <2>1, ReachedLeast
<1> QED
  BY <1>3

\* ... and two entries of a directory have nothing in common.
LEMMA Apart ==
  ASSUME NEW d \in Within[Root] \cap Dirs, NEW x \in EntriesOf[d], NEW y \in EntriesOf[d], x # y
  PROVE  Within[x] \cap Within[y] = {}
<1>0. x \in Entries /\ y \in Entries
  BY DEF Entries
<1>a. d \notin Within[x] /\ d \notin Within[y]
  BY Acyclic
<1> DEFINE T == {z \in Within[x] : z \notin Within[y]}
<1>1. x \in T
  <2> SUFFICES ASSUME x \in Within[y] PROVE FALSE
    BY <1>0, ReachedSelf
  <2>1. PICK p \in Within[y] \cap Dirs : x \in EntriesOf[p]
    BY <1>0, ReachedFrom
  <2> QED
    BY <1>a, <2>1, TreeAssumption
<1>2. Closed(T)
  <2> SUFFICES ASSUME NEW z \in T \cap Dirs, NEW c \in EntriesOf[z] PROVE c \in T
    BY DEF Closed
  <2>1. c \in Within[x]
    BY <1>0, ReachedClosed DEF Closed
  <2> SUFFICES ASSUME c \in Within[y] PROVE FALSE
    BY <2>1
  <2>2. CASE c = y
    <3>1. z = d
      BY <2>2, TreeAssumption
    <3> QED
      BY <1>a, <3>1
  <2>3. CASE c # y
    <3>1. PICK p \in Within[y] \cap Dirs : c \in EntriesOf[p]
      BY <1>0, <2>3, ReachedFrom
    <3>2. p = z
      BY <3>1, TreeAssumption
    <3> QED
      BY <3>1, <3>2
  <2> QED
    BY <2>2, <2>3
<1>3. Within[x] \subseteq T
  <2>1. T \in SUBSET Entries
    BY <1>0, ReachedSelf
  <2> QED
    BY <1>0, <1>1, <1>2, <2>1, ReachedLeast
<1> QED
  BY <1>3

\* The stack: each directory was read in the one below it, and everything above a
\* directory is within the one entry of it that is open.
OpenDir == [dir : Dirs, left : SUBSET Entries]

StackOk(st) ==
  /\ st \in Seq(OpenDir)
  /\ \A k \in 1..Len(st) : st[k].dir \in Within[Root] /\ st[k].left \subseteq EntriesOf[st[k].dir]
  /\ \A k \in 2..Len(st) : st[k].dir \in EntriesOf[st[k - 1].dir] \ st[k - 1].left
  /\ \A j, k \in 1..Len(st) : j < k => st[k].dir \in Within[st[j + 1].dir]

AheadOn(st) == UNION {Below(st[k].left) : k \in DOMAIN st}

LEMMA StackType ==
  ASSUME NEW st, StackOk(st)
  PROVE  /\ Len(st) \in Nat /\ DOMAIN st = 1..Len(st)
         /\ \A k \in 1..Len(st) : /\ st[k] \in OpenDir /\ st[k].dir \in Within[Root] \cap Dirs
                                /\ st[k].left \subseteq EntriesOf[st[k].dir]
                                /\ st[k].dir \in Entries /\ st[k].left \subseteq Entries
<1>1. Len(st) \in Nat /\ DOMAIN st = 1..Len(st) /\ \A k \in 1..Len(st) : st[k] \in OpenDir
  BY DEF StackOk
<1>2. \A o \in OpenDir : o.dir \in Dirs /\ o.dir \in Entries /\ o.left \subseteq Entries
  BY DEF OpenDir, Entries
<1> QED
  BY <1>1, <1>2 DEF StackOk

LEMMA StackApart ==
  ASSUME NEW st, StackOk(st), NEW j \in 1..Len(st), NEW k \in 1..Len(st),
         NEW x \in st[j].left, NEW y \in st[k].left, j # k \/ x # y
  PROVE  Within[x] \cap Within[y] = {}
<1>0. /\ Len(st) \in Nat
      /\ \A i \in 1..Len(st) : /\ st[i].dir \in Within[Root] \cap Dirs
                             /\ st[i].left \subseteq EntriesOf[st[i].dir]
                             /\ st[i].dir \in Entries
  BY StackType
<1>1. ASSUME NEW i \in 1..Len(st), NEW m \in 1..Len(st), i < m,
             NEW u \in st[i].left, NEW v \in st[m].left
      PROVE  Within[u] \cap Within[v] = {}
  <2> DEFINE c == st[i + 1].dir
  <2>1. i + 1 \in 2..Len(st) /\ (i + 1) - 1 = i
    BY <1>0, <1>1
  <2>2. c \in EntriesOf[st[i].dir] /\ u # c /\ u \in EntriesOf[st[i].dir]
    BY <1>0, <1>1, <2>1 DEF StackOk
  <2>3. st[i].dir \in Within[Root] \cap Dirs
    BY <1>0
  <2>4. Within[u] \cap Within[c] = {}
    BY <2>2, <2>3, Apart
  <2>5. st[m].dir \in Within[c] \cap Dirs /\ v \in EntriesOf[st[m].dir] /\ c \in Entries
    BY <1>0, <1>1, <2>1 DEF StackOk
  <2>6. v \in Within[c]
    BY <2>5, ReachedClosed DEF Closed
  <2>7. Within[v] \subseteq Within[c]
    BY <2>5, <2>6, ReachedOn
  <2> QED
    BY <2>4, <2>7
<1>2. CASE j = k
  <2>1. /\ st[j].dir \in Within[Root] \cap Dirs /\ x \in EntriesOf[st[j].dir]
        /\ y \in EntriesOf[st[j].dir]
    BY <1>0, <1>2
  <2> QED
    BY <1>2, <2>1, Apart
<1>3. CASE j < k
  BY <1>1, <1>3
<1>4. CASE k < j
  BY <1>1, <1>4
<1> QED
  BY <1>0, <1>2, <1>3, <1>4

LEMMA FrontParts ==
  ASSUME NEW S, NEW st \in Seq(S), st # <<>>
  PROVE  /\ Front(st) \in Seq(S) /\ Len(Front(st)) = Len(st) - 1
         /\ \A k \in 1..(Len(st) - 1) : Front(st)[k] = st[k]
<1>1. Len(st) \in Nat \ {0}
  BY EmptySeq
<1>2. \A i \in 1..(Len(st) - 1) : st[i] \in S /\ 1 + i - 1 = i
  BY <1>1
<1> DEFINE m == Len(st) - 1
<1>a. m \in Nat
  BY <1>1
<1>b. \A i \in 1..m : st[i] \in S /\ 1 + i - 1 = i
  BY <1>2
<1>c. m = Len(st) - 1
  OBVIOUS
<1> HIDE DEF m
<1>3. /\ m \in Int /\ 1 \in Int /\ m - 1 + 1 = m /\ \A i \in 1..m : st[i] \in S
      /\ m = IF 1 <= m THEN m - 1 + 1 ELSE 0
  BY <1>a, <1>b
<1>4. /\ SubSeq(st, 1, m) \in Seq(S) /\ Len(SubSeq(st, 1, m)) = IF 1 <= m THEN m - 1 + 1 ELSE 0
      /\ \A i \in 1..(m - 1 + 1) : SubSeq(st, 1, m)[i] = st[1 + i - 1]
  BY <1>3, SubSeqProperties
<1> QED
  BY <1>b, <1>c, <1>3, <1>4 DEF Front

LEMMA Popped ==
  ASSUME NEW st, StackOk(st), st # <<>>
  PROVE  /\ StackOk(Front(st)) /\ Last(st) \in OpenDir
         /\ AheadOn(st) = AheadOn(Front(st)) \cup Below(Last(st).left)
<1> DEFINE n == Len(st)
<1>1. n \in Nat \ {0} /\ st \in Seq(OpenDir)
  BY DEF StackOk
<1>2. /\ Front(st) \in Seq(OpenDir) /\ Len(Front(st)) = n - 1
      /\ \A k \in 1..(n - 1) : Front(st)[k] = st[k]
  BY <1>1, FrontParts
<1>3. Last(st) = st[n] /\ st[n] \in OpenDir
  BY <1>1 DEF Last
<1>4. StackOk(Front(st))
  <2> DEFINE fr == Front(st)
  <2>1. /\ \A k \in 1..(n - 1) : k \in 1..n /\ fr[k] = st[k]
        /\ \A k \in 2..(n - 1) : k \in 2..n /\ k \in 1..(n - 1) /\ k - 1 \in 1..(n - 1)
        /\ \A j, k \in 1..(n - 1) : j < k => j + 1 \in 1..(n - 1)
        /\ fr \in Seq(OpenDir) /\ Len(fr) = n - 1
    BY <1>1, <1>2
  <2> HIDE DEF fr
  <2>2. \A k \in 2..(n - 1) : fr[k].dir \in EntriesOf[fr[k - 1].dir] \ fr[k - 1].left
    BY <2>1 DEF StackOk
  <2>3. \A j, k \in 1..(n - 1) : j < k => fr[k].dir \in Within[fr[j + 1].dir]
    BY <2>1 DEF StackOk
  <2>4. \A k \in 1..(n - 1) : fr[k].dir \in Within[Root] /\ fr[k].left \subseteq EntriesOf[fr[k].dir]
    BY <2>1 DEF StackOk
  <2>5. StackOk(fr)
    BY <2>1, <2>2, <2>3, <2>4 DEF StackOk
  <2> QED
    BY <2>5 DEF fr
<1>5. AheadOn(st) = AheadOn(Front(st)) \cup Below(Last(st).left)
  <2>1. DOMAIN st = 1..n /\ DOMAIN Front(st) = 1..(n - 1)
    BY <1>1, <1>2
  <2>2. 1..n = 1..(n - 1) \cup {n}
    BY <1>1
  <2> QED
    BY <1>2, <1>3, <2>1, <2>2 DEF AheadOn
<1> QED
  BY <1>3, <1>4, <1>5

LEMMA PushedOn ==
  ASSUME NEW st, StackOk(st), NEW o \in OpenDir,
         o.dir \in Within[Root], o.left \subseteq EntriesOf[o.dir],
         st # <<>> => o.dir \in EntriesOf[Last(st).dir] \ Last(st).left
  PROVE  /\ StackOk(Append(st, o))
         /\ AheadOn(Append(st, o)) = AheadOn(st) \cup Below(o.left)
<1> DEFINE n == Len(st)  ap == Append(st, o)
<1>1. n \in Nat /\ st \in Seq(OpenDir)
  BY DEF StackOk
<1>2. ap \in Seq(OpenDir) /\ Len(ap) = n + 1 /\ ap[n + 1] = o /\ \A k \in 1..n : ap[k] = st[k]
  BY <1>1
<1>3. o.dir \in Entries /\ o.dir \in Within[o.dir]
  BY ReachedSelf DEF OpenDir, Entries
<1>4. ASSUME NEW j \in 1..n PROVE o.dir \in Within[ap[j + 1].dir]
  <2>1. CASE j = n
    BY <1>2, <1>3, <2>1
  <2>2. CASE j < n
    <3>1. st[n].dir \in Within[st[j + 1].dir] /\ st[n].dir \in Dirs /\ st[j + 1].dir \in Entries
      <4>1. n \in 1..n /\ j + 1 \in 1..n
        BY <1>1, <2>2
      <4> QED
        BY <2>2, <4>1, StackType DEF StackOk
    <3>2. o.dir \in EntriesOf[st[n].dir]
      BY <2>2, <1>1 DEF Last
    <3>3. o.dir \in Within[st[j + 1].dir]
      BY <3>1, <3>2, ReachedClosed DEF Closed
    <3>4. ap[j + 1] = st[j + 1]
      BY <1>1, <1>2, <2>2
    <3> QED
      BY <3>3, <3>4
  <2> QED
    BY <1>1, <2>1, <2>2
<1>5. ASSUME NEW k \in 2..(n + 1) PROVE ap[k].dir \in EntriesOf[ap[k - 1].dir] \ ap[k - 1].left
  <2>1. CASE k = n + 1
    <3>1. ap[k - 1] = Last(st) /\ st # <<>>
      BY <1>1, <1>2, <1>5, <2>1 DEF Last
    <3> QED
      BY <1>2, <2>1, <3>1
  <2>2. CASE k < n + 1
    <3>1. k \in 2..n /\ ap[k] = st[k] /\ ap[k - 1] = st[k - 1]
      BY <1>1, <1>2, <1>5, <2>2
    <3> QED
      BY <3>1 DEF StackOk
  <2> QED
    BY <1>1, <2>1, <2>2
<1>6. ASSUME NEW j \in 1..(n + 1), NEW k \in 1..(n + 1), j < k
      PROVE  ap[k].dir \in Within[ap[j + 1].dir]
  <2>1. CASE k = n + 1
    <3>1. j \in 1..n /\ ap[k] = o
      BY <1>1, <1>2, <1>6, <2>1
    <3> QED
      BY <1>4, <3>1
  <2>2. CASE k < n + 1
    <3>1. j \in 1..n /\ k \in 1..n /\ ap[k] = st[k] /\ ap[j + 1] = st[j + 1]
      BY <1>1, <1>2, <1>6, <2>2
    <3> QED
      BY <1>6, <3>1 DEF StackOk
  <2>3. k = n + 1 \/ k < n + 1
    BY <1>1
  <2> QED
    BY <2>1, <2>2, <2>3
<1>7. ASSUME NEW k \in 1..(n + 1)
      PROVE  ap[k].dir \in Within[Root] /\ ap[k].left \subseteq EntriesOf[ap[k].dir]
  BY <1>1, <1>2 DEF StackOk
<1> HIDE DEF ap
<1>8. StackOk(ap)
  BY <1>2, <1>5, <1>6, <1>7 DEF StackOk
<1>9. AheadOn(ap) = AheadOn(st) \cup Below(o.left)
  <2>1. DOMAIN st = 1..n /\ DOMAIN ap = 1..(n + 1)
    BY <1>1, <1>2
  <2>2. 1..(n + 1) = 1..n \cup {n + 1}
    BY <1>1
  <2> QED
    BY <1>2, <2>1, <2>2 DEF AheadOn
<1> QED
  BY <1>8, <1>9 DEF ap

LEMMA EntryTaken ==
  ASSUME NEW st, StackOk(st), st # <<>>, NEW e \in Last(st).left
  PROVE  LET rest == Append(Front(st), [Last(st) EXCEPT !.left = @ \ {e}]) IN
         /\ StackOk(rest) /\ rest # <<>> /\ Last(rest) = [Last(st) EXCEPT !.left = @ \ {e}]
         /\ e \in EntriesOf[Last(st).dir] /\ e \in Entries /\ Last(st).dir \in Within[Root]
         /\ AheadOn(st) = AheadOn(rest) \cup Below({e})
         /\ AheadOn(rest) \cap Below({e}) = {}
<1> DEFINE n == Len(st)  o == [Last(st) EXCEPT !.left = @ \ {e}]  rest == Append(Front(st), o)
<1>1. /\ st \in Seq(OpenDir) /\ n \in Nat \ {0}
      /\ Front(st) \in Seq(OpenDir) /\ Len(Front(st)) = n - 1
      /\ \A k \in 1..(n - 1) : Front(st)[k] = st[k]
      /\ Last(st) = st[n] /\ st[n] \in OpenDir
  <2>1. st \in Seq(OpenDir)
    BY DEF StackOk
  <2>2. n \in Nat \ {0} /\ st[n] \in OpenDir /\ Last(st) = st[n]
    BY <2>1, EmptySeq DEF Last
  <2> QED
    BY <2>1, <2>2, FrontParts
<1>2. StackOk(Front(st)) /\ AheadOn(st) = AheadOn(Front(st)) \cup Below(Last(st).left)
  BY Popped
<1>3. /\ o \in OpenDir /\ o.dir = st[n].dir /\ o.left = st[n].left \ {e}
      /\ o.dir \in Within[Root] /\ o.left \subseteq EntriesOf[o.dir] /\ e \in EntriesOf[o.dir]
  BY <1>1 DEF StackOk, OpenDir
<1>4. Front(st) # <<>> => o.dir \in EntriesOf[Last(Front(st)).dir] \ Last(Front(st)).left
  <2> SUFFICES ASSUME Front(st) # <<>>
               PROVE  o.dir \in EntriesOf[Last(Front(st)).dir] \ Last(Front(st)).left
    OBVIOUS
  <2>1. n \in 2..Len(st) /\ Last(Front(st)) = st[n - 1]
    BY <1>1 DEF Last
  <2> QED
    BY <1>3, <2>1 DEF StackOk
<1>5. StackOk(rest) /\ AheadOn(rest) = AheadOn(Front(st)) \cup Below(o.left)
  BY <1>2, <1>3, <1>4, PushedOn
<1>6. Below(Last(st).left) = Below(o.left) \cup Below({e})
  BY <1>1, <1>3 DEF Below
<1>7. Len(rest) = n /\ rest[n] = o /\ \A k \in 1..(n - 1) : rest[k] = st[k]
  BY <1>1, <1>3
<1>8. AheadOn(rest) \cap Below({e}) = {}
  <2> SUFFICES ASSUME NEW k \in 1..n, NEW x \in rest[k].left, Within[x] \cap Within[e] # {}
               PROVE  FALSE
    <3>1. DOMAIN rest = 1..n
      BY <1>1, <1>7
    <3> QED
      BY <3>1 DEF AheadOn, Below
  <2>1. x \in st[k].left /\ (k # n \/ x # e)
    BY <1>1, <1>3, <1>7
  <2>2. n \in 1..Len(st) /\ k \in 1..Len(st) /\ e \in st[n].left
    BY <1>1
  <2> QED
    BY <2>1, <2>2, StackApart
<1>9. Last(rest) = o /\ rest # <<>> /\ e \in Entries
  BY <1>1, <1>3, <1>7 DEF Last, Entries, OpenDir
<1> QED
  BY <1>1, <1>2, <1>3, <1>5, <1>6, <1>8, <1>9

WalkType ==
  /\ source \in {"open", "ended", "failed"}
  /\ pending \in Seq(Files) /\ yielded \in Seq(Files) /\ skipped \subseteq Entries

WalkInv == WalkType /\ StackOk(dirStack) /\ EveryFileOnce

SourceStep == Yield \/ Exhausted \/ ReadEntry \/ DirDone \/ SourceFails

LEMMA AheadIs == Ahead = AheadOn(dirStack) /\ Ahead' = AheadOn(dirStack)'
  BY DEF Ahead, AheadOn

LEMMA WalkInit == InitSource => WalkInv
<1> SUFFICES ASSUME InitSource PROVE WalkInv
  OBVIOUS
<1>0. /\ source = "open" /\ yielded = <<>> /\ skipped = {} /\ Root \in Entries
      /\ Below(skipped) = {} /\ \A S : <<>> \in Seq(S)
  BY TreeAssumption DEF InitSource, Entries, Below
<1>1. CASE Root \in Dirs
  <2> DEFINE o == Opened(Root)
  <2>1. dirStack = <<o>> /\ pending = <<>>
    BY <1>1, TreeAssumption DEF InitSource
  <2>2. o \in OpenDir /\ o.dir = Root /\ o.left = EntriesOf[Root] /\ Root \in Within[Root]
    BY <1>0, <1>1, ReachedSelf, ReachedDir DEF Opened, OpenDir
  <2> HIDE DEF o
  <2>3. /\ dirStack \in Seq(OpenDir) /\ Len(dirStack) = 1 /\ dirStack[1] = o
        /\ DOMAIN dirStack = {1}
    BY <2>1, <2>2
  <2>4. StackOk(dirStack)
    BY <2>2, <2>3 DEF StackOk
  <2>5. Ahead = Below(EntriesOf[Root])
    BY <2>2, <2>3 DEF Ahead
  <2>6. Below({Root}) = Below(EntriesOf[Root])
    BY <1>1, ReachedDir, TreeAssumption DEF Below
  <2>7. Found = {}
    BY <1>0, <2>1 DEF Found, ToSet
  <2>8. IsInjective(yielded \o pending)
    BY <1>0, <2>1 DEF IsInjective
  <2>9. WalkType
    BY <1>0, <2>1 DEF WalkType
  <2>10. Len(pending) <= 1
    BY <2>1
  <2>11. \A k \in 2..Len(dirStack) :
           dirStack[k].dir \in EntriesOf[dirStack[k - 1].dir] \ dirStack[k - 1].left
    BY <2>4 DEF StackOk
  <2> QED
    BY <1>0, <2>4, <2>5, <2>6, <2>7, <2>8, <2>9, <2>10, <2>11 DEF WalkInv, EveryFileOnce
<1>2. CASE Root \notin Dirs
  <2>1. dirStack = <<>> /\ pending = <<Root>> /\ Root \in Files
    BY <1>2, TreeAssumption DEF InitSource
  <2>2. StackOk(dirStack) /\ Ahead = {} /\ Len(pending) = 1 /\ pending \in Seq(Files)
    BY <1>0, <2>1 DEF StackOk, Ahead
  <2>3. Below({Root}) = {Root} /\ Found = {Root}
    BY <1>0, <2>1, ReachedFile DEF Below, Found, ToSet
  <2>4. IsInjective(yielded \o pending)
    <3>1. yielded \o pending = <<Root>>
      BY <1>0, <2>1
    <3> QED
      BY <3>1 DEF IsInjective
  <2>5. WalkType
    BY <1>0, <2>1, <2>2 DEF WalkType
  <2>6. \A k \in 2..Len(dirStack) :
           dirStack[k].dir \in EntriesOf[dirStack[k - 1].dir] \ dirStack[k - 1].left
    BY <2>2 DEF StackOk
  <2>7. Found \cap Ahead = {} /\ Below({Root}) = Found \cup Ahead \cup Below(skipped)
    BY ONLY <1>0, <2>2, <2>3
  <2>a. Len(pending) <= 1
    BY ONLY <2>2
  <2>8. EveryFileOnce
    BY ONLY <2>4, <2>6, <2>7, <2>a DEF EveryFileOnce
  <2> QED
    BY <2>2, <2>5, <2>8 DEF WalkInv
<1> QED
  BY <1>1, <1>2

\* The parts of the invariant that are about the stack follow from its being in order.
LEMMA WalkFrom ==
  ASSUME WalkType', StackOk(dirStack)', IsInjective(yielded \o pending)', Len(pending)' <= 1,
         Found' \cap AheadOn(dirStack)' = {},
         source' # "failed" =>
           Below({Root}) = Found' \cup AheadOn(dirStack)' \cup Below(skipped)'
  PROVE  WalkInv'
<1>1. \A k \in 2..Len(dirStack') :
        dirStack'[k].dir \in EntriesOf[dirStack'[k - 1].dir] \ dirStack'[k - 1].left
  BY DEF StackOk
<1>2. EveryFileOnce'
  BY <1>1, AheadIs DEF EveryFileOnce
<1> QED
  BY <1>2 DEF WalkInv

\* The files that were found, in the order they are returned.
LEMMA FoundIs ==
  ASSUME NEW ys \in Seq(Files), NEW ps \in Seq(Files), Len(ps) <= 1
  PROVE  /\ Len(ys) \in Nat
         /\ ps = <<>> =>
              /\ DOMAIN (ys \o ps) = 1..Len(ys)
              /\ \A i \in 1..Len(ys) : (ys \o ps)[i] = ys[i]
              /\ ToSet(ys) \cup ToSet(ps) = {ys[i] : i \in 1..Len(ys)}
         /\ ps # <<>> =>
              /\ DOMAIN (ys \o ps) = 1..(Len(ys) + 1)
              /\ \A i \in 1..Len(ys) : (ys \o ps)[i] = ys[i]
              /\ (ys \o ps)[Len(ys) + 1] = Head(ps)
              /\ ToSet(ys) \cup ToSet(ps) = {ys[i] : i \in 1..Len(ys)} \cup {Head(ps)}
              /\ Tail(ps) = <<>> /\ Head(ps) \in Files
<1>0. Len(ps) <= 1
  OBVIOUS
<1>1. Len(ys) \in Nat /\ DOMAIN ys = 1..Len(ys)
  OBVIOUS
<1>2. CASE ps = <<>>
  <2>1. ys \o ps = ys
    BY <1>2, ConcatEmptySeq
  <2>2. ToSet(ps) = {}
    BY <1>2 DEF ToSet
  <2> QED
    BY <1>1, <1>2, <2>1, <2>2 DEF ToSet
<1>3. CASE ps # <<>>
  <2>1. Len(ps) \in Nat \ {0}
    BY <1>3, EmptySeq
  <2>a. Len(ps) = 1
    <3>1. \A n \in Nat \ {0} : n <= 1 => n = 1
      OBVIOUS
    <3> QED
      BY ONLY <1>0, <2>1, <3>1
  <2>b. DOMAIN ps = {1}
    <3>1. DOMAIN ps = 1..1 /\ 1..1 = {1}
      BY <2>a
    <3> QED
      BY <3>1
  <2>c. ps[1] = Head(ps)
    OBVIOUS
  <2>d. ps[1] \in Files
    BY <2>a
  <2>3. Tail(ps) = <<>>
    <3>1. Tail(ps) \in Seq(Files) /\ Len(Tail(ps)) = 0
      BY <1>3, <2>a
    <3> QED
      BY <3>1, EmptySeq
  <2>4. /\ DOMAIN (ys \o ps) = 1..(Len(ys) + 1)
        /\ \A i \in 1..Len(ys) : (ys \o ps)[i] = ys[i]
        /\ (ys \o ps)[Len(ys) + 1] = ps[1]
    <3>a. /\ ys \o ps \in Seq(Files)
          /\ Len(ys \o ps) = Len(ys) + Len(ps)
          /\ \A i \in 1..(Len(ys) + Len(ps)) :
               (ys \o ps)[i] = IF i <= Len(ys) THEN ys[i] ELSE ps[i - Len(ys)]
      BY ConcatProperties
    <3>1. DOMAIN (ys \o ps) = 1..(Len(ys) + 1)
      BY <2>a, <3>a
    <3>2. \A i \in 1..(Len(ys) + 1) :
            (ys \o ps)[i] = IF i <= Len(ys) THEN ys[i] ELSE ps[i - Len(ys)]
      BY <2>a, <3>a
    <3>3. /\ Len(ys) + 1 \in 1..(Len(ys) + 1) /\ ~(Len(ys) + 1 <= Len(ys))
          /\ Len(ys) + 1 - Len(ys) = 1
          /\ \A i \in 1..Len(ys) : i \in 1..(Len(ys) + 1) /\ i <= Len(ys)
      BY <1>1
    <3> QED
      BY <3>1, <3>2, <3>3
  <2>5. ToSet(ps) = {Head(ps)}
    BY <2>b, <2>c DEF ToSet
  <2> QED
    BY <1>1, <1>3, <2>c, <2>d, <2>3, <2>4, <2>5 DEF ToSet
<1> QED
  BY <1>2, <1>3

LEMMA WalkStep == WalkInv /\ (SourceStep \/ UNCHANGED sourceVars) => WalkInv'
<1> SUFFICES ASSUME WalkInv, SourceStep \/ UNCHANGED sourceVars PROVE WalkInv'
  OBVIOUS
<1>1. /\ WalkType /\ StackOk(dirStack) /\ Len(pending) <= 1 /\ IsInjective(yielded \o pending)
      /\ Found \cap AheadOn(dirStack) = {}
      /\ source # "failed" =>
           Below({Root}) = Found \cup AheadOn(dirStack) \cup Below(skipped)
  BY AheadIs DEF WalkInv, EveryFileOnce
<1>2. CASE Yield
  <2>1. pending # <<>> /\ Tail(pending) = <<>> /\ Head(pending) \in Files
    BY <1>1, <1>2, FoundIs DEF Yield, WalkType
  <2>2. /\ pending' = <<>> /\ yielded' = Append(yielded, Head(pending))
        /\ UNCHANGED <<dirStack, source, skipped>>
    BY <1>2, <2>1 DEF Yield
  <2>3. WalkType'
    BY <1>1, <2>1, <2>2 DEF WalkType
  <2>4. Len(pending') <= 1
    BY <2>2
  <2> DEFINE n == Len(yielded)
  <2>5. /\ n \in Nat /\ DOMAIN (yielded \o pending) = 1..(n + 1)
        /\ \A i \in 1..n : (yielded \o pending)[i] = yielded[i]
        /\ (yielded \o pending)[n + 1] = Head(pending)
        /\ Found = {yielded[i] : i \in 1..n} \cup {Head(pending)}
    BY <1>1, <2>1, FoundIs DEF WalkType, Found
  <2>6. /\ Len(yielded') = n + 1 /\ yielded'[n + 1] = Head(pending)
        /\ \A i \in 1..n : yielded'[i] = yielded[i]
    BY <1>1, <2>1, <2>2 DEF WalkType
  <2>7. /\ DOMAIN (yielded \o pending)' = 1..(n + 1)
        /\ \A i \in 1..(n + 1) : (yielded \o pending)'[i] = yielded'[i]
        /\ Found' = {yielded'[i] : i \in 1..(n + 1)}
    <3>1. /\ DOMAIN (yielded \o pending)' = 1..Len(yielded')
          /\ \A i \in 1..Len(yielded') : (yielded \o pending)'[i] = yielded'[i]
          /\ Found' = {yielded'[i] : i \in 1..Len(yielded')}
      BY <2>2, <2>3, <2>4, FoundIs DEF WalkType, Found
    <3> QED
      BY <2>6, <3>1
  <2>8. \A i \in 1..(n + 1) : (yielded \o pending)'[i] = (yielded \o pending)[i]
    <3> SUFFICES ASSUME NEW i \in 1..(n + 1)
                 PROVE  (yielded \o pending)'[i] = (yielded \o pending)[i]
      OBVIOUS
    <3>1. i \in 1..n \/ i = n + 1
      BY <2>5
    <3> QED
      BY <2>5, <2>6, <2>7, <3>1
  <2>9. IsInjective(yielded \o pending)'
    BY <1>1, <2>5, <2>7, <2>8 DEF IsInjective
  <2>10. Found' = Found
    <3>1. 1..(n + 1) = 1..n \cup {n + 1}
      BY <2>5
    <3> QED
      BY <2>5, <2>6, <2>7, <3>1
  <2> QED
    BY <1>1, <2>2, <2>3, <2>4, <2>9, <2>10, WalkFrom
<1>3. CASE Exhausted
  <2>1. /\ source # "failed" /\ UNCHANGED <<dirStack, pending, yielded, skipped>>
        /\ source' = "ended"
    BY <1>3 DEF Exhausted
  <2>2. WalkType' /\ Found' = Found
    BY <1>1, <2>1 DEF WalkType, Found
  <2> QED
    BY <1>1, <2>1, <2>2, WalkFrom
<1>4. CASE Reading /\ \E e \in Top.left : FileEntry(e) \/ DirEntry(e) \/ EntrySkipped(e) \/ FileTypeFails(e)
  <2>1. PICK e \in Top.left : FileEntry(e) \/ DirEntry(e) \/ EntrySkipped(e) \/ FileTypeFails(e)
    BY <1>4
  <2> DEFINE rest == WithoutEntry(e)
  <2>2. Reading /\ source = "open" /\ pending = <<>> /\ dirStack # <<>>
    BY <1>4 DEF Reading
  <2>3. /\ StackOk(rest) /\ rest # <<>> /\ Last(rest) = [Top EXCEPT !.left = @ \ {e}]
        /\ e \in EntriesOf[Top.dir] /\ e \in Entries /\ Top.dir \in Within[Root]
        /\ AheadOn(dirStack) = AheadOn(rest) \cup Below({e})
        /\ AheadOn(rest) \cap Below({e}) = {}
    BY <1>1, <2>2, EntryTaken DEF WithoutEntry, Top
  <2>a. Top \in OpenDir
    BY <1>1, <2>2, Popped DEF Top
  <2>b. Last(rest).dir = Top.dir /\ Last(rest).left = Top.left \ {e}
    BY <2>3, <2>a DEF OpenDir
  <2>4. /\ Len(yielded) \in Nat
        /\ DOMAIN (yielded \o pending) = 1..Len(yielded)
        /\ \A i \in 1..Len(yielded) : (yielded \o pending)[i] = yielded[i]
        /\ Found = {yielded[i] : i \in 1..Len(yielded)}
    BY <1>1, <2>2, FoundIs DEF WalkType, Found
  <2> HIDE DEF rest
  <2>5. CASE FileEntry(e)
    <3>1. /\ e \in Files /\ dirStack' = rest /\ pending' = Append(pending, e)
          /\ UNCHANGED <<source, yielded, skipped>>
      BY <2>5 DEF FileEntry, rest
    <3>2. /\ pending' = <<e>> /\ Len(pending') = 1 /\ pending' # <<>> /\ Head(pending') = e
          /\ pending' \in Seq(Files)
      BY <2>2, <3>1
    <3>3. WalkType'
      BY <1>1, <3>1, <3>2 DEF WalkType
    <3>4. Below({e}) = {e}
      BY <3>1, ReachedFile DEF Below
    <3>5. /\ DOMAIN (yielded \o pending)' = 1..(Len(yielded') + 1)
          /\ \A i \in 1..Len(yielded') : (yielded \o pending)'[i] = yielded'[i]
          /\ (yielded \o pending)'[Len(yielded') + 1] = e
          /\ Found' = {yielded'[i] : i \in 1..Len(yielded')} \cup {e}
      <4>1. WalkType' /\ Len(pending') <= 1 /\ pending' # <<>>
        BY <3>2, <3>3
      <4> QED
        BY <3>2, <4>1, FoundIs DEF WalkType, Found
    <3>6. Found' = Found \cup {e} /\ e \notin Found
      <4>1. yielded' = yielded
        BY <3>1
      <4>2. e \in AheadOn(dirStack)
        BY <2>3, <3>4
      <4> QED
        BY <1>1, <2>4, <3>5, <4>1, <4>2
    <3>7. IsInjective(yielded \o pending)'
      <4> DEFINE n == Len(yielded)  ys == (yielded \o pending)'
      <4>1. /\ n \in Nat /\ DOMAIN ys = 1..(n + 1) /\ ys[n + 1] = e
            /\ \A i \in 1..n : ys[i] = yielded[i] /\ ys[i] # e
            /\ \A i, j \in 1..n : yielded[i] = yielded[j] => i = j
        BY <1>1, <2>4, <3>1, <3>5, <3>6 DEF IsInjective
      <4> HIDE DEF n, ys
      <4>2. \A i, j \in 1..(n + 1) : ys[i] = ys[j] => i = j
        BY <4>1
      <4>3. IsInjective(ys)
        BY <4>1, <4>2 DEF IsInjective
      <4> QED
        BY <4>3 DEF ys
    <3>8. Found' \cap AheadOn(dirStack)' = {}
      BY <1>1, <2>3, <3>1, <3>4, <3>6
    <3>9. Below({Root}) = Found' \cup AheadOn(dirStack)' \cup Below(skipped)'
      BY <1>1, <2>2, <2>3, <3>1, <3>4, <3>6
    <3>10. Len(pending') <= 1 /\ StackOk(dirStack')
      BY <2>3, <3>1, <3>2
    <3> QED
      BY <3>3, <3>7, <3>8, <3>9, <3>10, WalkFrom
  <2>6. CASE DirEntry(e)
    <3>1. /\ e \in Dirs /\ dirStack' = Append(rest, Opened(e))
          /\ UNCHANGED <<pending, source, yielded, skipped>>
      BY <2>6 DEF DirEntry, rest
    <3>2. /\ Opened(e) \in OpenDir /\ Opened(e).dir = e /\ Opened(e).left = EntriesOf[e]
      BY <3>1, ReachedDir DEF Opened, OpenDir
    <3>3. e \in Within[Root] /\ e \in EntriesOf[Last(rest).dir] \ Last(rest).left
      <4>1. Top.dir \in Dirs /\ Root \in Entries
        BY <2>a, TreeAssumption DEF OpenDir, Entries
      <4>2. e \in Within[Root]
        BY <2>3, <4>1, ReachedClosed DEF Closed
      <4> QED
        BY <2>3, <2>b, <4>2
    <3>4. StackOk(dirStack') /\ AheadOn(dirStack') = AheadOn(rest) \cup Below(EntriesOf[e])
      <4> DEFINE o == Opened(e)
      <4>1. /\ o \in OpenDir /\ o.dir \in Within[Root] /\ o.left \subseteq EntriesOf[o.dir]
            /\ o.dir \in EntriesOf[Last(rest).dir] \ Last(rest).left
            /\ o.left = EntriesOf[e] /\ dirStack' = Append(rest, o)
        BY <3>1, <3>2, <3>3
      <4> HIDE DEF o
      <4>2. /\ StackOk(Append(rest, o))
            /\ AheadOn(Append(rest, o)) = AheadOn(rest) \cup Below(o.left)
        BY <2>3, <4>1, PushedOn
      <4> QED
        BY <4>1, <4>2
    <3>5. Below(EntriesOf[e]) = Below({e})
      BY <3>1, ReachedDir, TreeAssumption DEF Below
    <3>6. WalkType' /\ Found' = Found /\ (yielded \o pending)' = yielded \o pending
      BY <1>1, <3>1 DEF WalkType, Found
    <3>7. AheadOn(dirStack') = AheadOn(dirStack)
      BY <2>3, <3>4, <3>5
    <3> QED
      BY <1>1, <3>1, <3>4, <3>6, <3>7, WalkFrom
  <2>7. CASE EntrySkipped(e)
    <3>1. /\ dirStack' = rest /\ skipped' = skipped \cup {e}
          /\ UNCHANGED <<pending, source, yielded>>
      BY <2>7 DEF EntrySkipped, rest
    <3>2. WalkType' /\ Found' = Found /\ (yielded \o pending)' = yielded \o pending
      BY <1>1, <2>3, <3>1 DEF WalkType, Found
    <3>3. Below(skipped)' = Below(skipped) \cup Below({e})
      BY <3>1 DEF Below
    <3> QED
      BY <1>1, <2>3, <3>1, <3>2, <3>3, WalkFrom
  <2>8. CASE FileTypeFails(e)
    <3>1. dirStack' = rest /\ source' = "failed" /\ UNCHANGED <<pending, yielded, skipped>>
      BY <2>8 DEF FileTypeFails, rest
    <3>2. WalkType' /\ Found' = Found /\ (yielded \o pending)' = yielded \o pending
      BY <1>1, <3>1 DEF WalkType, Found
    <3> QED
      BY <1>1, <2>3, <3>1, <3>2, WalkFrom
  <2> QED
    BY <2>1, <2>5, <2>6, <2>7, <2>8
<1>5. CASE DirDone \/ NextEntryFails
  <2>1. /\ dirStack # <<>> /\ dirStack' = Front(dirStack)
        /\ UNCHANGED <<pending, yielded, skipped>>
        /\ ((UNCHANGED source /\ Top.left = {}) \/ source' = "failed")
    BY <1>5 DEF DirDone, NextEntryFails, Reading
  <2>2. /\ StackOk(dirStack') /\ AheadOn(dirStack) = AheadOn(dirStack') \cup Below(Top.left)
    BY <1>1, <2>1, Popped DEF Top
  <2>3. WalkType' /\ Found' = Found /\ (yielded \o pending)' = yielded \o pending
    BY <1>1, <2>1 DEF WalkType, Found
  <2>4. Below({}) = {}
    BY DEF Below
  <2> QED
    BY <1>1, <2>1, <2>2, <2>3, <2>4, WalkFrom
<1>6. CASE UNCHANGED sourceVars
  <2>1. UNCHANGED <<dirStack, pending, source, yielded, skipped>>
    BY <1>6 DEF sourceVars
  <2>2. WalkType' /\ Found' = Found /\ (yielded \o pending)' = yielded \o pending
    BY <1>1, <2>1 DEF WalkType, Found
  <2> QED
    BY <1>1, <2>1, <2>2, WalkFrom
<1> QED
  BY <1>2, <1>3, <1>4, <1>5, <1>6 DEF SourceStep, ReadEntry, SourceFails

-----------------------------------------------------------------------------
(* The items of a channel and their chunks.                                *)

\* What queue[s] carries.
Item(s) ==
  IF s = 1 THEN [file : Files, before : Nat] ELSE IF s \in {2, 4, 6} THEN Seq(Nat) ELSE Nat

LEMMA ItemKinds ==
  /\ Item(1) = [file : Files, before : Nat]
  /\ \A e : Carried(1, e) = (e.before + 1)..(e.before + ChunksOf[e.file])
  /\ \A s \in {2, 4, 6} : Item(s) = Seq(Nat) /\ \A e : Carried(s, e) = ToSet(e)
  /\ \A s \in {3, 5, 7} : Item(s) = Nat /\ \A e : Carried(s, e) = {e}
<1>1. Item(1) = [file : Files, before : Nat]
  BY DEF Item
<1>2. \A e : Carried(1, e) = (e.before + 1)..(e.before + ChunksOf[e.file])
  BY DEF Carried
<1>3. \A s \in {2, 4, 6} : Item(s) = Seq(Nat)
  BY DEF Item
<1>4. \A s \in {2, 4, 6} : \A e : Carried(s, e) = ToSet(e)
  BY DEF Carried
<1>5. \A s \in {3, 5, 7} : Item(s) = Nat
  BY DEF Item
<1>6. \A s \in {3, 5, 7} : \A e : Carried(s, e) = {e}
  BY DEF Carried
<1> QED
  BY <1>1, <1>2, <1>3, <1>4, <1>5, <1>6

LEMMA CarriedNat ==
  ASSUME NEW s \in 1..7, NEW e \in Item(s) PROVE Carried(s, e) \subseteq Nat
<1>1. CASE s = 1
  <2>0. e \in [file : Files, before : Nat]
    BY <1>1, ItemKinds
  <2>1. e.before \in Nat /\ e.file \in Files
    BY <2>0
  <2>2. ChunksOf[e.file] \in Nat
    BY <2>1, DocumentAssumption
  <2>3. \A b, c \in Nat : (b + 1)..(b + c) \subseteq Nat
    OBVIOUS
  <2>4. Carried(1, e) = (e.before + 1)..(e.before + ChunksOf[e.file])
    BY ItemKinds
  <2> QED
    BY <1>1, <2>1, <2>2, <2>3, <2>4
<1>2. CASE s \in {2, 4, 6}
  <2>1. e \in Seq(Nat) /\ Carried(s, e) = ToSet(e)
    BY <1>2, ItemKinds
  <2> QED
    BY <2>1 DEF ToSet
<1>3. CASE s \in {3, 5, 7}
  <2>1. e \in Nat /\ Carried(s, e) = {e}
    BY <1>3, ItemKinds
  <2> QED
    BY <2>1
<1> QED
  BY <1>1, <1>2, <1>3

LEMMA InEmpty == \A s : In(s, <<>>) = {} /\ Sorted(s, <<>>)
  BY DEF In, Sorted

LEMMA NoneAscending == <<>> \in Seq(Nat) /\ Ascending(<<>>) /\ ToSet(<<>>) = {}
  BY DEF Ascending, ToSet

\* The first of a sequence of items, and the rest.
LEMMA InTail ==
  ASSUME NEW s \in 1..7, NEW q \in Seq(Item(s)), q # <<>>, Sorted(s, q)
  PROVE  /\ Tail(q) \in Seq(Item(s)) /\ Head(q) \in Item(s)
         /\ In(s, q) = Carried(s, Head(q)) \cup In(s, Tail(q))
         /\ \A m \in Carried(s, Head(q)), n \in In(s, Tail(q)) : m < n
         /\ Sorted(s, Tail(q))
         /\ s \in {2, 4, 6} => Ascending(Head(q))
<1> DEFINE len == Len(q)  t == Tail(q)
<1>1. len \in Nat \ {0} /\ DOMAIN q = 1..len
  BY EmptySeq
<1>2. /\ t \in Seq(Item(s)) /\ Len(t) = len - 1 /\ DOMAIN t = 1..(len - 1)
      /\ \A k \in 1..(len - 1) : t[k] = q[k + 1]
      /\ Head(q) = q[1] /\ Head(q) \in Item(s)
  BY <1>1
<1> HIDE DEF len, t
<1>3. /\ \A k \in 1..(len - 1) : k + 1 \in 1..len /\ 1 < k + 1
      /\ \A k \in 1..len : k = 1 \/ (k - 1 \in 1..(len - 1) /\ (k - 1) + 1 = k)
      /\ 1 \in 1..len
      /\ \A j, k \in 1..(len - 1) : j < k => j + 1 < k + 1
  BY <1>1
<1>4. In(s, q) = Carried(s, Head(q)) \cup In(s, t)
  <2>1. In(s, t) \subseteq In(s, q)
    BY <1>1, <1>2, <1>3 DEF In
  <2>2. Carried(s, Head(q)) \subseteq In(s, q)
    BY <1>1, <1>2, <1>3 DEF In
  <2>3. ASSUME NEW k \in 1..len, NEW m \in Carried(s, q[k])
        PROVE  m \in Carried(s, Head(q)) \cup In(s, t)
    <3>1. CASE k = 1
      BY <1>2, <2>3, <3>1
    <3>2. CASE k # 1
      <4>1. k - 1 \in DOMAIN t /\ t[k - 1] = q[k]
        BY <1>2, <1>3, <3>2
      <4> QED
        BY <2>3, <4>1 DEF In
    <3> QED
      BY <3>1, <3>2
  <2>4. In(s, q) \subseteq Carried(s, Head(q)) \cup In(s, t)
    BY <1>1, <2>3 DEF In
  <2> QED
    BY <2>1, <2>2, <2>4
<1>5. \A m \in Carried(s, Head(q)), n \in In(s, t) : m < n
  BY <1>1, <1>2, <1>3 DEF In, Sorted
<1>6. Sorted(s, t)
  <2>1. ASSUME NEW j \in 1..(len - 1), NEW k \in 1..(len - 1), j < k,
               NEW m \in Carried(s, t[j]), NEW n \in Carried(s, t[k])
        PROVE  m < n
    <3>1. /\ j + 1 \in DOMAIN q /\ k + 1 \in DOMAIN q /\ j + 1 < k + 1
          /\ m \in Carried(s, q[j + 1]) /\ n \in Carried(s, q[k + 1])
      BY <1>1, <1>2, <1>3, <2>1
    <3> QED
      BY <3>1 DEF Sorted
  <2>2. s \in {2, 4, 6} => \A k \in DOMAIN t : Ascending(t[k])
    BY <1>1, <1>2, <1>3 DEF Sorted
  <2> QED
    BY <1>2, <2>1, <2>2 DEF Sorted
<1>7. s \in {2, 4, 6} => Ascending(Head(q))
  BY <1>1, <1>2, <1>3 DEF Sorted
<1> QED
  BY <1>2, <1>4, <1>5, <1>6, <1>7 DEF t

LEMMA InAppend ==
  ASSUME NEW s \in 1..7, NEW q \in Seq(Item(s)), Sorted(s, q), NEW e \in Item(s),
         \A m \in In(s, q), n \in Carried(s, e) : m < n,
         s \in {2, 4, 6} => Ascending(e)
  PROVE  /\ Append(q, e) \in Seq(Item(s)) /\ Sorted(s, Append(q, e))
         /\ In(s, Append(q, e)) = In(s, q) \cup Carried(s, e)
<1> DEFINE len == Len(q)  a == Append(q, e)
<1>1. len \in Nat /\ DOMAIN q = 1..len
  OBVIOUS
<1>2. /\ a \in Seq(Item(s)) /\ DOMAIN a = 1..(len + 1) /\ a[len + 1] = e
      /\ \A k \in 1..len : a[k] = q[k]
  BY <1>1
<1> HIDE DEF len, a
<1>3. /\ \A k \in 1..(len + 1) : k \in 1..len \/ k = len + 1
      /\ \A k \in 1..len : k \in 1..(len + 1)
      /\ len + 1 \in 1..(len + 1)
      /\ \A j, k \in 1..(len + 1) : j < k => j \in 1..len
  BY <1>1
<1>4. In(s, a) = In(s, q) \cup Carried(s, e)
  BY <1>1, <1>2, <1>3 DEF In
<1>5. Sorted(s, a)
  <2>1. ASSUME NEW j \in 1..(len + 1), NEW k \in 1..(len + 1), j < k,
               NEW m \in Carried(s, a[j]), NEW n \in Carried(s, a[k])
        PROVE  m < n
    <3>1. j \in 1..len /\ m \in Carried(s, q[j]) /\ m \in In(s, q)
      BY <1>1, <1>2, <1>3, <2>1 DEF In
    <3>2. CASE k \in 1..len
      BY <1>1, <1>2, <2>1, <3>1, <3>2 DEF Sorted
    <3>3. CASE k = len + 1
      BY <1>2, <2>1, <3>1, <3>3
    <3> QED
      BY <1>3, <3>2, <3>3
  <2>2. s \in {2, 4, 6} => \A k \in 1..(len + 1) : Ascending(a[k])
    BY <1>1, <1>2, <1>3 DEF Sorted
  <2> QED
    BY <1>2, <2>1, <2>2 DEF Sorted
<1> QED
  BY <1>2, <1>4, <1>5 DEF a

LEMMA InOne ==
  ASSUME NEW s \in 1..7, NEW e \in Item(s), s \in {2, 4, 6} => Ascending(e)
  PROVE  /\ <<e>> \in Seq(Item(s)) /\ Sorted(s, <<e>>) /\ In(s, <<e>>) = Carried(s, e)
<1>1. <<e>> = Append(<<>>, e) /\ <<>> \in Seq(Item(s))
  OBVIOUS
<1>2. In(s, <<>>) = {} /\ Sorted(s, <<>>)
  BY InEmpty
<1>3. \A m \in In(s, <<>>), n \in Carried(s, e) : m < n
  BY <1>2
<1>4. /\ Append(<<>>, e) \in Seq(Item(s)) /\ Sorted(s, Append(<<>>, e))
      /\ In(s, Append(<<>>, e)) = In(s, <<>>) \cup Carried(s, e)
  BY <1>1, <1>2, <1>3, InAppend
<1> QED
  BY <1>1, <1>2, <1>4

\* Where the items are chunks.
LEMMA InPlain ==
  ASSUME NEW s \in {3, 5, 7}, NEW q \in Seq(Nat)
  PROVE  q \in Seq(Item(s)) /\ In(s, q) = ToSet(q) /\ (Sorted(s, q) <=> Ascending(q))
<1>1. Item(s) = Nat /\ (\A e : Carried(s, e) = {e}) /\ s \notin {2, 4, 6}
  BY ItemKinds
<1>2. In(s, q) = ToSet(q)
  BY <1>1 DEF In, ToSet
<1>3. Sorted(s, q) <=> Ascending(q)
  <2>1. ASSUME Sorted(s, q), NEW j \in DOMAIN q, NEW k \in DOMAIN q, j < k PROVE q[j] < q[k]
    <3>1. q[j] \in Carried(s, q[j]) /\ q[k] \in Carried(s, q[k])
      BY <1>1
    <3> QED
      BY <2>1, <3>1 DEF Sorted
  <2>2. ASSUME Ascending(q), NEW j \in DOMAIN q, NEW k \in DOMAIN q, j < k,
               NEW m \in Carried(s, q[j]), NEW n \in Carried(s, q[k])
        PROVE  m < n
    <3>1. m = q[j] /\ n = q[k]
      BY <1>1
    <3> QED
      BY <2>2, <3>1 DEF Ascending
  <2>3. Sorted(s, q) => Ascending(q)
    BY <2>1 DEF Ascending
  <2>4. Ascending(q) => Sorted(s, q)
    BY <1>1, <2>2 DEF Sorted
  <2> QED
    BY <2>3, <2>4
<1> QED
  BY <1>1, <1>2, <1>3

LEMMA AscendingAppend ==
  ASSUME NEW ns \in Seq(Nat), Ascending(ns), NEW n \in Nat, \A m \in ToSet(ns) : m < n
  PROVE  /\ Append(ns, n) \in Seq(Nat) /\ Ascending(Append(ns, n))
         /\ ToSet(Append(ns, n)) = ToSet(ns) \cup {n}
<1>1. Item(7) = Nat /\ Carried(7, n) = {n}
  BY ItemKinds
<1>2. ns \in Seq(Item(7)) /\ Sorted(7, ns) /\ In(7, ns) = ToSet(ns) /\ n \in Item(7)
  BY <1>1, InPlain
<1>3. \A m \in In(7, ns), k \in Carried(7, n) : m < k
  BY <1>1, <1>2
<1>4. /\ Append(ns, n) \in Seq(Item(7)) /\ Sorted(7, Append(ns, n))
      /\ In(7, Append(ns, n)) = In(7, ns) \cup Carried(7, n)
  BY <1>2, <1>3, InAppend
<1>5. Append(ns, n) \in Seq(Nat)
  BY <1>1, <1>4
<1> QED
  BY <1>1, <1>2, <1>4, <1>5, InPlain

LEMMA InNat ==
  ASSUME NEW s \in 1..7, NEW q \in Seq(Item(s)) PROVE In(s, q) \subseteq Nat
<1>1. \A k \in DOMAIN q : q[k] \in Item(s)
  OBVIOUS
<1> QED
  BY <1>1, CarriedNat DEF In

\* The documents of a file have its chunks, in order.
LEMMA DocumentsInOrder ==
  ASSUME NEW r \in Item(1)
  PROVE  /\ Documents(r) \in Seq(Item(2)) /\ Sorted(2, Documents(r))
         /\ In(2, Documents(r)) = Carried(1, r)
<1> DEFINE b == r.before  c == ChunksOf[r.file]  ds == DocsOf[r.file]  new == Documents(r)
<1>0. r \in [file : Files, before : Nat]
  BY ItemKinds
<1>1. b \in Nat /\ r.file \in Files /\ Carried(1, r) = (b + 1)..(b + c)
  BY <1>0, ItemKinds
<1>2. /\ c \in Nat /\ ds \in Seq(Seq(Nat))
      /\ UNION {ToSet(ds[k]) : k \in DOMAIN ds} = 1..c
      /\ \A k \in DOMAIN ds : Ascending(ds[k])
      /\ \A j, k \in DOMAIN ds : j < k => \A m \in ToSet(ds[j]), n \in ToSet(ds[k]) : m < n
  BY <1>1, DocumentAssumption
<1>3. /\ DOMAIN new = DOMAIN ds /\ Len(ds) \in Nat /\ DOMAIN ds = 1..Len(ds)
      /\ \A k \in DOMAIN ds : new[k] = [i \in DOMAIN ds[k] |-> b + ds[k][i]]
  BY <1>2 DEF Documents
<1>a. new = [k \in 1..Len(ds) |-> [i \in DOMAIN ds[k] |-> b + ds[k][i]]]
  BY <1>3 DEF Documents
<1> HIDE DEF new, b, c, ds
<1>4. ASSUME NEW k \in DOMAIN ds
      PROVE  /\ new[k] \in Seq(Nat) /\ Ascending(new[k])
             /\ \A m \in Nat : m \in ToSet(ds[k]) <=> b + m \in ToSet(new[k])
             /\ \A n \in ToSet(new[k]) : \E m \in ToSet(ds[k]) : m \in Nat /\ n = b + m
  <2>1. /\ ds[k] \in Seq(Nat) /\ Len(ds[k]) \in Nat /\ DOMAIN ds[k] = 1..Len(ds[k])
        /\ \A i \in DOMAIN ds[k] : ds[k][i] \in Nat
    BY <1>2
  <2>2. \A i \in DOMAIN ds[k] : b + ds[k][i] \in Nat
    BY <1>1, <2>1
  <2>3. new[k] = [i \in 1..Len(ds[k]) |-> b + ds[k][i]]
    BY <1>3, <2>1
  <2>4. new[k] \in Seq(Nat)
    BY <2>1, <2>2, <2>3
  <2>5. Ascending(new[k])
    <3>1. \A i, j \in 1..Len(ds[k]) : i < j => ds[k][i] < ds[k][j]
      BY <1>2, <2>1 DEF Ascending
    <3>2. DOMAIN new[k] = 1..Len(ds[k]) /\ \A i \in 1..Len(ds[k]) : new[k][i] = b + ds[k][i]
      BY <2>3
    <3> QED
      BY <1>1, <2>1, <3>1, <3>2 DEF Ascending
  <2>6. \A m \in Nat : m \in ToSet(ds[k]) <=> b + m \in ToSet(new[k])
    BY <1>1, <2>1, <2>3 DEF ToSet
  <2>7. \A n \in ToSet(new[k]) : \E m \in ToSet(ds[k]) : m \in Nat /\ n = b + m
    BY <2>1, <2>3 DEF ToSet
  <2> QED
    BY <2>4, <2>5, <2>6, <2>7
<1>5. Item(2) = Seq(Nat) /\ \A e : Carried(2, e) = ToSet(e)
  BY ItemKinds
<1>6. new \in Seq(Item(2))
  BY <1>3, <1>4, <1>5, <1>a
<1>7. Sorted(2, new)
  <2>1. ASSUME NEW j \in DOMAIN new, NEW k \in DOMAIN new, j < k,
               NEW m \in ToSet(new[j]), NEW n \in ToSet(new[k])
        PROVE  m < n
    <3>1. PICK u \in ToSet(ds[j]) : u \in Nat /\ m = b + u
      BY <1>3, <1>4
    <3>2. PICK v \in ToSet(ds[k]) : v \in Nat /\ n = b + v
      BY <1>3, <1>4
    <3>3. u < v
      BY <1>2, <1>3, <2>1, <3>1, <3>2
    <3> QED
      BY <1>1, <3>1, <3>2, <3>3
  <2> QED
    BY <1>3, <1>4, <1>5, <2>1 DEF Sorted
<1>8. In(2, new) = (b + 1)..(b + c)
  <2>1. ASSUME NEW n \in In(2, new) PROVE n \in (b + 1)..(b + c)
    <3>1. PICK k \in DOMAIN ds : n \in ToSet(new[k])
      BY <1>3, <1>5, <2>1 DEF In
    <3>2. PICK m \in ToSet(ds[k]) : m \in Nat /\ n = b + m
      BY <1>4, <3>1
    <3>3. m \in 1..c
      BY <1>2, <3>2
    <3> QED
      BY <1>1, <1>2, <3>2, <3>3
  <2>2. ASSUME NEW n \in (b + 1)..(b + c) PROVE n \in In(2, new)
    <3>1. n - b \in 1..c /\ n - b \in Nat /\ n = b + (n - b)
      BY <1>1, <1>2, <2>2
    <3>2. PICK k \in DOMAIN ds : n - b \in ToSet(ds[k])
      BY <1>2, <3>1
    <3>3. n \in ToSet(new[k])
      BY <1>4, <3>1, <3>2
    <3> QED
      BY <1>3, <1>5, <3>3 DEF In
  <2> QED
    BY <2>1, <2>2
<1> QED
  BY <1>1, <1>6, <1>7, <1>8 DEF new, b, c

-----------------------------------------------------------------------------
(* The line of places.                                                     *)

Line == [p \in Places |-> At(p)]

Ordered(L) == \A p, q \in Places : p < q => \A m \in L[q], n \in L[p] : m < n

Whole(L, d, n) ==
  /\ d \subseteq 1..n /\ \A p \in Places : L[p] \subseteq (1..n) \ d
  /\ \A i \in (1..n) \ d : \E p \in Places : i \in L[p]

TaskType ==
  DOMAIN task = Stages /\ \A s \in Stages : task[s] \in {"open", "checked", "flush", "done"}

FlowType ==
  /\ numbered \in Nat /\ dead \subseteq Nat /\ delivered \in Seq(Nat)
  /\ DOMAIN queue = 1..7 /\ \A s \in 1..7 : queue[s] \in Seq(Item(s))
  /\ DOMAIN out = Stages /\ \A s \in Stages : out[s] \in Seq(Item(s + 1))
  /\ DOMAIN buffer = Stages /\ \A s \in Stages : buffer[s] \in Seq(Nat)
  /\ TaskType

InSequence ==
  /\ \A s \in 1..7 : Sorted(s, queue[s])
  /\ \A s \in Stages : Ascending(buffer[s]) /\ Sorted(s + 1, out[s])
  /\ Ascending(delivered)

\* A stage that ends has nothing left and nothing to come; where there are buffers.
Stage(s) ==
  /\ s \in {Parser, Chunker, Embedder} => buffer[s] = <<>>
  /\ task[s] \in {"flush", "done"} => buffer[s] = <<>> /\ queue[s] = <<>> /\ UpstreamDone(s)
  /\ task[s] = "done" => out[s] = <<>>
  /\ task[s] = "checked" => s = Storage /\ out[s] = <<>>
  /\ s = Storage /\ task[s] # "checked" => buffer[s] = <<>>

StageInv == \A s \in Stages : Stage(s)

Batch(s) ==
  /\ Len(buffer[s]) < BatchSize(s)
  /\ \A batch \in ToSet(out[s]) \cup ToSet(queue[s + 1]) :
       Len(batch) = BatchSize(s) \/ task[s] # "open"

BatchInv == \A s \in {Pairing, Batching} : Batch(s)

LineInv == FlowType /\ InSequence /\ Ordered(Line) /\ Whole(Line, dead, numbered)

FlowInv == LineInv /\ StageInv /\ BatchInv

\* There are no rows without a table, and the store may be wrong about the table only in
\* taking it to be missing.
RowsInv ==
  /\ rows \in Seq(Nat) /\ table \in BOOLEAN /\ exists \in BOOLEAN
  /\ exists => table
  /\ ~table => rows = <<>>
  /\ RowsMatch

LEMMA SpotOf ==
  /\ 20 \in Places
  /\ \A s \in 1..7 : 3 * s - 2 \in Places
  /\ \A s \in Stages : 3 * s - 1 \in Places /\ 3 * s \in Places
  /\ \A p \in Places : \/ p = 20 \/ \E s \in 1..7 : p = 3 * s - 2
                       \/ \E s \in Stages : p = 3 * s - 1 \/ p = 3 * s
<1>1. \A p \in 1..20 : \/ p = 20 \/ \E s \in 1..7 : p = 3 * s - 2
                       \/ \E s \in 1..6 : p = 3 * s - 1 \/ p = 3 * s
  <2> SUFFICES ASSUME NEW p \in 1..20
               PROVE  \/ p = 20 \/ \E s \in 1..7 : p = 3 * s - 2
                      \/ \E s \in 1..6 : p = 3 * s - 1 \/ p = 3 * s
    OBVIOUS
  <2>1. (p + 2) \div 3 \in 1..7 /\ (p # 20 /\ p # 19 => (p + 2) \div 3 \in 1..6)
    OBVIOUS
  <2>2. p = 3 * ((p + 2) \div 3) - 2 \/ p = 3 * ((p + 2) \div 3) - 1 \/ p = 3 * ((p + 2) \div 3)
    OBVIOUS
  <2>3. p = 19 => p = 3 * 7 - 2
    OBVIOUS
  <2> QED
    BY <2>1, <2>2, <2>3
<1>2. 20 \in 1..20 /\ \A s \in 1..7 : 3 * s - 2 \in 1..20
  OBVIOUS
<1>3. \A s \in 1..6 : 3 * s - 1 \in 1..20 /\ 3 * s \in 1..20
  OBVIOUS
<1> QED
  BY <1>1, <1>2, <1>3 DEF Places, Stages

LEMMA SpotNumbers ==
  /\ \A s \in 1..7 : /\ (3 * s - 2 + 2) \div 3 = s /\ (3 * s - 2) % 3 = 1 /\ 3 * s - 2 # 20
  /\ \A s \in Stages : /\ (3 * s - 1 + 2) \div 3 = s /\ (3 * s - 1) % 3 = 2 /\ 3 * s - 1 # 20
                       /\ (3 * s + 2) \div 3 = s /\ (3 * s) % 3 = 0 /\ 3 * s # 20
  BY DEF Stages

LEMMA Spots ==
  /\ At(20) = ToSet(delivered)
  /\ \A s \in 1..7 : At(3 * s - 2) = In(s, queue[s])
  /\ \A s \in Stages : At(3 * s - 1) = ToSet(buffer[s]) /\ At(3 * s) = In(s + 1, out[s])
<1>1. At(20) = ToSet(delivered)
  BY DEF At
<1>2. ASSUME NEW s \in 1..7 PROVE At(3 * s - 2) = In(s, queue[s])
  BY SpotNumbers DEF At
<1>3. ASSUME NEW s \in Stages PROVE At(3 * s - 1) = ToSet(buffer[s])
  BY SpotNumbers DEF At
<1>4. ASSUME NEW s \in Stages PROVE At(3 * s) = In(s + 1, out[s])
  BY SpotNumbers DEF At
<1> QED
  BY <1>1, <1>2, <1>3, <1>4

LEMMA SpotsNext ==
  /\ At(20)' = ToSet(delivered')
  /\ \A s \in 1..7 : At(3 * s - 2)' = In(s, queue'[s])
  /\ \A s \in Stages : At(3 * s - 1)' = ToSet(buffer'[s]) /\ At(3 * s)' = In(s + 1, out'[s])
<1>1. At(20)' = ToSet(delivered')
  BY DEF At
<1>2. ASSUME NEW s \in 1..7 PROVE At(3 * s - 2)' = In(s, queue'[s])
  BY SpotNumbers DEF At
<1>3. ASSUME NEW s \in Stages PROVE At(3 * s - 1)' = ToSet(buffer'[s])
  BY SpotNumbers DEF At
<1>4. ASSUME NEW s \in Stages PROVE At(3 * s)' = In(s + 1, out'[s])
  BY SpotNumbers DEF At
<1> QED
  BY <1>1, <1>2, <1>3, <1>4

\* A step that changes at most the queues Q, the buffers B and the outputs O, and what
\* it leaves there.
Keeps(Q, B, O) ==
  /\ DOMAIN queue' = 1..7 /\ \A s \in 1..7 : s \notin Q => queue'[s] = queue[s]
  /\ DOMAIN buffer' = Stages /\ \A s \in Stages : s \notin B => buffer'[s] = buffer[s]
  /\ DOMAIN out' = Stages /\ \A s \in Stages : s \notin O => out'[s] = out[s]

Fits(Q, B, O) ==
  /\ \A s \in Q : queue'[s] \in Seq(Item(s)) /\ Sorted(s, queue'[s])
  /\ \A s \in B : buffer'[s] \in Seq(Nat) /\ Ascending(buffer'[s])
  /\ \A s \in O : out'[s] \in Seq(Item(s + 1)) /\ Sorted(s + 1, out'[s])

LEMMA Frame ==
  ASSUME NEW Q, NEW B, NEW O, Keeps(Q, B, O), NEW p \in Places,
         \A s \in Q : p # 3 * s - 2, \A s \in B : p # 3 * s - 1, \A s \in O : p # 3 * s,
         p = 20 => delivered' = delivered
  PROVE  At(p)' = At(p)
<1>1. CASE p = 20
  BY <1>1, Spots, SpotsNext
<1>2. ASSUME NEW s \in 1..7, p = 3 * s - 2 PROVE At(p)' = At(p)
  BY <1>2, Spots, SpotsNext DEF Keeps
<1>3. ASSUME NEW s \in Stages, p = 3 * s - 1 PROVE At(p)' = At(p)
  BY <1>3, Spots, SpotsNext DEF Keeps
<1>4. ASSUME NEW s \in Stages, p = 3 * s PROVE At(p)' = At(p)
  BY <1>4, Spots, SpotsNext DEF Keeps
<1> QED
  BY <1>1, <1>2, <1>3, <1>4, SpotOf

LEMMA Fitting ==
  ASSUME FlowType, InSequence, NEW Q, NEW B, NEW O, Keeps(Q, B, O), Fits(Q, B, O),
         numbered' \in Nat, dead' \subseteq Nat, TaskType',
         delivered' \in Seq(Nat), Ascending(delivered')
  PROVE  FlowType' /\ InSequence'
<1>1. \A s \in 1..7 : queue'[s] \in Seq(Item(s)) /\ Sorted(s, queue'[s])
  BY DEF FlowType, InSequence, Keeps, Fits
<1>2. \A s \in Stages : buffer'[s] \in Seq(Nat) /\ Ascending(buffer'[s])
  BY DEF FlowType, InSequence, Keeps, Fits
<1>3. \A s \in Stages : out'[s] \in Seq(Item(s + 1)) /\ Sorted(s + 1, out'[s])
  BY DEF FlowType, InSequence, Keeps, Fits
<1>4. FlowType'
  BY <1>1, <1>2, <1>3 DEF FlowType, Keeps
<1>5. InSequence'
  BY <1>1, <1>2, <1>3 DEF InSequence
<1> QED
  BY <1>4, <1>5

\* Chunks C move from the front of place k to place l; nothing is in between.
LEMMA Moved ==
  ASSUME NEW L, NEW M, NEW d, NEW n, NEW k \in Places, NEW l \in Places, k < l, NEW C,
         \A p \in Places : L[p] \subseteq Nat,
         Ordered(L), Whole(L, d, n),
         L[k] = C \cup M[k], \A i \in C, j \in M[k] : i < j,
         M[l] = L[l] \cup C,
         \A p \in Places : k < p /\ p < l => L[p] = {},
         \A p \in Places : p # k /\ p # l => M[p] = L[p]
  PROVE  Ordered(M) /\ Whole(M, d, n)
<1>1. ASSUME NEW p \in Places, NEW q \in Places, p < q, NEW i \in M[q], NEW j \in M[p] PROVE i < j
  <2> USE DEF Ordered
  <2>1. M[k] \subseteq L[k] /\ C \subseteq L[k]
    OBVIOUS
  <2>2. CASE j \in L[p] /\ i \in L[q]
    BY <1>1, <2>2
  <2>3. CASE j \notin L[p]
    <3>1. p = l /\ j \in C /\ j \in L[k]
      BY <1>1, <2>1, <2>3
    <3>2. q # k /\ q # l /\ i \in L[q] /\ k < q
      BY <1>1, <3>1 DEF Places
    <3> QED
      BY <3>1, <3>2
  <2>4. CASE i \notin L[q]
    <3>1. q = l /\ i \in C /\ i \in L[k]
      BY <1>1, <2>1, <2>4
    <3>2. CASE p = k
      BY <1>1, <3>1, <3>2
    <3>3. CASE p # k
      <4>1. p # l /\ j \in L[p]
        BY <1>1, <3>1, <3>3 DEF Places
      <4>2. p < k
        BY <1>1, <3>1, <3>3, <4>1 DEF Places
      <4> QED
        BY <3>1, <4>1, <4>2
    <3> QED
      BY <3>2, <3>3
  <2> QED
    BY <2>2, <2>3, <2>4
<1>2. \A p \in Places : M[p] \subseteq L[p] \cup L[k]
  OBVIOUS
<1>3. \A p \in Places : L[p] \subseteq M[p] \cup M[l]
  OBVIOUS
<1>4. Ordered(M)
  BY <1>1 DEF Ordered
<1>5. Whole(M, d, n)
  BY <1>2, <1>3 DEF Whole
<1> QED
  BY <1>4, <1>5

\* Chunks C of place k go to the dead letter queue.
LEMMA TakenOff ==
  ASSUME NEW L, NEW M, NEW d, NEW n, NEW k \in Places, NEW C,
         \A p \in Places : L[p] \subseteq Nat,
         Ordered(L), Whole(L, d, n),
         L[k] = C \cup M[k], \A i \in C, j \in M[k] : i < j,
         \A p \in Places : p # k => M[p] = L[p]
  PROVE  Ordered(M) /\ Whole(M, d \cup C, n)
<1>1. \A p \in Places : M[p] \subseteq L[p]
  OBVIOUS
<1>2. Ordered(M)
  BY <1>1 DEF Ordered
<1>3. (\A p \in Places : L[p] \subseteq M[p] \cup C) /\ C \subseteq L[k]
  OBVIOUS
<1>4. ASSUME NEW i \in C, NEW p \in Places, i \in M[p] PROVE FALSE
  <2>1. i \in L[k] /\ i \in L[p] /\ i \in Nat /\ ~(i < i)
    BY <1>4
  <2>2. CASE p = k
    BY <1>4, <2>1, <2>2
  <2>3. CASE p # k
    <3>1. p < k \/ k < p
      BY <2>3 DEF Places
    <3> QED
      BY <2>1, <3>1 DEF Ordered
  <2> QED
    BY <2>2, <2>3
<1>5. Whole(M, d \cup C, n)
  BY <1>1, <1>3, <1>4 DEF Whole
<1> QED
  BY <1>2, <1>5

\* A record with c chunks comes in.
LEMMA Grown ==
  ASSUME NEW L, NEW M, NEW d, NEW n \in Nat, NEW c \in Nat,
         \A p \in Places : L[p] \subseteq Nat,
         Ordered(L), Whole(L, d, n),
         M[1] = L[1] \cup (n + 1)..(n + c),
         \A p \in Places : p # 1 => M[p] = L[p]
  PROVE  Ordered(M) /\ Whole(M, d, n + c) /\ \A i \in L[1], j \in (n + 1)..(n + c) : i < j
<1>1. 1 \in Places /\ \A p \in Places : p # 1 => ~(p < 1)
  BY DEF Places
<1>2. \A p \in Places : \A i \in L[p] : i \in 1..n
  BY DEF Whole
<1>3. \A p \in Places : \A i \in L[p], j \in (n + 1)..(n + c) : i < j
  BY <1>2
<1>4. ASSUME NEW p \in Places, NEW q \in Places, p < q, NEW i \in M[q], NEW j \in M[p] PROVE i < j
  <2>1. q # 1 /\ i \in L[q]
    BY <1>1, <1>4
  <2>2. CASE j \in L[p]
    BY <1>4, <2>1, <2>2 DEF Ordered
  <2>3. CASE j \notin L[p]
    <3>1. j \in (n + 1)..(n + c)
      BY <2>3
    <3> QED
      BY <1>3, <2>1, <3>1
  <2> QED
    BY <2>2, <2>3
<1> DEFINE new == (n + 1)..(n + c)
<1>5. /\ \A p \in Places : M[p] \subseteq L[p] \cup new /\ L[p] \subseteq M[p]
      /\ new \subseteq M[1]
  OBVIOUS
<1>6. 1..(n + c) = (1..n) \cup new /\ (1..n) \cap new = {}
  OBVIOUS
<1> HIDE DEF new
<1>7. Whole(M, d, n + c)
  BY <1>1, <1>5, <1>6 DEF Whole
<1>8. Ordered(M)
  BY <1>4 DEF Ordered
<1> QED
  BY <1>1, <1>3, <1>7, <1>8

LEMMA AtNat == ASSUME FlowType PROVE \A p \in Places : At(p) \subseteq Nat
<1>1. At(20) \subseteq Nat
  BY Spots, SMTT(40) DEF FlowType, ToSet
<1>2. ASSUME NEW s \in 1..7 PROVE At(3 * s - 2) \subseteq Nat
  BY Spots, InNat DEF FlowType
<1>3. ASSUME NEW s \in Stages PROVE At(3 * s - 1) \subseteq Nat
  <2>1. buffer[s] \in Seq(Nat) /\ At(3 * s - 1) = ToSet(buffer[s])
    BY Spots DEF FlowType
  <2> QED
    BY <2>1 DEF ToSet
<1>4. ASSUME NEW s \in Stages PROVE At(3 * s) \subseteq Nat
  <2> DEFINE t == s + 1
  <2>1. t \in 1..7
    BY DEF Stages
  <2>2. out[s] \in Seq(Item(t)) /\ At(3 * s) = In(t, out[s])
    BY Spots DEF FlowType
  <2> HIDE DEF t
  <2> QED
    BY <2>1, <2>2, InNat
<1> QED
  BY <1>1, <1>2, <1>3, <1>4, SpotOf

\* A chunk is behind those of the places further on.
LEMMA Behind ==
  ASSUME Ordered(Line), NEW p \in Places, NEW q \in Places, p < q
  PROVE  \A m \in At(q), n \in At(p) : m < n
  BY DEF Ordered, Line

LEMMA LineMoved ==
  ASSUME FlowType, Ordered(Line), Whole(Line, dead, numbered), UNCHANGED <<dead, numbered>>,
         NEW k \in Places, NEW l \in Places, k < l, NEW C,
         At(k) = C \cup At(k)', \A i \in C, j \in At(k)' : i < j, At(l)' = At(l) \cup C,
         \A p \in Places : k < p /\ p < l => At(p) = {},
         \A p \in Places : p # k /\ p # l => At(p)' = At(p)
  PROVE  Ordered(Line)' /\ Whole(Line, dead, numbered)'
<1> DEFINE L == Line  M == Line'
<1>1. \A p \in Places : L[p] = At(p) /\ M[p] = At(p)'
  BY DEF Line
<1>2. \A p \in Places : L[p] \subseteq Nat
  BY <1>1, AtNat
<1>3. Ordered(L) /\ Whole(L, dead, numbered)
  OBVIOUS
<1> HIDE DEF L, M
<1>a. L[k] = C \cup M[k] /\ (\A i \in C, j \in M[k] : i < j) /\ M[l] = L[l] \cup C
  BY <1>1
<1>b. /\ (\A p \in Places : k < p /\ p < l => L[p] = {})
      /\ \A p \in Places : p # k /\ p # l => M[p] = L[p]
  BY <1>1
<1>4. Ordered(M) /\ Whole(M, dead, numbered)
  BY ONLY <1>2, <1>3, <1>a, <1>b, Moved, k \in Places, l \in Places, k < l, ZenonT(60)
<1>5. Ordered(Line)' <=> Ordered(M)
  BY DEF Ordered, M
<1>6. Whole(Line, dead, numbered)' <=> Whole(M, dead, numbered)
  BY DEF Whole, M
<1> QED
  BY <1>4, <1>5, <1>6

LEMMA LineDropped ==
  ASSUME FlowType, Ordered(Line), Whole(Line, dead, numbered), numbered' = numbered,
         NEW k \in Places, NEW C, dead' = dead \cup C,
         At(k) = C \cup At(k)', \A i \in C, j \in At(k)' : i < j,
         \A p \in Places : p # k => At(p)' = At(p)
  PROVE  Ordered(Line)' /\ Whole(Line, dead, numbered)'
<1> DEFINE L == Line  M == Line'
<1>1. \A p \in Places : L[p] = At(p) /\ M[p] = At(p)'
  BY DEF Line
<1>2. \A p \in Places : L[p] \subseteq Nat
  BY <1>1, AtNat
<1>3. Ordered(L) /\ Whole(L, dead, numbered)
  OBVIOUS
<1> HIDE DEF L, M
<1>a. /\ L[k] = C \cup M[k] /\ (\A i \in C, j \in M[k] : i < j)
      /\ \A p \in Places : p # k => M[p] = L[p]
  BY <1>1
<1>4. Ordered(M) /\ Whole(M, dead \cup C, numbered)
  BY <1>2, <1>3, <1>a, TakenOff
<1>5. Ordered(Line)' <=> Ordered(M)
  BY DEF Ordered, M
<1>6. Whole(Line, dead, numbered)' <=> Whole(M, dead \cup C, numbered)
  BY DEF Whole, M
<1> QED
  BY <1>4, <1>5, <1>6

LEMMA LineGrown ==
  ASSUME FlowType, Ordered(Line), Whole(Line, dead, numbered),
         NEW c \in Nat, numbered' = numbered + c, dead' = dead,
         At(1)' = At(1) \cup (numbered + 1)..(numbered + c),
         \A p \in Places : p # 1 => At(p)' = At(p)
  PROVE  Ordered(Line)' /\ Whole(Line, dead, numbered)'
<1> DEFINE L == Line  M == Line'
<1>1. \A p \in Places : L[p] = At(p) /\ M[p] = At(p)'
  BY DEF Line
<1>2. \A p \in Places : L[p] \subseteq Nat
  BY <1>1, AtNat
<1>c. 1 \in Places /\ numbered \in Nat
  BY DEF Places, FlowType
<1>3. Ordered(L) /\ Whole(L, dead, numbered)
  OBVIOUS
<1> HIDE DEF L, M
<1>a. M[1] = L[1] \cup (numbered + 1)..(numbered + c) /\ \A p \in Places : p # 1 => M[p] = L[p]
  BY <1>1, <1>c
<1>4. Ordered(M) /\ Whole(M, dead, numbered + c)
  BY <1>2, <1>3, <1>a, <1>c, Grown
<1>5. Ordered(Line)' <=> Ordered(M)
  BY DEF Ordered, M
<1>6. Whole(Line, dead, numbered)' <=> Whole(M, dead, numbered + c)
  BY DEF Whole, M
<1> QED
  BY <1>4, <1>5, <1>6

-----------------------------------------------------------------------------
(* What every step does to the line.                                       *)

\* A step after which every chunk is where it was.
LEMMA LineSame ==
  ASSUME LineInv, Keeps({}, {}, {}), UNCHANGED <<numbered, dead, delivered>>, TaskType'
  PROVE  LineInv'
<1>1. \A p \in Places : At(p)' = At(p)
  BY Frame
<1>2. Fits({}, {}, {})
  BY DEF Fits
<1>3. FlowType' /\ InSequence'
  BY <1>2, Fitting DEF LineInv, FlowType, InSequence
<1>4. Line' = Line
  BY <1>1 DEF Line
<1>5. Ordered(Line)' /\ Whole(Line, dead, numbered)'
  BY <1>4 DEF LineInv, Ordered, Whole
<1> QED
  BY <1>3, <1>5 DEF LineInv

\* An item is received by stage s: the rest of its queue is in order, and behind the item.
LEMMA Taken ==
  ASSUME LineInv, NEW s \in 1..7, queue[s] # <<>>
  PROVE  /\ Tail(queue[s]) \in Seq(Item(s)) /\ Sorted(s, Tail(queue[s]))
         /\ Head(queue[s]) \in Item(s)
         /\ s \in {2, 4, 6} => Ascending(Head(queue[s]))
         /\ At(3 * s - 2) = Carried(s, Head(queue[s])) \cup In(s, Tail(queue[s]))
         /\ \A m \in Carried(s, Head(queue[s])), n \in In(s, Tail(queue[s])) : m < n
<1>1. queue[s] \in Seq(Item(s)) /\ Sorted(s, queue[s])
  BY DEF LineInv, FlowType, InSequence
<1>2. At(3 * s - 2) = In(s, queue[s])
  BY Spots
<1> QED
  BY <1>1, <1>2, InTail

LEMMA SendLine ==
  ASSUME LineInv, NEW s \in Stages, Send(s)
  PROVE  /\ LineInv'
         /\ At(3 * s)' \cup At(3 * s + 1)' = At(3 * s) \cup At(3 * s + 1)
<1> DEFINE t == s + 1  o == out[s]  e == Head(o)  q == queue[t]
<1>1. /\ t \in 1..7 /\ s \in 1..7 /\ 3 * t - 2 = 3 * s + 1 /\ 3 * s \in Places
      /\ 3 * t - 2 \in Places /\ 3 * s < 3 * t - 2
  BY DEF Stages, Places
<1>2. o \in Seq(Item(t)) /\ o # <<>> /\ Sorted(t, o) /\ q \in Seq(Item(t)) /\ Sorted(t, q)
  BY <1>1 DEF LineInv, FlowType, InSequence, Send
<1>3. /\ queue' = [queue EXCEPT ![t] = Append(q, e)] /\ out' = [out EXCEPT ![s] = Tail(o)]
      /\ UNCHANGED <<buffer, dead, numbered, delivered, task>>
  BY DEF Send, readVars
<1>4. At(3 * s) = In(t, o) /\ At(3 * t - 2) = In(t, q)
  BY <1>1, Spots
<1>5. /\ Keeps({t}, {}, {s}) /\ queue'[t] = Append(q, e) /\ out'[s] = Tail(o)
      /\ TaskType'
  BY <1>1, <1>3 DEF Keeps, LineInv, FlowType, TaskType
<1>6. At(3 * s)' = In(t, Tail(o)) /\ At(3 * t - 2)' = In(t, Append(q, e))
  BY <1>1, <1>5, SpotsNext
<1> HIDE DEF t, o, e, q
<1>7. /\ Tail(o) \in Seq(Item(t)) /\ e \in Item(t)
      /\ In(t, o) = Carried(t, e) \cup In(t, Tail(o))
      /\ \A m \in Carried(t, e), n \in In(t, Tail(o)) : m < n
      /\ Sorted(t, Tail(o)) /\ (t \in {2, 4, 6} => Ascending(e))
  BY <1>1, <1>2, InTail DEF e
<1>8. \A m \in In(t, q), n \in Carried(t, e) : m < n
  BY <1>1, <1>4, <1>7, Behind DEF LineInv
<1>9. /\ Append(q, e) \in Seq(Item(t)) /\ Sorted(t, Append(q, e))
      /\ In(t, Append(q, e)) = In(t, q) \cup Carried(t, e)
  BY <1>1, <1>2, <1>7, <1>8, InAppend
<1>10. Fits({t}, {}, {s})
  BY <1>5, <1>7, <1>9 DEF Fits, t
<1>11. FlowType' /\ InSequence'
  BY <1>3, <1>5, <1>10, Fitting DEF LineInv, FlowType, InSequence
<1>12. \A p \in Places : p # 3 * s /\ p # 3 * t - 2 => At(p)' = At(p)
  BY <1>3, <1>5, Frame
<1> DEFINE k == 3 * s  l == 3 * t - 2  C == Carried(t, e)
<1>13. /\ k \in Places /\ l \in Places /\ k < l
       /\ \A p \in Places : k < p /\ p < l => At(p) = {}
  BY <1>1 DEF Places
<1>14. At(k) = C \cup At(k)' /\ (\A i \in C, j \in At(k)' : i < j) /\ At(l)' = At(l) \cup C
  BY <1>4, <1>6, <1>7, <1>9
<1>15. \A p \in Places : p # k /\ p # l => At(p)' = At(p)
  BY <1>12
<1>a. At(3 * s)' \cup At(3 * s + 1)' = At(3 * s) \cup At(3 * s + 1)
  <2>1. At(k)' \cup At(l)' = At(k) \cup At(l)
    BY <1>14
  <2> QED
    BY <1>1, <2>1
<1>16. FlowType /\ Ordered(Line) /\ Whole(Line, dead, numbered) /\ UNCHANGED <<dead, numbered>>
  BY <1>3 DEF LineInv
<1> HIDE DEF k, l, C
<1>17. Ordered(Line)' /\ Whole(Line, dead, numbered)'
  BY ONLY <1>13, <1>14, <1>15, <1>16, LineMoved
<1> QED
  BY <1>11, <1>17, <1>a DEF LineInv

LEMMA Unbuffered ==
  ASSUME StageInv
  PROVE  /\ buffer[1] = <<>> /\ buffer[2] = <<>> /\ buffer[4] = <<>>
         /\ task[6] # "checked" => buffer[6] = <<>>
         /\ task[6] = "checked" => out[6] = <<>>
<1>1. 1 \in Stages /\ 2 \in Stages /\ 4 \in Stages /\ 6 \in Stages
  BY DEF Stages
<1> QED
  BY <1>1 DEF StageInv, Stage, Parser, Chunker, Embedder, Storage

\* A stage without a buffer sends on what it received.
LEMMA SpreadLine ==
  ASSUME LineInv, NEW s \in {1, 2, 4}, buffer[s] = <<>>, Receives(s), Received(s),
         NEW items \in Seq(Item(s + 1)), Sorted(s + 1, items),
         In(s + 1, items) = Carried(s, Input(s)),
         out' = [out EXCEPT ![s] = items],
         UNCHANGED <<buffer, dead, numbered, delivered, task>>
  PROVE  LineInv'
<1> DEFINE e == Input(s)  q == queue[s]  C == Carried(s, e)  k == 3 * s - 2  l == 3 * s
<1>1. s \in 1..7 /\ s \in Stages
  BY DEF Stages
<1>2. q # <<>> /\ e = Head(q) /\ out[s] = <<>> /\ queue' = [queue EXCEPT ![s] = Tail(q)]
  BY DEF Receives, Received, Input
<1>3. /\ Keeps({s}, {}, {s}) /\ queue'[s] = Tail(q) /\ out'[s] = items
      /\ TaskType'
  BY <1>1, <1>2 DEF Keeps, LineInv, FlowType, TaskType
<1>4. /\ Tail(q) \in Seq(Item(s)) /\ Sorted(s, Tail(q))
      /\ At(k) = C \cup In(s, Tail(q)) /\ \A m \in C, n \in In(s, Tail(q)) : m < n
  BY <1>1, <1>2, Taken
<1>5. At(k)' = In(s, Tail(q)) /\ At(l)' = C /\ At(l) = {} /\ At(3 * s - 1) = {}
  <2>1. At(k)' = In(s, Tail(q)) /\ At(l)' = C
    BY <1>1, <1>3, SpotsNext
  <2>2. At(l) = In(s + 1, <<>>) /\ At(3 * s - 1) = ToSet(<<>>)
    BY <1>1, <1>2, Spots
  <2> QED
    BY <2>1, <2>2, InEmpty DEF ToSet
<1>6. Fits({s}, {}, {s})
  BY <1>3, <1>4 DEF Fits
<1>7. FlowType' /\ InSequence'
  BY <1>3, <1>6, Fitting DEF LineInv, FlowType, InSequence
<1>8. \A p \in Places : p # k /\ p # l => At(p)' = At(p)
  BY <1>3, Frame
<1>9. k \in Places /\ l \in Places /\ k < l
  BY <1>1 DEF Places
<1>10. \A p \in Places : k < p /\ p < l => At(p) = {}
  <2>1. \A p \in Places : k < p /\ p < l => p = 3 * s - 1
    BY <1>1 DEF Places
  <2> QED
    BY <1>5, <2>1
<1>11. FlowType /\ Ordered(Line) /\ Whole(Line, dead, numbered) /\ UNCHANGED <<dead, numbered>>
  BY DEF LineInv
<1>12. At(k) = C \cup At(k)' /\ (\A i \in C, j \in At(k)' : i < j) /\ At(l)' = At(l) \cup C
  BY <1>4, <1>5
<1> HIDE DEF k, l, C
<1>13. Ordered(Line)' /\ Whole(Line, dead, numbered)'
  BY ONLY <1>8, <1>9, <1>10, <1>11, <1>12, LineMoved
<1> QED
  BY <1>7, <1>13 DEF LineInv

\* The item it received goes to the dead letter queue.
LEMMA RefusedLine ==
  ASSUME LineInv, NEW s \in Stages, Receives(s), Received(s),
         DeadLetters(s, Input(s)), UNCHANGED <<buffer, numbered, delivered, task>>
  PROVE  LineInv'
<1> DEFINE e == Input(s)  q == queue[s]  C == Carried(s, e)  k == 3 * s - 2
<1>1. s \in 1..7 /\ s \in Stages
  BY DEF Stages
<1>2. /\ q # <<>> /\ e = Head(q) /\ queue' = [queue EXCEPT ![s] = Tail(q)]
      /\ dead' = dead \cup C /\ out' = out
  BY DEF Receives, Received, Input, DeadLetters
<1>3. Keeps({s}, {}, {}) /\ queue'[s] = Tail(q) /\ TaskType'
  BY <1>1, <1>2 DEF Keeps, LineInv, FlowType, TaskType
<1>4. /\ Tail(q) \in Seq(Item(s)) /\ Sorted(s, Tail(q)) /\ e \in Item(s)
      /\ At(k) = C \cup In(s, Tail(q)) /\ \A m \in C, n \in In(s, Tail(q)) : m < n
  BY <1>1, <1>2, Taken
<1>5. At(k)' = In(s, Tail(q))
  BY <1>1, <1>3, SpotsNext
<1>6. Fits({s}, {}, {})
  BY <1>3, <1>4 DEF Fits
<1>7. C \subseteq Nat
  BY <1>1, <1>4, CarriedNat
<1>8. FlowType' /\ InSequence'
  BY <1>2, <1>3, <1>6, <1>7, Fitting DEF LineInv, FlowType, InSequence
<1>9. k \in Places /\ \A p \in Places : p # k => At(p)' = At(p)
  BY <1>1, <1>3, Frame, SpotOf
<1>10. /\ FlowType /\ Ordered(Line) /\ Whole(Line, dead, numbered)
       /\ numbered' = numbered /\ dead' = dead \cup C
  BY <1>2 DEF LineInv
<1>11. At(k) = C \cup At(k)' /\ \A i \in C, j \in At(k)' : i < j
  BY <1>4, <1>5
<1> HIDE DEF k, C
<1>12. Ordered(Line)' /\ Whole(Line, dead, numbered)'
  BY ONLY <1>9, <1>10, <1>11, LineDropped
<1> QED
  BY <1>8, <1>12 DEF LineInv

LEMMA ParseLine ==
  ASSUME LineInv, StageInv, Parse PROVE LineInv'
<1> DEFINE r == Input(1)
<1>1. /\ Receives(1) /\ Received(1) /\ buffer[1] = <<>>
      /\ UNCHANGED <<buffer, numbered, delivered, task>>
      /\ (Emits(1, Documents(r)) \/ DeadLetters(1, r))
  BY Unbuffered DEF Parse, Parser, readVars
<1>2. r \in Item(1)
  BY <1>1, Taken DEF Receives, Input
<1>3. CASE DeadLetters(1, r)
  BY <1>1, <1>3, RefusedLine DEF Stages
<1>4. CASE Emits(1, Documents(r))
  <2>1. /\ Documents(r) \in Seq(Item(1 + 1)) /\ Sorted(1 + 1, Documents(r))
        /\ In(1 + 1, Documents(r)) = Carried(1, r)
    BY <1>2, DocumentsInOrder
  <2>2. out' = [out EXCEPT ![1] = Documents(r)] /\ UNCHANGED dead
    BY <1>4 DEF Emits
  <2> QED
    BY <1>1, <2>1, <2>2, SpreadLine
<1> QED
  BY <1>1, <1>3, <1>4

\* A document or a batch is taken apart.
LEMMA ApartLine ==
  ASSUME LineInv, NEW s \in {2, 4}, buffer[s] = <<>>, Receives(s), Received(s),
         Emits(s, Input(s)) \/ DeadLetters(s, Input(s)),
         UNCHANGED <<buffer, numbered, delivered, task>>
  PROVE  LineInv'
<1> DEFINE e == Input(s)
<1>1. s \in 1..7 /\ s \in Stages /\ s + 1 \in {3, 5, 7} /\ s \in {2, 4, 6} /\ s \in {1, 2, 4}
  BY DEF Stages
<1>2. e \in Item(s) /\ Ascending(e)
  BY <1>1, Taken DEF Receives, Input
<1>3. e \in Seq(Nat) /\ Carried(s, e) = ToSet(e)
  BY <1>1, <1>2, ItemKinds
<1>4. e \in Seq(Item(s + 1)) /\ Sorted(s + 1, e) /\ In(s + 1, e) = Carried(s, e)
  BY <1>1, <1>2, <1>3, InPlain
<1>5. CASE DeadLetters(s, e)
  BY <1>1, <1>5, RefusedLine
<1>6. CASE Emits(s, e)
  <2>1. out' = [out EXCEPT ![s] = e] /\ UNCHANGED dead
    BY <1>6 DEF Emits
  <2> QED
    BY <1>1, <1>4, <2>1, SpreadLine
<1> QED
  BY <1>5, <1>6

LEMMA CutLine ==
  ASSUME LineInv, StageInv, CutDocument PROVE LineInv'
<1>1. /\ Receives(2) /\ Received(2) /\ buffer[2] = <<>>
      /\ UNCHANGED <<buffer, numbered, delivered, task>>
      /\ (Emits(2, Input(2)) \/ DeadLetters(2, Input(2)))
  BY Unbuffered DEF CutDocument, Chunker, readVars
<1> QED
  BY <1>1, ApartLine

LEMMA EmbedLine ==
  ASSUME LineInv, StageInv, Embed PROVE LineInv'
<1>1. /\ Receives(4) /\ Received(4) /\ buffer[4] = <<>>
      /\ UNCHANGED <<buffer, numbered, delivered, task>>
      /\ (Emits(4, Input(4)) \/ DeadLetters(4, Input(4)))
  BY Unbuffered DEF Embed, Embedder, readVars
<1> QED
  BY <1>1, ApartLine

LEMMA YieldLine ==
  ASSUME LineInv, SourceYields, Head(pending) \in Files PROVE LineInv'
<1> DEFINE f == Head(pending)  c == ChunksOf[f]
           r == [file |-> f, before |-> numbered]  q == queue[1]
<1>1. /\ queue' = [queue EXCEPT ![1] = Append(q, r)] /\ numbered' = numbered + c
      /\ UNCHANGED <<buffer, out, dead, delivered, task>>
  BY DEF SourceYields
<1>2. c \in Nat /\ numbered \in Nat /\ 1 \in 1..7 /\ numbered + c \in Nat
  BY DocumentAssumption DEF LineInv, FlowType
<1>3. Keeps({1}, {}, {}) /\ queue'[1] = Append(q, r) /\ TaskType'
  BY <1>1 DEF Keeps, LineInv, FlowType, TaskType
<1>4. q \in Seq(Item(1)) /\ Sorted(1, q) /\ At(1) = In(1, q)
  <2>1. 1 = 3 * 1 - 2
    OBVIOUS
  <2>2. At(3 * 1 - 2) = In(1, queue[1])
    BY <1>2, Spots
  <2> QED
    BY <1>2, <2>1, <2>2 DEF LineInv, FlowType, InSequence
<1>5. r \in Item(1) /\ Carried(1, r) = (numbered + 1)..(numbered + c)
  <2>1. /\ Item(1) = [file : Files, before : Nat]
        /\ Carried(1, r) = (r.before + 1)..(r.before + ChunksOf[r.file])
    BY ItemKinds
  <2>2. r \in [file : Files, before : Nat] /\ r.file = f /\ r.before = numbered
    BY <1>2
  <2> QED
    BY <2>1, <2>2
<1>6. \A m \in In(1, q), n \in Carried(1, r) : m < n
  <2>1. 1 \in Places
    BY DEF Places
  <2>2. At(1) \subseteq 1..numbered
    BY <2>1 DEF LineInv, Whole, Line
  <2> QED
    BY <1>2, <1>4, <1>5, <2>2
<1>7. /\ Append(q, r) \in Seq(Item(1)) /\ Sorted(1, Append(q, r))
      /\ In(1, Append(q, r)) = In(1, q) \cup Carried(1, r)
  BY <1>2, <1>4, <1>5, <1>6, InAppend
<1>8. At(1)' = In(1, Append(q, r))
  <2>1. At(3 * 1 - 2)' = In(1, queue'[1])
    BY <1>2, SpotsNext
  <2>2. 3 * 1 - 2 = 1
    OBVIOUS
  <2> QED
    BY <1>3, <2>1, <2>2
<1>9. Fits({1}, {}, {})
  BY <1>3, <1>7 DEF Fits
<1>10. FlowType' /\ InSequence'
  BY <1>1, <1>2, <1>3, <1>9, Fitting DEF LineInv, FlowType, InSequence
<1>11. \A p \in Places : p # 1 => At(p)' = At(p)
  <2>1. \A p \in Places : p # 1 => p # 3 * 1 - 2
    OBVIOUS
  <2> QED
    BY <1>1, <1>3, <2>1, Frame
<1>12. At(1)' = At(1) \cup (numbered + 1)..(numbered + c)
  BY <1>4, <1>5, <1>7, <1>8
<1>13. /\ FlowType /\ Ordered(Line) /\ Whole(Line, dead, numbered) /\ dead' = dead
       /\ numbered' = numbered + c
  BY <1>1 DEF LineInv
<1> HIDE DEF c
<1>14. Ordered(Line)' /\ Whole(Line, dead, numbered)'
  BY ONLY <1>2, <1>11, <1>12, <1>13, LineGrown
<1> QED
  BY <1>10, <1>14 DEF LineInv

LEMMA FlushLine ==
  ASSUME LineInv, StageInv, NEW s \in Stages, Flush(s) PROVE LineInv'
<1> DEFINE b == buffer[s]  t == s + 1  C == ToSet(b)  k == 3 * s - 1  l == 3 * s
<1>1. /\ out[s] = <<>> /\ UNCHANGED <<queue, dead, numbered, delivered>> /\ task[s] = "open"
      /\ buffer' = [buffer EXCEPT ![s] = <<>>]
      /\ out' = [out EXCEPT ![s] = IF b = <<>> THEN <<>> ELSE <<b>>]
      /\ task' = [task EXCEPT ![s] = "flush"]
  BY DEF Flush, Ends, Emits, readVars
<1>2. TaskType'
  BY <1>1 DEF LineInv, FlowType, TaskType
<1>3. CASE b = <<>>
  <2>1. Keeps({}, {}, {})
    BY <1>1, <1>3 DEF Keeps, LineInv, FlowType
  <2> QED
    BY <1>1, <1>2, <2>1, LineSame
<1>4. CASE b # <<>>
  <2>1. s \in {3, 5}
    BY <1>1, <1>4 DEF Stages, StageInv, Stage, Parser, Chunker, Embedder, Storage
  <2>2. t \in {2, 4, 6} /\ t \in 1..7 /\ k \in Places /\ l \in Places /\ k < l
    BY <2>1 DEF Places
  <2>3. b \in Seq(Nat) /\ Ascending(b) /\ b \in Item(t) /\ Carried(t, b) = C
    <3>1. b \in Seq(Nat) /\ Ascending(b)
      BY DEF LineInv, FlowType, InSequence
    <3> QED
      BY <2>2, <3>1, ItemKinds
  <2>4. /\ Keeps({}, {s}, {s}) /\ buffer'[s] = <<>> /\ out'[s] = <<b>>
    BY <1>1, <1>4 DEF Keeps, LineInv, FlowType
  <2>5. <<b>> \in Seq(Item(t)) /\ Sorted(t, <<b>>) /\ In(t, <<b>>) = C
    BY <2>2, <2>3, InOne
  <2>6. Fits({}, {s}, {s})
    BY <2>4, <2>5, NoneAscending DEF Fits
  <2>7. FlowType' /\ InSequence'
    BY <1>1, <1>2, <2>4, <2>6, Fitting DEF LineInv, FlowType, InSequence
  <2>8. At(k) = C /\ At(l) = {} /\ At(k)' = {} /\ At(l)' = C
    <3>1. At(k) = C /\ At(l) = In(t, <<>>)
      BY <1>1, Spots
    <3>2. At(k)' = ToSet(<<>>) /\ At(l)' = In(t, <<b>>)
      BY <2>4, SpotsNext
    <3> QED
      BY <2>5, <3>1, <3>2, InEmpty DEF ToSet
  <2>9. \A p \in Places : p # k /\ p # l => At(p)' = At(p)
    BY <1>1, <2>4, Frame
  <2>10. \A p \in Places : k < p /\ p < l => At(p) = {}
    BY <2>1 DEF Places
  <2>11. FlowType /\ Ordered(Line) /\ Whole(Line, dead, numbered) /\ UNCHANGED <<dead, numbered>>
    BY <1>1 DEF LineInv
  <2>12. At(k) = C \cup At(k)' /\ (\A i \in C, j \in At(k)' : i < j) /\ At(l)' = At(l) \cup C
    BY <2>8
  <2> HIDE DEF k, l, C
  <2>13. Ordered(Line)' /\ Whole(Line, dead, numbered)'
    BY ONLY <2>2, <2>9, <2>10, <2>11, <2>12, LineMoved
  <2> QED
    BY <2>7, <2>13 DEF LineInv
<1> QED
  BY <1>3, <1>4

LEMMA DeliverLine ==
  ASSUME LineInv, Deliver
  PROVE  LineInv' /\ At(18)' = At(18) /\ At(19)' \cup At(20)' = At(19) \cup At(20)
<1> DEFINE q == queue[7]  e == Head(q)  C == {e}
<1>1. /\ q # <<>> /\ queue' = [queue EXCEPT ![7] = Tail(q)] /\ delivered' = Append(delivered, e)
      /\ UNCHANGED <<buffer, out, dead, numbered, task>>
  BY DEF Deliver, readVars
<1>2. 7 \in 1..7 /\ 3 * 7 - 2 = 19 /\ 19 \in Places /\ 20 \in Places /\ 19 < 20
  BY DEF Places
<1>3. Keeps({7}, {}, {}) /\ queue'[7] = Tail(q) /\ TaskType'
  BY <1>1 DEF Keeps, LineInv, FlowType, TaskType
<1>4. /\ Tail(q) \in Seq(Item(7)) /\ Sorted(7, Tail(q)) /\ e \in Item(7)
      /\ At(19) = Carried(7, e) \cup In(7, Tail(q))
      /\ \A m \in Carried(7, e), n \in In(7, Tail(q)) : m < n
  BY <1>1, <1>2, Taken
<1>5. Carried(7, e) = C /\ e \in Nat
  BY <1>4, ItemKinds
<1>6. At(20) = ToSet(delivered) /\ delivered \in Seq(Nat) /\ Ascending(delivered)
  BY Spots DEF LineInv, FlowType, InSequence
<1>7. \A m \in ToSet(delivered) : m < e
  BY <1>2, <1>4, <1>5, <1>6, Behind DEF LineInv
<1>8. /\ delivered' \in Seq(Nat) /\ Ascending(delivered')
      /\ ToSet(delivered') = ToSet(delivered) \cup C
  BY <1>1, <1>5, <1>6, <1>7, AscendingAppend
<1>9. At(19)' = In(7, Tail(q)) /\ At(20)' = ToSet(delivered) \cup C
  BY <1>2, <1>3, <1>8, SpotsNext
<1>10. Fits({7}, {}, {})
  BY <1>3, <1>4 DEF Fits
<1>11. FlowType' /\ InSequence'
  BY <1>1, <1>3, <1>8, <1>10, Fitting DEF LineInv, FlowType
<1>12. \A p \in Places : p # 19 /\ p # 20 => At(p)' = At(p)
  BY <1>2, <1>3, Frame
<1>13. \A p \in Places : 19 < p /\ p < 20 => At(p) = {}
  BY DEF Places
<1>14. FlowType /\ Ordered(Line) /\ Whole(Line, dead, numbered) /\ UNCHANGED <<dead, numbered>>
  BY <1>1 DEF LineInv
<1>15. At(19) = C \cup At(19)' /\ (\A i \in C, j \in At(19)' : i < j) /\ At(20)' = At(20) \cup C
  BY <1>4, <1>5, <1>6, <1>9
<1>a. At(18)' = At(18) /\ At(19)' \cup At(20)' = At(19) \cup At(20)
  <2>1. 18 \in Places /\ 18 # 19 /\ 18 # 20
    BY DEF Places
  <2> QED
    BY <1>12, <1>15, <2>1
<1> HIDE DEF C
<1>16. Ordered(Line)' /\ Whole(Line, dead, numbered)'
  BY ONLY <1>2, <1>12, <1>13, <1>14, <1>15, LineMoved
<1> QED
  BY <1>11, <1>16, <1>a DEF LineInv

LEMMA GatherLine ==
  ASSUME LineInv, NEW s \in {Pairing, Batching}, Gather(s) PROVE LineInv'
<1> DEFINE q == queue[s]  e == Input(s)  b == buffer[s]  g == Append(b, e)  t == s + 1
           k == 3 * s - 2  l == 3 * s - 1  h == 3 * s
<1>1. /\ s \in {3, 5} /\ s \in Stages /\ s \in 1..7 /\ t \in {2, 4, 6} /\ t \in 1..7
      /\ k \in Places /\ l \in Places /\ h \in Places /\ k < l /\ l < h
      /\ \A p \in Places : ~(k < p /\ p < l) /\ ~(l < p /\ p < h)
  BY DEF Pairing, Batching, Stages, Places
<1>2. /\ q # <<>> /\ e = Head(q) /\ out[s] = <<>> /\ queue' = [queue EXCEPT ![s] = Tail(q)]
      /\ UNCHANGED <<dead, numbered, delivered, task>>
  BY DEF Gather, Receives, Received, Input, Emits, readVars
<1>3. /\ TaskType' /\ queue'[s] = Tail(q) /\ DOMAIN queue' = 1..7
      /\ \A j \in 1..7 : j # s => queue'[j] = queue[j]
  BY <1>1, <1>2 DEF LineInv, FlowType, TaskType
<1>4. /\ Tail(q) \in Seq(Item(s)) /\ Sorted(s, Tail(q)) /\ e \in Item(s)
      /\ At(k) = Carried(s, e) \cup In(s, Tail(q))
      /\ \A m \in Carried(s, e), n \in In(s, Tail(q)) : m < n
  BY <1>1, <1>2, Taken
<1>5. e \in Nat /\ Carried(s, e) = {e}
  BY <1>1, <1>4, ItemKinds
<1>6. b \in Seq(Nat) /\ Ascending(b) /\ At(l) = ToSet(b) /\ At(h) = {}
  <2>1. b \in Seq(Nat) /\ Ascending(b)
    BY <1>1 DEF LineInv, FlowType, InSequence
  <2>2. At(l) = ToSet(b) /\ At(h) = In(t, <<>>)
    BY <1>1, <1>2, Spots
  <2> QED
    BY <2>1, <2>2, InEmpty
<1>7. \A m \in ToSet(b) : m < e
  BY <1>1, <1>4, <1>5, <1>6, Behind DEF LineInv
<1>8. g \in Seq(Nat) /\ Ascending(g) /\ ToSet(g) = ToSet(b) \cup {e}
  BY <1>5, <1>6, <1>7, AscendingAppend
<1>9. FlowType /\ InSequence /\ Ordered(Line) /\ Whole(Line, dead, numbered)
  BY DEF LineInv
<1>10. CASE buffer' = [buffer EXCEPT ![s] = g] /\ out' = [out EXCEPT ![s] = <<>>]
  <2>1. Keeps({s}, {s}, {}) /\ buffer'[s] = g
    BY <1>1, <1>2, <1>3, <1>10 DEF Keeps, LineInv, FlowType
  <2>2. Fits({s}, {s}, {})
    BY <1>3, <1>4, <1>8, <2>1 DEF Fits
  <2>3. FlowType' /\ InSequence'
    BY <1>2, <1>3, <1>9, <2>1, <2>2, Fitting DEF FlowType, InSequence
  <2>4. At(k)' = In(s, Tail(q)) /\ At(l)' = ToSet(g)
    BY <1>1, <1>3, <2>1, SpotsNext
  <2>5. \A p \in Places : p # k /\ p # l => At(p)' = At(p)
    BY <1>2, <2>1, Frame
  <2> DEFINE C == {e}
  <2>6. At(k) = C \cup At(k)' /\ (\A i \in C, j \in At(k)' : i < j) /\ At(l)' = At(l) \cup C
    BY <1>4, <1>5, <1>6, <1>8, <2>4
  <2> HIDE DEF k, l, h, C
  <2>7. Ordered(Line)' /\ Whole(Line, dead, numbered)'
    BY ONLY <1>1, <1>2, <1>9, <2>5, <2>6, LineMoved
  <2> QED
    BY <2>3, <2>7 DEF LineInv
<1>11. CASE buffer' = [buffer EXCEPT ![s] = <<>>] /\ out' = [out EXCEPT ![s] = <<g>>]
  <2>1. Keeps({s}, {s}, {s}) /\ buffer'[s] = <<>> /\ out'[s] = <<g>>
    BY <1>1, <1>2, <1>3, <1>11 DEF Keeps, LineInv, FlowType
  <2>2. g \in Item(t) /\ Carried(t, g) = ToSet(g)
    BY <1>1, <1>8, ItemKinds
  <2>3. <<g>> \in Seq(Item(t)) /\ Sorted(t, <<g>>) /\ In(t, <<g>>) = ToSet(g)
    BY <1>1, <1>8, <2>2, InOne
  <2>4. Fits({s}, {s}, {s})
    BY <1>3, <1>4, <2>1, <2>3, NoneAscending DEF Fits
  <2>5. FlowType' /\ InSequence'
    BY <1>2, <1>3, <1>9, <2>1, <2>4, Fitting DEF FlowType, InSequence
  <2>6. At(k)' = In(s, Tail(q)) /\ At(l)' = {} /\ At(h)' = ToSet(g)
    <3>1. At(k)' = In(s, Tail(q)) /\ At(l)' = ToSet(<<>>) /\ At(h)' = In(t, <<g>>)
      BY <1>1, <1>3, <2>1, SpotsNext
    <3> QED
      BY <2>3, <3>1, NoneAscending
  <2>7. \A p \in Places : p # k /\ p # l /\ p # h => At(p)' = At(p)
    BY <1>2, <2>1, Frame
  <2> DEFINE L == Line  M == Line'  C == {e}  D == ToSet(g)  n == numbered  d == dead
             H == [p \in Places |-> IF p = k THEN At(k)' ELSE IF p = l THEN D ELSE At(p)]
  <2>8. /\ \A p \in Places : L[p] = At(p) /\ M[p] = At(p)' /\ L[p] \subseteq Nat
        /\ H[k] = At(k)' /\ H[l] = D /\ \A p \in Places : p # k /\ p # l => H[p] = L[p]
    BY <1>1, <1>9, AtNat DEF Line
  <2>9. /\ L[k] = C \cup H[k] /\ (\A i \in C, j \in H[k] : i < j) /\ H[l] = L[l] \cup C
        /\ \A p \in Places : p # k /\ p # l => H[p] = L[p]
    BY <1>1, <1>4, <1>5, <1>6, <1>8, <2>6, <2>8
  <2>10. \A p \in Places : H[p] \subseteq Nat /\ L[p] \subseteq Nat
    <3>1. /\ H[l] = L[l] \cup {e} /\ H[k] \subseteq L[k]
          /\ \A p \in Places : p # k /\ p # l => H[p] = L[p]
      BY <2>9
    <3> QED
      BY <1>1, <1>5, <2>8, <3>1
  <2>11. /\ H[l] = D \cup M[l] /\ (\A i \in D, j \in M[l] : i < j) /\ M[h] = H[h] \cup D
         /\ \A p \in Places : p # l /\ p # h => M[p] = H[p]
    BY <1>1, <1>6, <2>6, <2>7, <2>8
  <2>12. Ordered(L) /\ Whole(L, d, n) /\ \A p \in Places : ~(k < p /\ p < l) /\ ~(l < p /\ p < h)
    BY <1>1, <1>9
  <2>13. k \in Places /\ l \in Places /\ h \in Places /\ k < l /\ l < h
    BY <1>1
  <2> HIDE DEF k, l, h, C, D, L, M, H, n, d
  <2>a. \A p \in Places : H[p] \subseteq Nat
    BY <2>10
  <2>b. \A p \in Places : l < p /\ p < h => H[p] = {}
    BY <2>12
  <2>c. l \in Places /\ h \in Places /\ l < h
    BY <2>13
  <2>14. Ordered(H) /\ Whole(H, d, n)
    BY ONLY <2>9, <2>10, <2>12, <2>13, Moved, ZenonT(60)
  <2>15. Ordered(M) /\ Whole(M, d, n)
    BY ONLY <2>a, <2>b, <2>c, <2>11, <2>14, Moved, ZenonT(60)
  <2>16. Ordered(Line)' <=> Ordered(M)
    BY DEF Ordered, M
  <2>17. Whole(Line, dead, numbered)' <=> Whole(M, d, n)
    BY <1>2 DEF Whole, M, d, n
  <2> QED
    BY <2>5, <2>15, <2>16, <2>17 DEF LineInv
<1>12. \/ buffer' = [buffer EXCEPT ![s] = g] /\ out' = [out EXCEPT ![s] = <<>>]
       \/ buffer' = [buffer EXCEPT ![s] = <<>>] /\ out' = [out EXCEPT ![s] = <<g>>]
  BY DEF Gather, Emits
<1> QED
  BY <1>10, <1>11, <1>12

LEMMA CheckLine ==
  ASSUME LineInv, StageInv, CheckTable PROVE LineInv'
<1> DEFINE q == queue[6]  e == Input(6)  C == ToSet(e)
<1>1. /\ q # <<>> /\ e = Head(q) /\ queue' = [queue EXCEPT ![6] = Tail(q)]
      /\ task' = [task EXCEPT ![6] = "checked"] /\ task[6] = "open"
      /\ buffer' = [buffer EXCEPT ![6] = e] /\ UNCHANGED <<out, dead, numbered, delivered>>
  BY DEF CheckTable, Receives, Received, Input, Storage, readVars
<1>2. /\ 6 \in 1..7 /\ 6 \in Stages /\ 3 * 6 - 2 = 16 /\ 3 * 6 - 1 = 17 /\ 16 \in Places
      /\ 17 \in Places
      /\ 16 < 17 /\ \A p \in Places : ~(16 < p /\ p < 17)
  BY DEF Stages, Places
<1>3. /\ Keeps({6}, {6}, {}) /\ queue'[6] = Tail(q) /\ buffer'[6] = e
      /\ TaskType'
  BY <1>1, <1>2 DEF Keeps, LineInv, FlowType, TaskType
<1>4. /\ Tail(q) \in Seq(Item(6)) /\ Sorted(6, Tail(q)) /\ e \in Item(6) /\ Ascending(e)
      /\ At(16) = Carried(6, e) \cup In(6, Tail(q))
      /\ \A m \in Carried(6, e), n \in In(6, Tail(q)) : m < n
  BY <1>1, <1>2, Taken
<1>5. e \in Seq(Nat) /\ Carried(6, e) = C
  BY <1>4, ItemKinds
<1>6. At(17) = {}
  <2>1. At(3 * 6 - 1) = ToSet(buffer[6])
    BY <1>2, Spots
  <2>2. buffer[6] = <<>>
    BY <1>1, Unbuffered
  <2> QED
    BY <1>2, <2>1, <2>2 DEF ToSet
<1>7. At(16)' = In(6, Tail(q)) /\ At(17)' = C
  <2>1. At(3 * 6 - 2)' = In(6, queue'[6]) /\ At(3 * 6 - 1)' = ToSet(buffer'[6])
    BY <1>2, SpotsNext
  <2> QED
    BY <1>2, <1>3, <2>1
<1>8. Fits({6}, {6}, {})
  BY <1>3, <1>4, <1>5 DEF Fits
<1>9. FlowType' /\ InSequence'
  BY <1>1, <1>3, <1>8, Fitting DEF LineInv, FlowType, InSequence
<1>10. \A p \in Places : p # 16 /\ p # 17 => At(p)' = At(p)
  BY <1>1, <1>2, <1>3, Frame
<1>11. FlowType /\ Ordered(Line) /\ Whole(Line, dead, numbered) /\ UNCHANGED <<dead, numbered>>
  BY <1>1 DEF LineInv
<1>12. At(16) = C \cup At(16)' /\ (\A i \in C, j \in At(16)' : i < j) /\ At(17)' = At(17) \cup C
  BY <1>4, <1>5, <1>6, <1>7
<1> HIDE DEF C
<1>13. Ordered(Line)' /\ Whole(Line, dead, numbered)'
  BY ONLY <1>2, <1>10, <1>11, <1>12, LineMoved
<1> QED
  BY <1>9, <1>13 DEF LineInv

LEMMA AnswerLine ==
  ASSUME LineInv, StageInv, NEW ok, StoreAnswers(ok)
  PROVE  /\ LineInv' /\ At(19)' = At(19) /\ At(20)' = At(20)
         /\ \/ ok /\ At(18)' = At(18) \cup ToSet(Stored) /\ dead' = dead
            \/ ~ok /\ At(18)' = At(18) /\ dead' = dead \cup ToSet(Stored)
<1> DEFINE C == ToSet(Stored)
<1>1. /\ task' = [task EXCEPT ![6] = "open"] /\ task[6] = "checked"
      /\ buffer' = [buffer EXCEPT ![6] = <<>>] /\ UNCHANGED <<queue, numbered, delivered>>
      /\ \/ ok /\ out' = [out EXCEPT ![6] = Stored] /\ dead' = dead
         \/ ~ok /\ dead' = dead \cup C /\ out' = out
  <2>1. Carried(6, Stored) = ToSet(Stored)
    BY ItemKinds
  <2> QED
    BY <2>1 DEF StoreAnswers, Storage, Emits, DeadLetters, readVars
<1>2. /\ 6 \in 1..7 /\ 6 \in Stages /\ 3 * 6 - 1 = 17 /\ 3 * 6 = 18 /\ 17 \in Places
      /\ 18 \in Places
      /\ 17 < 18 /\ \A p \in Places : ~(17 < p /\ p < 18)
  BY DEF Stages, Places
<1>3. Keeps({}, {6}, {6}) /\ buffer'[6] = <<>> /\ TaskType'
  BY <1>1, <1>2 DEF Keeps, LineInv, FlowType, TaskType
<1>4. Stored \in Seq(Nat) /\ Ascending(Stored)
  BY <1>2 DEF LineInv, FlowType, InSequence, Stored, Storage
<1>5. Stored \in Seq(Item(7)) /\ Sorted(7, Stored) /\ In(7, Stored) = C
  BY <1>4, InPlain
<1>6. At(17) = C /\ At(17)' = {}
  <2>1. At(3 * 6 - 1) = ToSet(buffer[6]) /\ At(3 * 6 - 1)' = ToSet(buffer'[6])
    BY <1>2, Spots, SpotsNext
  <2> QED
    BY <1>2, <1>3, <2>1 DEF ToSet, Stored, Storage
<1>7. At(18) = {} /\ At(18)' = In(7, out'[6]) /\ out[6] = <<>>
  <2>1. At(3 * 6) = In(6 + 1, out[6]) /\ At(3 * 6)' = In(6 + 1, out'[6])
    BY <1>2, Spots, SpotsNext
  <2>2. out[6] = <<>>
    BY <1>1, Unbuffered
  <2> QED
    BY <1>2, <2>1, <2>2, InEmpty
<1>8. FlowType /\ InSequence /\ Ordered(Line) /\ Whole(Line, dead, numbered) /\ UNCHANGED numbered
  BY <1>1 DEF LineInv
<1>9. CASE ok /\ out' = [out EXCEPT ![6] = Stored] /\ dead' = dead
  <2>1. out'[6] = Stored
    BY <1>2, <1>9 DEF LineInv, FlowType
  <2>2. Fits({}, {6}, {6})
    <3>1. 6 + 1 = 7
      OBVIOUS
    <3>2. out'[6] \in Seq(Item(6 + 1)) /\ Sorted(6 + 1, out'[6])
      BY <1>5, <2>1, <3>1
    <3> QED
      BY <1>3, <3>2, NoneAscending DEF Fits
  <2>3. FlowType' /\ InSequence'
    BY <1>1, <1>3, <1>8, <1>9, <2>2, Fitting DEF FlowType, InSequence
  <2>4. \A p \in Places : p # 17 /\ p # 18 => At(p)' = At(p)
    BY <1>1, <1>2, <1>3, Frame
  <2>5. At(17) = C \cup At(17)' /\ (\A i \in C, j \in At(17)' : i < j) /\ At(18)' = At(18) \cup C
    BY <1>5, <1>6, <1>7, <2>1
  <2>7. At(19)' = At(19) /\ At(20)' = At(20) /\ At(18)' = At(18) \cup ToSet(Stored)
    <3>1. 19 \in Places /\ 20 \in Places
      BY DEF Places
    <3> QED
      BY <2>4, <2>5, <3>1
  <2> HIDE DEF C
  <2>6. Ordered(Line)' /\ Whole(Line, dead, numbered)'
    BY ONLY <1>2, <1>8, <1>9, <2>4, <2>5, LineMoved
  <2> QED
    BY <1>9, <2>3, <2>6, <2>7 DEF LineInv
<1>10. CASE ~ok /\ dead' = dead \cup C /\ out' = out
  <2>0. Keeps({}, {6}, {})
    BY <1>3, <1>10 DEF Keeps, LineInv, FlowType
  <2>1. Keeps({}, {6}, {}) /\ Fits({}, {6}, {})
    BY <1>3, <2>0, NoneAscending DEF Fits
  <2>2. dead' \subseteq Nat
    <3>1. C \subseteq Nat
      BY <1>4 DEF ToSet
    <3> QED
      BY <1>8, <1>10, <3>1 DEF FlowType
  <2>3. FlowType' /\ InSequence'
    BY <1>1, <1>3, <1>8, <2>1, <2>2, Fitting DEF FlowType, InSequence
  <2>4. \A p \in Places : p # 17 => At(p)' = At(p)
    BY <1>1, <1>2, <2>1, Frame
  <2>5. At(17) = C \cup At(17)' /\ \A i \in C, j \in At(17)' : i < j
    BY <1>6
  <2>7. /\ At(19)' = At(19) /\ At(20)' = At(20) /\ At(18)' = At(18)
        /\ dead' = dead \cup ToSet(Stored)
    <3>1. 18 \in Places /\ 19 \in Places /\ 20 \in Places
      BY DEF Places
    <3> QED
      BY <1>10, <2>4, <3>1
  <2> HIDE DEF C
  <2>6. Ordered(Line)' /\ Whole(Line, dead, numbered)'
    BY ONLY <1>2, <1>8, <1>10, <2>4, <2>5, LineDropped
  <2> QED
    BY <1>10, <2>3, <2>6, <2>7 DEF LineInv
<1> QED
  BY <1>1, <1>9, <1>10

-----------------------------------------------------------------------------
(* The stages and the batches.                                             *)

\* The end of the source, and that of a stage, are for good.
Stays ==
  /\ source # "open" => source' # "open"
  /\ \A s \in Stages : task[s] = "done" => task'[s] = "done"

\* A stage that a step leaves alone.
StageKept(s) ==
  task'[s] = task[s] /\ queue'[s] = queue[s] /\ buffer'[s] = buffer[s] /\ out'[s] = out[s]

LEMMA UpstreamStays ==
  ASSUME Stays, NEW s \in Stages, UpstreamDone(s) PROVE UpstreamDone(s)'
<1>1. CASE s = 1
  BY <1>1 DEF Stays, UpstreamDone
<1>2. CASE s # 1
  <2>1. s - 1 \in Stages
    BY <1>2 DEF Stages
  <2> QED
    BY <1>2, <2>1 DEF Stays, UpstreamDone
<1> QED
  BY <1>1, <1>2

LEMMA StageKeeps ==
  ASSUME StageInv, Stays, NEW s \in Stages, StageKept(s) PROVE Stage(s)'
<1>1. Stage(s)
  BY DEF StageInv
<1>2. task[s] \in {"flush", "done"} => UpstreamDone(s)'
  BY <1>1, UpstreamStays DEF Stage
<1> QED
  BY <1>1, <1>2 DEF Stage, StageKept

\* A stage that is open and stays open.
LEMMA StageOpen ==
  ASSUME StageInv, NEW s \in Stages, task'[s] = "open",
         s \in {Parser, Chunker, Embedder, Storage} => buffer'[s] = <<>>
  PROVE  Stage(s)'
  BY DEF Stage

LEMMA YieldStage ==
  ASSUME LineInv, StageInv, SourceYields PROVE StageInv'
<1>1. /\ source = "open" /\ source' = source /\ UNCHANGED <<task, buffer, out>>
      /\ 1 \in 1..7 /\ \A s \in 1..7 : s # 1 => queue'[s] = queue[s]
  BY DEF SourceYields, Yield, LineInv, FlowType
<1>2. Stays
  BY <1>1 DEF Stays
<1>3. Stage(1)'
  <2>1. Stage(1) /\ ~UpstreamDone(1)
    BY <1>1 DEF StageInv, Stages, UpstreamDone
  <2>2. task[1] \notin {"flush", "done"}
    BY <2>1 DEF Stage
  <2> QED
    BY <1>1, <2>1, <2>2 DEF Stage
<1>4. ASSUME NEW s \in Stages, s # 1 PROVE Stage(s)'
  <2>1. StageKept(s)
    BY <1>1, <1>4 DEF StageKept, Stages
  <2> QED
    BY <1>2, <2>1, StageKeeps
<1> QED
  BY <1>3, <1>4 DEF StageInv

LEMMA SendStage ==
  ASSUME LineInv, StageInv, NEW s \in Stages, Send(s) PROVE StageInv'
<1> DEFINE t == s + 1
<1>1. /\ out[s] # <<>> /\ UNCHANGED <<source, task, buffer>>
      /\ \A r \in 1..7 : r # t => queue'[r] = queue[r]
      /\ \A r \in Stages : r # s => out'[r] = out[r]
  BY DEF Send, readVars, sourceVars, LineInv, FlowType, Stages
<1>2. Stays
  BY <1>1 DEF Stays
<1>3. Stage(s) /\ task[s] \notin {"done", "checked"}
  BY <1>1 DEF StageInv, Stage
<1>4. Stage(s)'
  <2>1. s # t /\ s \in 1..7
    BY DEF Stages
  <2>2. task[s] \in {"flush", "done"} => UpstreamDone(s)'
    BY <1>2, <1>3, UpstreamStays DEF Stage
  <2> QED
    BY <1>1, <1>3, <2>1, <2>2 DEF Stage
<1>5. ASSUME t \in Stages PROVE Stage(t)'
  <2>1. t # 1 /\ t - 1 = s /\ t # s
    BY DEF Stages
  <2>2. Stage(t) /\ ~UpstreamDone(t)
    BY <1>3, <1>5, <2>1 DEF StageInv, UpstreamDone
  <2>3. task[t] \notin {"flush", "done"}
    BY <2>2 DEF Stage
  <2> HIDE DEF t
  <2> QED
    BY <1>1, <1>5, <2>1, <2>2, <2>3 DEF Stage
<1>6. ASSUME NEW r \in Stages, r # s, r # t PROVE Stage(r)'
  <2>1. StageKept(r)
    BY <1>1, <1>6 DEF StageKept, Stages
  <2> QED
    BY <1>2, <2>1, StageKeeps
<1> QED
  BY <1>4, <1>5, <1>6 DEF StageInv

\* A step of one stage that leaves the source, the other stages and their queues alone.
LEMMA OneStage ==
  ASSUME StageInv, NEW s \in Stages, source' = source, task[s] # "done", Stage(s)',
         \A r \in Stages : r # s => StageKept(r)
  PROVE  StageInv'
<1>1. Stays
  BY DEF Stays, StageKept
<1>2. \A r \in Stages : r # s => Stage(r)'
  BY <1>1, StageKeeps
<1> QED
  BY <1>2 DEF StageInv

LEMMA FlushStage ==
  ASSUME LineInv, StageInv, NEW s \in Stages, Flush(s) PROVE StageInv'
<1>1. /\ task[s] = "open" /\ queue[s] = <<>> /\ UpstreamDone(s) /\ UNCHANGED <<source, queue>>
      /\ task'[s] = "flush" /\ buffer'[s] = <<>>
      /\ \A r \in Stages : r # s => task'[r] = task[r] /\ buffer'[r] = buffer[r] /\ out'[r] = out[r]
  BY DEF Flush, Ends, Emits, readVars, sourceVars, LineInv, FlowType, TaskType
<1>2. \A r \in Stages : r # s => StageKept(r)
  BY <1>1 DEF StageKept
<1>3. Stays
  BY <1>1 DEF Stays
<1>4. Stage(s)'
  BY <1>1, <1>3, UpstreamStays DEF Stage
<1> QED
  BY <1>1, <1>2, <1>4, OneStage

LEMMA DoneStage ==
  ASSUME LineInv, StageInv, NEW s \in Stages, StageDone(s) PROVE StageInv'
<1>1. /\ task[s] = "flush" /\ out[s] = <<>> /\ UNCHANGED <<source, queue, buffer, out>>
      /\ task'[s] = "done" /\ \A r \in Stages : r # s => task'[r] = task[r]
  BY DEF StageDone, readVars, sourceVars, LineInv, FlowType, TaskType
<1>2. \A r \in Stages : r # s => StageKept(r)
  BY <1>1 DEF StageKept
<1>3. Stays
  BY <1>1 DEF Stays
<1>4. Stage(s) /\ UpstreamDone(s)'
  BY <1>1, <1>3, UpstreamStays DEF StageInv, Stage
<1>5. Stage(s)'
  BY <1>1, <1>4 DEF Stage
<1> QED
  BY <1>1, <1>2, <1>5, OneStage

\* A stage that receives an item and stays open, whatever it makes of the item.
LEMMA ReceiveStage ==
  ASSUME LineInv, StageInv, NEW s \in Stages, Receives(s), Received(s),
         UNCHANGED <<source, task>>,
         s \notin {Pairing, Batching} => buffer' = buffer, s # Storage,
         \A r \in Stages : r # s => buffer'[r] = buffer[r] /\ out'[r] = out[r]
  PROVE  StageInv'
<1>1. /\ task[s] = "open" /\ task'[s] = "open"
      /\ \A r \in Stages : r # s => queue'[r] = queue[r]
  BY DEF Receives, Received, LineInv, FlowType, Stages
<1>2. \A r \in Stages : r # s => StageKept(r)
  BY <1>1 DEF StageKept
<1>3. s \in {Parser, Chunker, Embedder, Storage} => buffer'[s] = <<>>
  BY DEF StageInv, Stage, Parser, Chunker, Embedder, Storage, Pairing, Batching
<1>4. Stage(s)'
  BY <1>1, <1>3, StageOpen
<1> QED
  BY <1>1, <1>2, <1>4, OneStage

LEMMA NodeStage ==
  ASSUME LineInv, StageInv,
         Parse \/ CutDocument \/ Embed \/ \E s \in {Pairing, Batching} : Gather(s)
  PROVE  StageInv'
<1>1. CASE Parse
  <2>1. /\ 1 \in Stages /\ 1 # Storage /\ Receives(1) /\ Received(1)
        /\ UNCHANGED <<source, task, buffer>>
    BY <1>1 DEF Parse, Parser, readVars, sourceVars, Stages, Storage
  <2>2. out' = out \/ \E x : out' = [out EXCEPT ![1] = x]
    BY <1>1 DEF Parse, Parser, Emits, DeadLetters
  <2>3. \A r \in Stages : r # 1 => out'[r] = out[r]
    BY <2>2 DEF LineInv, FlowType
  <2> QED
    BY <2>1, <2>3, ReceiveStage
<1>2. CASE CutDocument
  <2>1. /\ 2 \in Stages /\ 2 # Storage /\ Receives(2) /\ Received(2)
        /\ UNCHANGED <<source, task, buffer>>
    BY <1>2 DEF CutDocument, Chunker, readVars, sourceVars, Stages, Storage
  <2>2. out' = out \/ \E x : out' = [out EXCEPT ![2] = x]
    BY <1>2 DEF CutDocument, Chunker, Emits, DeadLetters
  <2>3. \A r \in Stages : r # 2 => out'[r] = out[r]
    BY <2>2 DEF LineInv, FlowType
  <2> QED
    BY <2>1, <2>3, ReceiveStage
<1>3. CASE Embed
  <2>1. /\ 4 \in Stages /\ 4 # Storage /\ Receives(4) /\ Received(4)
        /\ UNCHANGED <<source, task, buffer>>
    BY <1>3 DEF Embed, Embedder, readVars, sourceVars, Stages, Storage
  <2>2. out' = out \/ \E x : out' = [out EXCEPT ![4] = x]
    BY <1>3 DEF Embed, Embedder, Emits, DeadLetters
  <2>3. \A r \in Stages : r # 4 => out'[r] = out[r]
    BY <2>2 DEF LineInv, FlowType
  <2> QED
    BY <2>1, <2>3, ReceiveStage
<1>4. ASSUME NEW s \in {Pairing, Batching}, Gather(s) PROVE StageInv'
  <2>1. s \in Stages /\ s # Storage
    BY DEF Pairing, Batching, Storage, Stages
  <2>2. Receives(s) /\ Received(s) /\ UNCHANGED <<source, task>>
    BY <1>4 DEF Gather, readVars, sourceVars
  <2>3. \A r \in Stages : r # s => buffer'[r] = buffer[r] /\ out'[r] = out[r]
    BY <1>4 DEF Gather, Emits, LineInv, FlowType
  <2> QED
    BY <2>1, <2>2, <2>3, ReceiveStage
<1> QED
  BY <1>1, <1>2, <1>3, <1>4

LEMMA CheckStage ==
  ASSUME LineInv, StageInv, CheckTable PROVE StageInv'
<1>1. /\ 6 \in Stages /\ task[6] = "open" /\ out[6] = <<>> /\ UNCHANGED <<source, out>>
      /\ task'[6] = "checked"
      /\ \A r \in Stages : r # 6 => task'[r] = task[r] /\ buffer'[r] = buffer[r] /\ queue'[r] = queue[r]
  BY DEF CheckTable, Receives, Received, Storage, readVars, sourceVars, LineInv, FlowType,
         TaskType, Stages
<1>2. \A r \in Stages : r # 6 => StageKept(r)
  BY <1>1 DEF StageKept
<1>3. Stage(6)'
  BY <1>1 DEF Stage, Storage, Parser, Chunker, Embedder
<1> QED
  BY <1>1, <1>2, <1>3, OneStage

LEMMA AnswerStage ==
  ASSUME LineInv, StageInv, NEW ok, StoreAnswers(ok) PROVE StageInv'
<1>1. /\ 6 \in Stages /\ task[6] = "checked" /\ task'[6] = "open" /\ buffer'[6] = <<>>
      /\ UNCHANGED <<source, queue>>
      /\ \A r \in Stages : r # 6 => task'[r] = task[r] /\ buffer'[r] = buffer[r] /\ out'[r] = out[r]
  <2>1. /\ task[6] = "checked" /\ task' = [task EXCEPT ![6] = "open"]
        /\ buffer' = [buffer EXCEPT ![6] = <<>>] /\ UNCHANGED <<source, queue>>
        /\ (out' = out \/ \E x : out' = [out EXCEPT ![6] = x])
    BY DEF StoreAnswers, Storage, Emits, DeadLetters, readVars, sourceVars
  <2>2. \A r \in Stages : r # 6 => out'[r] = out[r]
    BY <2>1 DEF LineInv, FlowType
  <2> QED
    BY <2>1, <2>2 DEF LineInv, FlowType, TaskType, Stages
<1>2. \A r \in Stages : r # 6 => StageKept(r)
  BY <1>1 DEF StageKept
<1>3. Stage(6)'
  BY <1>1, StageOpen
<1> QED
  BY <1>1, <1>2, <1>3, OneStage

LEMMA DeliverStage ==
  ASSUME LineInv, StageInv, Deliver PROVE StageInv'
<1>1. /\ UNCHANGED <<source, task, buffer, out>> /\ \A r \in Stages : queue'[r] = queue[r]
  BY DEF Deliver, readVars, sourceVars, LineInv, FlowType, Stages
<1>2. \A r \in Stages : StageKept(r)
  BY <1>1 DEF StageKept
<1>3. Stays
  BY <1>1 DEF Stays
<1> QED
  BY <1>2, <1>3, StageKeeps DEF StageInv

LEMMA BatchKeeps ==
  ASSUME NEW s \in {Pairing, Batching}, Batch(s), buffer'[s] = buffer[s],
         task[s] # "open" => task'[s] # "open",
         ToSet(out'[s]) \cup ToSet(queue'[s + 1]) \subseteq ToSet(out[s]) \cup ToSet(queue[s + 1])
  PROVE  Batch(s)'
<1>1. BatchSize(s)' = BatchSize(s)
  BY DEF BatchSize
<1>2. Len(buffer'[s]) < BatchSize(s)
  BY DEF Batch
<1>3. \A b \in ToSet(out'[s]) \cup ToSet(queue'[s + 1]) : Len(b) = BatchSize(s) \/ task'[s] # "open"
  BY DEF Batch
<1> QED
  BY <1>1, <1>2, <1>3 DEF Batch

LEMMA Parted ==
  ASSUME NEW S, NEW q \in Seq(S), q # <<>>
  PROVE  Head(q) \in S /\ Tail(q) \in Seq(S) /\ Head(q) \in ToSet(q) /\ ToSet(Tail(q)) \subseteq ToSet(q)
<1>1. Len(q) \in Nat \ {0} /\ DOMAIN q = 1..Len(q) /\ Head(q) = q[1] /\ Head(q) \in S
  BY EmptySeq
<1>2. /\ Tail(q) \in Seq(S) /\ DOMAIN Tail(q) = 1..(Len(q) - 1)
      /\ \A k \in 1..(Len(q) - 1) : Tail(q)[k] = q[k + 1]
  BY <1>1
<1>3. 1 \in 1..Len(q) /\ \A k \in 1..(Len(q) - 1) : k + 1 \in 1..Len(q)
  BY <1>1
<1>4. Head(q) \in ToSet(q)
  BY <1>1, <1>3 DEF ToSet
<1>5. ToSet(Tail(q)) \subseteq ToSet(q)
  BY <1>1, <1>2, <1>3 DEF ToSet
<1> QED
  BY <1>1, <1>2, <1>4, <1>5

LEMMA Appended ==
  ASSUME NEW S, NEW q \in Seq(S), NEW e \in S
  PROVE  ToSet(Append(q, e)) = ToSet(q) \cup {e}
<1> DEFINE a == Append(q, e)
<1>1. /\ Len(q) \in Nat /\ DOMAIN q = 1..Len(q) /\ DOMAIN a = 1..(Len(q) + 1) /\ a[Len(q) + 1] = e
      /\ \A k \in 1..Len(q) : a[k] = q[k]
  OBVIOUS
<1>2. /\ Len(q) + 1 \in 1..(Len(q) + 1)
      /\ \A k \in 1..(Len(q) + 1) : k \in 1..Len(q) \/ k = Len(q) + 1
      /\ \A k \in 1..Len(q) : k \in 1..(Len(q) + 1)
  BY <1>1
<1> HIDE DEF a
<1>3. ToSet(a) = ToSet(q) \cup {e}
  BY <1>1, <1>2 DEF ToSet
<1> QED
  BY <1>3 DEF a

\* The stages whose batches a step leaves alone.
LEMMA BatchAlone ==
  ASSUME BatchInv, NEW s \in {Pairing, Batching}, buffer'[s] = buffer[s], out'[s] = out[s],
         task'[s] = task[s], queue'[s + 1] = queue[s + 1]
  PROVE  Batch(s)'
  BY BatchKeeps DEF BatchInv

LEMMA QuietBatch ==
  ASSUME LineInv, BatchInv, SourceYields \/ Deliver \/ \E ok : StoreAnswers(ok)
  PROVE  BatchInv'
<1>1. ASSUME NEW s \in {Pairing, Batching} PROVE Batch(s)'
  <2>0. s \in Stages /\ s + 1 \in 1..7 /\ s # 6 /\ s + 1 # 1 /\ s + 1 # 7
    BY DEF Pairing, Batching, Stages
  <2>1. CASE SourceYields
    BY <2>0, <2>1, BatchAlone DEF SourceYields, LineInv, FlowType
  <2>2. CASE Deliver
    BY <2>0, <2>2, BatchAlone DEF Deliver, LineInv, FlowType
  <2>3. CASE \E ok : StoreAnswers(ok)
    <3>1. /\ task' = [task EXCEPT ![6] = "open"] /\ buffer' = [buffer EXCEPT ![6] = <<>>]
          /\ queue' = queue
          /\ (out' = out \/ \E x : out' = [out EXCEPT ![6] = x])
      BY <2>3 DEF StoreAnswers, Storage, Emits, DeadLetters
    <3>2. out'[s] = out[s]
      BY <2>0, <3>1 DEF LineInv, FlowType
    <3> QED
      BY <2>0, <3>1, <3>2, BatchAlone DEF LineInv, FlowType, TaskType
  <2> QED
    BY <2>1, <2>2, <2>3
<1> QED
  BY <1>1 DEF BatchInv

LEMMA SendBatch ==
  ASSUME LineInv, BatchInv, NEW r \in Stages, Send(r) PROVE BatchInv'
<1>1. /\ r + 1 \in 1..7 /\ out[r] # <<>> /\ out[r] \in Seq(Item(r + 1))
      /\ queue[r + 1] \in Seq(Item(r + 1))
      /\ queue'[r + 1] = Append(queue[r + 1], Head(out[r])) /\ out'[r] = Tail(out[r])
      /\ UNCHANGED <<task, buffer>>
      /\ \A s \in Stages : s # r => out'[s] = out[s] /\ (s + 1 # r + 1 => queue'[s + 1] = queue[s + 1])
  <2>1. r + 1 \in 1..7 /\ \A s \in Stages : s + 1 \in 1..7
    BY DEF Stages
  <2>2. /\ out[r] # <<>> /\ queue' = [queue EXCEPT ![r + 1] = Append(queue[r + 1], Head(out[r]))]
        /\ out' = [out EXCEPT ![r] = Tail(out[r])] /\ UNCHANGED <<task, buffer>>
    BY DEF Send
  <2>3. out[r] \in Seq(Item(r + 1)) /\ queue[r + 1] \in Seq(Item(r + 1))
    BY <2>1 DEF LineInv, FlowType
  <2>4. DOMAIN queue = 1..7 /\ DOMAIN out = Stages
    BY DEF LineInv, FlowType
  <2> QED
    BY <2>1, <2>2, <2>3, <2>4
<1>2. ASSUME NEW s \in {Pairing, Batching}, s # r PROVE Batch(s)'
  <2>1. s \in Stages /\ s + 1 # r + 1
    BY <1>2 DEF Pairing, Batching, Stages
  <2> QED
    BY <1>1, <1>2, <2>1, BatchAlone
<1>3. ASSUME r \in {Pairing, Batching} PROVE Batch(r)'
  <2> DEFINE o == out[r]  q == queue[r + 1]  S == Item(r + 1)
  <2>1. o \in Seq(S) /\ o # <<>> /\ q \in Seq(S)
    BY <1>1
  <2> HIDE DEF o, q, S
  <2>2. Head(o) \in S /\ Head(o) \in ToSet(o) /\ ToSet(Tail(o)) \subseteq ToSet(o)
    BY <2>1, Parted
  <2>3. ToSet(Append(q, Head(o))) = ToSet(q) \cup {Head(o)}
    BY <2>1, <2>2, Appended
  <2>4. ToSet(out'[r]) \cup ToSet(queue'[r + 1]) \subseteq ToSet(out[r]) \cup ToSet(queue[r + 1])
    BY <1>1, <2>2, <2>3 DEF o, q
  <2> QED
    BY <1>1, <1>3, <2>4, BatchKeeps DEF BatchInv
<1> QED
  BY <1>2, <1>3 DEF BatchInv

LEMMA EndBatch ==
  ASSUME LineInv, BatchInv, NEW r \in Stages, Flush(r) \/ StageDone(r) PROVE BatchInv'
<1>1. /\ queue' = queue /\ task'[r] # "open" /\ (buffer'[r] = buffer[r] \/ buffer'[r] = <<>>)
      /\ \A s \in Stages : s # r => task'[s] = task[s] /\ buffer'[s] = buffer[s] /\ out'[s] = out[s]
  <2>1. CASE Flush(r)
    BY <2>1 DEF Flush, Emits, LineInv, FlowType, TaskType
  <2>2. CASE StageDone(r)
    BY <2>2 DEF StageDone, LineInv, FlowType, TaskType
  <2> QED
    BY <2>1, <2>2
<1>2. ASSUME NEW s \in {Pairing, Batching}, s # r PROVE Batch(s)'
  <2>1. s \in Stages
    BY DEF Pairing, Batching, Stages
  <2> QED
    BY <1>1, <1>2, <2>1, BatchAlone
<1>3. ASSUME r \in {Pairing, Batching} PROVE Batch(r)'
  <2>1. BatchSize(r) \in Nat \ {0} /\ Len(<<>>) = 0 /\ Len(buffer[r]) < BatchSize(r)
    BY <1>3, IngestionAssumption DEF BatchSize, BatchInv, Batch
  <2>2. Len(buffer'[r]) < BatchSize(r)
    BY <1>1, <2>1
  <2> QED
    BY <1>1, <2>2 DEF Batch, BatchSize
<1> QED
  BY <1>2, <1>3 DEF BatchInv

\* A batch is received.
LEMMA ReceiveBatch ==
  ASSUME LineInv, BatchInv, NEW r \in Stages \ {Pairing, Batching}, Receives(r), Received(r),
         \A s \in {Pairing, Batching} : buffer'[s] = buffer[s] /\ out'[s] = out[s] /\ task'[s] = task[s]
  PROVE  BatchInv'
<1>1. /\ queue[r] # <<>> /\ queue[r] \in Seq(Item(r)) /\ queue'[r] = Tail(queue[r])
      /\ \A s \in 1..7 : s # r => queue'[s] = queue[s]
  <2>1. r \in 1..7
    BY DEF Stages
  <2>2. queue[r] # <<>> /\ queue' = [queue EXCEPT ![r] = Tail(queue[r])]
    BY DEF Receives, Received
  <2> QED
    BY <2>1, <2>2 DEF LineInv, FlowType
<1>2. ToSet(queue'[r]) \subseteq ToSet(queue[r])
  BY <1>1, Parted
<1>3. ASSUME NEW s \in {Pairing, Batching} PROVE Batch(s)'
  <2>1. s + 1 \in 1..7
    BY DEF Pairing, Batching
  <2>2. ToSet(queue'[s + 1]) \subseteq ToSet(queue[s + 1])
    BY <1>1, <1>2, <2>1
  <2>3. ToSet(out'[s]) \cup ToSet(queue'[s + 1]) \subseteq ToSet(out[s]) \cup ToSet(queue[s + 1])
    BY <2>2
  <2> QED
    BY <2>3, BatchKeeps DEF BatchInv
<1> QED
  BY <1>3 DEF BatchInv

LEMMA NodeBatch ==
  ASSUME LineInv, BatchInv, Parse \/ CutDocument \/ Embed \/ CheckTable PROVE BatchInv'
<1>1. ASSUME NEW r \in Stages \ {Pairing, Batching}, UNCHANGED task \/ (r = 6 /\ task' = [task EXCEPT ![6] = "checked"]),
             UNCHANGED buffer \/ (r = 6 /\ \E x : buffer' = [buffer EXCEPT ![6] = x]),
             UNCHANGED out \/ \E x : out' = [out EXCEPT ![r] = x]
      PROVE  \A s \in {Pairing, Batching} : buffer'[s] = buffer[s] /\ out'[s] = out[s] /\ task'[s] = task[s]
  <2>1. \A s \in {Pairing, Batching} : s \in Stages /\ s # r /\ s # 6
    BY DEF Pairing, Batching, Stages
  <2>2. DOMAIN task = Stages /\ DOMAIN buffer = Stages /\ DOMAIN out = Stages
    BY DEF LineInv, FlowType, TaskType
  <2>3. \A s \in {Pairing, Batching} : task'[s] = task[s]
    BY <1>1, <2>1, <2>2
  <2>4. \A s \in {Pairing, Batching} : buffer'[s] = buffer[s]
    BY <1>1, <2>1, <2>2
  <2>5. \A s \in {Pairing, Batching} : out'[s] = out[s]
    BY <1>1, <2>1, <2>2
  <2> QED
    BY <2>3, <2>4, <2>5
<1>2. /\ 1 \in Stages \ {Pairing, Batching} /\ 2 \in Stages \ {Pairing, Batching}
      /\ 4 \in Stages \ {Pairing, Batching} /\ 6 \in Stages \ {Pairing, Batching}
  BY DEF Stages, Pairing, Batching
<1>3. CASE Parse
  <2>1. /\ Receives(1) /\ Received(1) /\ UNCHANGED <<task, buffer>>
        /\ (UNCHANGED out \/ \E x : out' = [out EXCEPT ![1] = x])
    BY <1>3 DEF Parse, Parser, Emits, DeadLetters
  <2> QED
    BY <1>1, <1>2, <2>1, ReceiveBatch
<1>4. CASE CutDocument
  <2>1. /\ Receives(2) /\ Received(2) /\ UNCHANGED <<task, buffer>>
        /\ (UNCHANGED out \/ \E x : out' = [out EXCEPT ![2] = x])
    BY <1>4 DEF CutDocument, Chunker, Emits, DeadLetters
  <2> QED
    BY <1>1, <1>2, <2>1, ReceiveBatch
<1>5. CASE Embed
  <2>1. /\ Receives(4) /\ Received(4) /\ UNCHANGED <<task, buffer>>
        /\ (UNCHANGED out \/ \E x : out' = [out EXCEPT ![4] = x])
    BY <1>5 DEF Embed, Embedder, Emits, DeadLetters
  <2> QED
    BY <1>1, <1>2, <2>1, ReceiveBatch
<1>6. CASE CheckTable
  <2>1. /\ Receives(6) /\ Received(6) /\ UNCHANGED out /\ task' = [task EXCEPT ![6] = "checked"]
        /\ \E x : buffer' = [buffer EXCEPT ![6] = x]
    BY <1>6 DEF CheckTable, Storage
  <2> QED
    BY <1>1, <1>2, <2>1, ReceiveBatch
<1> QED
  BY <1>3, <1>4, <1>5, <1>6

LEMMA GatherBatch ==
  ASSUME LineInv, BatchInv, NEW r \in {Pairing, Batching}, Gather(r) PROVE BatchInv'
<1> DEFINE b == buffer[r]  e == Input(r)  g == Append(b, e)  max == BatchSize(r)
<1>1. /\ r \in Stages /\ r + 1 \in 1..7 /\ r + 1 # r /\ r \in 1..7 /\ max \in Nat \ {0}
      /\ b \in Seq(Nat) /\ Len(b) < max /\ Len(b) \in Nat /\ Len(<<>>) = 0
  <2>1. r \in Stages /\ r + 1 \in 1..7 /\ r + 1 # r /\ r \in 1..7
    BY DEF Pairing, Batching, Stages
  <2>2. max \in Nat \ {0} /\ Len(<<>>) = 0
    BY IngestionAssumption DEF BatchSize
  <2>3. Len(b) < max
    BY DEF BatchInv, Batch
  <2>4. b \in Seq(Nat)
    BY <2>1 DEF LineInv, FlowType
  <2> QED
    BY <2>1, <2>2, <2>3, <2>4
<1>2. /\ task[r] = "open" /\ task' = task
      /\ \A s \in 1..7 : s # r => queue'[s] = queue[s]
      /\ \A s \in Stages : s # r => buffer'[s] = buffer[s] /\ out'[s] = out[s]
  BY DEF Gather, Receives, Received, Emits, LineInv, FlowType
<1>3. ASSUME NEW s \in {Pairing, Batching}, s # r PROVE Batch(s)'
  <2>1. s \in Stages /\ s + 1 \in 1..7 /\ s + 1 # r
    BY DEF Pairing, Batching, Stages
  <2> QED
    BY <1>2, <1>3, <2>1, BatchAlone
<1>4. Len(g) = Len(b) + 1
  BY <1>1
<1>5. \A x \in ToSet(queue[r + 1]) : Len(x) = max
  BY <1>2 DEF BatchInv, Batch
<1>6. queue'[r + 1] = queue[r + 1]
  BY <1>1, <1>2
<1>7. \/ Len(g) >= max /\ out'[r] = <<g>> /\ buffer'[r] = <<>>
      \/ ~(Len(g) >= max) /\ out'[r] = <<>> /\ buffer'[r] = g
  BY <1>1 DEF Gather, Emits, LineInv, FlowType
<1> HIDE DEF g, b, max
<1>8. Len(buffer'[r]) < max
  BY <1>1, <1>4, <1>7
<1>9. \A x \in ToSet(out'[r]) : Len(x) = max
  <2>1. ToSet(<<g>>) = {g} /\ ToSet(<<>>) = {}
    BY DEF ToSet
  <2>2. Len(g) >= max => Len(g) = max
    BY <1>1, <1>4
  <2> QED
    BY <1>7, <2>1, <2>2
<1>10. Batch(r)'
  BY <1>5, <1>6, <1>8, <1>9 DEF Batch, BatchSize, max
<1> QED
  BY <1>3, <1>10 DEF BatchInv

-----------------------------------------------------------------------------
(* The table.                                                              *)

\* What went past the store, and what its rows have to be.
Through == At(18) \cup At(19) \cup At(20)

RowsOk(R, T, d) ==
  /\ \A j, k \in DOMAIN R : R[j] = R[k] /\ R[j] # Other => j = k
  /\ T \subseteq ToSet(R) \ {Other} /\ ToSet(R) \ {Other} \subseteq T \cup d

LEMMA MatchIsOk ==
  (RowsMatch <=> RowsOk(rows, Through, dead)) /\ (RowsMatch' <=> RowsOk(rows', Through', dead'))
  BY DEF RowsMatch, RowsOk, Through

\* New rows are added, which are stored or may yet be reported as failed.
LEMMA RowsAdded ==
  ASSUME NEW R \in Seq(Nat), NEW N \in Seq(Nat), NEW T, NEW d, NEW U, NEW f,
         RowsOk(R, T, d), Ascending(N), ToSet(N) \cap (T \cup d) = {}, Other \notin ToSet(N),
         T \subseteq U, U \subseteq T \cup ToSet(N), d \subseteq f, ToSet(N) \subseteq U \cup f
  PROVE  R \o N \in Seq(Nat) /\ RowsOk(R \o N, U, f)
<1> DEFINE a == Len(R)  b == Len(N)  RN == R \o N
<1>1. /\ a \in Nat /\ b \in Nat /\ DOMAIN R = 1..a /\ DOMAIN N = 1..b
      /\ RN \in Seq(Nat) /\ DOMAIN RN = 1..(a + b)
      /\ \A i \in 1..(a + b) : RN[i] = IF i <= a THEN R[i] ELSE N[i - a]
  BY ConcatProperties
<1> HIDE DEF a, b, RN
<1>2. /\ \A i \in 1..a : i \in 1..(a + b) /\ i <= a
      /\ \A i \in 1..b : i + a \in 1..(a + b) /\ ~(i + a <= a) /\ (i + a) - a = i
      /\ \A i \in 1..(a + b) : i \in 1..a \/ (i - a \in 1..b /\ ~(i <= a))
  BY <1>1
<1>3. /\ \A i \in 1..a : RN[i] = R[i]
      /\ \A i \in 1..b : RN[i + a] = N[i]
      /\ \A i \in 1..(a + b) : i \notin 1..a => RN[i] = N[i - a] /\ i - a \in 1..b
  BY <1>1, <1>2
<1>4. ToSet(RN) = ToSet(R) \cup ToSet(N)
  <2>0. /\ \A n : n \in ToSet(RN) <=> \E i \in 1..(a + b) : RN[i] = n
        /\ \A n : n \in ToSet(R) <=> \E i \in 1..a : R[i] = n
        /\ \A n : n \in ToSet(N) <=> \E i \in 1..b : N[i] = n
    BY <1>1 DEF ToSet
  <2>1. ASSUME NEW n \in ToSet(RN) PROVE n \in ToSet(R) \cup ToSet(N)
    <3>1. PICK i \in 1..(a + b) : RN[i] = n
      BY <2>0
    <3> QED
      BY <1>3, <2>0, <3>1
  <2>2. ASSUME NEW n \in ToSet(R) PROVE n \in ToSet(RN)
    BY <1>2, <1>3, <2>0
  <2>3. ASSUME NEW n \in ToSet(N) PROVE n \in ToSet(RN)
    BY <1>2, <1>3, <2>0
  <2> QED
    BY <2>1, <2>2, <2>3
<1>5. ASSUME NEW j \in DOMAIN RN, NEW k \in DOMAIN RN, RN[j] = RN[k], RN[j] # Other PROVE j = k
  <2>1. \A i, h \in 1..a : R[i] = R[h] /\ R[i] # Other => i = h
    BY <1>1 DEF RowsOk
  <2>2. \A i, h \in 1..b : N[i] = N[h] => i = h
    <3> SUFFICES ASSUME NEW i \in 1..b, NEW h \in 1..b, N[i] = N[h] PROVE i = h
      OBVIOUS
    <3>1. N[i] \in Nat /\ N[h] \in Nat /\ ~(N[i] < N[h]) /\ ~(N[h] < N[i])
      BY <1>1
    <3>2. (i < h => N[i] < N[h]) /\ (h < i => N[h] < N[i])
      BY <1>1 DEF Ascending
    <3>3. i < h \/ h < i \/ i = h
      BY <1>1
    <3> QED
      BY <3>1, <3>2, <3>3
  <2>3. \A i \in 1..a, h \in 1..b : R[i] # Other => R[i] # N[h]
    <3>1. \A i \in 1..a, h \in 1..b : R[i] \in ToSet(R) /\ N[h] \in ToSet(N)
      BY <1>1 DEF ToSet
    <3> QED
      BY <3>1 DEF RowsOk
  <2>4. CASE j \in 1..a /\ k \in 1..a
    BY <1>3, <1>5, <2>1, <2>4
  <2>5. CASE j \in 1..a /\ k \notin 1..a
    BY <1>1, <1>3, <1>5, <2>3, <2>5
  <2>6. CASE j \notin 1..a /\ k \in 1..a
    BY <1>1, <1>3, <1>5, <2>3, <2>6
  <2>7. CASE j \notin 1..a /\ k \notin 1..a
    <3>1. j - a = k - a
      BY <1>1, <1>3, <1>5, <2>2, <2>7
    <3> QED
      BY <1>1, <3>1
  <2> QED
    BY <2>4, <2>5, <2>6, <2>7
<1>6. U \subseteq ToSet(RN) \ {Other} /\ ToSet(RN) \ {Other} \subseteq U \cup f
  BY <1>4 DEF RowsOk
<1>7. RowsOk(RN, U, f)
  BY <1>5, <1>6 DEF RowsOk
<1> QED
  BY <1>1, <1>7 DEF RN

LEMMA PrefixOf ==
  ASSUME NEW S, NEW R \in Seq(S), NEW N \in Seq(S)
  PROVE  IsPrefix(R, R \o N) /\ IsPrefix(R, R)
<1>1. Len(R) \in Nat /\ Len(N) \in Nat /\ R \o N \in Seq(S) /\ Len(R \o N) = Len(R) + Len(N)
  OBVIOUS
<1>2. Len(R) <= Len(R \o N) /\ Len(R) <= Len(R)
  BY <1>1
<1>3. SubSeq(R, 1, Len(R)) = SubSeq(R \o N, 1, Len(R))
  BY <1>1
<1> QED
  BY <1>2, <1>3 DEF IsPrefix

\* The chunks that the store is at are new to it.
LEMMA StoredFresh ==
  ASSUME LineInv
  PROVE  /\ Stored \in Seq(Nat) /\ Ascending(Stored) /\ ToSet(Stored) = At(17)
         /\ ToSet(Stored) \cap (Through \cup dead) = {} /\ Other \notin ToSet(Stored)
<1>1. /\ 6 \in Stages /\ 3 * 6 - 1 = 17 /\ 17 \in Places /\ 18 \in Places /\ 19 \in Places
      /\ 20 \in Places
      /\ 17 < 18 /\ 17 < 19 /\ 17 < 20
  BY DEF Stages, Places
<1>2. Stored \in Seq(Nat) /\ Ascending(Stored)
  BY <1>1 DEF LineInv, FlowType, InSequence, Stored, Storage
<1>3. ToSet(Stored) = At(17)
  <2>1. At(3 * 6 - 1) = ToSet(buffer[6])
    BY <1>1, Spots
  <2> QED
    BY <1>1, <2>1 DEF Stored, Storage
<1>4. At(17) \subseteq (1..numbered) \ dead
  BY <1>1 DEF LineInv, Whole, Line
<1>5. numbered \in Nat /\ \A n \in 1..numbered : n # Other /\ ~(n < n)
  BY DEF LineInv, FlowType, Other
<1>6. At(17) \cap Through = {}
  <2>1. \A m \in At(18), n \in At(17) : m < n
    BY <1>1, Behind DEF LineInv
  <2>2. \A m \in At(19), n \in At(17) : m < n
    BY <1>1, Behind DEF LineInv
  <2>3. \A m \in At(20), n \in At(17) : m < n
    BY <1>1, Behind DEF LineInv
  <2> QED
    BY <1>4, <1>5, <2>1, <2>2, <2>3 DEF Through
<1> QED
  BY <1>2, <1>3, <1>4, <1>5, <1>6

\* The store alone changes the table, and what is past it.
LEMMA ThroughKept ==
  ASSUME out'[6] = out[6], queue'[7] = queue[7], delivered' = delivered PROVE Through' = Through
<1>1. 6 \in Stages /\ 7 \in 1..7 /\ 3 * 6 = 18 /\ 3 * 7 - 2 = 19 /\ 6 + 1 = 7
  BY DEF Stages
<1>2. At(18)' = At(18)
  <2>1. At(3 * 6) = In(6 + 1, out[6]) /\ At(3 * 6)' = In(6 + 1, out'[6])
    BY <1>1, Spots, SpotsNext
  <2> QED
    BY <1>1, <2>1
<1>3. At(19)' = At(19)
  <2>1. At(3 * 7 - 2) = In(7, queue[7]) /\ At(3 * 7 - 2)' = In(7, queue'[7])
    BY <1>1, Spots, SpotsNext
  <2> QED
    BY <1>1, <2>1
<1>4. At(20)' = At(20)
  BY Spots, SpotsNext
<1> QED
  BY <1>2, <1>3, <1>4 DEF Through

LEMMA RowsKeep ==
  ASSUME RowsInv, rows' = rows, table' = table, exists' = exists \/ exists' = table,
         Through' = Through, dead \subseteq dead'
  PROVE  RowsInv' /\ IsPrefix(rows, rows')
<1>1. RowsOk(rows', Through', dead')
  BY MatchIsOk DEF RowsInv, RowsOk
<1>2. IsPrefix(rows, rows')
  BY PrefixOf DEF RowsInv
<1>3. <<>> \in Seq(Nat)
  OBVIOUS
<1> QED
  BY <1>1, <1>2, <1>3, MatchIsOk, PrefixOf DEF RowsInv

LEMMA SendRows ==
  ASSUME LineInv, RowsInv, NEW s \in Stages, Send(s) PROVE RowsInv' /\ IsPrefix(rows, rows')
<1>1. /\ UNCHANGED <<rows, table, exists, dead, delivered>>
      /\ queue' = [queue EXCEPT ![s + 1] = Append(@, Head(out[s]))]
      /\ out' = [out EXCEPT ![s] = Tail(@)]
  BY DEF Send, storeVars
<1>2. Through' = Through
  <2>1. CASE s = 6
    <3>1. At(3 * 6)' \cup At(3 * 6 + 1)' = At(3 * 6) \cup At(3 * 6 + 1)
      BY <2>1, SendLine
    <3>2. 3 * 6 = 18 /\ 3 * 6 + 1 = 19
      OBVIOUS
    <3>3. At(20)' = At(20)
      BY <1>1, Spots, SpotsNext
    <3> QED
      BY <3>1, <3>2, <3>3 DEF Through
  <2>2. CASE s # 6
    <3>1. s + 1 # 7 /\ 6 \in Stages /\ 7 \in 1..7
      BY <2>2 DEF Stages
    <3>2. out'[6] = out[6] /\ queue'[7] = queue[7]
      BY <1>1, <2>2, <3>1 DEF LineInv, FlowType
    <3> QED
      BY <1>1, <3>2, ThroughKept
  <2> QED
    BY <2>1, <2>2
<1> QED
  BY <1>1, <1>2, RowsKeep

LEMMA DeliverRows ==
  ASSUME LineInv, RowsInv, Deliver PROVE RowsInv' /\ IsPrefix(rows, rows')
<1>1. UNCHANGED <<rows, table, exists, dead>>
  BY DEF Deliver, storeVars
<1>2. Through' = Through
  BY DeliverLine DEF Through
<1> QED
  BY <1>1, <1>2, RowsKeep

LEMMA AnswerRows ==
  ASSUME LineInv, StageInv, RowsInv, AddRows \/ CreateTable \/ StoreFails
  PROVE  RowsInv' /\ IsPrefix(rows, rows')
<1> DEFINE C == ToSet(Stored)
<1>1. /\ Stored \in Seq(Nat) /\ Ascending(Stored)
      /\ C \cap (Through \cup dead) = {} /\ Other \notin C
  BY StoredFresh
<1>2. /\ rows \in Seq(Nat) /\ RowsOk(rows, Through, dead) /\ table \in BOOLEAN
      /\ exists \in BOOLEAN
      /\ (exists => table) /\ (~table => rows = <<>>)
  BY MatchIsOk DEF RowsInv
<1>3. PICK ok : StoreAnswers(ok) /\ (ok \/ AddRows \/ CreateTable \/ StoreFails)
  BY DEF AddRows, CreateTable, StoreFails
<1>4. /\ exists' = exists
      /\ \/ rows' = rows /\ table' = TRUE /\ StoreAnswers(FALSE)
         \/ rows' = rows /\ table' = table /\ StoreAnswers(FALSE)
         \/ rows' = rows \o Stored /\ table' = TRUE /\ \E b : StoreAnswers(b)
  <2>1. exists' = exists
    BY DEF AddRows, CreateTable, StoreFails, StoreAnswers
  <2>2. CASE AddRows
    BY <1>2, <2>1, <2>2 DEF AddRows
  <2>3. CASE CreateTable
    <3>1. <<>> \o Stored = Stored
      BY <1>1
    <3>2. CASE table
      BY <2>1, <2>3, <3>2 DEF CreateTable
    <3>3. CASE ~table
      BY <1>2, <2>1, <2>3, <3>1, <3>3 DEF CreateTable
    <3> QED
      BY <3>2, <3>3
  <2>4. CASE StoreFails
    BY <2>1, <2>4 DEF StoreFails
  <2> QED
    BY <2>2, <2>3, <2>4
<1>5. ASSUME NEW b, StoreAnswers(b)
      PROVE  \/ b /\ Through' = Through \cup C /\ dead' = dead
             \/ ~b /\ Through' = Through /\ dead' = dead \cup C
  <2>1. /\ At(19)' = At(19) /\ At(20)' = At(20)
        /\ \/ b /\ At(18)' = At(18) \cup C /\ dead' = dead
           \/ ~b /\ At(18)' = At(18) /\ dead' = dead \cup C
    BY <1>5, AnswerLine
  <2> QED
    BY <2>1 DEF Through
<1>6. CASE rows' = rows /\ StoreAnswers(FALSE) /\ (table' = TRUE \/ table' = table)
  <2>1. Through' = Through /\ dead \subseteq dead'
    BY <1>5, <1>6
  <2>2. RowsOk(rows', Through', dead')
    BY <1>2, <1>6, <2>1 DEF RowsOk
  <2>3. IsPrefix(rows, rows')
    BY <1>2, <1>6, PrefixOf
  <2> QED
    <3>1. rows' \in Seq(Nat) /\ table' \in BOOLEAN /\ exists' \in BOOLEAN
      BY <1>2, <1>4, <1>6
    <3>2. (exists' => table') /\ (~table' => rows' = <<>>)
      BY <1>2, <1>4, <1>6
    <3>3. RowsMatch'
      BY <2>2, MatchIsOk
    <3> QED
      BY <2>3, <3>1, <3>2, <3>3 DEF RowsInv
<1>7. CASE rows' = rows \o Stored /\ table' = TRUE /\ \E b : StoreAnswers(b)
  <2>1. \/ Through' = Through \cup C /\ dead' = dead
        \/ Through' = Through /\ dead' = dead \cup C
    BY <1>5, <1>7
  <2>2. /\ Through \subseteq Through' /\ Through' \subseteq Through \cup C
        /\ dead \subseteq dead' /\ C \subseteq Through' \cup dead'
    BY <2>1
  <2>3. rows \o Stored \in Seq(Nat) /\ RowsOk(rows \o Stored, Through', dead')
    BY <1>1, <1>2, <2>2, RowsAdded
  <2>4. IsPrefix(rows, rows')
    BY <1>1, <1>2, <1>7, PrefixOf
  <2> QED
    BY <1>2, <1>4, <1>7, <2>3, <2>4, MatchIsOk DEF RowsInv
<1> QED
  BY <1>4, <1>6, <1>7

LEMMA OtherRows ==
  ASSUME RowsInv, OtherCreates PROVE RowsInv' /\ IsPrefix(rows, rows')
<1>1. /\ rows = <<>> /\ rows' = <<Other>> /\ table' = TRUE /\ exists' = exists
      /\ exists \in BOOLEAN
      /\ UNCHANGED <<out, queue, delivered, dead>>
  BY DEF OtherCreates, RowsInv, stageVars
<1>2. Through' = Through
  BY <1>1, ThroughKept
<1>3. Through = {}
  BY <1>1 DEF RowsInv, RowsMatch, Through, ToSet
<1>4. /\ <<Other>> \in Seq(Nat) /\ ToSet(<<Other>>) = {Other}
      /\ DOMAIN <<Other>> = {1}
  BY DEF Other, ToSet
<1>5. RowsOk(<<Other>>, Through', dead')
  BY <1>2, <1>3, <1>4 DEF RowsOk
<1>6. IsPrefix(<<>>, <<Other>>)
  <2>1. <<>> \in Seq(Nat) /\ <<>> \o <<Other>> = <<Other>>
    BY <1>4
  <2> QED
    BY <1>4, <2>1, PrefixOf
<1> QED
  BY <1>1, <1>4, <1>5, <1>6, MatchIsOk DEF RowsInv

-----------------------------------------------------------------------------
(* The ingestion.                                                          *)

LEMMA OtherStepsRows ==
  ASSUME LineInv, StageInv, RowsInv,
         \/ SourceYields \/ Parse \/ CutDocument \/ Embed \/ CheckTable
         \/ \E s \in {Pairing, Batching} : Gather(s)
         \/ \E s \in Stages : Flush(s) \/ StageDone(s)
  PROVE  RowsInv' /\ IsPrefix(rows, rows')
<1>1. /\ 6 \in Stages /\ 7 \in 1..7 /\ DOMAIN out = Stages /\ DOMAIN queue = 1..7
      /\ Pairing # 6 /\ Batching # 6 /\ Pairing \in Stages /\ Batching \in Stages
      /\ Parser # 6 /\ Chunker # 6 /\ Embedder # 6 /\ Parser \in Stages /\ Chunker \in Stages
      /\ Embedder \in Stages /\ Storage \in Stages
      /\ \A s \in Stages : s # 7 /\ s \in 1..7
  BY DEF Stages, Pairing, Batching, Parser, Chunker, Embedder, Storage, LineInv, FlowType
<1>2. ASSUME NEW s \in Stages, Received(s) PROVE queue'[7] = queue[7]
  BY <1>1, <1>2 DEF Received
<1>3. ASSUME NEW s \in Stages, s # 6, NEW x, Emits(s, x) \/ DeadLetters(s, x)
      PROVE  out'[6] = out[6] /\ dead \subseteq dead'
  BY <1>1, <1>3 DEF Emits, DeadLetters
<1> DEFINE Kept == /\ out'[6] = out[6] /\ queue'[7] = queue[7] /\ UNCHANGED <<delivered, rows, table>>
                   /\ (exists' = exists \/ exists' = table) /\ dead \subseteq dead'
<1>4. CASE SourceYields
  <2>1. Kept
    BY <1>1, <1>4 DEF SourceYields, storeVars
  <2> QED
    BY <2>1, ThroughKept, RowsKeep
<1>5. CASE Parse
  <2>1. Kept
    BY <1>1, <1>2, <1>3, <1>5 DEF Parse, storeVars
  <2> QED
    BY <2>1, ThroughKept, RowsKeep
<1>6. CASE CutDocument
  <2>1. Kept
    BY <1>1, <1>2, <1>3, <1>6 DEF CutDocument, storeVars
  <2> QED
    BY <2>1, ThroughKept, RowsKeep
<1>7. CASE Embed
  <2>1. Kept
    BY <1>1, <1>2, <1>3, <1>7 DEF Embed, storeVars
  <2> QED
    BY <2>1, ThroughKept, RowsKeep
<1>8. CASE CheckTable
  <2>1. Kept
    BY <1>1, <1>2, <1>8 DEF CheckTable, storeVars
  <2> QED
    BY <2>1, ThroughKept, RowsKeep
<1>9. ASSUME NEW s \in {Pairing, Batching}, Gather(s) PROVE RowsInv' /\ IsPrefix(rows, rows')
  <2>1. s \in Stages /\ s # 6
    BY <1>1
  <2>2. Received(s) /\ (\E x : Emits(s, x)) /\ UNCHANGED <<delivered, storeVars>>
    BY <1>9 DEF Gather
  <2>3. Kept
    BY <1>2, <1>3, <2>1, <2>2 DEF storeVars
  <2> QED
    BY <2>3, ThroughKept, RowsKeep
<1>10. ASSUME NEW s \in Stages, Flush(s) PROVE RowsInv' /\ IsPrefix(rows, rows')
  <2>1. /\ out[s] = <<>> /\ task[s] = "open" /\ UNCHANGED <<queue, delivered, storeVars, dead>>
        /\ out' = [out EXCEPT ![s] = IF buffer[s] = <<>> THEN <<>> ELSE <<buffer[s]>>]
    BY <1>10 DEF Flush, Ends, Emits
  <2>2. s = 6 => buffer[s] = <<>>
    BY <2>1, Unbuffered
  <2>3. Kept
    BY <1>1, <2>1, <2>2 DEF storeVars
  <2> QED
    BY <2>3, ThroughKept, RowsKeep
<1>11. ASSUME NEW s \in Stages, StageDone(s) PROVE RowsInv' /\ IsPrefix(rows, rows')
  <2>1. Kept
    BY <1>11 DEF StageDone, storeVars
  <2> QED
    BY <2>1, ThroughKept, RowsKeep
<1> QED
  BY <1>4, <1>5, <1>6, <1>7, <1>8, <1>9, <1>10, <1>11

\* The source reads on, or nothing happens.
LEMMA ReadingOn ==
  ASSUME FlowInv, RowsInv, UNCHANGED <<numbered, stageVars, storeVars>>,
         source # "open" => source' # "open"
  PROVE  FlowInv' /\ RowsInv' /\ IsPrefix(rows, rows')
<1>1. UNCHANGED <<numbered, queue, task, buffer, out, dead, delivered, table, rows, exists>>
  BY DEF stageVars, storeVars
<1>2. Keeps({}, {}, {}) /\ TaskType'
  BY <1>1 DEF Keeps, FlowInv, LineInv, FlowType, TaskType
<1>3. LineInv'
  BY <1>1, <1>2, LineSame DEF FlowInv
<1>4. StageInv'
  <2>1. Stays /\ \A s \in Stages : StageKept(s)
    BY <1>1 DEF Stays, StageKept
  <2> QED
    BY <2>1, StageKeeps DEF FlowInv, StageInv
<1>5. BatchInv'
  BY <1>1, BatchAlone DEF FlowInv, BatchInv
<1>6. Through' = Through
  BY <1>1, ThroughKept
<1>7. RowsInv' /\ IsPrefix(rows, rows')
  BY <1>1, <1>6, RowsKeep
<1> QED
  BY <1>3, <1>4, <1>5, <1>7 DEF FlowInv

LEMMA EndLine ==
  ASSUME LineInv, NEW s \in Stages, StageDone(s) PROVE LineInv'
<1>1. /\ UNCHANGED <<numbered, queue, buffer, out, dead, delivered>>
      /\ task' = [task EXCEPT ![s] = "done"]
  BY DEF StageDone, readVars
<1>2. Keeps({}, {}, {}) /\ TaskType'
  BY <1>1 DEF Keeps, LineInv, FlowType, TaskType
<1> QED
  BY <1>1, <1>2, LineSame

IngestInv == WalkInv /\ FlowInv /\ RowsInv

LEMMA IngestInit == Init => IngestInv
<1> SUFFICES ASSUME Init PROVE IngestInv
  OBVIOUS
<1>1. /\ InitSource /\ numbered = 0 /\ dead = {} /\ delivered = <<>>
      /\ table \in BOOLEAN /\ exists = FALSE /\ rows = IF table THEN <<Other>> ELSE <<>>
  BY DEF Init
<1>2. /\ DOMAIN queue = 1..7 /\ \A s \in 1..7 : queue[s] = <<>>
      /\ DOMAIN task = Stages /\ DOMAIN buffer = Stages /\ DOMAIN out = Stages
      /\ \A s \in Stages : task[s] = "open" /\ buffer[s] = <<>> /\ out[s] = <<>>
  BY DEF Init
<1>3. FlowType
  <2>1. \A S : <<>> \in Seq(S)
    OBVIOUS
  <2> QED
    BY <1>1, <1>2, <2>1 DEF FlowType, TaskType
<1>4. InSequence
  BY <1>1, <1>2, InEmpty, NoneAscending DEF InSequence
<1>5. \A p \in Places : At(p) = {}
  <2>1. At(20) = {}
    BY <1>1, Spots, NoneAscending
  <2>2. \A s \in 1..7 : At(3 * s - 2) = {}
    BY <1>2, Spots, InEmpty
  <2>3. \A s \in Stages : At(3 * s - 1) = {} /\ At(3 * s) = {}
    BY <1>2, Spots, InEmpty, NoneAscending
  <2> QED
    BY <2>1, <2>2, <2>3, SpotOf
<1>6. Ordered(Line) /\ Whole(Line, dead, numbered)
  <2>1. \A p \in Places : Line[p] = {}
    BY <1>5 DEF Line
  <2>2. 1..0 = {}
    OBVIOUS
  <2> QED
    BY <1>1, <2>1, <2>2 DEF Ordered, Whole
<1>7. StageInv
  BY <1>2 DEF StageInv, Stage
<1>8. BatchInv
  <2>1. ASSUME NEW s \in {Pairing, Batching} PROVE Batch(s)
    <3>1. s \in Stages /\ s + 1 \in 1..7
      BY DEF Pairing, Batching, Stages
    <3>2. BatchSize(s) \in Nat \ {0} /\ Len(<<>>) = 0
      BY IngestionAssumption DEF BatchSize
    <3>3. Len(buffer[s]) < BatchSize(s)
      BY <1>2, <3>1, <3>2
    <3>4. ToSet(out[s]) \cup ToSet(queue[s + 1]) = {}
      BY <1>2, <3>1, NoneAscending
    <3> QED
      BY <3>3, <3>4 DEF Batch
  <2> QED
    BY <2>1 DEF BatchInv
<1>9. RowsInv
  <2>1. rows \in Seq(Nat) /\ DOMAIN rows \subseteq {1} /\ ToSet(rows) \subseteq {Other}
    <3>1. <<Other>> \in Seq(Nat) /\ DOMAIN <<Other>> = {1} /\ ToSet(<<Other>>) = {Other}
      BY DEF Other, ToSet
    <3>2. <<>> \in Seq(Nat) /\ DOMAIN <<>> = {} /\ ToSet(<<>>) = {}
      BY NoneAscending
    <3> QED
      BY <1>1, <3>1, <3>2
  <2>2. At(18) = {} /\ At(19) = {} /\ At(20) = {}
    <3>1. 18 \in Places /\ 19 \in Places /\ 20 \in Places
      BY DEF Places
    <3> QED
      BY <1>5, <3>1
  <2>3. RowsMatch
    BY <2>1, <2>2 DEF RowsMatch
  <2> QED
    BY <1>1, <2>1, <2>3 DEF RowsInv
<1>10. WalkInv
  BY <1>1, WalkInit
<1> QED
  BY <1>3, <1>4, <1>6, <1>7, <1>8, <1>9, <1>10 DEF IngestInv, FlowInv, LineInv

LEMMA FlowStep ==
  ASSUME WalkInv, FlowInv, RowsInv, Next PROVE FlowInv' /\ RowsInv' /\ IsPrefix(rows, rows')
<1>0. LineInv /\ StageInv /\ BatchInv
  BY DEF FlowInv
<1>1. CASE SourceYields
  <2>1. Head(pending) \in Files
    <3>1. pending \in Seq(Files) /\ pending # <<>>
      BY <1>1 DEF SourceYields, Yield, WalkInv, WalkType
    <3> QED
      BY <3>1
  <2>2. LineInv' /\ StageInv' /\ BatchInv'
    BY <1>0, <1>1, <2>1, YieldLine, YieldStage, QuietBatch
  <2> QED
    BY <1>0, <1>1, <2>2, OtherStepsRows DEF FlowInv
<1>2. CASE (ReadEntry \/ DirDone \/ Exhausted \/ SourceFails) /\ UNCHANGED <<numbered, stageVars, storeVars>>
  <2>1. source = "open"
    BY <1>2 DEF ReadEntry, DirDone, Exhausted, SourceFails, Reading
  <2> QED
    BY <1>2, <2>1, ReadingOn
<1>3. CASE Deliver
  <2>1. LineInv' /\ StageInv' /\ BatchInv'
    BY <1>0, <1>3, DeliverLine, DeliverStage, QuietBatch
  <2> QED
    BY <1>0, <1>3, <2>1, DeliverRows DEF FlowInv
<1>4. CASE OtherCreates
  <2>1. UNCHANGED <<numbered, source, queue, task, buffer, out, dead, delivered>>
    BY <1>4 DEF OtherCreates, readVars, sourceVars, stageVars
  <2>2. Keeps({}, {}, {}) /\ TaskType'
    BY <1>0, <2>1 DEF Keeps, LineInv, FlowType, TaskType
  <2>3. LineInv'
    BY <1>0, <2>1, <2>2, LineSame
  <2>4. StageInv'
    <3>1. Stays /\ \A s \in Stages : StageKept(s)
      BY <2>1 DEF Stays, StageKept
    <3> QED
      BY <1>0, <3>1, StageKeeps DEF StageInv
  <2>5. BatchInv'
    BY <1>0, <2>1, BatchAlone DEF BatchInv
  <2> QED
    BY <1>4, <2>3, <2>4, <2>5, OtherRows DEF FlowInv
<1>5. ASSUME NEW s \in Stages, Step(s) PROVE FlowInv' /\ RowsInv' /\ IsPrefix(rows, rows')
  <2>1. CASE Send(s)
    <3>1. LineInv' /\ StageInv' /\ BatchInv'
      BY <1>0, <2>1, SendLine, SendStage, SendBatch
    <3> QED
      BY <1>0, <2>1, <3>1, SendRows DEF FlowInv
  <2>2. CASE Flush(s)
    <3>1. LineInv' /\ StageInv' /\ BatchInv'
      BY <1>0, <2>2, FlushLine, FlushStage, EndBatch
    <3> QED
      BY <1>0, <2>2, <3>1, OtherStepsRows DEF FlowInv
  <2>3. CASE StageDone(s)
    <3>1. LineInv' /\ StageInv' /\ BatchInv'
      BY <1>0, <2>3, EndLine, DoneStage, EndBatch
    <3> QED
      BY <1>0, <2>3, <3>1, OtherStepsRows DEF FlowInv
  <2>4. CASE Parse
    <3>1. LineInv' /\ StageInv' /\ BatchInv'
      BY <1>0, <2>4, ParseLine, NodeStage, NodeBatch
    <3> QED
      BY <1>0, <2>4, <3>1, OtherStepsRows DEF FlowInv
  <2>5. CASE CutDocument
    <3>1. LineInv' /\ StageInv' /\ BatchInv'
      BY <1>0, <2>5, CutLine, NodeStage, NodeBatch
    <3> QED
      BY <1>0, <2>5, <3>1, OtherStepsRows DEF FlowInv
  <2>6. CASE s \in {Pairing, Batching} /\ Gather(s)
    <3>1. LineInv' /\ StageInv' /\ BatchInv'
      BY <1>0, <2>6, GatherLine, NodeStage, GatherBatch
    <3> QED
      BY <1>0, <2>6, <3>1, OtherStepsRows DEF FlowInv
  <2>7. CASE Embed
    <3>1. LineInv' /\ StageInv' /\ BatchInv'
      BY <1>0, <2>7, EmbedLine, NodeStage, NodeBatch
    <3> QED
      BY <1>0, <2>7, <3>1, OtherStepsRows DEF FlowInv
  <2>8. CASE CheckTable
    <3>1. LineInv' /\ StageInv' /\ BatchInv'
      BY <1>0, <2>8, CheckLine, CheckStage, NodeBatch
    <3> QED
      BY <1>0, <2>8, <3>1, OtherStepsRows DEF FlowInv
  <2>9. CASE AddRows \/ CreateTable \/ StoreFails
    <3>1. PICK ok : StoreAnswers(ok)
      BY <2>9 DEF AddRows, CreateTable, StoreFails
    <3>2. LineInv' /\ StageInv' /\ BatchInv'
      BY <1>0, <3>1, AnswerLine, AnswerStage, QuietBatch
    <3> QED
      BY <1>0, <2>9, <3>2, AnswerRows DEF FlowInv
  <2> QED
    BY <1>5, <2>1, <2>2, <2>3, <2>4, <2>5, <2>6, <2>7, <2>8, <2>9 DEF Step
<1>6. CASE UNCHANGED vars
  BY <1>6, ReadingOn DEF vars, readVars, sourceVars, stageVars, storeVars
<1> QED
  BY <1>1, <1>2, <1>3, <1>4, <1>5, <1>6 DEF Next, Source

LEMMA IngestStep ==
  ASSUME IngestInv, [Next]_vars PROVE IngestInv' /\ [IsPrefix(rows, rows')]_rows
<1>1. SourceStep \/ UNCHANGED sourceVars
  <2>1. CASE Source
    BY <2>1 DEF Source, SourceYields, SourceStep
  <2>2. CASE Deliver \/ OtherCreates \/ UNCHANGED vars
    BY <2>2 DEF Deliver, OtherCreates, readVars, vars
  <2>3. ASSUME NEW s \in Stages, Step(s) PROVE UNCHANGED sourceVars
    BY <2>3 DEF Step, Send, Flush, StageDone, Parse, CutDocument, Gather, Embed, CheckTable,
                AddRows, CreateTable, StoreFails, StoreAnswers, readVars
  <2> QED
    BY <2>1, <2>2, <2>3 DEF Next
<1>2. WalkInv'
  BY <1>1, WalkStep DEF IngestInv
<1>3. FlowInv' /\ RowsInv' /\ [IsPrefix(rows, rows')]_rows
  <2>1. CASE Next
    BY <2>1, FlowStep DEF IngestInv
  <2>2. CASE UNCHANGED vars
    <3>1. UNCHANGED <<numbered, stageVars, storeVars>> /\ source' = source /\ rows' = rows
      BY <2>2 DEF vars, readVars, sourceVars, storeVars
    <3> QED
      BY <3>1, ReadingOn DEF IngestInv
  <2> QED
    BY <2>1, <2>2
<1> QED
  BY <1>2, <1>3 DEF IngestInv

LEMMA ChunksOnce == FlowInv => EveryChunkOnce
<1> SUFFICES ASSUME FlowInv PROVE EveryChunkOnce
  OBVIOUS
<1>0. LineInv /\ StageInv /\ BatchInv /\ Ordered(Line) /\ Whole(Line, dead, numbered)
  BY DEF FlowInv, LineInv
<1>1. InOrder
  <2>1. \A p, q \in Places : p < q => \A m \in At(q), n \in At(p) : m < n
    BY <1>0, Behind
  <2> QED
    BY <1>0, <2>1 DEF InOrder, LineInv, InSequence
<1>2. /\ dead \subseteq 1..numbered /\ \A p \in Places : At(p) \subseteq (1..numbered) \ dead
      /\ \A i \in (1..numbered) \ dead : \E p \in Places : i \in At(p)
  BY <1>0 DEF Whole, Line
<1>3. LET alive == UNION {At(p) : p \in Places}
      IN  alive \cup dead = 1..numbered /\ alive \cap dead = {}
  BY <1>2
<1>4. ASSUME Over PROVE ToSet(delivered) = (1..numbered) \ dead
  <2>1. \A s \in Stages : buffer[s] = <<>> /\ queue[s] = <<>> /\ out[s] = <<>>
    BY <1>0, <1>4 DEF Over, StageInv, Stage
  <2>2. \A s \in 1..7 : queue[s] = <<>>
    BY <1>4, <2>1 DEF Over, Stages
  <2>3. \A s \in 1..7 : At(3 * s - 2) = {}
    BY <2>2, Spots, InEmpty
  <2>4. \A s \in Stages : At(3 * s - 1) = {} /\ At(3 * s) = {}
    BY <2>1, Spots, InEmpty, NoneAscending
  <2>5. \A p \in Places : p = 20 \/ At(p) = {}
    BY <2>3, <2>4, SpotOf
  <2>6. At(20) = ToSet(delivered) /\ 20 \in Places
    BY Spots, SpotOf
  <2> QED
    BY <1>2, <2>5, <2>6
<1> QED
  BY <1>0, <1>1, <1>3, <1>4 DEF EveryChunkOnce, BatchInv, Batch

\* Every file below the path comes into the pipeline once, and every chunk of it is
\* at one place of the pipeline, in order, or dead-lettered, for every tree, every
\* split of its files and every size of channels and batches
\* (file_source.rs:85-106, pipeline.rs:286-308, chunk.rs:47-116).
THEOREM FilesAndChunks == Spec => []EveryFileAndChunkOnce
<1>1. Init => IngestInv
  BY IngestInit
<1>2. IngestInv /\ [Next]_vars => IngestInv'
  BY IngestStep
<1>3. IngestInv => EveryFileAndChunkOnce
  BY ChunksOnce DEF IngestInv, WalkInv, EveryFileAndChunkOnce
<1> QED
  BY <1>1, <1>2, <1>3, PTL DEF Spec

\* The table has what went downstream of the store, once, and otherwise only what was
\* reported as failed or is of another writer; and it only grows (store/mod.rs:91-98).
THEOREM RowsSafe == Spec => RowsKept
<1>1. Init => IngestInv
  BY IngestInit
<1>2. IngestInv /\ [Next]_vars => IngestInv' /\ [IsPrefix(rows, rows')]_rows
  BY IngestStep
<1>3. IngestInv => RowsMatch
  BY DEF IngestInv, RowsInv
<1> QED
  BY <1>1, <1>2, <1>3, PTL DEF Spec, RowsKept
=============================================================================
