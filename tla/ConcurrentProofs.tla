-------------------------- MODULE ConcurrentProofs --------------------------
(***************************************************************************)
(* The OrderingNode alone and in a concurrent stage, for every number of   *)
(* items and workers and all faults.                                       *)
(*                                                                         *)
(* The node: retried and dropped calls and a flush at any time included,   *)
(* the batches come out in the order of the sequence ids, none of the      *)
(* outputs is swallowed, and only errors delay them.                       *)
(* The stage: it implements module Ordering, so all that is proved of the  *)
(* node holds of the node in the stage; and every item it has taken is     *)
(* delivered, dead-lettered or filtered, once, unless something fails.     *)
(***************************************************************************)
EXTENDS ConcurrentStage, FiniteSetTheorems, SequenceTheorems, TLAPS

-----------------------------------------------------------------------------
(* The OrderingNode.                                                       *)


\* Everything below next has been through the buffer, and until the flush everything
\* executed is below next or in the buffer; an id in the buffer below next has been
\* retried; what was released, but by the flush, is below next.
Position ==
  /\ \A i \in Items : i < next => call[i] \in {"done", "failed"} \/ i \in retried
  /\ \A i \in queued : \/ i >= next /\ call[i] \in {"done", "failed"}
                       \/ i \in retried
  /\ \A j \in DOMAIN released : j # flushed => \A x \in released[j] : x < next
  /\ flushed = 0 =>
       \A i \in Items : call[i] \in {"done", "failed"} => i < next \/ i \in queued

\* The drain has left nothing it could take: at its head there is at most the
\* tombstone of an item that has not succeeded since.
HeadWaits == next \in queued => next \notin ready /\ call[next] # "done"

\* An output is made by the last execute of its id.
MadeOnce == \A i \in produced : call[i] = "done"

OrderInv ==
  /\ OrderingTypeOK /\ Position /\ HeadWaits /\ MadeOnce
  /\ ReleasedInOrder /\ NothingSwallowed

LEMMA AppendBatch ==
  ASSUME NEW S, NEW s \in Seq(S), NEW b \in S
  PROVE  /\ Append(s, b) \in Seq(S)
         /\ Len(Append(s, b)) = Len(s) + 1
         /\ DOMAIN Append(s, b) = DOMAIN s \cup {Len(s) + 1}
         /\ Len(s) + 1 \notin DOMAIN s
         /\ \A j \in DOMAIN s : Append(s, b)[j] = s[j] /\ j < Len(s) + 1
         /\ Append(s, b)[Len(s) + 1] = b
OBVIOUS

LEMMA AppendReleases ==
  ASSUME OrderingTypeOK, NEW b \in SUBSET Items, released' = Append(released, b)
  PROVE  AllReleased' = AllReleased \cup b
<1>1. /\ DOMAIN released' = DOMAIN released \cup {Len(released) + 1}
      /\ \A j \in DOMAIN released : released'[j] = released[j]
      /\ released'[Len(released) + 1] = b
  BY AppendBatch DEF OrderingTypeOK
<1>2. \A x : x \in AllReleased <=> \E j \in DOMAIN released : x \in released[j]
  BY DEF AllReleased, Range
<1>3. \A x : x \in AllReleased' <=> \E j \in DOMAIN released' : x \in released'[j]
  BY DEF AllReleased, Range
<1>4. \A x : x \in AllReleased' <=> x \in AllReleased \/ x \in b
  BY <1>1, <1>2, <1>3, Zenon
<1> QED
  BY <1>4

\* A batch keeps the order that is above everything released before it, except by
\* the flush; if it is the flush's own, retried ids are excused.
Above(b, excused) ==
  \A j \in DOMAIN released : j # flushed =>
    \A x \in released[j], y \in b : x < y \/ y \in excused

LEMMA AppendInOrder ==
  ASSUME OrderingTypeOK, ReleasedInOrder, NEW b \in SUBSET Items, NEW excused,
         released' = Append(released, b), retried' = retried, Above(b, excused),
         \/ flushed' = flushed /\ excused = {}
         \/ flushed = 0 /\ flushed' = Len(released) + 1 /\ excused = retried
  PROVE  ReleasedInOrder'
<1>1. /\ DOMAIN released' = DOMAIN released \cup {Len(released) + 1}
      /\ \A j \in DOMAIN released : released'[j] = released[j] /\ j < Len(released) + 1
      /\ released'[Len(released) + 1] = b
  BY AppendBatch DEF OrderingTypeOK
<1>2. DOMAIN released \subseteq Nat \ {0} /\ Len(released) \in Nat
  BY DEF OrderingTypeOK
<1> SUFFICES ASSUME NEW j \in DOMAIN released', NEW k \in DOMAIN released',
                    j < k, j # flushed'
             PROVE  \A x \in released'[j], y \in released'[k] :
                      x < y \/ (k = flushed' /\ y \in retried')
  BY DEF ReleasedInOrder
<1>3. j \in DOMAIN released
  BY <1>1, <1>2
<1>4. j # flushed
  BY <1>2, <1>3
<1>5. CASE k \in DOMAIN released
  <2>1. k = flushed => k = flushed'
    BY <1>2, <1>5
  <2> QED
    BY <1>1, <1>3, <1>4, <1>5, <2>1 DEF ReleasedInOrder
<1>6. CASE k = Len(released) + 1
  BY <1>1, <1>3, <1>4, <1>6 DEF Above
<1> QED
  BY <1>1, <1>5, <1>6

LEMMA OrderInit == InitOrdering => OrderInv
<1> SUFFICES ASSUME InitOrdering PROVE OrderInv
  OBVIOUS
<1>1. OrderingTypeOK
  <2>1. next \in 1..(NumItems + 1)
    BY OrderingAssumption DEF InitOrdering
  <2>2. released \in Seq(SUBSET Items) /\ flushed \in 0..Len(released)
    BY DEF InitOrdering
  <2> QED
    BY <2>1, <2>2 DEF InitOrdering, OrderingTypeOK
<1>2. Position
  BY DEF InitOrdering, Position, Items
<1>3. ReleasedInOrder
  BY DEF InitOrdering, ReleasedInOrder
<1>4. NothingSwallowed
  BY DEF InitOrdering, NothingSwallowed, AllReleased, Range
<1>5. HeadWaits /\ MadeOnce
  BY DEF InitOrdering, HeadWaits, MadeOnce
<1> QED
  BY <1>1, <1>2, <1>3, <1>4, <1>5 DEF OrderInv

\* The step of the drain: from any execute that succeeds.
LEMMA DrainStep ==
  ASSUME OrderInv, NEW i \in Items, NEW hasOutput \in BOOLEAN, InnerOk(i, hasOutput)
  PROVE  OrderInv'
<1> USE DEF OrderInv, OrderingTypeOK
<1> DEFINE keys == queued \cup {i}
           full == IF hasOutput THEN ready \cup {i} ELSE ready
<1>1. /\ Drain(keys, full) /\ call' = [call EXCEPT ![i] = "done"]
      /\ flushed' = flushed /\ retried' = retried /\ call[i] = "inner"
      /\ produced' = IF hasOutput THEN produced \cup {i} ELSE produced
      /\ late' = IF flushed > 0 THEN late \cup {i} ELSE late
  BY DEF InnerOk
<1>2. PICK gap \in next..(NumItems + 1) :
        /\ gap \notin keys
        /\ next..(gap - 1) \subseteq keys
        /\ next' = gap
        /\ queued' = keys \ (next..(gap - 1))
        /\ ready' = full \ (next..(gap - 1))
        /\ released' = Append(released, full \cap (next..(gap - 1)))
  BY <1>1 DEF Drain
<1> DEFINE batch == full \cap (next..(gap - 1))
<1>3. next \in Nat /\ gap \in Nat /\ next <= gap /\ next >= 1 /\ gap \in 1..(NumItems + 1)
  BY OrderingAssumption
<1>4. \A x \in Items : x \in Nat /\ x >= 1
  BY OrderingAssumption DEF Items
<1>5. i >= next \/ i \in retried
  BY <1>1, <1>3, <1>4 DEF Position
<1>6. full \in SUBSET Items /\ full \subseteq keys /\ keys \subseteq Items /\ batch \in SUBSET Items
  OBVIOUS
<1>7. \A x \in keys : call'[x] \in {"done", "failed"} \/ x \in retried
  BY <1>1 DEF Position
<1>8. OrderingTypeOK'
  <2>1. released' \in Seq(SUBSET Items) /\ Len(released') = Len(released) + 1
    BY <1>2, <1>6, AppendBatch
  <2>2. next' \in 1..(NumItems + 1) /\ queued' \subseteq Items /\ ready' \subseteq queued'
    BY <1>2, <1>3, <1>6
  <2>3. call' \in [Items -> {"idle", "inner", "done", "failed", "dropped"}]
    BY <1>1
  <2>4. produced' \subseteq Items /\ late' \subseteq Items /\ retried' \subseteq Items
    BY <1>1
  <2>5. flushed' \in 0..Len(released')
    BY <1>1, <2>1
  <2> QED
    BY <2>1, <2>2, <2>3, <2>4, <2>5
<1>9. Position'
  <2>1. ASSUME NEW x \in Items, x < gap
        PROVE  call'[x] \in {"done", "failed"} \/ x \in retried
    <3>1. CASE x < next
      BY <1>1, <3>1 DEF Position
    <3>2. CASE x >= next
      BY <1>2, <1>3, <1>4, <1>7, <2>1, <3>2
    <3> QED
      BY <1>3, <1>4, <3>1, <3>2
  <2>2. ASSUME NEW x \in queued'
        PROVE  (x >= gap /\ call'[x] \in {"done", "failed"}) \/ x \in retried
    <3>1. x \in keys /\ x \notin next..(gap - 1)
      BY <1>2, <2>2
    <3>2. x >= next \/ x \in retried
      BY <1>5, <3>1 DEF Position
    <3> QED
      BY <1>3, <1>4, <1>6, <1>7, <3>1, <3>2
  <2>3. ASSUME NEW j \in DOMAIN released', j # flushed, NEW x \in released'[j]
        PROVE  x < gap
    <3>1. CASE j \in DOMAIN released
      <4>1. released'[j] = released[j]
        BY <1>2, <1>6, <3>1, AppendBatch
      <4>2. x \in Items /\ x < next
        BY <4>1, <2>3, <3>1 DEF Position
      <4> QED
        BY <1>3, <1>4, <4>2
    <3>2. CASE j = Len(released) + 1
      <4>1. released'[j] = batch
        BY <1>2, <1>6, <3>2, AppendBatch
      <4> QED
        BY <1>3, <2>3, <4>1
    <3> QED
      BY <1>2, <1>6, <3>1, <3>2, AppendBatch
  <2>4. ASSUME flushed = 0, NEW x \in Items, call'[x] \in {"done", "failed"}
        PROVE  x < gap \/ x \in queued'
    <3>1. x < next \/ x \in keys
      BY <1>1, <2>4 DEF Position
    <3> QED
      BY <1>2, <1>3, <1>4, <3>1
  <2> QED
    BY <1>1, <1>2, <2>1, <2>2, <2>3, <2>4 DEF Position
<1>10. ReleasedInOrder'
  <2>1. PICK b \in SUBSET Items : b = batch
    BY <1>6
  <2>2. \A y \in b : y >= next
    BY <1>3, <2>1
  <2>3. Above(b, {})
    <3>1. \A j \in DOMAIN released : released[j] \in SUBSET Items
      OBVIOUS
    <3> QED
      BY <1>3, <1>4, <2>2, <3>1 DEF Position, Above
  <2>4. released' = Append(released, b) /\ retried' = retried /\ flushed' = flushed
    BY <1>1, <1>2, <2>1
  <2>5. OrderingTypeOK /\ ReleasedInOrder
    OBVIOUS
  <2> HIDE DEF OrderInv, OrderingTypeOK
  <2> QED
    BY <2>3, <2>4, <2>5, AppendInOrder
<1>11. HeadWaits'
  BY <1>2 DEF HeadWaits
<1>12. MadeOnce'
  BY <1>1 DEF MadeOnce
<1>13. NothingSwallowed'
  <2>1. AllReleased' = AllReleased \cup batch
    <3>1. OrderingTypeOK /\ released' = Append(released, batch) /\ batch \in SUBSET Items
      BY <1>2, <1>6
    <3> HIDE DEF batch, OrderInv, OrderingTypeOK
    <3> QED
      BY <3>1, AppendReleases
  <2>2. i \notin produced
    BY <1>1 DEF MadeOnce
  <2>3. batch \cup ready' = full /\ batch \cap ready' = {}
    BY <1>2
  <2>4. AllReleased \cup full = produced' /\ AllReleased \cap full = {}
    BY <1>1, <2>2 DEF NothingSwallowed
  <2>5. flushed' > 0 => ready' \subseteq late'
    BY <1>1, <1>2 DEF NothingSwallowed
  <2> QED
    BY <2>1, <2>3, <2>4, <2>5 DEF NothingSwallowed
<1> QED
  BY <1>8, <1>9, <1>10, <1>11, <1>12, <1>13

\* Begin and a dropped call leave the buffer and the batches alone.
LEMMA CallStep ==
  ASSUME OrderInv, NEW i \in Items, Begin(i) \/ CallDropped(i)
  PROVE  OrderInv'
<1> USE DEF OrderInv, OrderingTypeOK
<1>1. UNCHANGED <<next, queued, ready, flushed, released, produced, late>>
  BY DEF Begin, CallDropped
<1>2. PICK label \in {"inner", "dropped"} : call' = [call EXCEPT ![i] = label]
  BY DEF Begin, CallDropped
<1>3. /\ retried \subseteq retried' /\ retried' \subseteq Items
      /\ call[i] \in {"idle", "inner", "dropped"} \/ i \in retried'
      /\ call[i] # "done"
  BY DEF Begin, CallDropped
<1>4. OrderingTypeOK'
  BY <1>1, <1>2, <1>3
<1>5. Position'
  <2>1. ASSUME NEW x \in Items, x < next
        PROVE  call'[x] \in {"done", "failed"} \/ x \in retried'
    BY <1>2, <1>3, <2>1 DEF Position
  <2>2. ASSUME NEW x \in queued
        PROVE  (x >= next /\ call'[x] \in {"done", "failed"}) \/ x \in retried'
    BY <1>2, <1>3, <2>2 DEF Position
  <2>3. ASSUME flushed = 0, NEW x \in Items, call'[x] \in {"done", "failed"}
        PROVE  x < next \/ x \in queued
    BY <1>2, <2>3 DEF Position
  <2> QED
    BY <1>1, <2>1, <2>2, <2>3 DEF Position
<1>6. ReleasedInOrder'
  BY <1>1, <1>3 DEF ReleasedInOrder
<1>7. HeadWaits' /\ MadeOnce' /\ NothingSwallowed'
  <2>1. HeadWaits'
    BY <1>1, <1>2 DEF HeadWaits
  <2>2. MadeOnce'
    BY <1>1, <1>2, <1>3 DEF MadeOnce
  <2>3. NothingSwallowed'
    BY <1>1 DEF NothingSwallowed, AllReleased
  <2> QED
    BY <2>1, <2>2, <2>3
<1> QED
  BY <1>4, <1>5, <1>6, <1>7

LEMMA ErrStep ==
  ASSUME OrderInv, NEW i \in Items, InnerErr(i)
  PROVE  OrderInv'
<1> USE DEF OrderInv, OrderingTypeOK
<1>1. /\ call[i] = "inner" /\ call' = [call EXCEPT ![i] = "failed"]
      /\ queued' = queued \cup {i} /\ ready' = ready \ {i}
      /\ UNCHANGED <<next, flushed, released, produced, retried, late>>
  BY DEF InnerErr
<1>2. i \notin produced
  BY <1>1 DEF MadeOnce
<1>3. next \in Nat /\ i \in Nat
  BY OrderingAssumption DEF Items
<1>4. OrderingTypeOK'
  BY <1>1
<1>5. Position'
  <2>1. i >= next \/ i \in retried
    BY <1>1, <1>3 DEF Position
  <2>2. \A x \in Items : x < next => call'[x] \in {"done", "failed"} \/ x \in retried
    BY <1>1 DEF Position
  <2>3. \A x \in queued' : (x >= next /\ call'[x] \in {"done", "failed"}) \/ x \in retried
    BY <1>1, <2>1 DEF Position
  <2>4. flushed = 0 =>
          \A x \in Items : call'[x] \in {"done", "failed"} => x < next \/ x \in queued'
    BY <1>1 DEF Position
  <2> QED
    BY <1>1, <2>2, <2>3, <2>4 DEF Position
<1>6. ReleasedInOrder'
  BY <1>1 DEF ReleasedInOrder
<1>7. HeadWaits' /\ MadeOnce'
  BY <1>1 DEF HeadWaits, MadeOnce
<1>8. NothingSwallowed'
  BY <1>1, <1>2 DEF NothingSwallowed, AllReleased
<1> QED
  BY <1>4, <1>5, <1>6, <1>7, <1>8

LEMMA FlushKeeps ==
  ASSUME OrderInv, FlushBuffer
  PROVE  OrderInv'
<1> USE DEF OrderInv, OrderingTypeOK
<1>1. /\ flushed = 0 /\ flushed' = Len(released) + 1
      /\ released' = Append(released, ready) /\ queued' = {} /\ ready' = {}
      /\ UNCHANGED <<next, call, produced, retried, late>>
  BY DEF FlushBuffer
<1>2. ready \in SUBSET Items /\ Len(released) \in Nat
  OBVIOUS
<1>3. released' \in Seq(SUBSET Items) /\ Len(released') = Len(released) + 1
  BY <1>1, <1>2, AppendBatch
<1>4. OrderingTypeOK'
  BY <1>1, <1>2, <1>3
<1>5. Position'
  <2>1. ASSUME NEW j \in DOMAIN released', j # flushed', NEW x \in released'[j]
        PROVE  x < next
    <3>1. j \in DOMAIN released /\ released'[j] = released[j]
      BY <1>1, <1>2, <2>1, AppendBatch
    <3>2. j # flushed
      BY <1>1, <3>1
    <3> QED
      BY <2>1, <3>1, <3>2 DEF Position
  <2> QED
    BY <1>1, <1>2, <2>1 DEF Position
<1>6. ReleasedInOrder'
  <2>1. Above(ready, retried)
    <3>1. \A j \in DOMAIN released : released[j] \in SUBSET Items /\ j # 0
      OBVIOUS
    <3>2. \A j \in DOMAIN released : \A x \in released[j] : x < next /\ x \in Int
      <4>1. \A j \in DOMAIN released : j # flushed
        BY <1>1, <3>1
      <4>2. \A x \in Items : x \in Int
        BY DEF Items
      <4>3. \A j \in DOMAIN released : \A x \in released[j] : x < next
        BY <4>1 DEF Position
      <4> QED
        BY <3>1, <4>2, <4>3
    <3>3. \A y \in ready : (y >= next \/ y \in retried) /\ y \in Int /\ next \in Int
      <4>1. \A y \in ready : y >= next \/ y \in retried
        BY DEF Position
      <4>2. \A y \in ready : y \in Int
        BY DEF Items
      <4>3. next \in Int
        BY OrderingAssumption
      <4> QED
        BY <4>1, <4>2, <4>3
    <3> QED
      BY <3>2, <3>3 DEF Above
  <2>2. OrderingTypeOK /\ ReleasedInOrder
    OBVIOUS
  <2> HIDE DEF OrderInv, OrderingTypeOK
  <2> QED
    BY <1>1, <1>2, <2>1, <2>2, AppendInOrder
<1>7. HeadWaits' /\ MadeOnce'
  BY <1>1 DEF HeadWaits, MadeOnce
<1>8. NothingSwallowed'
  <2>1. AllReleased' = AllReleased \cup ready
    <3>1. OrderingTypeOK /\ released' = Append(released, ready) /\ ready \in SUBSET Items
      BY <1>1, <1>2
    <3> HIDE DEF OrderInv, OrderingTypeOK
    <3> QED
      BY <3>1, AppendReleases
  <2> QED
    BY <1>1, <2>1 DEF NothingSwallowed
<1> QED
  BY <1>4, <1>5, <1>6, <1>7, <1>8

LEMMA OrderStep == OrderInv /\ [NextOrdering]_orderingVars => OrderInv'
<1> SUFFICES ASSUME OrderInv, [NextOrdering]_orderingVars PROVE OrderInv'
  OBVIOUS
<1>1. ASSUME UNCHANGED orderingVars PROVE OrderInv'
  BY <1>1 DEF orderingVars, OrderInv, OrderingTypeOK, Position, HeadWaits, MadeOnce,
              ReleasedInOrder, NothingSwallowed, AllReleased
<1> QED
  BY <1>1, CallStep, DrainStep, ErrStep, FlushKeeps DEF NextOrdering

\* Once every item has been executed, what is between next and an output that waits
\* has been through the buffer; so next itself is there, and it is a failed item.
LEMMA DelayFromInv == OrderInv => OnlyErrorsDelay
<1> SUFFICES ASSUME OrderInv, flushed = 0,
                    \A i \in Items : call[i] \in {"done", "failed"},
                    NEW x \in ready
             PROVE  \/ x < next /\ x \in retried
                    \/ next < x /\ next \in queued \ ready /\ call[next] = "failed"
  BY DEF OnlyErrorsDelay
<1> USE DEF OrderInv, OrderingTypeOK
<1>1. x \in Items /\ x \in Nat /\ next \in Nat /\ next >= 1 /\ x <= NumItems
  BY OrderingAssumption DEF Items
<1>2. CASE x < next
  BY <1>1, <1>2 DEF Position
<1>3. CASE x >= next
  <2>1. next \in Items
    BY <1>1, <1>3, OrderingAssumption DEF Items
  <2>2. next \in queued
    BY <1>1, <2>1 DEF Position
  <2>3. next \notin ready /\ call[next] = "failed"
    BY <2>1, <2>2 DEF HeadWaits
  <2> QED
    BY <1>1, <1>3, <2>2, <2>3
<1> QED
  BY <1>1, <1>2, <1>3

\* The node's inductive invariant (ordering.rs:76-176).
THEOREM OrderInvariance == OrderingSpec => []OrderInv
<1>1. InitOrdering => OrderInv
  BY OrderInit
<1>2. OrderInv /\ [NextOrdering]_orderingVars => OrderInv'
  BY OrderStep
<1> QED
  BY <1>1, <1>2, PTL DEF OrderingSpec

\* "emits them strictly in the order of their sequence IDs" (ordering.rs:25-26), for
\* all callers; and "no data loss" and the latency note (ordering.rs:35-39).
THEOREM ReleaseOrder == OrderingSpec => [](ReleasedInOrder /\ NothingSwallowed)
<1>1. OrderInv => ReleasedInOrder /\ NothingSwallowed
  BY DEF OrderInv
<1> QED
  BY <1>1, OrderInvariance, PTL

THEOREM BoundedDelay == OrderingSpec => []OnlyErrorsDelay
  BY DelayFromInv, OrderInvariance, PTL

-----------------------------------------------------------------------------
(* The stage around it.                                                    *)

\* A plain node leaves the state of the OrderingNode alone, but for its calls.
Untouched == flushed = 0 /\ released = <<>> /\ ready = {} /\ produced = {}

\* The stage breaks off only after a fault; without one it goes to its flush when
\* the JoinSet is empty, and then nothing starts a worker any more.
Orderly ==
  /\ \A i \in Items : worker[i] \in {"fatal", "panicked"} => faults # {}
  /\ loop = "report" => faults # {}
  /\ loop = "flush" /\ faults = {} => InSet = {}

StageInv ==
  /\ taken \in 0..NumItems
  /\ worker \in [Items -> {"none", "reaped"} \cup Running \cup Ended]
  /\ Orderly
  /\ Ordered => OrderInv
  /\ ~Ordered => Untouched

LEMMA StageInit == Init => StageInv
<1> SUFFICES ASSUME Init PROVE StageInv
  OBVIOUS
<1>1. taken \in 0..NumItems /\ worker \in [Items -> {"none", "reaped"} \cup Running \cup Ended]
  BY OrderingAssumption DEF Init
<1>2. Orderly
  BY DEF Init, Orderly
<1>3. OrderInv
  BY OrderInit DEF Init
<1>4. Untouched
  BY DEF Init, InitOrdering, Untouched
<1> QED
  BY <1>1, <1>2, <1>3, <1>4 DEF StageInv

\* Every step of the stage is one of the node, or leaves the node alone.
LEMMA NodeStep ==
  ASSUME StageInv, Next
  PROVE  /\ Ordered => NextOrdering \/ UNCHANGED orderingVars
         /\ ~Ordered => UNCHANGED <<ready, flushed, released, produced>>
<1>1. CASE LoopStep
  <2>1. CASE Recv
    <3>1. UNCHANGED orderingVars \/ Begin(taken + 1)
      BY <2>1 DEF Recv
    <3>2. taken + 1 \in Items
      BY <2>1, OrderingAssumption DEF Recv, StageInv, Items
    <3> QED
      BY <3>1, <3>2 DEF NextOrdering, Begin, orderingVars
  <2>2. CASE RecvNone \/ ReportPanic \/ LoopEnds \/ \E i \in Items : Join(i)
    BY <2>2 DEF RecvNone, ReportPanic, LoopEnds, Join, orderingVars
  <2> QED
    BY <1>1, <2>1, <2>2 DEF LoopStep
<1>2. CASE FlushStep \/ Take
  BY <1>2 DEF FlushStep, FlushNode, FlushSend, StageEnds, Take, NextOrdering,
              FlushBuffer, orderingVars
<1>3. ASSUME NEW i \in Items, WorkerStep(i) \/ ExecutePanics(i) \/ WorkerAborted(i)
      PROVE  /\ Ordered => NextOrdering \/ UNCHANGED orderingVars
             /\ ~Ordered => UNCHANGED <<ready, flushed, released, produced>>
  <2>1. CASE Executed(i)
    BY <2>1 DEF Executed, Return, NextOrdering
  <2>2. CASE ExecuteFails(i) \/ Again(i) \/ ExecutePanics(i) \/ WorkerAborted(i)
    BY <2>2 DEF ExecuteFails, Again, ExecutePanics, WorkerAborted, Return, Begin,
                CallDropped, NextOrdering, orderingVars
  <2>3. CASE Send(i) \/ SendFails(i) \/ SendError(i)
    BY <2>3 DEF Send, SendFails, SendError, orderingVars
  <2> QED
    BY <1>3, <2>1, <2>2, <2>3 DEF WorkerStep
<1>4. CASE \E f \in Faults : EnvironmentFails(f)
  BY <1>4 DEF EnvironmentFails, orderingVars
<1>5. CASE UNCHANGED vars
  BY <1>5 DEF vars, orderingVars
<1> QED
  BY <1>1, <1>2, <1>3, <1>4, <1>5 DEF Next

LEMMA OrderlyStep ==
  ASSUME StageInv, Next
  PROVE  /\ taken' \in 0..NumItems
         /\ worker' \in [Items -> {"none", "reaped"} \cup Running \cup Ended]
         /\ Orderly'
<1> USE DEF StageInv, Orderly
<1> DEFINE Good == /\ taken' \in 0..NumItems
                   /\ worker' \in [Items -> {"none", "reaped"} \cup Running \cup Ended]
                   /\ Orderly'
<1>1. CASE Recv
  BY <1>1, OrderingAssumption DEF Recv, WorkerGoto, InSet, Running, Ended, Gone
<1>2. CASE RecvNone \/ ReportPanic \/ LoopEnds \/ FlushStep \/ Take
  BY <1>2 DEF RecvNone, ReportPanic, LoopEnds, FlushStep, FlushNode, FlushSend,
              StageEnds, Take, InSet
<1>3. ASSUME NEW i \in Items, Join(i) PROVE Good
  <2>1. /\ worker[i] \in Ended /\ loop = "select" /\ worker' = [worker EXCEPT ![i] = "reaped"]
        /\ UNCHANGED <<taken, faults>>
        /\ loop' = "flush" => worker[i] = "fatal"
        /\ loop' = "report" => worker[i] = "panicked"
    BY <1>3 DEF Join, WorkerGoto
  <2> QED
    BY <2>1
<1>4. ASSUME NEW i \in Items, WorkerStep(i) \/ ExecutePanics(i) \/ WorkerAborted(i)
      PROVE  Good
  <2>1. /\ worker[i] \in Running /\ UNCHANGED <<taken, loop>>
        /\ faults # {} => faults' # {}
    BY <1>4 DEF WorkerStep, Executed, ExecuteFails, Again, Send, SendFails, SendError,
                ExecutePanics, WorkerAborted, Running
  <2>2. PICK label \in Running \cup Ended :
          /\ worker' = [worker EXCEPT ![i] = label]
          /\ label \in {"fatal", "panicked"} => faults' # {}
    BY <1>4 DEF WorkerStep, Executed, ExecuteFails, Again, Send, SendFails, SendError,
                ExecutePanics, WorkerAborted, WorkerGoto, Running, Ended, Gone, DlqDead
  <2>3. InSet # {}
    BY <2>1 DEF InSet
  <2> QED
    BY <2>1, <2>2, <2>3
<1>5. CASE \E f \in Faults : EnvironmentFails(f)
  BY <1>5 DEF EnvironmentFails, InSet
<1>6. CASE UNCHANGED vars
  BY <1>6 DEF vars, stageVars, InSet
<1> QED
  BY <1>1, <1>2, <1>3, <1>4, <1>5, <1>6 DEF Next, LoopStep

LEMMA StageStep == StageInv /\ [Next]_<<kind, vars>> => StageInv'
<1> SUFFICES ASSUME StageInv, [Next]_<<kind, vars>> PROVE StageInv'
  OBVIOUS
<1>1. CASE Next
  <2>1. kind' = kind
    BY <1>1 DEF Next
  <2>2. Ordered => OrderInv'
    BY <1>1, NodeStep, OrderStep DEF StageInv
  <2>3. ~Ordered => Untouched'
    BY <1>1, NodeStep DEF StageInv, Untouched
  <2> QED
    BY <1>1, <2>1, <2>2, <2>3, OrderlyStep DEF StageInv, Ordered
<1>2. CASE UNCHANGED <<kind, vars>>
  <2>1. Orderly'
    BY <1>2 DEF StageInv, Orderly, InSet, vars, stageVars
  <2>2. Ordered => OrderInv'
    BY <1>2, OrderStep DEF StageInv, vars
  <2> QED
    BY <1>2, <2>1, <2>2 DEF StageInv, Ordered, Untouched, vars, stageVars, orderingVars
<1> QED
  BY <1>1, <1>2

\* The inductive invariant of a stage and of the node in it (pipeline.rs:318-431).
THEOREM StageInvariance == Spec => []StageInv
  BY StageInit, StageStep, PTL DEF Spec

\* The stage implements OrderingSpec: whatever happens to its workers, each of its
\* steps is a step of the node as module Ordering describes it or leaves the node
\* alone; and as long as nothing has failed the node is flushed after its last call.
THEOREM StageUsesNode == Spec => CallsNode
<1>1. Init => (Ordered => InitOrdering)
  BY DEF Init
<1>2. ASSUME StageInv, [Next]_<<kind, vars>>
      PROVE  [Ordered => NextOrdering]_orderingVars
  BY <1>2, NodeStep DEF vars
<1>3. ASSUME StageInv, [Next]_<<kind, vars>>
      PROVE  [faults' = {} /\ flushed' # flushed => InSet = {}]_orderingVars
  <2> SUFFICES ASSUME Next, faults' = {}, flushed' # flushed PROVE InSet = {}
    BY <1>3 DEF vars, orderingVars
  <2>1. FlushNode
    BY DEF Next, LoopStep, Recv, RecvNone, ReportPanic, LoopEnds, Join, FlushStep,
           FlushSend, StageEnds, Take, WorkerStep, Executed, ExecuteFails, Again,
           Send, SendFails, SendError, ExecutePanics, WorkerAborted, EnvironmentFails,
           Return, Begin, InnerOk, InnerErr, CallDropped, vars, orderingVars
  <2> QED
    BY <1>3, <2>1 DEF FlushNode, StageInv, Orderly
<1> QED
  BY <1>1, <1>2, <1>3, StageInvariance, PTL DEF Spec, CallsNode

\* So the promises of the OrderingNode (ordering.rs:25-39) hold of the node in a
\* stage with concurrent workers, retries, panics and aborts.
THEOREM StageKeepsOrder == Spec => [](ReleasedInOrder /\ NothingSwallowed /\ OnlyErrorsDelay)
<1>1. Untouched => ReleasedInOrder /\ NothingSwallowed /\ OnlyErrorsDelay
  BY DEF Untouched, ReleasedInOrder, NothingSwallowed, OnlyErrorsDelay, AllReleased, Range
<1>2. OrderInv => ReleasedInOrder /\ NothingSwallowed /\ OnlyErrorsDelay
  BY DelayFromInv DEF OrderInv
<1>3. StageInv => ReleasedInOrder /\ NothingSwallowed /\ OnlyErrorsDelay
  BY <1>1, <1>2 DEF StageInv
<1> QED
  BY <1>3, StageInvariance, PTL

-----------------------------------------------------------------------------
(* Where the items of a stage are.                                         *)

\* The ways from the node to the consumer: what a worker and the flush still have to
\* send, the channel, and what the consumer has got.
Ways == -2..NumItems

Way == [p \in Ways |-> IF p = -2 THEN delivered
                       ELSE IF p = -1 THEN chan ELSE IF p = 0 THEN tail ELSE out[p]]

\* No item is in two places.
Unique(W) ==
  \A p, q \in Ways : \A j \in DOMAIN W[p], k \in DOMAIN W[q] :
    W[p][j] = W[q][k] => p = q /\ j = k

On(W) == {x \in Items : \E p \in Ways : \E j \in DOMAIN W[p] : W[p][j] = x}

\* The items the node has made an output for, and those it has given away.
Made == {i \in Items : call[i] = "done" /\ i \notin filtered}
Sent == Made \ ready

FlowInv ==
  /\ Unique(Way)
  /\ On(Way) \subseteq Sent
  /\ faults = {} => On(Way) = Sent

\* A worker, its call of the node and the fate of its item.
ItemInv(i) ==
  /\ worker[i] = "none" <=> call[i] = "idle"
  /\ i > taken => worker[i] = "none"
  /\ i <= taken /\ faults = {} => worker[i] # "none"
  /\ worker[i] = "run" <=> call[i] = "inner"
  /\ worker[i] \in {"backoff", "fail"} => call[i] = "failed" /\ i \notin dead
  /\ worker[i] = "emit" => call[i] = "done"
  /\ worker[i] = "emit" <=> out[i] # <<>>
  /\ i \in dead => call[i] = "failed" /\ worker[i] \in {"ok", "reaped"}
  /\ i \in filtered => call[i] = "done"
  /\ worker[i] = "fatal" => Gone \/ DlqDead
  /\ faults = {} /\ worker[i] \in {"ok", "reaped"} => call[i] = "done" \/ i \in dead
  /\ faults = {} => worker[i] # "cancelled"

\* The stage task: without a fault nothing runs any more once it flushes, and a panic
\* that is not followed by another fault is reported, once.
LoopInv ==
  /\ loop # "emit" => tail = <<>>
  /\ aborting => loop \in {"flush", "emit", "done"}
  /\ faults = {} /\ loop \in {"flush", "emit", "done"} => InSet = {}
  /\ faults = {} /\ loop \in {"emit", "done"} => ready = {}
  /\ loop \in {"select", "report"} => panics = 0
  /\ faults = {"panic"} =>
       CASE loop = "select" -> \E i \in Items : worker[i] = "panicked"
         [] loop = "report" -> TRUE
         [] OTHER           -> panics = 1

CompleteInv ==
  /\ TypeOK /\ StageInv /\ FlowInv /\ LoopInv
  /\ Ordered => produced = Made
  /\ \A i \in Items : ItemInv(i)

-----------------------------------------------------------------------------
(* Sequences of items, and moves between the ways.                         *)

\* s has each element of S once, and nothing else.
Lists(s, S) ==
  /\ \A x : x \in S <=> \E j \in DOMAIN s : s[j] = x
  /\ \A j, k \in DOMAIN s : s[j] = s[k] => j = k

\* Every set of items has its ascending sequence.
LEMMA Sorted ==
  ASSUME NEW S \in SUBSET Items
  PROVE  Ascending(S) \in Seq(Items) /\ Lists(Ascending(S), S)
<1> DEFINE N == Cardinality(S)
           below(x) == {y \in S : y <= x}
           rank == [x \in S |-> Cardinality(below(x))]
<1>1. IsFiniteSet(Items) /\ Items \subseteq Nat
  BY FS_Interval, OrderingAssumption DEF Items
<1>0. \A x \in S : x \in Nat
  BY <1>1
<1>2. IsFiniteSet(S) /\ N \in Nat
  BY <1>1, FS_Subset, FS_CardinalityType
<1>3. ASSUME NEW x \in S PROVE IsFiniteSet(below(x)) /\ rank[x] \in 1..N
  <2>1. below(x) \subseteq S
    OBVIOUS
  <2>2. IsFiniteSet(below(x)) /\ Cardinality(below(x)) \in Nat /\ Cardinality(below(x)) <= N
    BY ONLY <1>2, <2>1, FS_Subset, FS_CardinalityType
  <2>3. x \in below(x)
    BY <1>1
  <2>4. Cardinality(below(x)) # 0
    BY ONLY <2>2, <2>3, FS_EmptySet
  <2> QED
    BY <1>2, <2>2, <2>4
<1>4. ASSUME NEW x \in S, NEW y \in S, x < y PROVE rank[x] < rank[y]
  <2>1. below(x) \subseteq below(y) /\ y \in below(y) /\ y \notin below(x)
    BY ONLY <1>0, <1>4, x \in S, y \in S
  <2>2. /\ IsFiniteSet(below(y)) /\ Cardinality(below(x)) <= Cardinality(below(y))
        /\ Cardinality(below(x)) = Cardinality(below(y)) => below(x) = below(y)
    BY <1>3, <2>1, FS_Subset
  <2> QED
    BY <1>2, <1>3, <2>1, <2>2
<1>5. \A x, y \in S : rank[x] = rank[y] => x = y
  BY <1>1, <1>2, <1>3, <1>4
<1>6. rank \in Surjection(S, 1..N)
  <2>1. rank \in Injection(S, 1..N)
    BY <1>3, <1>5 DEF Injection, IsInjective
  <2>2. IsFiniteSet(1..N) /\ Cardinality(1..N) = N
    BY <1>2, FS_Interval
  <2> QED
    BY <2>1, <2>2, FS_Injection
<1>7. \A j \in 1..N : \E x \in S : rank[x] = j
  BY <1>6 DEF Surjection
<1> DEFINE q == [j \in 1..N |-> CHOOSE x \in S : rank[x] = j]
<1>8. \A j \in 1..N : q[j] \in S /\ rank[q[j]] = j
  BY <1>7
<1> HIDE DEF q, rank
<1>9. ASSUME NEW j \in 1..N, NEW k \in 1..N, j < k PROVE q[j] < q[k]
  <2>1. /\ q[j] \in S /\ q[k] \in S /\ rank[q[j]] = j /\ rank[q[k]] = k
        /\ q[j] \in Nat /\ q[k] \in Nat /\ j \in Nat /\ k \in Nat
    BY <1>0, <1>2, <1>8
  <2>2. ~(q[k] < q[j]) /\ q[k] # q[j]
    BY ONLY <1>4, <1>9, <2>1
  <2> QED
    BY ONLY <2>1, <2>2
<1>10. q \in SetToSeqs(S) /\ \A j, k \in DOMAIN q : j < k => q[j] < q[k]
  BY <1>8, <1>9 DEF SetToSeqs, q
<1> DEFINE a == Ascending(S)
<1>11. /\ a \in SetToSeqs(S) /\ \A j, k \in DOMAIN a : j < k => a[j] < a[k]
  BY <1>10 DEF Ascending
<1> HIDE DEF a
<1>12. a \in [1..N -> S] /\ \A j, k \in 1..N : j # k => a[j] # a[k]
  BY <1>11 DEF SetToSeqs
<1>13. a \in Seq(Items)
  BY <1>2, <1>12
<1>14. ASSUME NEW x \in S PROVE \E j \in 1..N : a[j] = x
  <2>1. a \in Injection(1..N, S)
    BY <1>12 DEF Injection, IsInjective
  <2>2. Cardinality(1..N) = N
    BY <1>2, FS_Interval
  <2>3. a \in Surjection(1..N, S)
    BY <1>2, <2>1, <2>2, FS_Injection
  <2> QED
    BY <2>3 DEF Surjection
<1> QED
  BY <1>12, <1>13, <1>14 DEF a, Lists

\* The last one of a sequence leaves it empty.
LEMMA LastOne ==
  ASSUME NEW s \in Seq(Items), s # <<>>
  PROVE  /\ s[1] \in Items /\ Tail(s) \in Seq(Items) /\ Head(s) = s[1]
         /\ Tail(s) = <<>> <=> Len(s) = 1
<1>1. Len(s) \in Nat \ {0} /\ Tail(s) \in Seq(Items) /\ Len(Tail(s)) = Len(s) - 1
  BY EmptySeq, HeadTailProperties
<1>2. Len(Tail(s)) = 0 <=> Tail(s) = <<>>
  BY <1>1, EmptySeq
<1> QED
  BY <1>1, <1>2

\* A sequence that waits nowhere enters on an empty way.
LEMMA Enters ==
  ASSUME NEW W \in [Ways -> Seq(Items)], Unique(W), NEW p \in Ways, W[p] = <<>>,
         NEW s \in Seq(Items), NEW S, Lists(s, S), S \cap On(W) = {}
  PROVE  Unique([W EXCEPT ![p] = s]) /\ On([W EXCEPT ![p] = s]) = On(W) \cup S
<1> DEFINE V == [W EXCEPT ![p] = s]
<1>1. /\ V[p] = s /\ \A q \in Ways : q # p => V[q] = W[q]
      /\ DOMAIN W[p] = {} /\ \A j \in DOMAIN s : s[j] \in Items
  OBVIOUS
<1> HIDE DEF V
<1>2. \A q \in Ways : \A k \in DOMAIN W[q] : W[q][k] \in On(W)
  BY DEF On
<1>3. \A q \in Ways : q # p => \A j \in DOMAIN s, k \in DOMAIN W[q] : s[j] # W[q][k]
  <2>1. \A j \in DOMAIN s : s[j] \in S
    BY DEF Lists
  <2> QED
    BY <1>2, <2>1
<1>6. \A j, k \in DOMAIN s : s[j] = s[k] => j = k
  BY DEF Lists
<1>4. Unique(V)
  BY ONLY <1>1, <1>3, <1>6, Unique(W), SMTT(40) DEF Unique
<1>5. ASSUME NEW x PROVE x \in On(V) <=> x \in On(W) \cup S
  BY <1>1 DEF On, Lists
<1> QED
  BY <1>4, <1>5 DEF V

\* The first item of one way goes to the end of another.
LEMMA Moves ==
  ASSUME NEW W \in [Ways -> Seq(Items)], Unique(W), NEW p \in Ways, NEW q \in Ways, p # q,
         W[p] # <<>>,
         NEW V, V = [W EXCEPT ![p] = Tail(W[p]), ![q] = Append(W[q], Head(W[p]))]
  PROVE  Unique(V) /\ On(V) = On(W)
<1> DEFINE P == W[p]
           Q == W[q]
           n == Len(Q) + 1
<1>1. /\ P \in Seq(Items) /\ Q \in Seq(Items) /\ V[p] = Tail(P) /\ V[q] = Append(Q, Head(P))
      /\ \A w \in Ways : w # p /\ w # q => V[w] = W[w]
  OBVIOUS
<1>2. /\ Head(P) = P[1] /\ 1 \in DOMAIN P
      /\ DOMAIN Tail(P) = 1..(Len(P) - 1)
      /\ \A j \in DOMAIN Tail(P) : j + 1 \in DOMAIN P /\ j + 1 # 1 /\ Tail(P)[j] = P[j + 1]
      /\ \A j \in DOMAIN P : j # 1 => j - 1 \in DOMAIN Tail(P) /\ (j - 1) + 1 = j
      /\ DOMAIN Append(Q, P[1]) = DOMAIN Q \cup {n} /\ n \notin DOMAIN Q
      /\ \A j \in DOMAIN Q : Append(Q, P[1])[j] = Q[j]
      /\ Append(Q, P[1])[n] = P[1]
      /\ \A j, k \in DOMAIN Tail(P) : j + 1 = k + 1 => j = k
  BY ONLY P \in Seq(Items), Q \in Seq(Items), P # <<>>
<1> DEFINE from(w, j) == IF w = p THEN <<p, j + 1>>
                         ELSE IF w = q /\ j = n THEN <<p, 1>> ELSE <<w, j>>
<1>3. ASSUME NEW w \in Ways, NEW j \in DOMAIN V[w]
      PROVE  /\ from(w, j)[1] \in Ways /\ from(w, j)[2] \in DOMAIN W[from(w, j)[1]]
             /\ V[w][j] = W[from(w, j)[1]][from(w, j)[2]]
  <2>1. CASE w = p
    BY <1>1, <1>2, <2>1
  <2>2. CASE w = q
    BY <1>1, <1>2, <2>2
  <2>3. CASE w # p /\ w # q
    BY <1>1, <2>3
  <2> QED
    BY <2>1, <2>2, <2>3
<1>4. ASSUME NEW w \in Ways, NEW j \in DOMAIN V[w], NEW v \in Ways, NEW k \in DOMAIN V[v],
             from(w, j) = from(v, k)
      PROVE  w = v /\ j = k
  <2>1. from(w, j)[1] = from(v, k)[1] /\ from(w, j)[2] = from(v, k)[2]
    BY <1>4
  <2>2. CASE w = p /\ v = p
    BY <1>1, <1>2, <2>1, <2>2
  <2>3. CASE w = p /\ v # p
    <3>1. v = q /\ k = n /\ j + 1 = 1 /\ j + 1 # 1
      BY <1>1, <1>2, <2>1, <2>3
    <3> QED
      BY <3>1
  <2>4. CASE w # p /\ v = p
    <3>1. w = q /\ j = n /\ k + 1 = 1 /\ k + 1 # 1
      BY <1>1, <1>2, <2>1, <2>4
    <3> QED
      BY <3>1
  <2>5. CASE w # p /\ v # p
    BY <2>1, <2>5
  <2> QED
    BY <2>2, <2>3, <2>4, <2>5
<1>5. Unique(V)
  <2> SUFFICES ASSUME NEW w \in Ways, NEW v \in Ways, NEW j \in DOMAIN V[w],
                      NEW k \in DOMAIN V[v], V[w][j] = V[v][k]
               PROVE  w = v /\ j = k
    BY DEF Unique
  <2>1. from(w, j)[1] = from(v, k)[1] /\ from(w, j)[2] = from(v, k)[2]
    BY <1>3 DEF Unique
  <2>2. from(w, j) = from(v, k)
    BY <2>1
  <2> QED
    BY <1>4, <2>2
<1>6. ASSUME NEW x \in On(V) PROVE x \in On(W)
  BY <1>3 DEF On
<1>7. ASSUME NEW x \in On(W) PROVE x \in On(V)
  <2>0. PICK w \in Ways : \E j \in DOMAIN W[w] : W[w][j] = x
    BY DEF On
  <2>1. PICK j \in DOMAIN W[w] : W[w][j] = x
    BY <2>0
  <2>2. CASE w = p /\ j = 1
    BY <1>1, <1>2, <2>1, <2>2 DEF On
  <2>3. CASE w = p /\ j # 1
    <3>1. j - 1 \in DOMAIN V[p] /\ V[p][j - 1] = x
      BY <1>1, <1>2, <2>1, <2>3
    <3> QED
      BY <3>1 DEF On
  <2>4. CASE w = q
    BY <1>1, <1>2, <2>1, <2>4 DEF On
  <2>5. CASE w # p /\ w # q
    BY <1>1, <2>1, <2>5 DEF On
  <2> QED
    BY <2>2, <2>3, <2>4, <2>5
<1> QED
  BY <1>5, <1>6, <1>7

\* A way is dropped.
LEMMA Drops ==
  ASSUME NEW W \in [Ways -> Seq(Items)], Unique(W), NEW p \in Ways,
         NEW V, V = [W EXCEPT ![p] = <<>>]
  PROVE  Unique(V) /\ On(V) \subseteq On(W) /\ (W[p] = <<>> => V = W)
<1>1. /\ V[p] = <<>> /\ DOMAIN V[p] = {} /\ \A q \in Ways : q # p => V[q] = W[q]
  OBVIOUS
<1>2. Unique(V)
  BY ONLY <1>1, Unique(W) DEF Unique
<1>3. On(V) \subseteq On(W)
  BY ONLY <1>1 DEF On
<1> QED
  BY <1>2, <1>3

-----------------------------------------------------------------------------
(* Nothing is lost between the ways and the workers.                       *)

LEMMA CompleteInit == Init => CompleteInv
<1> SUFFICES ASSUME Init PROVE CompleteInv
  OBVIOUS
<1>1. TypeOK /\ StageInv
  <2>1. StageInv
    BY StageInit
  <2>2. OrderingTypeOK
    BY OrderInit DEF Init, OrderInv
  <2>3. <<>> \in Seq(Items) /\ out \in [Items -> Seq(Items)]
    BY DEF Init
  <2>4. /\ taken \in 0..NumItems /\ panics \in 0..1
        /\ loop \in {"select", "report", "flush", "emit", "done"}
        /\ faults \subseteq Faults /\ dead \subseteq Items /\ filtered \subseteq Items
    BY OrderingAssumption DEF Init
  <2>7. upClosed \in BOOLEAN /\ aborting \in BOOLEAN
    BY Zenon DEF Init
  <2>5. worker \in [Items -> {"none", "reaped"} \cup Running \cup Ended]
    BY <2>1 DEF StageInv
  <2>6. tail \in Seq(Items) /\ chan \in Seq(Items) /\ delivered \in Seq(Items)
    BY <2>3 DEF Init
  <2> QED
    BY <2>1, <2>2, <2>3, <2>4, <2>5, <2>6, <2>7 DEF TypeOK
<1>2. \A p \in Ways : Way[p] = <<>>
  BY DEF Init, Way, Ways, Items
<1>3. Made = {} /\ Sent = {}
  BY DEF Init, InitOrdering, Made, Sent
<1>4. FlowInv
  BY <1>2, <1>3 DEF FlowInv, Unique, On
<1>5. LoopInv /\ (Ordered => produced = Made)
  BY <1>3 DEF Init, InitOrdering, LoopInv
<1>6. \A i \in Items : ItemInv(i)
  BY DEF Init, InitOrdering, ItemInv, Items, Gone, DlqDead
<1> QED
  BY <1>1, <1>4, <1>5, <1>6 DEF CompleteInv

Calls == {"idle", "inner", "done", "failed", "dropped"}

WorkerActs(i) == WorkerStep(i) \/ ExecutePanics(i) \/ WorkerAborted(i)

\* What a worker finds.
LEMMA Worker ==
  ASSUME CompleteInv, NEW i \in Items
  PROVE  /\ worker \in [Items -> {"none", "reaped"} \cup Running \cup Ended]
         /\ call \in [Items -> Calls] /\ out \in [Items -> Seq(Items)]
         /\ ItemInv(i) /\ i \in Int /\ taken \in Int
         /\ ready \subseteq Made /\ ready \subseteq Items
BY DEF CompleteInv, TypeOK, OrderingTypeOK, Calls, Items, StageInv, OrderInv,
       NothingSwallowed, Untouched

\* A worker changes itself, its call and the fate of its item.
Own(i) ==
  /\ worker[i] \in Running
  /\ worker' = [worker EXCEPT ![i] = worker'[i]] /\ worker'[i] \in Running \cup Ended
  /\ call' = [call EXCEPT ![i] = call'[i]] /\ call'[i] \in Calls
  /\ out' = [out EXCEPT ![i] = out'[i]]
  /\ dead \subseteq dead' /\ dead' \subseteq dead \cup {i}
  /\ filtered \subseteq filtered' /\ filtered' \subseteq filtered \cup {i}
  /\ faults \subseteq faults'
  /\ UNCHANGED <<taken, loop, aborting, tail, delivered, panics>>

LEMMA Owns ==
  ASSUME CompleteInv, NEW i \in Items, WorkerActs(i)
  PROVE  Own(i)
<1>0. /\ worker \in [Items -> {"none", "reaped"} \cup Running \cup Ended]
      /\ call \in [Items -> Calls] /\ out \in [Items -> Seq(Items)]
  BY Worker
<1>1. CASE Executed(i)
  <2>1. call' = [call EXCEPT ![i] = "done"]
    BY <1>1 DEF Executed, InnerOk, Return
  <2>2. /\ out' = [out EXCEPT ![i] = out'[i]] /\ worker[i] = "run"
        /\ worker' = [worker EXCEPT ![i] = IF out'[i] = <<>> THEN "ok" ELSE "emit"]
    BY <1>0, <1>1 DEF Executed, WorkerGoto
  <2>3. /\ filtered \subseteq filtered' /\ filtered' \subseteq filtered \cup {i}
        /\ UNCHANGED <<taken, loop, aborting, tail, delivered, panics, dead, faults>>
    BY <1>1 DEF Executed
  <2> QED
    BY <1>0, <2>1, <2>2, <2>3 DEF Own, Running, Ended, Calls
<1>2. CASE ExecuteFails(i)
  <2>1. call' = [call EXCEPT ![i] = "failed"]
    BY <1>2 DEF ExecuteFails, InnerErr, Return
  <2> QED
    BY <1>0, <1>2, <2>1 DEF ExecuteFails, WorkerGoto, Own, Running, Ended, Calls
<1>3. CASE Again(i)
  BY <1>0, <1>3 DEF Again, Begin, WorkerGoto, Own, Running, Ended, Calls
<1>4. CASE ExecutePanics(i)
  BY <1>0, <1>4 DEF ExecutePanics, CallDropped, WorkerGoto, Own, Running, Ended, Calls
<1>5. CASE WorkerAborted(i)
  <2>1. call' = [call EXCEPT ![i] = call'[i]] /\ call'[i] \in Calls
    BY <1>0, <1>5 DEF WorkerAborted, CallDropped, Calls, orderingVars
  <2> QED
    BY <1>0, <1>5, <2>1 DEF WorkerAborted, WorkerGoto, Own, Running, Ended, Calls
<1>6. CASE Send(i)
  BY <1>0, <1>6 DEF Send, WorkerGoto, Own, Running, Ended, Calls, orderingVars
<1>7. CASE SendFails(i)
  BY <1>0, <1>7 DEF SendFails, WorkerGoto, Own, Running, Ended, Calls, orderingVars
<1>8. CASE SendError(i)
  BY <1>0, <1>8 DEF SendError, WorkerGoto, Own, Running, Ended, Calls, orderingVars
<1> QED
  BY <1>1, <1>2, <1>3, <1>4, <1>5, <1>6, <1>7, <1>8 DEF WorkerActs, WorkerStep

\* With the guards of its actions the worker keeps its own part of the invariant.
LEMMA OwnItem ==
  ASSUME CompleteInv, NEW i \in Items, WorkerActs(i)
  PROVE  ItemInv(i)'
<1>0. /\ worker \in [Items -> {"none", "reaped"} \cup Running \cup Ended]
      /\ call \in [Items -> Calls] /\ out \in [Items -> Seq(Items)]
      /\ ItemInv(i) /\ Own(i)
  BY Worker, Owns
<1>1. CASE Executed(i)
  <2>1. call'[i] = "done" /\ worker[i] = "run" /\ faults' = faults /\ dead' = dead
    BY <1>0, <1>1 DEF Executed, InnerOk, Return
  <2>2. worker'[i] = IF out'[i] = <<>> THEN "ok" ELSE "emit"
    BY <1>0, <1>1 DEF Executed, WorkerGoto
  <2> QED
    BY <1>0, <2>1, <2>2 DEF ItemInv, Own, Gone, DlqDead
<1>2. CASE ExecuteFails(i)
  <2>1. /\ call'[i] = "failed" /\ worker[i] = "run" /\ worker'[i] \in {"backoff", "fail"}
        /\ UNCHANGED <<faults, dead, filtered>> /\ out'[i] = out[i]
    BY <1>0, <1>2 DEF ExecuteFails, InnerErr, Return, WorkerGoto
  <2> QED
    BY <1>0, <2>1 DEF ItemInv, Own, Gone, DlqDead
<1>3. CASE Again(i)
  <2>1. /\ call'[i] = "inner" /\ worker[i] = "backoff" /\ worker'[i] = "run"
        /\ UNCHANGED <<faults, dead, filtered>> /\ out'[i] = out[i]
    BY <1>0, <1>3 DEF Again, Begin, WorkerGoto
  <2> QED
    BY <1>0, <2>1 DEF ItemInv, Own, Gone, DlqDead
<1>4. CASE ExecutePanics(i)
  <2>1. /\ call'[i] = "dropped" /\ worker[i] = "run" /\ worker'[i] = "panicked"
        /\ UNCHANGED <<dead, filtered>> /\ out'[i] = out[i]
    BY <1>0, <1>4 DEF ExecutePanics, CallDropped, WorkerGoto
  <2> QED
    BY <1>0, <2>1 DEF ItemInv, Own, Gone, DlqDead
<1>5. CASE WorkerAborted(i)
  <2>1. /\ worker[i] \in Running /\ worker'[i] = "cancelled" /\ faults # {}
        /\ UNCHANGED <<faults, dead, filtered>> /\ out'[i] = <<>>
    <3>1. faults # {}
      BY <1>5 DEF WorkerAborted, CompleteInv, LoopInv, InSet
    <3> QED
      BY <1>0, <1>5, <3>1 DEF WorkerAborted, WorkerGoto
  <2>2. IF call[i] = "inner" THEN call'[i] = "dropped" ELSE call'[i] = call[i]
    BY <1>0, <1>5 DEF WorkerAborted, CallDropped, orderingVars
  <2> QED
    BY <1>0, <2>1, <2>2 DEF ItemInv, Own, Gone, DlqDead, Running
<1>6. CASE Send(i)
  <2>1. /\ worker[i] = "emit" /\ out[i] # <<>> /\ out[i] \in Seq(Items) /\ call'[i] = call[i]
        /\ UNCHANGED <<faults, dead, filtered>> /\ out'[i] = Tail(out[i])
        /\ worker'[i] = IF Len(out[i]) = 1 THEN "ok" ELSE "emit"
    BY <1>0, <1>6 DEF Send, WorkerGoto, orderingVars, ItemInv
  <2>2. Tail(out[i]) = <<>> <=> Len(out[i]) = 1
    BY <2>1, LastOne
  <2> QED
    BY <1>0, <2>1, <2>2 DEF ItemInv, Own, Gone, DlqDead
<1>7. CASE SendFails(i)
  <2>1. /\ worker[i] = "emit" /\ call'[i] = call[i] /\ out'[i] = <<>> /\ worker'[i] = "fatal"
        /\ UNCHANGED <<faults, dead, filtered>> /\ Gone
    BY <1>0, <1>7 DEF SendFails, WorkerGoto, orderingVars
  <2> QED
    BY <1>0, <2>1 DEF ItemInv, Own, Gone, DlqDead
<1>8. CASE SendError(i)
  <2>1. /\ worker[i] = "fail" /\ call'[i] = call[i] /\ out'[i] = out[i]
        /\ UNCHANGED <<faults, filtered>>
        /\ dead' = (IF DlqDead THEN dead ELSE dead \cup {i})
        /\ worker'[i] = (IF DlqDead THEN "fatal" ELSE "ok")
    BY <1>0, <1>8 DEF SendError, WorkerGoto, orderingVars
  <2> QED
    BY <1>0, <2>1 DEF ItemInv, Own, Gone, DlqDead
<1> QED
  BY <1>1, <1>2, <1>3, <1>4, <1>5, <1>6, <1>7, <1>8 DEF WorkerActs, WorkerStep

LEMMA ItemsStep ==
  ASSUME CompleteInv, Next
  PROVE  \A j \in Items : ItemInv(j)'
<1>0. /\ worker \in [Items -> {"none", "reaped"} \cup Running \cup Ended]
      /\ call \in [Items -> Calls] /\ out \in [Items -> Seq(Items)] /\ taken \in Int
      /\ \A j \in Items : ItemInv(j) /\ j \in Int
  BY DEF CompleteInv, TypeOK, OrderingTypeOK, Calls, Items
<1>1. CASE Recv
  <2>0. PICK i \in Items : i = taken + 1
    BY <1>0, <1>1, OrderingAssumption DEF Recv, CompleteInv, StageInv, Items
  <2>1. worker[i] = "none" /\ call[i] = "idle"
    BY <1>0, <2>0 DEF ItemInv
  <2>2. taken' = taken + 1 /\ UNCHANGED <<out, dead, filtered, faults>>
    BY <1>1 DEF Recv
  <2>3. CASE Gone
    <3>1. UNCHANGED <<worker, call>> /\ faults # {}
      BY <1>1, <2>3 DEF Recv, orderingVars, Gone
    <3> QED
      BY <1>0, <2>2, <3>1 DEF ItemInv, Gone, DlqDead
  <2>4. CASE ~Gone
    <3>1. worker' = [worker EXCEPT ![i] = "run"] /\ call' = [call EXCEPT ![i] = "inner"]
      BY <1>1, <2>0, <2>4 DEF Recv, Begin, WorkerGoto
    <3>2. ASSUME NEW j \in Items, j # i PROVE ItemInv(j)'
      <4>1. worker'[j] = worker[j] /\ call'[j] = call[j] /\ ItemInv(j) /\ j \in Int
        BY <1>0, <3>1, <3>2
      <4>2. j > taken' <=> j > taken
        BY <1>0, <2>0, <2>2, <3>2, <4>1
      <4>3. j <= taken' <=> j <= taken
        BY <1>0, <2>0, <2>2, <3>2, <4>1
      <4> QED
        BY ONLY <2>2, <4>1, <4>2, <4>3 DEF ItemInv, Gone, DlqDead
    <3>3. ItemInv(i)'
      <4>1. worker'[i] = "run" /\ call'[i] = "inner" /\ ItemInv(i)
        BY <1>0, <2>1, <3>1
      <4>2. ~(i > taken')
        BY <1>0, <2>0, <2>2
      <4> QED
        BY ONLY <2>1, <2>2, <4>1, <4>2 DEF ItemInv, Gone, DlqDead
    <3> QED
      BY <3>2, <3>3
  <2> QED
    BY <2>3, <2>4
<1>2. CASE RecvNone \/ ReportPanic \/ LoopEnds \/ FlushStep \/ Take \/ UNCHANGED vars
  <2>1. UNCHANGED <<worker, call, out, dead, filtered, faults, taken>>
    BY <1>2 DEF RecvNone, ReportPanic, LoopEnds, FlushStep, FlushNode, FlushSend,
                StageEnds, Take, FlushBuffer, vars, stageVars, orderingVars
  <2> QED
    BY <1>0, <2>1 DEF ItemInv, Gone, DlqDead
<1>3. ASSUME NEW i \in Items, Join(i) PROVE \A j \in Items : ItemInv(j)'
  <2>1. /\ worker[i] \in Ended /\ worker' = [worker EXCEPT ![i] = "reaped"]
        /\ UNCHANGED <<call, out, dead, filtered, faults, taken>>
    BY <1>3 DEF Join, WorkerGoto, orderingVars
  <2>2. faults = {} => worker[i] = "ok"
    BY <1>0, <2>1 DEF ItemInv, CompleteInv, StageInv, Orderly, Ended
  <2>3. ItemInv(i)'
    BY <1>0, <2>1, <2>2 DEF ItemInv, Gone, DlqDead, Ended
  <2>4. ASSUME NEW j \in Items, j # i PROVE ItemInv(j)'
    BY <1>0, <2>1, <2>4 DEF ItemInv, Gone, DlqDead
  <2> QED
    BY <2>3, <2>4
<1>4. ASSUME NEW i \in Items, WorkerActs(i) PROVE \A j \in Items : ItemInv(j)'
  <2>1. ItemInv(i)' /\ Own(i)
    BY <1>4, OwnItem, Owns
  <2>2. ASSUME NEW j \in Items, j # i PROVE ItemInv(j)'
    BY <1>0, <2>1, <2>2 DEF ItemInv, Own, Gone, DlqDead
  <2> QED
    BY <2>1, <2>2
<1>5. CASE \E f \in Faults : EnvironmentFails(f)
  <2>1. /\ faults \subseteq faults' /\ faults' # {}
        /\ UNCHANGED <<worker, call, out, dead, filtered, taken>>
    BY <1>5 DEF EnvironmentFails, orderingVars
  <2> QED
    BY <1>0, <2>1 DEF ItemInv, Gone, DlqDead
<1> QED
  BY <1>1, <1>2, <1>3, <1>4, <1>5 DEF Next, LoopStep, WorkerActs

LEMMA LoopKeeps ==
  ASSUME CompleteInv, Next
  PROVE  LoopInv'
<1>0. /\ worker \in [Items -> {"none", "reaped"} \cup Running \cup Ended]
      /\ LoopInv /\ loop \in {"select", "report", "flush", "emit", "done"}
      /\ \A j \in Items : ItemInv(j)
  BY Worker DEF CompleteInv, TypeOK
<1>1. CASE Recv
  <2>1. /\ loop = "select" /\ UNCHANGED <<tail, faults, panics>>
        /\ IF Gone THEN loop' = "flush" /\ UNCHANGED worker
                   ELSE /\ UNCHANGED <<loop, aborting>>
                        /\ worker' = [worker EXCEPT ![taken + 1] = "run"]
    BY <1>1 DEF Recv, WorkerGoto
  <2>2. faults = {"panic"} => ~Gone
    BY DEF Gone
  <2>3. worker[taken + 1] # "panicked" \/ taken + 1 \notin Items
    <3>1. taken + 1 \in Items => worker[taken + 1] = "none"
      BY <1>0, OrderingAssumption DEF ItemInv, CompleteInv, StageInv, Items
    <3> QED
      BY <3>1
  <2> QED
    BY <1>0, <2>1, <2>2, <2>3 DEF LoopInv, Gone
<1>2. CASE RecvNone \/ Take \/ FlushSend \/ UNCHANGED vars
  <2>1. /\ UNCHANGED <<loop, aborting, faults, panics, worker, ready>>
        /\ loop # "emit" => tail' = tail
    BY <1>2 DEF RecvNone, Take, FlushSend, vars, stageVars, orderingVars
  <2> QED
    BY <1>0, <2>1 DEF LoopInv, InSet
<1>3. CASE ReportPanic
  <2>1. /\ loop = "report" /\ loop' = "flush" /\ UNCHANGED <<faults, tail, worker>>
        /\ panics' = IF DlqDead THEN panics ELSE panics + 1
    BY <1>3 DEF ReportPanic
  <2>2. faults # {}
    BY <2>1 DEF CompleteInv, StageInv, Orderly
  <2>3. faults = {"panic"} => panics' = 1
    BY <1>0, <2>1 DEF LoopInv, DlqDead
  <2> QED
    BY <1>0, <2>1, <2>2, <2>3 DEF LoopInv
<1>4. CASE LoopEnds
  <2>1. /\ loop = "select" /\ loop' = "flush" /\ InSet = {}
        /\ UNCHANGED <<faults, tail, worker, panics>>
    BY <1>4 DEF LoopEnds
  <2>2. \A i \in Items : worker[i] # "panicked"
    BY <2>1 DEF InSet, Ended
  <2> QED
    BY <1>0, <2>1, <2>2 DEF LoopInv, InSet
<1>5. CASE FlushNode
  <2>1. /\ loop = "flush" /\ loop' = "emit" /\ ready' = {}
        /\ UNCHANGED <<faults, worker, panics>>
    BY <1>5 DEF FlushNode, FlushBuffer, CompleteInv, StageInv, Untouched, orderingVars
  <2> QED
    BY <1>0, <2>1 DEF LoopInv, InSet
<1>6. CASE StageEnds
  <2>1. /\ loop = "emit" /\ loop' = "done" /\ tail' = <<>>
        /\ UNCHANGED <<faults, worker, panics, ready>>
    BY <1>6 DEF StageEnds, orderingVars
  <2> QED
    BY <1>0, <2>1 DEF LoopInv, InSet
<1>7. ASSUME NEW i \in Items, Join(i) PROVE LoopInv'
  <2>1. /\ worker[i] \in Ended /\ loop = "select" /\ worker' = [worker EXCEPT ![i] = "reaped"]
        /\ UNCHANGED <<tail, panics, faults>>
        /\ CASE worker[i] = "fatal"    -> loop' = "flush"
             [] worker[i] = "panicked" -> loop' = "report" /\ UNCHANGED aborting
             [] OTHER                  -> loop' = "select" /\ UNCHANGED aborting
    BY <1>7 DEF Join, WorkerGoto
  <2>2. worker[i] \in {"fatal", "panicked"} => faults # {}
    BY DEF CompleteInv, StageInv, Orderly
  <2>3. worker[i] = "fatal" => faults # {"panic"}
    BY <1>0 DEF ItemInv, Gone, DlqDead
  <2> QED
    BY <1>0, <2>1, <2>2, <2>3 DEF LoopInv
<1>8. ASSUME NEW i \in Items, WorkerActs(i) PROVE LoopInv'
  <2>1. Own(i) /\ InSet # {}
    BY <1>8, Owns DEF Own, InSet
  <2>2. faults' # faults => worker'[i] = "panicked"
    BY <1>0, <1>8 DEF WorkerActs, WorkerStep, Executed, ExecuteFails, Again, ExecutePanics,
                      WorkerAborted, Send, SendFails, SendError, WorkerGoto
  <2>3. loop \in {"flush", "emit", "done"} => faults # {}
    BY <1>0, <2>1 DEF LoopInv
  <2>4. loop = "report" => faults # {}
    BY DEF CompleteInv, StageInv, Orderly
  <2>5. faults' = {} \/ faults' = {"panic"} => faults = {} \/ faults = {"panic"}
    BY <2>1 DEF Own
  <2>6. loop = "select" /\ faults' = {"panic"} => \E j \in Items : worker'[j] = "panicked"
    <3>1. CASE faults = {"panic"}
      BY <1>0, <2>1, <2>2, <3>1 DEF LoopInv, Own, Running
    <3>2. CASE faults = {}
      BY <2>2, <3>2
    <3> QED
      BY <2>5, <3>1, <3>2
  <2>7. UNCHANGED <<loop, tail, aborting, panics>>
    BY <2>1 DEF Own
  <2>8. faults' = {"panic"} /\ loop \in {"flush", "emit", "done"} => panics = 1
    BY <1>0, <2>3, <2>5 DEF LoopInv
  <2> QED
    BY <1>0, <2>1, <2>3, <2>6, <2>7, <2>8 DEF LoopInv, Own
<1>9. CASE \E f \in Faults : EnvironmentFails(f)
  <2>1. /\ faults' # {} /\ faults' # {"panic"}
        /\ UNCHANGED <<loop, tail, aborting, panics>>
    BY <1>9 DEF EnvironmentFails
  <2> QED
    BY <1>0, <2>1 DEF LoopInv
<1> QED
  BY <1>1, <1>2, <1>3, <1>4, <1>5, <1>6, <1>7, <1>8, <1>9
     DEF Next, LoopStep, FlushStep, WorkerActs

LEMMA WayType ==
  ASSUME TypeOK
  PROVE  /\ Way \in [Ways -> Seq(Items)]
         /\ -2 \in Ways /\ -1 \in Ways /\ 0 \in Ways
         /\ Way[-2] = delivered /\ Way[-1] = chan /\ Way[0] = tail
         /\ \A i \in Items : i \in Ways /\ i > 0 /\ Way[i] = out[i]
<1>1. NumItems \in Nat
  BY OrderingAssumption
<1>2. \A p \in Ways : p # -2 /\ p # -1 /\ p # 0 => p \in Items
  BY <1>1 DEF Ways, Items
<1>3. \A i \in Items : i \in Ways /\ i > 0
  BY <1>1 DEF Ways, Items
<1> QED
  BY <1>1, <1>2, <1>3 DEF TypeOK, Way, Ways

\* Which steps of the node give nothing away: none but Executed and FlushNode.
LEMMA MadeSame ==
  ASSUME CompleteInv, NEW i \in Items,
         ExecuteFails(i) \/ Again(i) \/ ExecutePanics(i) \/ WorkerAborted(i) \/ Send(i)
           \/ SendFails(i) \/ SendError(i)
  PROVE  Made' = Made /\ ready' = ready /\ (Ordered => produced' = produced)
<1>0. /\ call \in [Items -> Calls] /\ ItemInv(i) /\ ready \subseteq Made
  BY Worker
<1>1. /\ filtered' = filtered /\ ready' = ready /\ produced' = produced
      /\ call' = call \/ (call[i] # "done" /\ \E c \in Calls \ {"done"} : call' = [call EXCEPT ![i] = c])
  <2>1. CASE ExecuteFails(i)
    <3>1. call[i] = "inner" /\ i \notin ready
      BY <1>0, <2>1 DEF ExecuteFails, ItemInv, Made
    <3>2. call' = [call EXCEPT ![i] = "failed"] /\ UNCHANGED <<filtered, produced>>
      BY <2>1 DEF ExecuteFails, InnerErr, Return
    <3>3. ready' = ready
      BY <2>1, <3>1 DEF ExecuteFails, InnerErr, Return
    <3> QED
      BY <3>1, <3>2, <3>3 DEF Calls
  <2>2. CASE Again(i)
    BY <1>0, <2>2 DEF Again, Begin, ItemInv, Calls
  <2>3. CASE ExecutePanics(i) \/ WorkerAborted(i)
    BY <2>3 DEF ExecutePanics, WorkerAborted, CallDropped, Calls, orderingVars
  <2>4. CASE Send(i) \/ SendFails(i) \/ SendError(i)
    BY <2>4 DEF Send, SendFails, SendError, orderingVars
  <2> QED
    BY <2>1, <2>2, <2>3, <2>4
<1> QED
  BY <1>0, <1>1 DEF Made

LEMMA MadeElse ==
  ASSUME CompleteInv,
         LoopStep \/ FlushStep \/ Take \/ (\E f \in Faults : EnvironmentFails(f)) \/ UNCHANGED vars
  PROVE  Made' = Made /\ (Ordered => produced' = produced)
<1>0. call \in [Items -> Calls]
  BY DEF CompleteInv, TypeOK, OrderingTypeOK, Calls
<1>1. CASE Recv
  <2>1. PICK i \in Items : i = taken + 1
    BY <1>1, OrderingAssumption DEF Recv, CompleteInv, StageInv, Items
  <2>2. /\ filtered' = filtered /\ produced' = produced
        /\ call' = call \/ (call[i] # "done" /\ call' = [call EXCEPT ![i] = "inner"])
    BY <1>1, <2>1 DEF Recv, Begin, orderingVars
  <2> QED
    BY <1>0, <2>2 DEF Made
<1>2. CASE ~Recv
  <2>1. UNCHANGED <<call, filtered, produced>>
    BY <1>2 DEF LoopStep, RecvNone, ReportPanic, LoopEnds, Join, FlushStep, FlushNode,
                FlushBuffer, FlushSend, StageEnds, Take, EnvironmentFails, vars, stageVars,
                orderingVars
  <2> QED
    BY <2>1 DEF Made
<1> QED
  BY <1>1, <1>2

\* An execute that succeeds gives the batch it has drained to its worker.
LEMMA ExecutedSends ==
  ASSUME CompleteInv, NEW i \in Items, Executed(i)
  PROVE  /\ Ordered => produced' = Made'
         /\ \E S \in SUBSET Items, s \in Seq(Items) :
              /\ out' = [out EXCEPT ![i] = s] /\ Lists(s, S)
              /\ Sent' = Sent \cup S /\ S \cap Sent = {}
<1>0. /\ call \in [Items -> Calls] /\ ItemInv(i) /\ ready \subseteq Made /\ ready \subseteq Items
      /\ worker[i] = "run" /\ call[i] = "inner" /\ i \notin Made /\ i \notin filtered
  BY Worker DEF Executed, ItemInv, Made
<1>1. PICK hasOutput \in BOOLEAN :
        /\ filtered' = IF hasOutput THEN filtered ELSE filtered \cup {i}
        /\ IF Ordered
           THEN /\ InnerOk(i, hasOutput)
                /\ out' = [out EXCEPT ![i] = Ascending(Last(released'))]
           ELSE /\ Return(i, "done")
                /\ out' = [out EXCEPT ![i] = IF hasOutput THEN <<i>> ELSE <<>>]
  BY DEF Executed
<1>2. call' = [call EXCEPT ![i] = "done"]
  BY <1>1 DEF InnerOk, Return
<1>3. Made' = IF hasOutput THEN Made \cup {i} ELSE Made
  BY <1>0, <1>1, <1>2 DEF Made
<1>4. CASE Ordered
  <2> DEFINE full == IF hasOutput THEN ready \cup {i} ELSE ready
  <2>1. /\ produced' = IF hasOutput THEN produced \cup {i} ELSE produced
        /\ produced = Made
        /\ Drain(queued \cup {i}, full)
        /\ out' = [out EXCEPT ![i] = Ascending(Last(released'))]
    BY <1>1, <1>4 DEF InnerOk, CompleteInv
  <2>2. PICK gap : /\ ready' = full \ (next..(gap - 1))
                   /\ released' = Append(released, full \cap (next..(gap - 1)))
    BY <2>1 DEF Drain
  <2> DEFINE batch == full \cap (next..(gap - 1))
  <2>3. released \in Seq(SUBSET Items) /\ batch \in SUBSET Items
    BY <1>0 DEF CompleteInv, TypeOK, OrderingTypeOK
  <2>4. Last(released') = batch
    BY <2>2, <2>3 DEF Last
  <2>5. Sent' = Sent \cup batch /\ batch \cap Sent = {}
    BY <1>0, <1>3, <2>2 DEF Sent
  <2> HIDE DEF batch
  <2>6. Ascending(batch) \in Seq(Items) /\ Lists(Ascending(batch), batch)
    BY <2>3, Sorted
  <2>7. out' = [out EXCEPT ![i] = Ascending(batch)]
    BY <2>1, <2>4
  <2> QED
    BY <1>3, <2>1, <2>3, <2>5, <2>6, <2>7
<1>5. CASE ~Ordered
  <2> DEFINE s == IF hasOutput THEN <<i>> ELSE <<>>
             S == IF hasOutput THEN {i} ELSE {}
  <2>1. ready' = ready /\ out' = [out EXCEPT ![i] = s]
    BY <1>1, <1>5 DEF Return
  <2>2. s \in Seq(Items) /\ S \in SUBSET Items /\ Lists(s, S)
    BY DEF Lists
  <2>3. ready = {}
    BY <1>5 DEF CompleteInv, StageInv, Untouched
  <2>4. Sent' = Sent \cup S /\ S \cap Sent = {}
    BY <1>0, <1>3, <2>1, <2>3 DEF Sent
  <2> QED
    BY <1>5, <2>1, <2>2, <2>4
<1> QED
  BY <1>4, <1>5

\* The types of the stage's own variables; those of the node follow from OrderInv.
LEMMA NodeTypes ==
  ASSUME CompleteInv, Next
  PROVE  OrderingTypeOK'
<1>1. CASE Ordered
  <2>1. StageInv' /\ Ordered'
    BY <1>1, StageStep DEF CompleteInv, Next, Ordered
  <2> QED
    BY <2>1 DEF StageInv, OrderInv
<1>2. CASE ~Ordered
  <2>1. OrderingTypeOK
    BY DEF CompleteInv, TypeOK
  <2>2. UNCHANGED <<next, queued, ready, flushed, released, produced, late>>
    BY <1>2 DEF Next, LoopStep, Recv, RecvNone, ReportPanic, LoopEnds, Join, FlushStep,
           FlushNode, FlushSend, StageEnds, Take, WorkerStep, Executed, ExecuteFails, Again,
           Send, SendFails, SendError, ExecutePanics, WorkerAborted, EnvironmentFails,
           Return, Begin, CallDropped, vars, orderingVars
  <2>3. \/ UNCHANGED <<call, retried>>
        \/ \E i \in Items, c \in Calls : /\ call' = [call EXCEPT ![i] = c]
                                         /\ retried' \in {retried, retried \cup {i}}
    <3>1. CASE Recv
      <4>1. taken + 1 \in Items
        BY <3>1, OrderingAssumption DEF Recv, CompleteInv, StageInv, Items
      <4> QED
        BY <3>1, <4>1 DEF Recv, Begin, Calls, orderingVars
    <3>2. ASSUME NEW i \in Items, WorkerActs(i)
          PROVE  \E c \in Calls : /\ call' = [call EXCEPT ![i] = c]
                                  /\ retried' \in {retried, retried \cup {i}}
      <4>1. call' = [call EXCEPT ![i] = call'[i]] /\ call'[i] \in Calls
        BY <3>2, Owns DEF Own
      <4>2. retried' \in {retried, retried \cup {i}}
        BY <1>2, <3>2 DEF WorkerActs, WorkerStep, Executed, ExecuteFails, Again, Send, SendFails,
             SendError, ExecutePanics, WorkerAborted, Return, Begin, CallDropped, orderingVars
      <4> QED
        BY <4>1, <4>2
    <3>3. CASE ~Recv /\ \A i \in Items : ~WorkerActs(i)
      BY <1>2, <3>3 DEF Next, LoopStep, RecvNone, ReportPanic, LoopEnds, Join, FlushStep,
           FlushNode, FlushSend, StageEnds, Take, EnvironmentFails, WorkerActs, vars, stageVars,
           orderingVars
    <3> QED
      BY <3>1, <3>2, <3>3
  <2>4. call' \in [Items -> Calls] /\ retried' \subseteq Items
    BY <2>1, <2>3 DEF OrderingTypeOK, Calls
  <2> QED
    BY <2>1, <2>2, <2>4 DEF OrderingTypeOK, Calls
<1> QED
  BY <1>1, <1>2

LEMMA SeqTypes ==
  ASSUME CompleteInv, Next
  PROVE  /\ out' \in [Items -> Seq(Items)] /\ tail' \in Seq(Items)
         /\ chan' \in Seq(Items) /\ delivered' \in Seq(Items)
<1>0. /\ out \in [Items -> Seq(Items)] /\ tail \in Seq(Items) /\ <<>> \in Seq(Items)
      /\ chan \in Seq(Items) /\ delivered \in Seq(Items) /\ ready \in SUBSET Items
  BY DEF CompleteInv, TypeOK, OrderingTypeOK
<1>1. CASE Recv \/ RecvNone \/ ReportPanic \/ LoopEnds \/ (\E i \in Items : Join(i))
             \/ UNCHANGED vars
  BY <1>0, <1>1 DEF Recv, RecvNone, ReportPanic, LoopEnds, Join, vars, stageVars
<1>2. CASE FlushNode
  BY <1>0, <1>2, Sorted DEF FlushNode
<1>3. CASE FlushSend
  <2>1. Head(tail) \in Items /\ Tail(tail) \in Seq(Items)
    BY <1>0, <1>3, LastOne DEF FlushSend
  <2> QED
    BY <1>0, <1>3, <2>1 DEF FlushSend
<1>4. CASE StageEnds
  BY <1>0, <1>4 DEF StageEnds
<1>5. CASE Take
  <2>1. Head(chan) \in Items /\ Tail(chan) \in Seq(Items)
    BY <1>0, <1>5, LastOne DEF Take
  <2> QED
    BY <1>0, <1>5, <2>1 DEF Take
<1>6. CASE \E f \in Faults : EnvironmentFails(f)
  BY <1>0, <1>6 DEF EnvironmentFails
<1>7. ASSUME NEW i \in Items, WorkerActs(i)
      PROVE  /\ out' \in [Items -> Seq(Items)] /\ tail' = tail
             /\ chan' \in Seq(Items) /\ delivered' = delivered
  <2>1. CASE Executed(i)
    <3>1. PICK s \in Seq(Items) : out' = [out EXCEPT ![i] = s]
      BY <2>1, ExecutedSends
    <3>2. UNCHANGED <<tail, chan, delivered>>
      BY <2>1 DEF Executed
    <3> QED
      BY <1>0, <3>1, <3>2
  <2>2. CASE Send(i)
    <3>1. out[i] \in Seq(Items) /\ out[i] # <<>>
      BY <1>0, <2>2 DEF Send, CompleteInv, ItemInv
    <3>2. Head(out[i]) \in Items /\ Tail(out[i]) \in Seq(Items)
      BY <3>1, LastOne
    <3> QED
      BY <1>0, <2>2, <3>2 DEF Send
  <2>3. CASE ExecuteFails(i) \/ Again(i) \/ ExecutePanics(i) \/ WorkerAborted(i)
               \/ SendFails(i) \/ SendError(i)
    BY <1>0, <2>3 DEF ExecuteFails, Again, ExecutePanics, WorkerAborted, SendFails, SendError
  <2> QED
    BY <1>7, <2>1, <2>2, <2>3 DEF WorkerActs, WorkerStep
<1> QED
  BY <1>0, <1>1, <1>2, <1>3, <1>4, <1>5, <1>6, <1>7 DEF Next, LoopStep, FlushStep, WorkerActs

LEMMA StageTypes ==
  ASSUME CompleteInv, Next
  PROVE  TypeOK'
<1>1. /\ taken' \in 0..NumItems
      /\ worker' \in [Items -> {"none", "reaped"} \cup Running \cup Ended]
  BY OrderlyStep DEF CompleteInv
<1>2. upClosed' \in BOOLEAN /\ aborting' \in BOOLEAN
  <2>1. upClosed \in BOOLEAN /\ aborting \in BOOLEAN
    BY DEF CompleteInv, TypeOK
  <2>2. upClosed' = upClosed \/ upClosed' = TRUE
    BY DEF Next, LoopStep, Recv, RecvNone, ReportPanic, LoopEnds, Join, FlushStep, FlushNode,
           FlushSend, StageEnds, Take, WorkerStep, Executed, ExecuteFails, Again, Send,
           SendFails, SendError, ExecutePanics, WorkerAborted, EnvironmentFails, vars, stageVars
  <2>3. aborting' = aborting \/ aborting' = TRUE
    BY DEF Next, LoopStep, Recv, RecvNone, ReportPanic, LoopEnds, Join, FlushStep, FlushNode,
           FlushSend, StageEnds, Take, WorkerStep, Executed, ExecuteFails, Again, Send,
           SendFails, SendError, ExecutePanics, WorkerAborted, EnvironmentFails, vars, stageVars
  <2> QED
    BY <2>1, <2>2, <2>3
<1>3. loop' \in {"select", "report", "flush", "emit", "done"}
  BY DEF CompleteInv, TypeOK, Next, LoopStep, Recv, RecvNone, ReportPanic, LoopEnds, Join,
         FlushStep, FlushNode, FlushSend, StageEnds, Take, WorkerStep, Executed, ExecuteFails,
         Again, Send, SendFails, SendError, ExecutePanics, WorkerAborted, EnvironmentFails,
         vars, stageVars
<1>4. dead' \subseteq Items /\ filtered' \subseteq Items /\ faults' \subseteq Faults
  BY DEF CompleteInv, TypeOK, Next, LoopStep, Recv, RecvNone, ReportPanic, LoopEnds, Join,
         FlushStep, FlushNode, FlushSend, StageEnds, Take, WorkerStep, Executed, ExecuteFails,
         Again, Send, SendFails, SendError, ExecutePanics, WorkerAborted, EnvironmentFails,
         vars, stageVars
<1>5. panics' \in 0..1
  <2>1. panics \in 0..1
    BY DEF CompleteInv, TypeOK
  <2>2. panics' = panics \/ (panics = 0 /\ panics' = panics + 1)
    BY DEF CompleteInv, LoopInv, Next, LoopStep, Recv, RecvNone, ReportPanic, LoopEnds, Join,
           FlushStep, FlushNode, FlushSend, StageEnds, Take, WorkerStep, Executed, ExecuteFails,
           Again, Send, SendFails, SendError, ExecutePanics, WorkerAborted, EnvironmentFails,
           vars, stageVars
  <2> QED
    BY <2>1, <2>2
<1> QED
  BY <1>1, <1>2, <1>3, <1>4, <1>5, NodeTypes, SeqTypes DEF TypeOK

LEMMA FlowSame ==
  ASSUME FlowInv, Way' = Way, Sent' = Sent, faults \subseteq faults'
  PROVE  FlowInv'
BY DEF FlowInv

\* The way p becomes s; and the first item of p goes to the end of q.
Becomes(p, s) == \A w \in Ways : Way'[w] = IF w = p THEN s ELSE Way[w]
Passes(p, q) ==
  \A w \in Ways : Way'[w] = IF w = p THEN Tail(Way[p])
                            ELSE IF w = q THEN Append(Way[q], Head(Way[p])) ELSE Way[w]

LEMMA WayNext ==
  /\ Way = [w \in Ways |-> Way[w]] /\ Way' = [w \in Ways |-> Way'[w]]
  /\ \A w \in Ways : Way'[w] = IF w = -2 THEN delivered'
                               ELSE IF w = -1 THEN chan' ELSE IF w = 0 THEN tail' ELSE out'[w]
BY DEF Way, Ways

LEMMA FlowMoves ==
  ASSUME CompleteInv, Sent' = Sent, faults' = faults,
         NEW p \in Ways, NEW q \in Ways, p # q, Way[p] # <<>>, Passes(p, q)
  PROVE  FlowInv'
<1>1. Way \in [Ways -> Seq(Items)] /\ FlowInv
  BY WayType DEF CompleteInv
<1>2. Way' = [Way EXCEPT ![p] = Tail(Way[p]), ![q] = Append(Way[q], Head(Way[p]))]
  BY WayNext DEF Passes
<1>3. Unique(Way') /\ On(Way') = On(Way)
  BY <1>1, <1>2, Moves DEF FlowInv
<1> QED
  BY <1>1, <1>3 DEF FlowInv

LEMMA FlowDrops ==
  ASSUME CompleteInv, Sent' = Sent, faults \subseteq faults', NEW p \in Ways,
         Becomes(p, <<>>), Way[p] = <<>> \/ faults' # {}
  PROVE  FlowInv'
<1>1. Way \in [Ways -> Seq(Items)] /\ FlowInv
  BY WayType DEF CompleteInv
<1>2. Way' = [Way EXCEPT ![p] = <<>>]
  BY WayNext DEF Becomes
<1>3. Unique(Way') /\ On(Way') \subseteq On(Way) /\ (Way[p] = <<>> => Way' = Way)
  BY <1>1, <1>2, Drops DEF FlowInv
<1> QED
  BY <1>1, <1>3 DEF FlowInv

LEMMA FlowEnters ==
  ASSUME CompleteInv, faults' = faults, NEW p \in Ways, Way[p] = <<>>,
         NEW s \in Seq(Items), NEW S, Lists(s, S),
         Sent' = Sent \cup S, S \cap Sent = {}, Becomes(p, s)
  PROVE  FlowInv'
<1>1. Way \in [Ways -> Seq(Items)] /\ FlowInv /\ Unique(Way) /\ S \cap On(Way) = {}
  BY WayType DEF CompleteInv, FlowInv
<1>2. Way' = [Way EXCEPT ![p] = s]
  BY WayNext DEF Becomes
<1>3. Unique(Way') /\ On(Way') = On(Way) \cup S
  <2>1. Unique([Way EXCEPT ![p] = s]) /\ On([Way EXCEPT ![p] = s]) = On(Way) \cup S
    BY <1>1, Enters
  <2> QED
    BY <1>2, <2>1
<1> QED
  BY <1>1, <1>3 DEF FlowInv

LEMMA FlowStep ==
  ASSUME CompleteInv, Next
  PROVE  FlowInv'
<1>0. /\ TypeOK /\ FlowInv /\ LoopInv /\ out \in [Items -> Seq(Items)]
      /\ Way \in [Ways -> Seq(Items)]
      /\ -2 \in Ways /\ -1 \in Ways /\ 0 \in Ways
      /\ Way[-2] = delivered /\ Way[-1] = chan /\ Way[0] = tail
      /\ \A i \in Items : i \in Ways /\ i > 0 /\ Way[i] = out[i]
  BY WayType DEF CompleteInv, TypeOK
<1>i. \A i \in Items : ItemInv(i)
  BY DEF CompleteInv
<1>w. \A p \in Ways : p # -2 /\ p # -1 /\ p # 0 => p \in Items
  BY OrderingAssumption DEF Ways, Items
<1>1. CASE Recv \/ RecvNone \/ ReportPanic \/ LoopEnds \/ (\E i \in Items : Join(i))
             \/ UNCHANGED vars
  <2>1. UNCHANGED <<out, tail, chan, delivered, faults, ready>>
    BY <1>1 DEF Recv, RecvNone, ReportPanic, LoopEnds, Join, Begin, vars, stageVars, orderingVars
  <2>2. Made' = Made
    BY <1>1, MadeElse DEF LoopStep
  <2> QED
    BY <1>0, <2>1, <2>2, FlowSame DEF Way, Sent
<1>2. CASE FlushNode
  <2>1. Made' = Made
    BY <1>2, MadeElse DEF FlushStep
  <2>2. CASE Ordered
    <3>1. /\ tail' = Ascending(ready) /\ ready' = {} /\ UNCHANGED <<out, chan, delivered, faults>>
      BY <1>2, <2>2 DEF FlushNode, FlushBuffer
    <3>2. ready \in SUBSET Items /\ ready \subseteq Made /\ Way[0] = <<>>
      BY <1>0, <1>2 DEF FlushNode, LoopInv, CompleteInv, TypeOK, OrderingTypeOK, StageInv,
                        OrderInv, NothingSwallowed, Untouched
    <3>3. Sent' = Sent \cup ready /\ ready \cap Sent = {}
      BY <2>1, <3>1, <3>2 DEF Sent
    <3>4. Becomes(0, Ascending(ready))
      BY <3>1 DEF Way, Ways, Becomes
    <3>5. Ascending(ready) \in Seq(Items) /\ Lists(Ascending(ready), ready)
      BY <3>2, Sorted
    <3> QED
      BY <1>0, <3>1, <3>2, <3>3, <3>4, <3>5, FlowEnters
  <2>3. CASE ~Ordered
    <3>1. UNCHANGED <<out, tail, chan, delivered, faults, ready>>
      BY <1>2, <2>3 DEF FlushNode, orderingVars
    <3> QED
      BY <1>0, <2>1, <3>1, FlowSame DEF Way, Sent
  <2> QED
    BY <2>2, <2>3
<1>3. CASE FlushSend
  <2>1. /\ tail # <<>> /\ chan' = Append(chan, Head(tail)) /\ tail' = Tail(tail)
        /\ UNCHANGED <<out, delivered, faults, ready>>
    BY <1>3 DEF FlushSend, orderingVars
  <2>2. Sent' = Sent
    BY <1>3, <2>1, MadeElse DEF FlushStep, Sent
  <2>5. \A w \in Ways : Way'[w] = IF w = 0 THEN Tail(tail)
                                   ELSE IF w = -1 THEN Append(chan, Head(tail)) ELSE Way[w]
    BY <2>1 DEF Way, Ways
  <2>3. Passes(0, -1)
    BY <1>0, <2>5 DEF Passes
  <2>4. 0 # -1 /\ Way[0] # <<>>
    BY <1>0, <2>1
  <2> QED
    BY <1>0, <2>1, <2>2, <2>3, <2>4, FlowMoves
<1>4. CASE Take
  <2>1. /\ chan # <<>> /\ delivered' = Append(delivered, Head(chan)) /\ chan' = Tail(chan)
        /\ UNCHANGED <<out, tail, faults, ready>>
    BY <1>4 DEF Take, orderingVars
  <2>2. Sent' = Sent
    BY <1>4, <2>1, MadeElse DEF Sent
  <2>5. \A w \in Ways : Way'[w] = IF w = -1 THEN Tail(chan)
                                   ELSE IF w = -2 THEN Append(delivered, Head(chan)) ELSE Way[w]
    BY <2>1 DEF Way, Ways
  <2>3. Passes(-1, -2)
    BY <1>0, <2>5 DEF Passes
  <2>4. -1 # -2 /\ Way[-1] # <<>>
    BY <1>0, <2>1
  <2> QED
    BY <1>0, <2>1, <2>2, <2>3, <2>4, FlowMoves
<1>5. CASE StageEnds
  <2>1. /\ tail = <<>> \/ faults' # {}
        /\ tail' = <<>> /\ UNCHANGED <<out, chan, delivered, faults, ready>>
    BY <1>5 DEF StageEnds, Gone, orderingVars
  <2>2. Sent' = Sent
    BY <1>5, <2>1, MadeElse DEF FlushStep, Sent
  <2>3. Becomes(0, <<>>)
    BY <2>1 DEF Way, Ways, Becomes
  <2> QED
    BY <1>0, <2>1, <2>2, <2>3, FlowDrops
<1>6. CASE \E f \in Faults : EnvironmentFails(f)
  <2>1. /\ faults \subseteq faults' /\ faults' # {} /\ (chan' = chan \/ chan' = <<>>)
        /\ UNCHANGED <<out, tail, delivered, ready>>
    BY <1>6 DEF EnvironmentFails, orderingVars
  <2>2. Sent' = Sent
    BY <1>6, <2>1, MadeElse DEF Sent
  <2>3. CASE chan' = chan
    <3>1. Way' = Way
      BY <2>1, <2>3 DEF Way
    <3> QED
      BY <1>0, <2>1, <2>2, <3>1, FlowSame
  <2>4. CASE chan' = <<>>
    <3>1. Becomes(-1, <<>>)
      BY <2>1, <2>4 DEF Way, Ways, Becomes
    <3> QED
      BY <1>0, <2>1, <2>2, <3>1, FlowDrops
  <2> QED
    BY <2>1, <2>3, <2>4
<1>7. ASSUME NEW i \in Items, WorkerActs(i) PROVE FlowInv'
  <2>0. i \in Ways /\ i > 0 /\ Way[i] = out[i] /\ ItemInv(i)
    BY <1>0, <1>i
  <2>1. CASE Executed(i)
    <3>1. PICK S \in SUBSET Items, s \in Seq(Items) :
            /\ out' = [out EXCEPT ![i] = s] /\ Lists(s, S)
            /\ Sent' = Sent \cup S /\ S \cap Sent = {}
      BY <2>1, ExecutedSends
    <3>2. Way[i] = <<>> /\ UNCHANGED <<tail, chan, delivered, faults>>
      BY <2>0, <2>1 DEF Executed, ItemInv
    <3>3. Becomes(i, s)
      BY <1>0, <1>w, <2>0, <3>1, <3>2 DEF Way, Becomes
    <3> QED
      BY <2>0, <3>1, <3>2, <3>3, FlowEnters
  <2>2. CASE Send(i)
    <3>1. /\ Way[i] # <<>> /\ out' = [out EXCEPT ![i] = Tail(out[i])]
          /\ chan' = Append(chan, Head(out[i])) /\ UNCHANGED <<tail, delivered, faults, ready>>
      BY <2>0, <2>2 DEF Send, ItemInv, orderingVars
    <3>2. Sent' = Sent
      BY <2>2, MadeSame DEF Sent
    <3>5. \A w \in Ways : Way'[w] = IF w = i THEN Tail(out[i])
                                     ELSE IF w = -1 THEN Append(chan, Head(out[i])) ELSE Way[w]
      BY <1>0, <1>w, <2>0, <3>1 DEF Way
    <3>3. Passes(i, -1)
      BY <1>0, <2>0, <3>5 DEF Passes
    <3>4. i # -1 /\ faults' = faults
      BY <2>0, <3>1
    <3> QED
      BY <1>0, <2>0, <3>1, <3>2, <3>3, <3>4, FlowMoves
  <2>3. CASE SendFails(i) \/ WorkerAborted(i)
    <3>1. /\ out' = [out EXCEPT ![i] = <<>>] /\ UNCHANGED <<tail, chan, delivered, faults>>
      BY <2>3 DEF SendFails, WorkerAborted
    <3>2. faults' # {}
      BY <1>0, <2>3 DEF SendFails, WorkerAborted, Gone, LoopInv, InSet
    <3>3. Sent' = Sent
      BY <2>3, MadeSame DEF Sent
    <3>4. Becomes(i, <<>>)
      BY <1>0, <1>w, <2>0, <3>1 DEF Way, Becomes
    <3> QED
      BY <2>0, <3>1, <3>2, <3>3, <3>4, FlowDrops
  <2>4. CASE ExecuteFails(i) \/ Again(i) \/ ExecutePanics(i) \/ SendError(i)
    <3>1. /\ UNCHANGED <<out, tail, chan, delivered>> /\ faults \subseteq faults'
      BY <2>4 DEF ExecuteFails, Again, ExecutePanics, SendError
    <3>2. Sent' = Sent
      BY <2>4, MadeSame DEF Sent
    <3> QED
      BY <1>0, <3>1, <3>2, FlowSame DEF Way
  <2> QED
    BY <1>7, <2>1, <2>2, <2>3, <2>4 DEF WorkerActs, WorkerStep
<1> QED
  BY <1>1, <1>2, <1>3, <1>4, <1>5, <1>6, <1>7 DEF Next, LoopStep, FlushStep, WorkerActs

LEMMA MadeKeeps ==
  ASSUME CompleteInv, Next
  PROVE  (Ordered => produced = Made)'
<1>0. (Ordered => produced = Made) /\ (Ordered' <=> Ordered)
  BY DEF CompleteInv, Next, Ordered
<1>1. ASSUME NEW i \in Items, WorkerActs(i) PROVE Ordered => produced' = Made'
  BY <1>0, <1>1, ExecutedSends, MadeSame DEF WorkerActs, WorkerStep
<1>2. CASE LoopStep \/ FlushStep \/ Take \/ (\E f \in Faults : EnvironmentFails(f)) \/ UNCHANGED vars
  BY <1>0, <1>2, MadeElse
<1> QED
  BY <1>0, <1>1, <1>2 DEF Next, WorkerActs

LEMMA CompleteStep == CompleteInv /\ [Next]_<<kind, vars>> => CompleteInv'
<1> SUFFICES ASSUME CompleteInv, [Next]_<<kind, vars>> PROVE CompleteInv'
  OBVIOUS
<1>1. StageInv'
  BY StageStep DEF CompleteInv
<1>2. CASE Next
  BY <1>1, <1>2, StageTypes, FlowStep, LoopKeeps, ItemsStep, MadeKeeps DEF CompleteInv
<1>3. CASE UNCHANGED <<kind, vars>>
  <2>1. /\ UNCHANGED <<kind, next, queued, ready, call, flushed, released, produced, retried, late>>
        /\ UNCHANGED <<taken, upClosed, loop, aborting, worker, out, tail, chan, delivered, dead,
                       filtered, panics, faults>>
    BY <1>3 DEF vars, stageVars, orderingVars
  <2>2. TypeOK' /\ Made' = Made /\ Way' = Way
    BY <2>1 DEF CompleteInv, TypeOK, OrderingTypeOK, Made, Way
  <2>3. FlowInv'
    BY <2>1, <2>2 DEF CompleteInv, FlowInv, Sent
  <2>4. LoopInv'
    BY <2>1 DEF CompleteInv, LoopInv, InSet
  <2>5. \A i \in Items : ItemInv(i)'
    BY <2>1 DEF CompleteInv, ItemInv, Gone, DlqDead
  <2> QED
    BY <1>1, <2>1, <2>2, <2>3, <2>4, <2>5 DEF CompleteInv, Ordered
<1> QED
  BY <1>2, <1>3

\* A sequence without repetition is as long as its elements are many.
LEMMA Counted ==
  ASSUME NEW s \in Seq(Items), \A j, k \in DOMAIN s : s[j] = s[k] => j = k
  PROVE  IsFiniteSet(Range(s)) /\ Cardinality(Range(s)) = Len(s)
<1>1. /\ DOMAIN s = 1..Len(s) /\ Len(s) \in Nat /\ s \in [1..Len(s) -> Range(s)]
      /\ \A x \in Range(s) : \E j \in 1..Len(s) : s[j] = x
  BY DEF Range
<1>2. s \in Bijection(1..Len(s), Range(s))
  BY <1>1 DEF Bijection, Injection, Surjection, IsInjective
<1>3. IsFiniteSet(1..Len(s)) /\ Cardinality(1..Len(s)) = Len(s)
  <2>1. \A n \in Nat : IsFiniteSet(1..n) /\ Cardinality(1..n) = n
    BY FS_Interval
  <2> QED
    BY <1>1, <2>1
<1> QED
  BY <1>2, <1>3, FS_Bijection DEF ExistsBijection

\* When the stage is over and nothing has failed, every item has its place.
LEMMA AllPlaced ==
  ASSUME CompleteInv, Over, faults = {}
  PROVE  /\ Range(delivered) \cup dead \cup filtered = 1..taken
         /\ Range(delivered) = Made
<1>1. /\ loop = "done" /\ chan = <<>> /\ tail = <<>> /\ ready = {} /\ InSet = {}
  BY DEF Over, Gone, CompleteInv, LoopInv
<1>2. \A i \in Items : ItemInv(i) /\ worker[i] \in {"none", "reaped"} /\ out[i] = <<>>
  <2>1. \A i \in Items : worker[i] \in {"none", "reaped"} \cup Running \cup Ended
    BY DEF CompleteInv, TypeOK
  <2>2. \A i \in Items : worker[i] \in {"none", "reaped"}
    BY <1>1, <2>1 DEF InSet
  <2> QED
    BY <2>2 DEF CompleteInv, ItemInv
<1>3. On(Way) = Made
  BY <1>1 DEF CompleteInv, FlowInv, Sent
<1>4. /\ -2 \in Ways /\ Way[-2] = delivered /\ delivered \in Seq(Items)
      /\ \A w \in Ways : w # -2 => Way[w] = <<>>
  <2>1. \A p \in Ways : p # -2 /\ p # -1 /\ p # 0 => p \in Items
    BY OrderingAssumption DEF Ways, Items
  <2> QED
    BY <1>1, <1>2, <2>1, WayType DEF CompleteInv, TypeOK
<1>5. Range(delivered) = On(Way)
  <2>1. ASSUME NEW x \in On(Way) PROVE x \in Range(delivered)
    <3>1. PICK w \in Ways : \E j \in DOMAIN Way[w] : Way[w][j] = x
      BY <2>1 DEF On
    <3>2. w = -2
      BY <1>4, <3>1
    <3> QED
      BY <1>4, <3>1, <3>2 DEF Range
  <2>2. ASSUME NEW x \in Range(delivered) PROVE x \in On(Way)
    BY <1>4, <2>2 DEF On, Range
  <2> QED
    BY <2>1, <2>2
<1>6. dead \subseteq Items /\ filtered \subseteq Items /\ taken \in 0..NumItems
  BY DEF CompleteInv, TypeOK
<1>7. ASSUME NEW i \in Items
      PROVE  i \in Made \cup dead \cup filtered <=> i <= taken
  <2>1. i \in Int /\ taken \in Int /\ ItemInv(i) /\ worker[i] \in {"none", "reaped"}
    BY <1>2, <1>6 DEF Items
  <2>2. i <= taken <=> worker[i] = "reaped"
    BY <2>1 DEF ItemInv
  <2>3. worker[i] = "reaped" => call[i] = "done" \/ i \in dead
    BY <2>1 DEF ItemInv
  <2>4. worker[i] = "none" => call[i] = "idle" /\ i \notin dead /\ i \notin filtered
    BY <2>1 DEF ItemInv
  <2> QED
    BY <2>1, <2>2, <2>3, <2>4 DEF Made
<1>8. \A x : x \in 1..taken <=> x \in Items /\ x <= taken
  BY <1>6, OrderingAssumption DEF Items
<1>9. Made \subseteq Items
  BY DEF Made
<1> QED
  BY <1>3, <1>5, <1>6, <1>7, <1>8, <1>9

LEMMA CompleteFromInv == CompleteInv => Complete
<1> SUFFICES ASSUME CompleteInv PROVE Complete
  OBVIOUS
<1>0. /\ -2 \in Ways /\ Way[-2] = delivered /\ delivered \in Seq(Items) /\ IsFiniteSet(Items)
      /\ dead \subseteq Items /\ filtered \subseteq Items
  <2>1. IsFiniteSet(Items)
    BY OrderingAssumption, FS_Interval DEF Items
  <2> QED
    BY <2>1, WayType DEF CompleteInv, TypeOK
<1>1. \A j, k \in DOMAIN delivered : delivered[j] = delivered[k] => j = k
  BY <1>0 DEF CompleteInv, FlowInv, Unique
<1>2. \A i \in dead : call[i] = "failed"
  BY <1>0 DEF CompleteInv, ItemInv
<1>3. \A i \in filtered : call[i] = "done"
  BY <1>0 DEF CompleteInv, ItemInv
<1>4. Range(delivered) \subseteq Made
  <2>1. ASSUME NEW x \in Range(delivered) PROVE x \in On(Way)
    BY <1>0, <2>1 DEF On, Range
  <2> QED
    BY <2>1 DEF CompleteInv, FlowInv, Sent
<1>5. Range(delivered) \cap dead = {}
  BY <1>2, <1>4 DEF Made
<1>6. ASSUME Over, faults = {}
      PROVE  Len(delivered) + Cardinality(dead) + Cardinality(filtered) = taken
  <2> DEFINE R == Range(delivered)
  <2>1. R \cup dead \cup filtered = 1..taken
    BY <1>6, AllPlaced
  <2>2. IsFiniteSet(R) /\ Cardinality(R) = Len(delivered) /\ IsFiniteSet(dead) /\ IsFiniteSet(filtered)
    BY <1>0, <1>1, Counted, FS_Subset
  <2>3. (R \cup dead) \cap filtered = {} /\ R \cap dead = {}
    BY <1>2, <1>3, <1>4, <1>5 DEF Made
  <2> HIDE DEF R
  <2>4. /\ IsFiniteSet(R \cup dead)
        /\ Cardinality(R \cup dead) = Cardinality(R) + Cardinality(dead) - Cardinality(R \cap dead)
    BY <2>2, FS_Union
  <2>5. Cardinality((R \cup dead) \cup filtered)
          = Cardinality(R \cup dead) + Cardinality(filtered)
              - Cardinality((R \cup dead) \cap filtered)
    BY <2>2, <2>4, FS_Union
  <2>6. Cardinality({}) = 0 /\ Cardinality(1..taken) = taken
    BY FS_EmptySet, FS_Interval DEF CompleteInv, TypeOK
  <2>7. /\ Cardinality(R) \in Nat /\ Cardinality(dead) \in Nat /\ Cardinality(filtered) \in Nat
        /\ Len(delivered) = Cardinality(R)
    BY <2>2, FS_CardinalityType
  <2>8. Cardinality(R \cup dead) = Cardinality(R) + Cardinality(dead)
    <3>1. Cardinality(R \cap dead) = 0
      BY ONLY <2>3, <2>6, Zenon
    <3> QED
      BY <2>4, <2>7, <3>1
  <2>9. taken = Cardinality(R \cup dead) + Cardinality(filtered)
    <3>1. Cardinality((R \cup dead) \cap filtered) = 0 /\ Cardinality(R \cup dead \cup filtered) = taken
      BY ONLY <2>1, <2>3, <2>6, Zenon
    <3> QED
      BY <2>5, <2>7, <2>8, <3>1
  <2> QED
    BY <2>7, <2>8, <2>9
<1>7. Over /\ faults = {"panic"} => panics = 1
  BY DEF Over, CompleteInv, LoopInv
<1> QED
  BY <1>1, <1>5, <1>6, <1>7, AllPlaced DEF Complete

LEMMA CompleteInvariance == Spec => []CompleteInv
  BY CompleteInit, CompleteStep, PTL DEF Spec

\* The types of the stage and of the node in it (pipeline.rs:318-431).
THEOREM StageTypesOK == Spec => []TypeOK
<1>1. CompleteInv => TypeOK
  BY DEF CompleteInv
<1> QED
  BY <1>1, CompleteInvariance, PTL

\* The join of the workers, the flush and the channel: an item is delivered, dead-
\* lettered or filtered, once, when the stage is over and nothing has failed; a panic
\* is reported once; and whatever fails, no item is delivered twice or also
\* dead-lettered (pipeline.rs:329-430) - for every number of items, limit and capacity.
THEOREM StageComplete == Spec => []Complete
  BY CompleteFromInv, CompleteInvariance, PTL
=============================================================================
