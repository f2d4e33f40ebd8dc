-------------------------- MODULE RateLimitProofs ---------------------------
(***************************************************************************)
(* The token bucket for every rate, cost and capacity, every sequence of   *)
(* requests and no bound on time: the rate is bounded, sleepers wake one   *)
(* by one, and only excess is rejected.                                    *)
(***************************************************************************)
EXTENDS RateLimit, TLAPS

Admission == [at : Int, due : Int]

RateType ==
  /\ strategy \in Strategies
  /\ tokens \in Int /\ last \in Int /\ now \in Int /\ last <= now
  /\ admitted \in Seq(Admission)

\* What is in the bucket and what was taken since request j came, is at most a full
\* bucket and what has come since.
Taken(n) ==
  \A j \in 1..n : tokens + (n - j + 1) * Cost <= Capacity + Rate * (last - admitted[j].at)

\* And if j sleeps, the bucket is empty when it wakes up, less than a tick's refill.
Owed(n) ==
  \A j \in 1..n : admitted[j].due > admitted[j].at =>
    tokens + (n - j) * Cost < Rate * (last - admitted[j].due) + Rate

\* Without sleepers nothing is owed: the bucket is full, or has at least what has come
\* since the last request.
Unowed ==
  strategy = "reject" =>
    \/ tokens = Capacity
    \/ /\ admitted # <<>>
       /\ tokens >= Rate * (last - admitted[Len(admitted)].at)

RateInv ==
  /\ RateType
  /\ \A n : n = Len(admitted) => Taken(n) /\ Owed(n)
  /\ Unowed /\ RateBound /\ SleepersSpaced

-----------------------------------------------------------------------------
\* The whole number of ticks that a sleeper waits.
LEMMA Wait ==
  ASSUME NEW x \in Int, NEW r \in Nat \ {0}
  PROVE  /\ (x + r - 1) \div r \in Int
         /\ r * ((x + r - 1) \div r) >= x /\ r * ((x + r - 1) \div r) < x + r
OBVIOUS

LEMMA RateInit == Init => RateInv
<1> SUFFICES ASSUME Init PROVE RateInv
  OBVIOUS
<1>1. Len(admitted) = 0 /\ admitted = <<>>
  BY DEF Init
<1>2. Capacity \in Int
  BY RateAssumption DEF Capacity
<1>3. RateType
  BY <1>2 DEF Init, RateType
<1>4. Taken(0) /\ Owed(0)
  BY DEF Taken, Owed
<1>5. RateBound /\ SleepersSpaced
  BY <1>1 DEF RateBound, SleepersSpaced
<1>6. Unowed
  BY DEF Init, Unowed
<1> QED
  BY <1>1, <1>3, <1>4, <1>5, <1>6 DEF RateInv
\* What the bucket has after the refill, never more than has come since, never less
\* unless it is full.
LEMMA Refill ==
  ASSUME RateType
  PROVE  /\ Cost \in Nat \ {0} /\ Rate \in Nat \ {0} /\ Capacity \in Int /\ Refilled \in Int
         /\ Refilled <= tokens + Rate * (now - last) /\ Refilled <= Capacity
         /\ Refilled = Capacity \/ Refilled = tokens + Rate * (now - last)
         /\ Rate * (now - last) >= 0
<1>1. Cost \in Nat \ {0} /\ Rate \in Nat \ {0} /\ Capacity \in Int
  BY RateAssumption DEF Capacity
<1>2. Rate * (now - last) \in Int /\ Rate * (now - last) >= 0
  <2>1. now - last \in Nat
    BY DEF RateType
  <2> QED
    BY <1>1, <2>1
<1> QED
  BY <1>1, <1>2 DEF Refilled, RateType

\* A request is let through at `now`, to start at d, and takes a token.
LEMMA AdmitKeeps ==
  ASSUME RateInv, NEW d \in Int, UNCHANGED <<strategy, now>>,
         tokens' = Refilled - Cost, last' = now, Admit(d),
         Rate * (d - now) >= Cost - Refilled, d >= now,
         d > now => Rate * (d - now) < Cost - Refilled + Rate,
         strategy = "reject" => Refilled >= Cost
  PROVE  RateInv'
<1>1. /\ Cost \in Nat \ {0} /\ Rate \in Nat \ {0} /\ Capacity \in Int /\ Refilled \in Int
      /\ Refilled <= tokens + Rate * (now - last) /\ Refilled <= Capacity
      /\ tokens \in Int /\ last \in Int /\ now \in Int
  BY Refill DEF RateInv, RateType
<1>2. PICK n, a : n = Len(admitted) /\ a = [at |-> now, due |-> d]
  OBVIOUS
<1>3. /\ n \in Nat /\ admitted' = Append(admitted, a) /\ admitted \in Seq(Admission)
      /\ a \in Admission /\ a.at = now /\ a.due = d
  BY <1>1, <1>2 DEF RateInv, RateType, Admit, Admission
<1>0. n \in Nat /\ \A j \in 1..(n + 1) : j \in 1..n \/ j = n + 1
  BY <1>3
<1>4. /\ admitted' \in Seq(Admission) /\ Len(admitted') = n + 1
      /\ DOMAIN admitted = 1..n /\ DOMAIN admitted' = 1..(n + 1)
      /\ admitted'[n + 1] = a /\ \A j \in 1..n : admitted'[j] = admitted[j]
      /\ \A j \in 1..n : admitted[j].at \in Int /\ admitted[j].due \in Int
  <2>1. /\ admitted' \in Seq(Admission) /\ Len(admitted') = n + 1
        /\ admitted'[n + 1] = a /\ \A j \in 1..n : admitted'[j] = admitted[j]
    BY <1>2, <1>3
  <2>2. DOMAIN admitted = 1..n /\ DOMAIN admitted' = 1..(n + 1)
    BY <1>2, <1>3, <2>1
  <2>3. \A j \in 1..n : admitted[j] \in Admission
    BY <1>2, <1>3
  <2> QED
    BY <2>1, <2>2, <2>3 DEF Admission
<1>5. PICK T : T = tokens'
  OBVIOUS
<1>6. T \in Int /\ T = Refilled - Cost /\ T <= tokens + Rate * (now - last) - Cost
      /\ T <= Capacity - Cost
      /\ Rate * (d - now) >= 0 - T /\ (d > now => Rate * (d - now) < Rate - T)
  BY <1>1, <1>5
<1> HIDE DEF Refilled, Capacity
<1>7. ASSUME NEW j \in 1..(n + 1)
      PROVE  T + (n + 1 - j + 1) * Cost <= Capacity + Rate * (now - admitted'[j].at)
  <2>1. CASE j \in 1..n
    <3>1. PICK x \in Int : x = admitted[j].at /\ admitted'[j].at = x
      BY <1>4, <2>1
    <3>2. tokens + (n - j + 1) * Cost <= Capacity + Rate * (last - x)
      BY <1>2, <2>1, <3>1 DEF RateInv, Taken
    <3>3. (n + 1 - j + 1) * Cost = (n - j + 1) * Cost + Cost
      BY <1>1, <1>3
    <3>4. Rate * (now - x) = Rate * (now - last) + Rate * (last - x)
      BY <1>1
    <3>5. /\ (n - j + 1) * Cost \in Int /\ Rate * (last - x) \in Int
          /\ Rate * (now - last) \in Int
      BY <1>1, <1>3
    <3> QED
      BY <1>1, <1>6, <3>1, <3>2, <3>3, <3>4, <3>5
  <2>2. CASE j = n + 1
    <3>1. admitted'[j].at = now /\ Rate * (now - now) = 0 /\ (n + 1 - j + 1) * Cost = Cost
      BY <1>1, <1>3, <1>4, <2>2
    <3> QED
      BY <1>1, <1>6, <3>1
  <2> QED
    BY <1>0, <2>1, <2>2
<1>8. ASSUME NEW j \in 1..(n + 1), admitted'[j].due > admitted'[j].at
      PROVE  T + (n + 1 - j) * Cost < Rate * (now - admitted'[j].due) + Rate
  <2>1. CASE j \in 1..n
    <3>1. PICK y \in Int : y = admitted[j].due /\ admitted'[j].due = y
      BY <1>4, <2>1
    <3>2. tokens + (n - j) * Cost < Rate * (last - y) + Rate
      BY <1>2, <1>4, <1>8, <2>1, <3>1 DEF RateInv, Owed
    <3>3. (n + 1 - j) * Cost = (n - j) * Cost + Cost
      BY <1>1, <1>3
    <3>4. Rate * (now - y) = Rate * (now - last) + Rate * (last - y)
      BY <1>1
    <3>5. /\ (n - j) * Cost \in Int /\ Rate * (last - y) \in Int
          /\ Rate * (now - last) \in Int
      BY <1>1, <1>3
    <3> QED
      BY <1>1, <1>6, <3>1, <3>2, <3>3, <3>4, <3>5
  <2>2. CASE j = n + 1
    <3>1. admitted'[j].due = d /\ d > now /\ (n + 1 - j) * Cost = 0
      BY <1>1, <1>3, <1>4, <1>8, <2>2
    <3>2. Rate * (now - d) = 0 - Rate * (d - now) /\ Rate * (d - now) \in Int
      BY <1>1
    <3> QED
      BY <1>1, <1>6, <3>1, <3>2
  <2> QED
    BY <1>0, <2>1, <2>2
<1>9. Taken(n + 1)'
  <2> SUFFICES ASSUME NEW j \in 1..(n + 1)
               PROVE  tokens' + (n + 1 - j + 1) * Cost <= Capacity + Rate * (last' - admitted'[j].at)
    BY <1>0 DEF Taken, Capacity
  <2> QED
    BY <1>5, <1>7
<1>10. Owed(n + 1)'
  <2> SUFFICES ASSUME NEW j \in 1..(n + 1), admitted'[j].due > admitted'[j].at
               PROVE  tokens' + (n + 1 - j) * Cost < Rate * (last' - admitted'[j].due) + Rate
    BY <1>0 DEF Owed
  <2> QED
    BY <1>5, <1>8
<1>11. RateBound'
  <2> SUFFICES ASSUME NEW k \in 1..(n + 1), NEW j \in 1..k
               PROVE  (k - j + 1) * Cost
                        <= Capacity + Rate * (admitted'[k].due - admitted'[j].at)
    BY <1>4 DEF RateBound, Capacity
  <2>1. CASE k \in 1..n
    <3>1. j \in 1..n
      BY <1>3, <2>1
    <3> QED
      BY <1>4, <2>1, <3>1 DEF RateInv, RateBound
  <2>2. CASE k = n + 1
    <3>1. PICK x \in Int : x = admitted'[j].at
      BY <1>1, <1>3, <1>4, <2>2
    <3>2. T + (n + 1 - j + 1) * Cost <= Capacity + Rate * (now - x)
      BY <1>7, <2>2, <3>1
    <3>3. Rate * (d - x) = Rate * (d - now) + Rate * (now - x)
      BY <1>1
    <3>4. /\ (n + 1 - j + 1) * Cost \in Int /\ Rate * (d - now) \in Int
          /\ Rate * (now - x) \in Int /\ j \in Int
      BY <1>1, <1>3
    <3>5. admitted'[k].due = d /\ k - j + 1 = n + 1 - j + 1
      BY <1>3, <1>4, <2>2
    <3> QED
      BY <1>1, <1>6, <3>1, <3>2, <3>3, <3>4, <3>5
  <2> QED
    BY <1>0, <2>1, <2>2
<1>12. SleepersSpaced'
  <2> SUFFICES ASSUME NEW k \in 1..(n + 1), NEW j \in 1..(k - 1),
                      admitted'[j].due > admitted'[j].at
               PROVE  Rate * (admitted'[k].due - admitted'[j].due) > (k - j) * Cost - Rate
    BY <1>4 DEF SleepersSpaced
  <2>0. j \in 1..n
    BY <1>3
  <2>1. CASE k \in 1..n
    BY <1>4, <2>0, <2>1 DEF RateInv, SleepersSpaced
  <2>2. CASE k = n + 1
    <3>1. PICK y \in Int : y = admitted'[j].due
      BY <1>4, <2>0
    <3>2. T + (n + 1 - j) * Cost < Rate * (now - y) + Rate
      BY <1>0, <1>8, <2>0, <3>1
    <3>3. Rate * (d - y) = Rate * (d - now) + Rate * (now - y)
      BY <1>1
    <3>4. /\ (n + 1 - j) * Cost \in Int /\ Rate * (d - now) \in Int
          /\ Rate * (now - y) \in Int
      BY <1>1, <1>3
    <3>5. admitted'[k].due = d /\ k - j = n + 1 - j
      BY <1>3, <1>4, <2>2
    <3> QED
      BY <1>1, <1>6, <3>1, <3>2, <3>3, <3>4, <3>5
  <2> QED
    BY <1>0, <2>1, <2>2
<1>13. Unowed'
  <2> SUFFICES ASSUME strategy = "reject"
               PROVE  tokens' >= Rate * (last' - admitted'[Len(admitted')].at)
    BY <1>3, <1>4 DEF Unowed
  <2>1. admitted'[Len(admitted')].at = now
    BY <1>3, <1>4
  <2>2. Rate * (now - now) = 0
    BY <1>1
  <2> QED
    BY <1>1, <2>1, <2>2
<1>14. RateType'
  BY <1>1, <1>4 DEF RateInv, RateType
<1> QED
  BY <1>4, <1>9, <1>10, <1>11, <1>12, <1>13, <1>14 DEF RateInv

LEMMA RejectKeeps == RateInv /\ Reject /\ UNCHANGED strategy => RateInv'
<1> SUFFICES ASSUME RateInv, Reject, UNCHANGED strategy PROVE RateInv'
  OBVIOUS
<1>1. /\ Cost \in Nat \ {0} /\ Rate \in Nat \ {0} /\ Capacity \in Int /\ Refilled \in Int
      /\ Refilled <= tokens + Rate * (now - last) /\ Refilled <= Capacity
      /\ Refilled = Capacity \/ Refilled = tokens + Rate * (now - last)
      /\ tokens \in Int /\ last \in Int /\ now \in Int /\ tokens' = Refilled
      /\ last' = now /\ UNCHANGED <<strategy, now, admitted>>
  BY Refill DEF RateInv, RateType, Reject
<1>2. PICK n : n = Len(admitted)
  OBVIOUS
<1>3. /\ n \in Nat
      /\ \A j \in 1..n : admitted[j].at \in Int /\ admitted[j].due \in Int
      /\ admitted # <<>> => n \in 1..n
  <2>1. admitted \in Seq(Admission) /\ n = Len(admitted)
    BY <1>2 DEF RateInv, RateType
  <2>2. n \in Nat /\ (admitted # <<>> => n \in 1..n) /\ \A j \in 1..n : admitted[j] \in Admission
    BY <2>1
  <2> QED
    BY <2>2 DEF Admission
<1> HIDE DEF Refilled, Capacity
<1>4. Taken(n)'
  <2> SUFFICES ASSUME NEW j \in 1..n
               PROVE  Refilled + (n - j + 1) * Cost <= Capacity + Rate * (now - admitted[j].at)
    BY <1>1 DEF Taken, Capacity
  <2>1. PICK x \in Int : x = admitted[j].at
    BY <1>3
  <2>2. tokens + (n - j + 1) * Cost <= Capacity + Rate * (last - x)
    BY <1>2, <2>1 DEF RateInv, Taken
  <2>3. Rate * (now - x) = Rate * (now - last) + Rate * (last - x)
    BY <1>1
  <2>4. (n - j + 1) * Cost \in Int /\ Rate * (last - x) \in Int /\ Rate * (now - last) \in Int
    BY <1>1, <1>3
  <2> QED
    BY <1>1, <2>1, <2>2, <2>3, <2>4
<1>5. Owed(n)'
  <2> SUFFICES ASSUME NEW j \in 1..n, admitted[j].due > admitted[j].at
               PROVE  Refilled + (n - j) * Cost < Rate * (now - admitted[j].due) + Rate
    BY <1>1 DEF Owed
  <2>1. PICK y \in Int : y = admitted[j].due
    BY <1>3
  <2>2. tokens + (n - j) * Cost < Rate * (last - y) + Rate
    BY <1>2, <2>1 DEF RateInv, Owed
  <2>3. Rate * (now - y) = Rate * (now - last) + Rate * (last - y)
    BY <1>1
  <2>4. (n - j) * Cost \in Int /\ Rate * (last - y) \in Int /\ Rate * (now - last) \in Int
    BY <1>1, <1>3
  <2> QED
    BY <1>1, <2>1, <2>2, <2>3, <2>4
<1>6. Unowed'
  <2> SUFFICES ASSUME strategy = "reject", Refilled # Capacity
               PROVE  admitted # <<>> /\ Refilled >= Rate * (now - admitted[n].at)
    BY <1>1, <1>2 DEF Unowed, Capacity
  <2>1. Refilled = tokens + Rate * (now - last) /\ Rate * (now - last) >= 0
    BY <1>1, Refill DEF RateInv
  <2>2. tokens # Capacity
    BY <1>1, <2>1
  <2>3. admitted # <<>> /\ tokens >= Rate * (last - admitted[n].at)
    BY <1>2, <2>2 DEF RateInv, Unowed
  <2>4. PICK x \in Int : x = admitted[n].at
    BY <1>3, <2>3
  <2>5. Rate * (now - x) = Rate * (now - last) + Rate * (last - x)
    BY <1>1
  <2>6. Rate * (last - x) \in Int /\ Rate * (now - last) \in Int
    BY <1>1
  <2> QED
    BY <1>1, <2>1, <2>3, <2>4, <2>5, <2>6, SMTT(40)
<1>7. RateBound' /\ SleepersSpaced'
  BY <1>1 DEF RateInv, RateBound, SleepersSpaced, Capacity
<1>8. RateType'
  BY <1>1 DEF RateInv, RateType
<1> QED
  BY <1>1, <1>2, <1>4, <1>5, <1>6, <1>7, <1>8 DEF RateInv

LEMMA RateNext == RateInv /\ [Next]_<<strategy, vars>> => RateInv'
<1> SUFFICES ASSUME RateInv, [Next]_<<strategy, vars>> PROVE RateInv'
  OBVIOUS
<1>1. /\ Cost \in Nat \ {0} /\ Rate \in Nat \ {0} /\ Capacity \in Int /\ Refilled \in Int
      /\ now \in Int /\ strategy \in {"reject", "sleep"}
  BY Refill, RateAssumption DEF RateInv, RateType
<1> HIDE DEF Refilled, Capacity
<1>2. CASE Take /\ UNCHANGED strategy
  <2>1. Rate * (now - now) = 0
    BY <1>1
  <2> QED
    BY <1>1, <1>2, <2>1, AdmitKeeps DEF Take
<1>3. CASE Reject /\ UNCHANGED strategy
  BY <1>3, RejectKeeps
<1>4. CASE Sleep /\ UNCHANGED strategy
  <2>1. PICK w : w = (Cost - Refilled + Rate - 1) \div Rate
    OBVIOUS
  <2>2. w \in Int /\ Rate * w >= Cost - Refilled /\ Rate * w < Cost - Refilled + Rate
    <3>1. Cost - Refilled \in Int
      BY <1>1
    <3>2. w = ((Cost - Refilled) + Rate - 1) \div Rate
      BY <2>1
    <3> QED
      BY <1>1, <3>1, <3>2, Wait
  <2>3. Cost - Refilled > 0 /\ w > 0
    BY <1>1, <1>4, <2>2 DEF Sleep
  <2>4. now + w \in Int /\ now + w >= now /\ (now + w) - now = w
    BY <1>1, <2>2, <2>3
  <2>5. /\ tokens' = Refilled - Cost /\ last' = now /\ Admit(now + w)
        /\ UNCHANGED now /\ strategy = "sleep"
    BY <1>4, <2>1 DEF Sleep
  <2> QED
    BY <1>4, <2>2, <2>4, <2>5, AdmitKeeps
<1>5. CASE (Tick \/ UNCHANGED vars) /\ UNCHANGED strategy
  <2>1. /\ UNCHANGED <<strategy, tokens, last, admitted>> /\ (now' = now \/ now' = now + 1)
    BY <1>5 DEF Tick, vars
  <2>2. RateType'
    BY <2>1 DEF RateInv, RateType
  <2> QED
    BY <2>1, <2>2 DEF RateInv, Taken, Owed, Unowed, RateBound, SleepersSpaced, Capacity
<1> QED
  BY <1>2, <1>3, <1>4, <1>5 DEF Next

\* RateInv is an invariant of the limiter with either strategy.
THEOREM BucketInvariance == Spec => []RateInv
  BY RateInit, RateNext, PTL DEF Spec

\* The node behind the limiter is never called faster than the bucket allows.
THEOREM Rates == Spec => []RateBound
<1>1. RateInv => RateBound
  BY DEF RateInv
<1> QED
  BY <1>1, BucketInvariance, PTL

\* Sleepers wake up one by one, in the order in which they came.
THEOREM Sleepers == Spec => []SleepersSpaced
<1>1. RateInv => SleepersSpaced
  BY DEF RateInv
<1> QED
  BY <1>1, BucketInvariance, PTL

\* Only what exceeds the rate is rejected, if the bucket can hold the token that a
\* request costs.
THEOREM Rejections == ASSUME Capacity >= Cost PROVE Spec => RejectsOnlyExcess
<1>1. ASSUME RateInv, [Next]_<<strategy, vars>>, rejectedAt' # rejectedAt
      PROVE  admitted # <<>> /\ Rate * (now - admitted[Len(admitted)].at) < Cost
  <2>1. Reject
    BY <1>1 DEF Next, Take, Sleep, Tick, vars
  <2>2. /\ Cost \in Nat \ {0} /\ Rate \in Nat \ {0} /\ Capacity \in Int /\ Refilled \in Int
        /\ Refilled = Capacity \/ Refilled = tokens + Rate * (now - last)
        /\ Rate * (now - last) >= 0 /\ Rate * (now - last) \in Int
        /\ tokens \in Int /\ last \in Int /\ now \in Int
    BY <1>1, Refill DEF RateInv, RateType
  <2>3. Refilled < Cost /\ strategy = "reject"
    BY <2>1 DEF Reject
  <2> HIDE DEF Refilled, Capacity
  <2>4. tokens # Capacity /\ Refilled = tokens + Rate * (now - last)
    BY <2>2, <2>3
  <2>5. PICK n : n = Len(admitted)
    OBVIOUS
  <2>6. admitted # <<>> /\ tokens >= Rate * (last - admitted[n].at)
    BY <1>1, <2>3, <2>4, <2>5 DEF RateInv, Unowed
  <2>7. PICK x \in Int : x = admitted[n].at
    <3>1. admitted \in Seq(Admission)
      BY <1>1 DEF RateInv, RateType
    <3>2. admitted[n] \in Admission
      BY <2>5, <2>6, <3>1
    <3> QED
      BY <3>2 DEF Admission
  <2>8. Rate * (now - x) = Rate * (now - last) + Rate * (last - x) /\ Rate * (last - x) \in Int
    BY <2>2
  <2>9. PICK p, q, c : p = Rate * (now - last) /\ q = Rate * (last - x) /\ c = Refilled
    OBVIOUS
  <2>10. p \in Int /\ q \in Int /\ c = tokens + p /\ tokens >= q /\ c < Cost
    BY <2>2, <2>3, <2>4, <2>6, <2>7, <2>8, <2>9
  <2>11. Rate * (now - x) < Cost
    BY <2>2, <2>8, <2>9, <2>10
  <2> QED
    BY <2>5, <2>6, <2>7, <2>11
<1>2. RateInv /\ [Next]_<<strategy, vars>> =>
        [rejectedAt' # rejectedAt =>
           /\ admitted # <<>>
           /\ Rate * (now - admitted[Len(admitted)].at) < Cost]_vars
  BY <1>1
<1> QED
  BY <1>2, BucketInvariance, PTL DEF Spec, RejectsOnlyExcess
=============================================================================
