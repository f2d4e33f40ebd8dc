-------------------------- MODULE MiddlewareProofs --------------------------
(***************************************************************************)
(* Retry, timeout and concurrency limit in each of the three orders, for   *)
(* any set of requests, any limit and any retry count: permits are         *)
(* conserved and attempts are counted exactly.                             *)
(***************************************************************************)
EXTENDS Middleware, FiniteSetTheorems, TLAPS

Places  == {"new", "waiting", "running", "backoff", "done"}
Answers == Errors \cup {"ok", "timed out", "broken pipe", "dropped", "none"}

MiddlewareType ==
  /\ order \in {"retry_timeout_limit", "retry_limit_timeout", "limit_retry_timeout"}
  /\ pc \in [Requests -> Places]
  /\ remaining \in [Requests -> 0..RetryCount]
  /\ permits \in Nat /\ closed \in BOOLEAN /\ gauge \in Int
  /\ answer \in [Requests -> Answers]
  /\ attempts \in [Requests -> Nat] /\ calls \in [Requests -> Nat]
  /\ IsFiniteSet(Holders)

\* The attempts are what has been taken from the budget, and the one under way.
Budget(r) ==
  /\ pc[r] \in {"new", "backoff"} => attempts[r] = RetryCount - remaining[r]
  /\ pc[r] = "waiting" /\ ~RetryOutside => attempts[r] = RetryCount - remaining[r]
  /\ pc[r] = "running" \/ (pc[r] = "waiting" /\ RetryOutside) =>
       attempts[r] = RetryCount - remaining[r] + 1
  /\ pc[r] # "done" => answer[r] = "none"
  /\ ~TimeoutOutside /\ ~closed /\ answer[r] # "dropped" =>
       calls[r] = IF RetryOutside /\ pc[r] = "waiting" THEN attempts[r] - 1 ELSE attempts[r]

MiddlewareInv ==
  /\ MiddlewareType /\ PermitsConserved /\ AttemptsExact
  /\ \A r \in Requests : Budget(r)

-----------------------------------------------------------------------------
LEMMA MiddlewareInit == Init => MiddlewareInv
<1> SUFFICES ASSUME Init PROVE MiddlewareInv
  OBVIOUS
<1>1. Limit \in Nat /\ RetryCount \in Nat
  BY MiddlewareAssumption
<1>a. "none" \notin Transient
  BY MiddlewareAssumption
<1>b. order \in {"retry_timeout_limit", "retry_limit_timeout", "limit_retry_timeout"}
  BY MiddlewareAssumption DEF Init
<1>2. Holders = {}
  BY DEF Init, Holders
<1>3. IsFiniteSet(Holders) /\ Cardinality(Holders) = 0
  BY <1>2, FS_EmptySet
<1>4. order \in Orders /\ permits = Limit /\ closed = FALSE /\ gauge = 0
  BY DEF Init
<1>5. \A r \in Requests : /\ pc[r] = "new" /\ remaining[r] = RetryCount /\ answer[r] = "none"
                          /\ attempts[r] = 0 /\ calls[r] = 0
  BY DEF Init
<1>6. MiddlewareType
  <2>1. pc \in [Requests -> Places] /\ answer \in [Requests -> Answers]
    BY DEF Init, Places, Answers
  <2>2. attempts \in [Requests -> Nat] /\ calls \in [Requests -> Nat]
    BY DEF Init
  <2>3. remaining \in [Requests -> 0..RetryCount]
    BY <1>1 DEF Init
  <2>4. permits \in Nat /\ gauge \in Int
    BY <1>1, <1>4
  <2>5. closed \in BOOLEAN
    BY <1>4
  <2> QED
    BY <1>b, <1>3, <2>1, <2>2, <2>3, <2>4, <2>5 DEF MiddlewareType
<1>7. PermitsConserved
  BY <1>1, <1>3, <1>4 DEF PermitsConserved
<1>8. AttemptsExact
  <2> SUFFICES ASSUME NEW r \in Requests
               PROVE  /\ attempts[r] <= RetryCount + 1 /\ answer[r] \notin Transient
                      /\ calls[r] = attempts[r]
    BY DEF AttemptsExact
  <2> QED
    BY <1>1, <1>a, <1>5
<1>9. \A r \in Requests : Budget(r)
  BY <1>1, <1>5 DEF Budget
<1> QED
  BY <1>6, <1>7, <1>8, <1>9 DEF MiddlewareInv

-----------------------------------------------------------------------------
(* Permits.                                                                *)

\* A request becomes a holder, ceases to be one, or nothing changes.
LEMMA HolderAdded ==
  ASSUME IsFiniteSet(Holders), NEW r, r \notin Holders, Holders' = Holders \cup {r}
  PROVE  IsFiniteSet(Holders') /\ Cardinality(Holders') = Cardinality(Holders) + 1
         /\ Cardinality(Holders) \in Nat
BY FS_AddElement, FS_CardinalityType

LEMMA HolderRemoved ==
  ASSUME IsFiniteSet(Holders), NEW r, r \in Holders, Holders' = Holders \ {r}
  PROVE  IsFiniteSet(Holders') /\ Cardinality(Holders') = Cardinality(Holders) - 1
         /\ Cardinality(Holders) \in Nat
BY FS_RemoveElement, FS_CardinalityType

\* What a step does to the place of one request decides who holds a permit.
LEMMA OneMoves ==
  ASSUME MiddlewareType, UNCHANGED order, NEW r \in Requests, NEW p \in Places,
         pc' = [pc EXCEPT ![r] = p]
  PROVE  LET held == pc[r] = "running" \/ (~RetryOutside /\ pc[r] = "backoff")
             holds == p = "running" \/ (~RetryOutside /\ p = "backoff")
         IN  /\ held <=> r \in Holders
             /\ held /\ ~holds => Holders' = Holders \ {r}
             /\ ~held /\ holds => Holders' = Holders \cup {r}
             /\ (held <=> holds) => Holders' = Holders
BY DEF MiddlewareType, Holders, RetryOutside

\* The permits and the gauge follow the holders.
LEMMA PermitsFollow ==
  ASSUME MiddlewareInv, UNCHANGED order, NEW r \in Requests, NEW p \in Places,
         pc' = [pc EXCEPT ![r] = p],
         \A q \in Requests : q # r => answer'[q] = answer[q],
         pc[r] \notin {"done"},
         LET held == pc[r] = "running" \/ (~RetryOutside /\ pc[r] = "backoff")
             holds == p = "running" \/ (~RetryOutside /\ p = "backoff")
             counts == ~TimeoutOutside /\ answer'[r] # "dropped"
         IN  \/ held /\ ~holds /\ permits' = permits + 1
                /\ gauge' \in Int /\ (counts => gauge' = gauge - 1)
             \/ ~held /\ holds /\ permits > 0 /\ permits' = permits - 1 /\ gauge' = gauge + 1
             \/ (held <=> holds) /\ permits' = permits /\ gauge' = gauge
  PROVE  PermitsConserved' /\ IsFiniteSet(Holders)' /\ permits' \in Nat /\ gauge' \in Int
<1> DEFINE held == pc[r] = "running" \/ (~RetryOutside /\ pc[r] = "backoff")
           holds == p = "running" \/ (~RetryOutside /\ p = "backoff")
<1>1. /\ IsFiniteSet(Holders) /\ permits \in Nat /\ gauge \in Int
      /\ permits + Cardinality(Holders) = Limit /\ Cardinality(Holders) \in Nat
  BY FS_CardinalityType DEF MiddlewareInv, MiddlewareType, PermitsConserved
<1>2. /\ held <=> r \in Holders
      /\ held /\ ~holds => Holders' = Holders \ {r}
      /\ ~held /\ holds => Holders' = Holders \cup {r}
      /\ (held <=> holds) => Holders' = Holders
  BY OneMoves DEF MiddlewareInv
<1>3. TimeoutOutside' = TimeoutOutside
  BY DEF TimeoutOutside
<1>4. ~TimeoutOutside /\ (\A q \in Requests : answer'[q] # "dropped") =>
        answer'[r] # "dropped" /\ gauge = Cardinality(Holders)
  <2>1. answer[r] # "dropped"
    BY DEF MiddlewareInv, Budget
  <2> QED
    BY <2>1 DEF MiddlewareInv, PermitsConserved
<1>5. CASE held /\ ~holds
  <2>1. /\ permits' = permits + 1 /\ gauge' \in Int
        /\ ~TimeoutOutside /\ answer'[r] # "dropped" => gauge' = gauge - 1
    BY <1>5
  <2>2. IsFiniteSet(Holders') /\ Cardinality(Holders') = Cardinality(Holders) - 1
    BY <1>1, <1>2, <1>5, HolderRemoved
  <2> QED
    BY <1>1, <1>3, <1>4, <2>1, <2>2 DEF PermitsConserved
<1>6. CASE ~held /\ holds
  <2>1. permits > 0 /\ permits' = permits - 1 /\ gauge' = gauge + 1
    BY <1>6
  <2>2. IsFiniteSet(Holders') /\ Cardinality(Holders') = Cardinality(Holders) + 1
    BY <1>1, <1>2, <1>6, HolderAdded
  <2> QED
    BY <1>1, <1>3, <1>4, <2>1, <2>2 DEF PermitsConserved
<1>7. CASE held <=> holds
  <2>1. permits' = permits /\ gauge' = gauge /\ Holders' = Holders
    BY <1>2, <1>7
  <2> QED
    BY <1>1, <1>3, <1>4, <2>1 DEF PermitsConserved
<1> QED
  BY <1>5, <1>6, <1>7
-----------------------------------------------------------------------------
(* A step of one request, with what it does to its place, its budget, its   *)
(* answer and its counts.                                                  *)

Exact(r) ==
  /\ attempts[r] <= RetryCount + 1
  /\ answer[r] \in Transient /\ (RetryOutside \/ answer[r] # "broken pipe") =>
       attempts[r] = RetryCount + 1
  /\ ~TimeoutOutside /\ ~closed /\ answer[r] # "dropped"
       /\ pc[r] \in {"running", "backoff", "done"} => calls[r] = attempts[r]

\* What one request has become, with what bounds and relates its fields.
Moved(r, p, m, a, t, c) ==
  /\ p \in Places /\ m \in 0..RetryCount /\ a \in Answers /\ t \in Nat /\ c \in Nat
  /\ pc' = [pc EXCEPT ![r] = p] /\ remaining' = [remaining EXCEPT ![r] = m]
  /\ answer' = [answer EXCEPT ![r] = a] /\ attempts' = [attempts EXCEPT ![r] = t]
  /\ calls' = [calls EXCEPT ![r] = c]
  /\ t <= RetryCount + 1
  /\ p \in {"new", "backoff"} => t = RetryCount - m
  /\ p = "waiting" /\ ~RetryOutside => t = RetryCount - m
  /\ p = "running" \/ (p = "waiting" /\ RetryOutside) => t = RetryCount - m + 1
  /\ p # "done" => a = "none"
  /\ a \in Transient /\ (RetryOutside \/ a # "broken pipe") => t = RetryCount + 1
  /\ ~TimeoutOutside /\ ~closed /\ a # "dropped" =>
       c = IF RetryOutside /\ p = "waiting" THEN t - 1 ELSE t

LEMMA RequestStep ==
  ASSUME MiddlewareInv, UNCHANGED <<order, closed>>, NEW r \in Requests,
         NEW p, NEW m, NEW a, NEW t, NEW c, Moved(r, p, m, a, t, c),
         PermitsConserved', IsFiniteSet(Holders)', permits' \in Nat, gauge' \in Int
  PROVE  MiddlewareInv'
<1> USE DEF Moved
<1>1. RetryOutside' = RetryOutside /\ TimeoutOutside' = TimeoutOutside
  BY DEF RetryOutside, TimeoutOutside
<1>2. MiddlewareType'
  BY DEF MiddlewareInv, MiddlewareType
<1>3. /\ pc'[r] = p /\ remaining'[r] = m /\ answer'[r] = a /\ attempts'[r] = t /\ calls'[r] = c
      /\ \A q \in Requests \ {r} : /\ pc'[q] = pc[q] /\ remaining'[q] = remaining[q]
                                   /\ answer'[q] = answer[q] /\ attempts'[q] = attempts[q]
                                   /\ calls'[q] = calls[q]
  BY DEF MiddlewareInv, MiddlewareType
<1>4. ASSUME NEW q \in Requests \ {r} PROVE Budget(q)' /\ Exact(q)'
  <2>1. Budget(q) /\ Exact(q)
    BY DEF MiddlewareInv, AttemptsExact, Exact
  <2>2. Budget(q)'
    BY <1>1, <1>3, <2>1 DEF Budget
  <2>3. Exact(q)'
    BY <1>1, <1>3, <2>1 DEF Exact
  <2> QED
    BY <2>2, <2>3
<1>5. Budget(r)'
  BY <1>1, <1>3 DEF Budget
<1>6. Exact(r)'
  <2>1. ~TimeoutOutside /\ ~closed /\ a # "dropped" /\ p \in {"running", "backoff", "done"} =>
          c = t
    <3>1. p \in {"running", "backoff", "done"} => p # "waiting"
      OBVIOUS
    <3> QED
      BY <3>1
  <2>2. a \in Transient /\ (RetryOutside \/ a # "broken pipe") => t = RetryCount + 1
    OBVIOUS
  <2> QED
    BY <1>1, <1>3, <2>1, <2>2 DEF Exact
<1>7. \A q \in Requests : Budget(q)' /\ Exact(q)'
  BY <1>4, <1>5, <1>6
<1>8. AttemptsExact'
  BY <1>7 DEF AttemptsExact, Exact
<1> QED
  BY <1>2, <1>7, <1>8 DEF MiddlewareInv

LEMMA Entries ==
  ASSUME MiddlewareInv, NEW r \in Requests
  PROVE  /\ pc[r] \in Places /\ remaining[r] \in 0..RetryCount /\ remaining[r] \in Nat
         /\ answer[r] \in Answers
         /\ attempts[r] \in Nat /\ calls[r] \in Nat /\ attempts[r] <= RetryCount + 1
         /\ RetryCount \in Nat /\ permits \in Nat /\ gauge \in Int
         /\ pc = [pc EXCEPT ![r] = pc[r]] /\ remaining = [remaining EXCEPT ![r] = remaining[r]]
         /\ answer = [answer EXCEPT ![r] = answer[r]]
         /\ attempts = [attempts EXCEPT ![r] = attempts[r]]
         /\ calls = [calls EXCEPT ![r] = calls[r]]
         /\ Count(attempts, r) = [attempts EXCEPT ![r] = attempts[r] + 1]
         /\ Count(calls, r) = [calls EXCEPT ![r] = calls[r] + 1]
         /\ "none" \notin Transient /\ "dropped" \notin Transient
<1>1. RetryCount \in Nat
  BY MiddlewareAssumption
<1>2. "none" \notin Transient /\ "dropped" \notin Transient
  BY MiddlewareAssumption
<1>3. /\ pc[r] \in Places /\ remaining[r] \in 0..RetryCount /\ answer[r] \in Answers
      /\ attempts[r] \in Nat /\ calls[r] \in Nat /\ permits \in Nat /\ gauge \in Int
  BY DEF MiddlewareInv, MiddlewareType
<1>4. attempts[r] <= RetryCount + 1
  BY DEF MiddlewareInv, AttemptsExact
<1>5. /\ pc = [pc EXCEPT ![r] = pc[r]] /\ remaining = [remaining EXCEPT ![r] = remaining[r]]
      /\ answer = [answer EXCEPT ![r] = answer[r]]
      /\ attempts = [attempts EXCEPT ![r] = attempts[r]]
      /\ calls = [calls EXCEPT ![r] = calls[r]]
  BY DEF MiddlewareInv, MiddlewareType
<1> QED
  BY <1>1, <1>2, <1>3, <1>4, <1>5 DEF Count
\* RetryNode's decision: another attempt, or an answer.  `running` and `waiting` come
\* here with an attempt counted.
LEMMA RetryKeeps ==
  ASSUME MiddlewareInv, UNCHANGED <<order, closed, attempts, calls>>, NEW r \in Requests,
         NEW result \in Answers \ {"none", "dropped"}, Retry(r, result),
         pc[r] = "running" \/ (pc[r] = "waiting" /\ RetryOutside),
         pc[r] = "waiting" => TimeoutOutside \/ closed,
         IF pc[r] = "waiting" \/ HoldsOn(r, result)
         THEN UNCHANGED <<permits, gauge>>
         ELSE permits' = permits + 1 /\ gauge' \in Int /\ (~TimeoutOutside => gauge' = gauge - 1)
  PROVE  MiddlewareInv'
<1>1. /\ remaining[r] \in 0..RetryCount /\ attempts[r] = RetryCount - remaining[r] + 1
      /\ RetryCount \in Nat /\ attempts[r] \in Nat /\ calls[r] \in Nat
      /\ answer[r] = "none" /\ permits \in Nat /\ gauge \in Int
      /\ pc[r] \notin {"done"}
  <2>1. attempts[r] = RetryCount - remaining[r] + 1 /\ answer[r] = "none"
    BY DEF MiddlewareInv, Budget
  <2> QED
    BY <2>1, Entries
<1>2. ~TimeoutOutside /\ ~closed => calls[r] = attempts[r]
  <2>1. answer[r] # "dropped"
    BY <1>1
  <2>2. ~TimeoutOutside /\ ~closed => pc[r] # "waiting"
    OBVIOUS
  <2> QED
    BY <2>1, <2>2 DEF MiddlewareInv, Budget
<1>3. HoldsOn(r, result) <=> ~RetryOutside /\ Again(r, result)
  BY DEF HoldsOn
<1>4. CASE Again(r, result)
  <2>1. /\ pc' = [pc EXCEPT ![r] = "backoff"]
        /\ remaining' = [remaining EXCEPT ![r] = remaining[r] - 1] /\ answer' = answer
        /\ remaining[r] > 0
    BY <1>4 DEF Retry, Again
  <2>2. "backoff" \in Places /\ remaining[r] - 1 \in 0..RetryCount
    BY <1>1, <2>1 DEF Places
  <2>3. PermitsConserved' /\ IsFiniteSet(Holders)' /\ permits' \in Nat /\ gauge' \in Int
    <3>1. CASE pc[r] = "waiting"
      BY <1>1, <2>1, <2>2, <3>1, PermitsFollow
    <3>2. CASE pc[r] = "running" /\ RetryOutside
      BY <1>1, <1>3, <2>1, <2>2, <3>2, PermitsFollow
    <3>3. CASE pc[r] = "running" /\ ~RetryOutside
      BY <1>1, <1>3, <1>4, <2>1, <2>2, <3>3, PermitsFollow
    <3> QED
      BY <3>1, <3>2, <3>3
  <2>4. attempts[r] = RetryCount - (remaining[r] - 1) /\ attempts[r] <= RetryCount + 1
    BY <1>1
  <2>5. answer' = [answer EXCEPT ![r] = "none"] /\ "none" \in Answers /\ "none" \notin Transient
    BY <1>1, <2>1, Entries DEF Answers
  <2>6. attempts' = [attempts EXCEPT ![r] = attempts[r]] /\ calls' = [calls EXCEPT ![r] = calls[r]]
    BY Entries
  <2>7. PICK p, m, a, t, c :
          p = "backoff" /\ m = remaining[r] - 1 /\ a = "none" /\ t = attempts[r] /\ c = calls[r]
    OBVIOUS
  <2>8. /\ p \in Places /\ m \in 0..RetryCount /\ a \in Answers /\ t \in Nat /\ c \in Nat
        /\ pc' = [pc EXCEPT ![r] = p] /\ remaining' = [remaining EXCEPT ![r] = m]
        /\ answer' = [answer EXCEPT ![r] = a] /\ attempts' = [attempts EXCEPT ![r] = t]
        /\ calls' = [calls EXCEPT ![r] = c]
    BY <1>1, <2>1, <2>2, <2>5, <2>6, <2>7
  <2>9. /\ p = "backoff" /\ t <= RetryCount + 1 /\ t = RetryCount - m /\ a = "none"
        /\ a \notin Transient /\ (~TimeoutOutside /\ ~closed => c = t)
    BY <1>2, <2>4, <2>5, <2>7
  <2>10. Moved(r, p, m, a, t, c)
    BY <2>8, <2>9 DEF Moved
  <2> QED
    BY <2>3, <2>10, RequestStep
<1>5. CASE ~Again(r, result)
  <2>1. /\ pc' = [pc EXCEPT ![r] = "done"] /\ remaining' = remaining
        /\ answer' = [answer EXCEPT ![r] = result]
    BY <1>5 DEF Retry
  <2>2. "done" \in Places /\ answer'[r] = result /\ result \in Answers
    BY <2>1 DEF Places, MiddlewareInv, MiddlewareType
  <2>3. PermitsConserved' /\ IsFiniteSet(Holders)' /\ permits' \in Nat /\ gauge' \in Int
    <3>1. \A q \in Requests : q # r => answer'[q] = answer[q]
      BY <2>1 DEF MiddlewareInv, MiddlewareType
    <3>2. CASE pc[r] = "waiting"
      BY <1>1, <2>1, <2>2, <3>1, <3>2, PermitsFollow
    <3>3. CASE pc[r] = "running"
      BY <1>1, <1>3, <1>5, <2>1, <2>2, <3>1, <3>3, PermitsFollow
    <3> QED
      BY <3>2, <3>3
  <2>4. result \in Transient => attempts[r] = RetryCount + 1
    BY <1>1, <1>5 DEF Again
  <2>5. attempts[r] <= RetryCount + 1
    BY <1>1
  <2>6. /\ attempts' = [attempts EXCEPT ![r] = attempts[r]] /\ calls' = [calls EXCEPT ![r] = calls[r]]
        /\ remaining' = [remaining EXCEPT ![r] = remaining[r]]
    BY <2>1, Entries
  <2>7. PICK p, m, a, t, c :
          p = "done" /\ m = remaining[r] /\ a = result /\ t = attempts[r] /\ c = calls[r]
    OBVIOUS
  <2>8. /\ p \in Places /\ m \in 0..RetryCount /\ a \in Answers /\ t \in Nat /\ c \in Nat
        /\ pc' = [pc EXCEPT ![r] = p] /\ remaining' = [remaining EXCEPT ![r] = m]
        /\ answer' = [answer EXCEPT ![r] = a] /\ attempts' = [attempts EXCEPT ![r] = t]
        /\ calls' = [calls EXCEPT ![r] = c]
    BY <1>1, <2>1, <2>2, <2>6, <2>7
  <2>9. /\ p = "done" /\ t <= RetryCount + 1
        /\ a \in Transient => t = RetryCount + 1
        /\ ~TimeoutOutside /\ ~closed => c = t
    BY <1>2, <2>4, <2>5, <2>7
  <2>10. Moved(r, p, m, a, t, c)
    BY <2>8, <2>9 DEF Moved
  <2> QED
    BY <2>3, <2>10, RequestStep
<1> QED
  BY <1>4, <1>5
-----------------------------------------------------------------------------
LEMMA BeginKeeps ==
  ASSUME MiddlewareInv, UNCHANGED order, NEW r \in Requests, Begin(r)
  PROVE  MiddlewareInv'
<1>1. /\ pc[r] = "new" /\ pc' = [pc EXCEPT ![r] = "waiting"]
      /\ attempts' = IF RetryOutside THEN Count(attempts, r) ELSE attempts
      /\ UNCHANGED <<remaining, permits, closed, gauge, answer, calls>>
  BY DEF Begin
<1>2. /\ attempts[r] = RetryCount - remaining[r] /\ answer[r] = "none"
      /\ ~TimeoutOutside /\ ~closed => calls[r] = attempts[r]
  <2>1. answer[r] = "none"
    BY <1>1 DEF MiddlewareInv, Budget
  <2>2. answer[r] # "dropped"
    BY <2>1
  <2> QED
    BY <1>1, <2>1, <2>2 DEF MiddlewareInv, Budget
<1>3. PICK p, m, a, t, c :
        /\ p = "waiting" /\ m = remaining[r] /\ a = answer[r] /\ c = calls[r]
        /\ t = IF RetryOutside THEN attempts[r] + 1 ELSE attempts[r]
  OBVIOUS
<1>4. PermitsConserved' /\ IsFiniteSet(Holders)' /\ permits' \in Nat /\ gauge' \in Int
  <2>1. "waiting" \in Places
    BY DEF Places
  <2> QED
    BY <1>1, <2>1, Entries, PermitsFollow
<1>5. /\ p \in Places /\ m \in 0..RetryCount /\ a \in Answers /\ t \in Nat /\ c \in Nat
      /\ pc' = [pc EXCEPT ![r] = p] /\ remaining' = [remaining EXCEPT ![r] = m]
      /\ answer' = [answer EXCEPT ![r] = a] /\ attempts' = [attempts EXCEPT ![r] = t]
      /\ calls' = [calls EXCEPT ![r] = c]
  BY <1>1, <1>3, Entries DEF Places
<1>6. /\ p = "waiting" /\ t <= RetryCount + 1 /\ a = "none" /\ a \notin Transient
      /\ RetryOutside => t = RetryCount - m + 1
      /\ ~RetryOutside => t = RetryCount - m
  BY <1>2, <1>3, Entries
<1>7. ~TimeoutOutside /\ ~closed => c = IF RetryOutside THEN t - 1 ELSE t
  BY <1>2, <1>3, Entries
<1>8. Moved(r, p, m, a, t, c)
  BY <1>5, <1>6, <1>7 DEF Moved
<1>9. closed' = closed
  BY <1>1
<1> QED
  BY <1>4, <1>8, <1>9, RequestStep

LEMMA AcquireKeeps ==
  ASSUME MiddlewareInv, UNCHANGED order, NEW r \in Requests, Acquire(r)
  PROVE  MiddlewareInv'
<1>1. /\ pc[r] = "waiting" /\ pc' = [pc EXCEPT ![r] = "running"]
      /\ permits' = permits - 1 /\ gauge' = gauge + 1
      /\ attempts' = IF RetryOutside THEN attempts ELSE Count(attempts, r)
      /\ calls' = Count(calls, r)
      /\ UNCHANGED <<remaining, closed, answer>>
  BY DEF Acquire
<1>2. permits > 0
  BY Entries DEF Acquire
<1>3. /\ ~RetryOutside => attempts[r] = RetryCount - remaining[r]
      /\ RetryOutside => attempts[r] = RetryCount - remaining[r] + 1
      /\ answer[r] = "none"
      /\ ~TimeoutOutside /\ ~closed =>
           calls[r] = IF RetryOutside THEN attempts[r] - 1 ELSE attempts[r]
  <2>1. answer[r] = "none"
    BY <1>1 DEF MiddlewareInv, Budget
  <2>2. answer[r] # "dropped"
    BY <2>1
  <2> QED
    BY <1>1, <2>1, <2>2 DEF MiddlewareInv, Budget
<1>4. PICK p, m, a, t, c :
        /\ p = "running" /\ m = remaining[r] /\ a = answer[r] /\ c = calls[r] + 1
        /\ t = IF RetryOutside THEN attempts[r] ELSE attempts[r] + 1
  OBVIOUS
<1>5. PermitsConserved' /\ IsFiniteSet(Holders)' /\ permits' \in Nat /\ gauge' \in Int
  <2>1. "running" \in Places
    BY DEF Places
  <2> QED
    BY <1>1, <1>2, <2>1, Entries, PermitsFollow
<1>6. /\ p \in Places /\ m \in 0..RetryCount /\ a \in Answers /\ t \in Nat /\ c \in Nat
      /\ pc' = [pc EXCEPT ![r] = p] /\ remaining' = [remaining EXCEPT ![r] = m]
      /\ answer' = [answer EXCEPT ![r] = a] /\ attempts' = [attempts EXCEPT ![r] = t]
      /\ calls' = [calls EXCEPT ![r] = c]
  BY <1>1, <1>4, Entries DEF Places
<1>7. /\ p = "running" /\ t <= RetryCount + 1 /\ a = "none" /\ a \notin Transient
      /\ t = RetryCount - m + 1
  BY <1>3, <1>4, Entries
<1>8. ~TimeoutOutside /\ ~closed => c = t
  BY <1>3, <1>4, Entries
<1>9. Moved(r, p, m, a, t, c)
  BY <1>6, <1>7, <1>8 DEF Moved
<1>10. closed' = closed
  BY <1>1
<1> QED
  BY <1>5, <1>9, <1>10, RequestStep

LEMMA RefusedKeeps ==
  ASSUME MiddlewareInv, UNCHANGED order, NEW r \in Requests, Refused(r)
  PROVE  MiddlewareInv'
<1>1. /\ pc[r] = "waiting" /\ closed
      /\ UNCHANGED <<permits, closed, gauge, attempts, calls>>
  BY DEF Refused
<1>2. "broken pipe" \in Answers \ {"none", "dropped"}
  BY DEF Answers
<1>3. CASE RetryOutside
  BY <1>1, <1>2, <1>3, RetryKeeps DEF Refused
<1>4. CASE ~RetryOutside
  <2>1. /\ pc' = [pc EXCEPT ![r] = "done"] /\ remaining' = remaining
        /\ answer' = [answer EXCEPT ![r] = "broken pipe"]
    BY <1>4 DEF Refused
  <2>2. "done" \in Places /\ \A q \in Requests : q # r => answer'[q] = answer[q]
    BY <2>1 DEF Places, MiddlewareInv, MiddlewareType
  <2>3. PermitsConserved' /\ IsFiniteSet(Holders)' /\ permits' \in Nat /\ gauge' \in Int
    BY <1>1, <2>1, <2>2, Entries, PermitsFollow
  <2>4. PICK p, m, a, t, c :
          p = "done" /\ m = remaining[r] /\ a = "broken pipe" /\ t = attempts[r] /\ c = calls[r]
    OBVIOUS
  <2>5. /\ p \in Places /\ m \in 0..RetryCount /\ a \in Answers /\ t \in Nat /\ c \in Nat
        /\ pc' = [pc EXCEPT ![r] = p] /\ remaining' = [remaining EXCEPT ![r] = m]
        /\ answer' = [answer EXCEPT ![r] = a] /\ attempts' = [attempts EXCEPT ![r] = t]
        /\ calls' = [calls EXCEPT ![r] = c]
    BY <1>1, <1>2, <2>1, <2>2, <2>4, Entries
  <2>6. p = "done" /\ t <= RetryCount + 1 /\ a = "broken pipe"
    BY <2>4, Entries
  <2>7. Moved(r, p, m, a, t, c)
    BY <1>1, <1>4, <2>5, <2>6 DEF Moved
  <2>8. closed' = closed
    BY <1>1
  <2> QED
    BY <2>3, <2>7, <2>8, RequestStep
<1> QED
  BY <1>3, <1>4

LEMMA InnerReturnsKeeps ==
  ASSUME MiddlewareInv, UNCHANGED order, NEW r \in Requests, InnerReturns(r)
  PROVE  MiddlewareInv'
<1>1. PICK result \in Errors \cup {"ok"} :
        /\ Retry(r, result)
        /\ IF HoldsOn(r, result)
           THEN UNCHANGED <<permits, gauge>>
           ELSE permits' = permits + 1 /\ gauge' = gauge - 1
  BY DEF InnerReturns
<1>2. result \in Answers \ {"none", "dropped"}
  <2>1. Errors \cap {"none", "dropped"} = {}
    BY MiddlewareAssumption
  <2> QED
    BY <2>1 DEF Answers
<1>3. pc[r] = "running" /\ UNCHANGED <<closed, attempts, calls>> /\ gauge \in Int
  BY Entries DEF InnerReturns
<1>4. gauge - 1 \in Int
  BY <1>3
<1> QED
  BY <1>1, <1>2, <1>3, <1>4, RetryKeeps

LEMMA TimesOutKeeps ==
  ASSUME MiddlewareInv, UNCHANGED order, NEW r \in Requests, TimesOut(r)
  PROVE  MiddlewareInv'
<1>1. /\ pc[r] = "running" \/ (TimeoutOutside /\ pc[r] = "waiting")
      /\ Retry(r, "timed out") /\ UNCHANGED <<closed, attempts, calls>>
      /\ IF pc[r] = "waiting" \/ HoldsOn(r, "timed out")
         THEN UNCHANGED <<permits, gauge>>
         ELSE /\ permits' = permits + 1
              /\ gauge' = IF TimeoutOutside THEN gauge ELSE gauge - 1
  BY DEF TimesOut, UnderTimeout
<1>2. TimeoutOutside => RetryOutside
  BY DEF TimeoutOutside, RetryOutside
<1>3. gauge \in Int /\ gauge - 1 \in Int
  BY Entries
<1>4. "timed out" \in Answers \ {"none", "dropped"}
  BY DEF Answers
<1> QED
  BY <1>1, <1>2, <1>3, <1>4, RetryKeeps

LEMMA BackoffKeeps ==
  ASSUME MiddlewareInv, UNCHANGED order, NEW r \in Requests, BackoffEnds(r)
  PROVE  MiddlewareInv'
<1>1. /\ pc[r] = "backoff" /\ attempts' = Count(attempts, r)
      /\ UNCHANGED <<remaining, permits, closed, gauge, answer>>
      /\ \/ RetryOutside /\ pc' = [pc EXCEPT ![r] = "waiting"] /\ calls' = calls
         \/ ~RetryOutside /\ pc' = [pc EXCEPT ![r] = "running"] /\ calls' = Count(calls, r)
  BY DEF BackoffEnds
<1>2. /\ attempts[r] = RetryCount - remaining[r] /\ answer[r] = "none"
      /\ ~TimeoutOutside /\ ~closed => calls[r] = attempts[r]
  <2>1. answer[r] = "none"
    BY <1>1 DEF MiddlewareInv, Budget
  <2>2. answer[r] # "dropped"
    BY <2>1
  <2> QED
    BY <1>1, <2>1, <2>2 DEF MiddlewareInv, Budget
<1>3. PICK p, m, a, t, c :
        /\ p = IF RetryOutside THEN "waiting" ELSE "running"
        /\ m = remaining[r] /\ a = answer[r] /\ t = attempts[r] + 1
        /\ c = IF RetryOutside THEN calls[r] ELSE calls[r] + 1
  OBVIOUS
<1>4. p \in Places /\ pc' = [pc EXCEPT ![r] = p]
  BY <1>1, <1>3 DEF Places
<1>5. PermitsConserved' /\ IsFiniteSet(Holders)' /\ permits' \in Nat /\ gauge' \in Int
  <2>1. CASE RetryOutside
    BY <1>1, <1>3, <1>4, <2>1, Entries, PermitsFollow
  <2>2. CASE ~RetryOutside
    BY <1>1, <1>3, <1>4, <2>2, Entries, PermitsFollow
  <2> QED
    BY <2>1, <2>2
<1>6. /\ m \in 0..RetryCount /\ a \in Answers /\ t \in Nat /\ c \in Nat
      /\ remaining' = [remaining EXCEPT ![r] = m]
      /\ answer' = [answer EXCEPT ![r] = a] /\ attempts' = [attempts EXCEPT ![r] = t]
      /\ calls' = [calls EXCEPT ![r] = c]
  BY <1>1, <1>3, Entries
<1>7. t <= RetryCount + 1 /\ a = "none" /\ a \notin Transient /\ t = RetryCount - m + 1
  BY <1>2, <1>3, Entries
<1>8. ~TimeoutOutside /\ ~closed => c = IF RetryOutside THEN t - 1 ELSE t
  BY <1>2, <1>3, Entries
<1>9. IF RetryOutside THEN p = "waiting" ELSE p = "running"
  BY <1>3
<1>10. Moved(r, p, m, a, t, c)
  BY <1>4, <1>6, <1>7, <1>8, <1>9 DEF Moved
<1>11. closed' = closed
  BY <1>1
<1> QED
  BY <1>5, <1>10, <1>11, RequestStep

LEMMA DropKeeps ==
  ASSUME MiddlewareInv, UNCHANGED order, NEW r \in Requests, Drop(r)
  PROVE  MiddlewareInv'
<1>1. /\ pc[r] \notin {"new", "done"} /\ pc' = [pc EXCEPT ![r] = "done"]
      /\ answer' = [answer EXCEPT ![r] = "dropped"]
      /\ permits' = IF r \in Holders THEN permits + 1 ELSE permits
      /\ UNCHANGED <<remaining, closed, gauge, attempts, calls>>
  BY DEF Drop
<1>2. /\ "done" \in Places /\ "dropped" \in Answers /\ answer'[r] = "dropped"
      /\ \A q \in Requests : q # r => answer'[q] = answer[q]
  BY <1>1 DEF Places, Answers, MiddlewareInv, MiddlewareType
<1>3. r \in Holders <=> pc[r] = "running" \/ (~RetryOutside /\ pc[r] = "backoff")
  BY DEF Holders
<1>4. PermitsConserved' /\ IsFiniteSet(Holders)' /\ permits' \in Nat /\ gauge' \in Int
  <2>1. CASE r \in Holders
    BY <1>1, <1>2, <1>3, <2>1, Entries, PermitsFollow
  <2>2. CASE r \notin Holders
    BY <1>1, <1>2, <1>3, <2>2, Entries, PermitsFollow
  <2> QED
    BY <2>1, <2>2
<1>5. PICK p, m, a, t, c :
        p = "done" /\ m = remaining[r] /\ a = "dropped" /\ t = attempts[r] /\ c = calls[r]
  OBVIOUS
<1>6. /\ p \in Places /\ m \in 0..RetryCount /\ a \in Answers /\ t \in Nat /\ c \in Nat
      /\ pc' = [pc EXCEPT ![r] = p] /\ remaining' = [remaining EXCEPT ![r] = m]
      /\ answer' = [answer EXCEPT ![r] = a] /\ attempts' = [attempts EXCEPT ![r] = t]
      /\ calls' = [calls EXCEPT ![r] = c]
  BY <1>1, <1>2, <1>5, Entries
<1>7. p = "done" /\ t <= RetryCount + 1 /\ a = "dropped" /\ a \notin Transient
  BY <1>5, Entries
<1>8. Moved(r, p, m, a, t, c)
  BY <1>6, <1>7 DEF Moved
<1>9. closed' = closed
  BY <1>1
<1> QED
  BY <1>4, <1>8, <1>9, RequestStep

LEMMA MiddlewareNext == MiddlewareInv /\ [Next]_<<order, vars>> => MiddlewareInv'
<1> SUFFICES ASSUME MiddlewareInv, [Next]_<<order, vars>> PROVE MiddlewareInv'
  OBVIOUS
<1>1. CASE Close /\ UNCHANGED order
  <2>1. /\ closed' = TRUE
        /\ UNCHANGED <<order, pc, remaining, permits, gauge, answer, attempts, calls>>
    BY <1>1 DEF Close
  <2>2. MiddlewareType'
    BY <2>1 DEF MiddlewareInv, MiddlewareType, Holders, RetryOutside
  <2>3. PermitsConserved'
    BY <2>1 DEF MiddlewareInv, PermitsConserved, Holders, RetryOutside, TimeoutOutside
  <2>4. AttemptsExact'
    BY <2>1 DEF MiddlewareInv, AttemptsExact, RetryOutside, TimeoutOutside
  <2>5. \A r \in Requests : Budget(r)'
    BY <2>1 DEF MiddlewareInv, Budget, RetryOutside, TimeoutOutside
  <2> QED
    BY <2>2, <2>3, <2>4, <2>5 DEF MiddlewareInv
<1>2. CASE UNCHANGED <<order, vars>>
  <2>1. UNCHANGED <<order, closed, pc, remaining, permits, gauge, answer, attempts, calls>>
    BY <1>2 DEF vars
  <2>2. MiddlewareType'
    BY <2>1 DEF MiddlewareInv, MiddlewareType, Holders, RetryOutside
  <2>3. PermitsConserved'
    BY <2>1 DEF MiddlewareInv, PermitsConserved, Holders, RetryOutside, TimeoutOutside
  <2>4. AttemptsExact'
    BY <2>1 DEF MiddlewareInv, AttemptsExact, RetryOutside, TimeoutOutside
  <2>5. \A r \in Requests : Budget(r)'
    BY <2>1 DEF MiddlewareInv, Budget, RetryOutside, TimeoutOutside
  <2> QED
    BY <2>2, <2>3, <2>4, <2>5 DEF MiddlewareInv
<1>3. ASSUME NEW r \in Requests, UNCHANGED order,
             Begin(r) \/ Acquire(r) \/ Refused(r) \/ InnerReturns(r) \/ TimesOut(r)
               \/ BackoffEnds(r) \/ Drop(r)
      PROVE  MiddlewareInv'
  BY <1>3, BeginKeeps, AcquireKeeps, RefusedKeeps, InnerReturnsKeeps, TimesOutKeeps,
     BackoffKeeps, DropKeeps
<1> QED
  BY <1>1, <1>2, <1>3 DEF Next

\* MiddlewareInv, the type invariant in it, is an invariant of all three orders.
THEOREM MiddlewareInvariance == Spec => []MiddlewareInv
  BY MiddlewareInit, MiddlewareNext, PTL DEF Spec

\* No permit leaks and none is granted twice, in whichever way attempts end.
THEOREM Permits == Spec => []PermitsConserved
<1>1. MiddlewareInv => PermitsConserved
  BY DEF MiddlewareInv
<1> QED
  BY <1>1, MiddlewareInvariance, PTL

\* A transient error is reported after all attempts and never earlier or later.
THEOREM Attempts == Spec => []AttemptsExact
<1>1. MiddlewareInv => AttemptsExact
  BY DEF MiddlewareInv
<1> QED
  BY <1>1, MiddlewareInvariance, PTL
=============================================================================
