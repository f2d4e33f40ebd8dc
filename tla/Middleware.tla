----------------------------- MODULE Middleware -----------------------------
(***************************************************************************)
(* RetryNode, TimeoutNode and ConcurrencyLimitNode (crates/core/src/node/  *)
(* retry.rs, timeout.rs, concurrency.rs) around one node, in the orders    *)
(* their composition guidelines speak of.  Requests run concurrently.  An  *)
(* attempt can end in three places (it returns, its future is dropped by   *)
(* the timeout, or with the whole request by whoever runs it), and the     *)
(* order decides what each of them gives back: the place in the queue, the *)
(* permit, the gauge.                                                      *)
(***************************************************************************)
EXTENDS Integers, FiniteSets, SequencesExt

CONSTANTS
  Orders,       \* the wrappers, from the outermost to the innermost, in one of these orders
  Requests,
  Limit,        \* the permits of the semaphore
  RetryCount,   \* retry_count
  Errors,       \* what the inner node may fail with
  Transient     \* the errors the policy retries

ASSUME MiddlewareAssumption ==
  /\ Orders \subseteq {"retry_timeout_limit", "retry_limit_timeout", "limit_retry_timeout"}
  /\ Limit \in Nat \ {0} /\ RetryCount \in Nat \ {0}
  /\ Transient \subseteq Errors \cup {"timed out", "broken pipe"}
  /\ Errors \cap {"none", "dropped"} = {}

VARIABLES
  order,        \* the order of the wrappers, chosen once
  pc,           \* where a request is: new, waiting, running, backoff or done
  remaining,    \* remaining_retries
  queue,        \* the waiters of the semaphore, in FIFO order
  permits,      \* those nobody holds; the first waiters are entitled to them
  closed,       \* whether the semaphore is closed
  gauge,        \* pipeline_node_concurrency_active_requests
  answer,       \* what the caller is told
  \* History variables.
  attempts,     \* the calls of the node inside the RetryNode
  calls         \* the calls of the innermost node

vars == <<pc, remaining, queue, permits, closed, gauge, answer, attempts, calls>>

RetryOutside   == order # "limit_retry_timeout"
TimeoutOutside == order = "retry_timeout_limit"

Init ==
  /\ order \in Orders
  /\ pc = [r \in Requests |-> "new"]
  /\ remaining = [r \in Requests |-> RetryCount]
  /\ queue = <<>> /\ permits = Limit /\ closed = FALSE
  /\ gauge = 0
  /\ answer = [r \in Requests |-> "none"]
  /\ attempts = [r \in Requests |-> 0]
  /\ calls = [r \in Requests |-> 0]

Count(f, r) == [f EXCEPT ![r] = @ + 1]

-----------------------------------------------------------------------------
(* RetryNode's match on the result of an attempt.                          *)

\* Mutant: one retry too many.
OneTooMany(r, result) == result \in Transient /\ remaining[r] + 1 > 0

Again(r, result) == result \in Transient /\ remaining[r] > 0

Retry(r, result) ==
  IF Again(r, result)
  THEN /\ pc' = [pc EXCEPT ![r] = "backoff"]
       /\ remaining' = [remaining EXCEPT ![r] = @ - 1]
       /\ UNCHANGED answer
  ELSE /\ pc' = [pc EXCEPT ![r] = "done"]
       /\ answer' = [answer EXCEPT ![r] = result]
       /\ UNCHANGED remaining

\* Mutant: the permit is kept over the back-off in every order.
HoldsAlways(r, result) == Again(r, result)

\* Whether the ConcurrencyLimitNode, and with it the permit, outlives the attempt.
HoldsOn(r, result) == ~RetryOutside /\ Again(r, result)

-----------------------------------------------------------------------------
(* ConcurrencyLimitNode.                                                   *)

\* The request reaches semaphore.acquire().
Begin(r) ==
  /\ pc[r] = "new"
  /\ pc' = [pc EXCEPT ![r] = "waiting"]
  /\ queue' = Append(queue, r)
  /\ attempts' = IF RetryOutside THEN Count(attempts, r) ELSE attempts
  /\ UNCHANGED <<remaining, permits, closed, gauge, answer, calls>>

\* It is among the first in the queue, as many as there are permits.
Acquire(r) ==
  /\ pc[r] = "waiting" /\ ~closed
  /\ \E i \in 1..Len(queue) : i <= permits /\ queue[i] = r
  /\ pc' = [pc EXCEPT ![r] = "running"]
  /\ queue' = Remove(queue, r)
  /\ permits' = permits - 1 /\ gauge' = gauge + 1
  /\ attempts' = IF RetryOutside THEN attempts ELSE Count(attempts, r)
  /\ calls' = Count(calls, r)
  /\ UNCHANGED <<remaining, closed, answer>>

\* acquire() fails: a RetryNode outside has its say, otherwise the caller is told.
Refused(r) ==
  /\ pc[r] = "waiting" /\ closed
  /\ queue' = Remove(queue, r)
  /\ IF RetryOutside
     THEN Retry(r, "broken pipe")
     ELSE /\ pc' = [pc EXCEPT ![r] = "done"]
          /\ answer' = [answer EXCEPT ![r] = "broken pipe"]
          /\ UNCHANGED remaining
  /\ UNCHANGED <<permits, closed, gauge, attempts, calls>>

Close ==
  /\ ~closed
  /\ closed' = TRUE
  /\ UNCHANGED <<pc, remaining, queue, permits, gauge, answer, attempts, calls>>

-----------------------------------------------------------------------------
(* The three ends of an attempt.                                           *)

InnerReturns(r) ==
  /\ pc[r] = "running"
  /\ \E result \in Errors \cup {"ok"} :
       /\ Retry(r, result)
       /\ IF HoldsOn(r, result)
          THEN UNCHANGED <<permits, gauge>>
          ELSE permits' = permits + 1 /\ gauge' = gauge - 1
  /\ UNCHANGED <<queue, closed, attempts, calls>>

\* Mutant: the timeout also covers the wait for the permit of an outer semaphore.
UnderTimeoutWaiting(r) == pc[r] \in {"running", "waiting"}

\* What runs under the TimeoutNode: the inner node, and the wait if that is inside.
UnderTimeout(r) == pc[r] = "running" \/ (TimeoutOutside /\ pc[r] = "waiting")

\* Mutant: the gauge is forgotten when the inner node fails.
TimesOutUncounted(r) ==
  /\ UnderTimeout(r)
  /\ queue' = Remove(queue, r)
  /\ permits' = IF pc[r] = "waiting" \/ HoldsOn(r, "timed out") THEN permits ELSE permits + 1
  /\ Retry(r, "timed out")
  /\ UNCHANGED <<closed, gauge, attempts, calls>>

\* Mutant: the permit of a timed-out attempt is lost.
TimesOutLeaking(r) ==
  /\ UnderTimeout(r)
  /\ queue' = Remove(queue, r)
  /\ Retry(r, "timed out")
  /\ UNCHANGED <<permits, closed, gauge, attempts, calls>>

\* The TimeoutNode drops what it wraps: the ConcurrencyLimitNode, which may still be
\* waiting and does not get to decrement its gauge, or the innermost node alone.
TimesOut(r) ==
  /\ UnderTimeout(r)
  /\ queue' = Remove(queue, r)
  /\ IF pc[r] = "waiting" \/ HoldsOn(r, "timed out")
     THEN UNCHANGED <<permits, gauge>>
     ELSE /\ permits' = permits + 1
          /\ gauge' = IF TimeoutOutside THEN gauge ELSE gauge - 1
  /\ Retry(r, "timed out")
  /\ UNCHANGED <<closed, attempts, calls>>

\* The sleep is over: the next attempt starts with what the RetryNode wraps.
BackoffEnds(r) ==
  /\ pc[r] = "backoff"
  /\ attempts' = Count(attempts, r)
  /\ \/ /\ RetryOutside
        /\ pc' = [pc EXCEPT ![r] = "waiting"]
        /\ queue' = Append(queue, r)
        /\ UNCHANGED calls
     \/ /\ ~RetryOutside
        /\ pc' = [pc EXCEPT ![r] = "running"]
        /\ calls' = Count(calls, r)
        /\ UNCHANGED queue
  /\ UNCHANGED <<remaining, permits, closed, gauge, answer>>

\* The requests that hold a permit.
Holders ==
  {r \in Requests : \/ pc[r] = "running"
                    \/ ~RetryOutside /\ pc[r] = "backoff"}

\* Mutant: the permit of a dropped request is lost.
DropLeaking(r) ==
  /\ pc[r] \notin {"new", "done"}
  /\ pc' = [pc EXCEPT ![r] = "done"]
  /\ answer' = [answer EXCEPT ![r] = "dropped"]
  /\ queue' = Remove(queue, r)
  /\ UNCHANGED <<remaining, permits, closed, gauge, attempts, calls>>

\* The task that runs the request is aborted or given up: its future is dropped.
Drop(r) ==
  /\ pc[r] \notin {"new", "done"}
  /\ pc' = [pc EXCEPT ![r] = "done"]
  /\ answer' = [answer EXCEPT ![r] = "dropped"]
  /\ queue' = Remove(queue, r)
  /\ permits' = IF r \in Holders THEN permits + 1 ELSE permits
  /\ UNCHANGED <<remaining, closed, gauge, attempts, calls>>

-----------------------------------------------------------------------------
Next ==
  /\ \/ Close
     \/ \E r \in Requests :
          Begin(r) \/ Acquire(r) \/ Refused(r) \/ InnerReturns(r) \/ TimesOut(r)
            \/ BackoffEnds(r) \/ Drop(r)
  /\ UNCHANGED order

Spec == Init /\ [][Next]_<<order, vars>>

\* The semaphore and the timeout wake those who wait for them.  The innermost node
\* may hang: the timeout is there for that.  A back-off may last for ever.
FairSpec ==
  /\ Spec
  /\ \A r \in Requests :
       WF_vars(Acquire(r)) /\ WF_vars(Refused(r)) /\ WF_vars(TimesOut(r))

BackoffsEnd == \A r \in Requests : WF_vars(BackoffEnds(r))

-----------------------------------------------------------------------------
\* "The _permit is automatically dropped (released) when this function exits, whether
\* the inner node succeeds or returns an error" (concurrency.rs:72-73): in whichever
\* way attempts end, timeouts and dropped requests included, every permit is either
\* free or held by one request that the node works on, or, with the limit outside,
\* that sleeps.  So there are never more than Limit in the node, no permit leaks, and
\* with the limit inside a request that backs off holds none.
\* "Decrement the active request gauge when execution finishes" (concurrency.rs:92):
\* the gauge is the number of requests that hold one, as long as neither a timeout
\* around the limit nor anything else drops the future of the limit.
PermitsConserved ==
  /\ permits >= 0 /\ permits + Cardinality(Holders) = Limit
  /\ ~TimeoutOutside /\ (\A r \in Requests : answer[r] # "dropped") =>
       gauge = Cardinality(Holders)

\* A transient error is reported when all of the retry_count + 1 attempts are used up,
\* and never earlier or later (retry.rs:68-117).  A timeout and a closed semaphore
\* count as attempts, unless the limit is outside and the RetryNode never sees the
\* closed semaphore.  With the limit outside the timeout, an attempt that is over has
\* called the node: no request fails because others kept it waiting for a permit
\* (timeout.rs:54-58).
AttemptsExact ==
  \A r \in Requests :
    /\ attempts[r] <= RetryCount + 1
    /\ answer[r] \in Transient /\ (RetryOutside \/ answer[r] # "broken pipe") =>
         attempts[r] = RetryCount + 1
    /\ ~TimeoutOutside /\ ~closed /\ answer[r] # "dropped"
         /\ pc[r] \in {"running", "backoff", "done"} => calls[r] = attempts[r]

\* "Always place the ConcurrencyLimitNode inside the RetryNode" (concurrency.rs:11-20):
\* then nobody waits for somebody's back-off.  A request gets its permit even if
\* nobody who backs off ever wakes up.
NoHostages ==
  \A r \in Requests : RetryOutside /\ pc[r] = "waiting" ~> pc[r] # "waiting"

\* The wrong order makes requests wait for the back-offs of others; but if these end,
\* every request is answered in every order, though the innermost node may hang and
\* the semaphore be closed.
AllAnswered == BackoffsEnd => \A r \in Requests : pc[r] # "new" ~> pc[r] = "done"
=============================================================================
