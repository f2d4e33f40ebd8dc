------------------------------ MODULE RateLimit ------------------------------
(***************************************************************************)
(* RateLimitNode (crates/core/src/node/rate_limit.rs): a token bucket in   *)
(* front of a node.  One critical section refills the bucket and decides   *)
(* on the request; with Sleep a request for which there is no token takes  *)
(* it in advance and sleeps until it exists.                               *)
(*                                                                         *)
(* The bucket is counted in parts of a token, so that the arithmetic is    *)
(* exact (the f64 of the code is rounded): a token has Cost parts, Rate of *)
(* them come in a tick, and a minute has Minute ticks.  tokens_per_minute  *)
(* is thus Rate * Minute / Cost.  Sleeps end when they are due or later.   *)
(***************************************************************************)
EXTENDS Integers, Sequences

CONSTANTS
  Cost, Rate, Minute,
  Strategies,    \* the RateLimitStrategy of the node is one of these
  MaxTime,       \* how far the clock goes (a bound)
  MaxAdmitted    \* how many requests are let through (a bound)

ASSUME RateAssumption == /\ Cost \in Nat \ {0} /\ Rate \in Nat \ {0}
                         /\ Minute \in Nat \ {0}
                         /\ Strategies \subseteq {"reject", "sleep"}
ASSUME BoundAssumption == MaxTime \in Nat /\ MaxAdmitted \in Nat

VARIABLES
  strategy,    \* the RateLimitStrategy, chosen once
  tokens,      \* the parts in the bucket; negative if there are sleepers
  last,        \* last_updated
  now,         \* Instant::now()
  \* History variables.
  admitted,    \* the requests let through: when they came, and when they may start
  rejectedAt   \* when the last one was rejected

vars == <<tokens, last, now, admitted, rejectedAt>>

Capacity == Rate * Minute
None     == -1

Init ==
  /\ strategy \in Strategies
  /\ tokens = Capacity
  /\ last = 0 /\ now = 0
  /\ admitted = <<>> /\ rejectedAt = None

\* Mutant: the bucket overflows.
Unbounded == tokens + Rate * (now - last)

Refilled ==
  LET new == tokens + Rate * (now - last)
  IN  IF new > Capacity THEN Capacity ELSE new

Admit(due) == admitted' = Append(admitted, [at |-> now, due |-> due])

\* Mutant: the refill is lost when the request is rejected.
RejectedUnrefilled ==
  /\ strategy = "reject" /\ Refilled < Cost
  /\ rejectedAt' = now
  /\ last' = now
  /\ UNCHANGED <<tokens, now, admitted>>

Take ==
  /\ Refilled >= Cost
  /\ Len(admitted) < MaxAdmitted
  /\ tokens' = Refilled - Cost /\ last' = now
  /\ Admit(now)
  /\ UNCHANGED <<now, rejectedAt>>

Reject ==
  /\ strategy = "reject" /\ Refilled < Cost
  /\ rejectedAt' = now
  /\ tokens' = Refilled /\ last' = now
  /\ UNCHANGED <<now, admitted>>

\* Mutant: a sleeper takes no token.
SleepForFree ==
  /\ strategy = "sleep" /\ Refilled < Cost
  /\ Len(admitted) < MaxAdmitted
  /\ tokens' = Refilled /\ last' = now
  /\ Admit(now + (Cost - Refilled + Rate - 1) \div Rate)
  /\ UNCHANGED <<now, rejectedAt>>

\* The wait, a whole number of ticks, ends when the bucket would have the token.
Sleep ==
  /\ strategy = "sleep" /\ Refilled < Cost
  /\ Len(admitted) < MaxAdmitted
  /\ tokens' = Refilled - Cost /\ last' = now
  /\ Admit(now + (Cost - Refilled + Rate - 1) \div Rate)
  /\ UNCHANGED <<now, rejectedAt>>

Tick ==
  /\ now < MaxTime
  /\ now' = now + 1
  /\ UNCHANGED <<tokens, last, admitted, rejectedAt>>

Next == (Take \/ Reject \/ Sleep \/ Tick) /\ UNCHANGED strategy

Spec == Init /\ [][Next]_<<strategy, vars>>

-----------------------------------------------------------------------------
\* In whichever way requests come, sleep and are rejected, the node behind the
\* limiter is never called faster than the bucket allows: from the j-th request to
\* the start of the k-th there are at most a full bucket and what has come since
\* (rate_limit.rs:75-107).
RateBound ==
  \A k \in DOMAIN admitted : \A j \in 1..k :
    (k - j + 1) * Cost <= Capacity + Rate * (admitted[k].due - admitted[j].at)

\* "We must pre-consume the token we are about to wait for, so other concurrent
\* threads don't steal it" (rate_limit.rs:101-102): sleepers wake up one by one, in
\* the order in which they came, and nobody who comes later starts before them.
SleepersSpaced ==
  \A k \in DOMAIN admitted : \A j \in 1..(k - 1) :
    admitted[j].due > admitted[j].at =>
      Rate * (admitted[k].due - admitted[j].due) > (k - j) * Cost - Rate

\* "Requests that exceed the configured `tokens_per_minute` are immediately rejected"
\* (rate_limit.rs:22), and no others: none that comes a token's time after the last
\* one was let through, and not the first one.
RejectsOnlyExcess ==
  [][rejectedAt' # rejectedAt =>
       /\ admitted # <<>>
       /\ Rate * (now - admitted[Len(admitted)].at) < Cost]_vars
=============================================================================
