--------------------------- MODULE CircuitBreaker ---------------------------
(***************************************************************************)
(* CircuitBreakerNode (crates/core/src/node/circuit_breaker.rs): a node    *)
(* around another one that counts its consecutive failures, rejects        *)
(* everything for reset_after once there are allowed_failures of them, and *)
(* then lets one probe through.  execute is two critical sections on the   *)
(* state - the admission, and the handling of the result - with the call   *)
(* of the inner node, during which anything may happen, between them.      *)
(***************************************************************************)
EXTENDS Integers, FiniteSets

CONSTANTS
  Callers,     \* concurrent callers of execute
  Allowed,     \* allowed_failures
  ResetAfter,  \* reset_after, in ticks
  MaxTime      \* how far the clock goes (a bound)

ASSUME AllowedAssumption == Allowed \in Nat \ {0}   \* asserted by new
ASSUME TimeAssumption    == ResetAfter \in Nat \ {0} /\ MaxTime \in Nat

VARIABLES
  state,      \* the BreakerState
  probeId,    \* the next probe_id
  now,        \* Instant::now()
  call,       \* call[c] : "idle", or the probe_id of the execute of c; None if it has none
  \* History variables.
  probedAt,   \* when the last probe was let through
  dropped     \* a call has been dropped in the inner node (a timeout, an abort, a panic)

vars == <<state, probeId, now, call, probedAt, dropped>>

Idle == -2
None == -1

Closed(n)   == [kind |-> "closed", failures |-> n]
Open(t)     == [kind |-> "open", until |-> t]
HalfOpen(p) == [kind |-> "half", probe |-> p]

Init ==
  /\ state = Closed(0)
  /\ probeId = 0
  /\ now = 0
  /\ call = [c \in Callers |-> Idle]
  /\ probedAt = None /\ dropped = FALSE

InFlight(c)  == call[c] # Idle
IsProbe(c)   == state.kind = "half" /\ call[c] = state.probe
Become(s)    == state' = s
Return(c)    == call' = [call EXCEPT ![c] = Idle]

\* Mutant: the breaker opens for no time at all.
TripNow == Become(Open(now))

Trip         == Become(Open(now + ResetAfter))

-----------------------------------------------------------------------------
(* The admission.  A rejected call changes nothing: it is not a step.      *)

Admit(c) ==
  /\ ~InFlight(c) /\ state.kind = "closed"
  /\ call' = [call EXCEPT ![c] = None]
  /\ UNCHANGED <<state, probeId, now, probedAt, dropped>>

\* Mutant: a breaker that is half-open lets everybody through with its probe_id.
ProbeOpen(c) ==
  /\ ~InFlight(c)
  /\ state.kind = "half" \/ (state.kind = "open" /\ now >= state.until)
  /\ LET p == IF state.kind = "half" THEN state.probe ELSE probeId
     IN  Become(HalfOpen(p)) /\ call' = [call EXCEPT ![c] = p] /\ probeId' = p + 1
  /\ probedAt' = now
  /\ UNCHANGED <<now, dropped>>

Probe(c) ==
  /\ ~InFlight(c) /\ state.kind = "open" /\ now >= state.until
  /\ Become(HalfOpen(probeId))
  /\ call' = [call EXCEPT ![c] = probeId]
  /\ probeId' = probeId + 1
  /\ probedAt' = now
  /\ UNCHANGED <<now, dropped>>

-----------------------------------------------------------------------------
(* The result of the inner node.                                           *)

\* Mutant: a successful probe does not close the breaker.
SucceedHalfOpen(c) ==
  /\ InFlight(c)
  /\ IF state.kind = "closed" THEN Become(Closed(0)) ELSE UNCHANGED state
  /\ Return(c)
  /\ UNCHANGED <<probeId, now, probedAt, dropped>>

Succeed(c) ==
  /\ InFlight(c)
  /\ CASE state.kind = "closed" -> Become(Closed(0))
       [] IsProbe(c)            -> Become(Closed(0))
       [] OTHER                 -> UNCHANGED state
  /\ Return(c)
  /\ UNCHANGED <<probeId, now, probedAt, dropped>>

\* Mutant: any failure opens a half-open breaker.
FailAny(c) ==
  /\ InFlight(c)
  /\ CASE state.kind = "closed" ->
            IF state.failures + 1 >= Allowed THEN Trip ELSE Become(Closed(state.failures + 1))
       [] state.kind = "half" -> Trip
       [] OTHER               -> UNCHANGED state
  /\ Return(c)
  /\ UNCHANGED <<probeId, now, probedAt, dropped>>

Fail(c) ==
  /\ InFlight(c)
  /\ CASE state.kind = "closed" ->
            IF state.failures + 1 >= Allowed THEN Trip ELSE Become(Closed(state.failures + 1))
       [] IsProbe(c) -> Trip
       [] OTHER      -> UNCHANGED state   \* a lingering call
  /\ Return(c)
  /\ UNCHANGED <<probeId, now, probedAt, dropped>>

\* The future is dropped, or unwinds, inside the inner node: no result is handled.
Drop(c) ==
  /\ InFlight(c)
  /\ Return(c)
  /\ dropped' = TRUE
  /\ UNCHANGED <<state, probeId, now, probedAt>>

Tick ==
  /\ now < MaxTime
  /\ now' = now + 1
  /\ UNCHANGED <<state, probeId, call, probedAt, dropped>>

\* The calls are over when the clock has stopped before the reset time.
Rejected == now = MaxTime /\ UNCHANGED vars

Result(c) == Succeed(c) \/ Fail(c)

Next ==
  \/ \E c \in Callers : Admit(c) \/ Probe(c) \/ Result(c) \/ Drop(c)
  \/ Tick
  \/ Rejected

Spec == Init /\ [][Next]_vars

\* The inner node answers every call that is not dropped.
FairSpec == Spec /\ \A c \in Callers : WF_vars(Result(c))

-----------------------------------------------------------------------------
TypeOK ==
  /\ state \in [kind : {"closed"}, failures : 0..(Allowed - 1)]
              \cup [kind : {"open"}, until : Nat]
              \cup [kind : {"half"}, probe : Nat]
  /\ probeId \in Nat /\ now \in Nat
  /\ call \in [Callers -> Nat \cup {Idle, None}]
  /\ probedAt \in Nat \cup {None} /\ dropped \in BOOLEAN

\* "Only a single probe request is allowed through" (circuit_breaker.rs:16): a
\* half-open breaker has exactly one probe in the inner node, however many callers
\* race for it and whatever lingers from before - as long as no call is dropped.
OneProbe ==
  ~dropped /\ state.kind = "half" =>
    /\ \E c \in Callers : call[c] = state.probe
    /\ \A c, d \in Callers : call[c] = state.probe /\ call[d] = state.probe => c = d

\* "Only let the actual probe transition us back" (circuit_breaker.rs:151): a
\* half-open breaker changes only with the return of its own probe.
OnlyProbeResolves ==
  [][state.kind = "half" /\ state' # state =>
       \E c \in Callers : call[c] = state.probe /\ call'[c] = Idle]_vars

\* Calls admitted before a trip return into a state of a later time.  They never
\* shorten the rest of the protected service: two probes are at least reset_after
\* apart, whether the breaker was closed in between or not (circuit_breaker.rs:
\* 20-24).
ProbesSpaced ==
  [][probedAt # None /\ probeId' # probeId => now - probedAt >= ResetAfter]_vars

\* "fast-failing subsequent requests for the duration of `reset_after`"
\* (circuit_breaker.rs:23) and then no longer: a half-open breaker, which rejects
\* everything too, opens or closes again.
HalfOpenEnds == (state.kind = "half") ~> (state.kind # "half")

\* ... which is so as long as no call is dropped.
HalfOpenAnswered ==
  (state.kind = "half" /\ ~dropped) ~> (state.kind # "half" \/ dropped)

-----------------------------------------------------------------------------
\* The inductive invariant behind OneProbe and ProbesSpaced: no probe id is used
\* twice, and an open breaker stays so for reset_after from its last probe on.
ProbeInv ==
  /\ TypeOK
  /\ \A c \in Callers : call[c] < probeId
  /\ state.kind = "half" => state.probe < probeId
  /\ OneProbe
  /\ probedAt # None =>
       /\ probedAt <= now
       /\ state.kind = "open" => probedAt + ResetAfter <= state.until
=============================================================================
