---------------------------- MODULE BreakerProofs ----------------------------
(* Proofs about CircuitBreaker, for any number of callers and any thresholds. *)
EXTENDS CircuitBreaker, TLAPS

(* The invariant holds initially and is kept by each critical section, by a *)
(* dropped call and by the clock.                                           *)

LEMMA InitInv == Init => ProbeInv
<1> SUFFICES ASSUME Init PROVE ProbeInv
  OBVIOUS
<1> USE AllowedAssumption DEF Init, Closed, Idle, None
<1>1. state \in [kind : {"closed"}, failures : 0..(Allowed - 1)]
  OBVIOUS
<1>2. call \in [Callers -> Nat \cup {Idle, None}]
  OBVIOUS
<1>3. TypeOK
  BY <1>1, <1>2 DEF TypeOK
<1>4. state.kind = "closed"
  OBVIOUS
<1> QED
  BY <1>3, <1>4 DEF ProbeInv, OneProbe

LEMMA StepInv == ProbeInv /\ [Next]_vars => ProbeInv'
<1> SUFFICES ASSUME ProbeInv, [Next]_vars PROVE ProbeInv'
  OBVIOUS
<1> USE AllowedAssumption, TimeAssumption
        DEF ProbeInv, TypeOK, OneProbe, Closed, Open, HalfOpen, Idle, None
<1>1. ASSUME NEW c \in Callers, Admit(c) PROVE ProbeInv'
  BY <1>1 DEF Admit, InFlight
<1>2. ASSUME NEW c \in Callers, Probe(c) PROVE ProbeInv'
  BY <1>2 DEF Probe, InFlight, Become
<1>3. ASSUME NEW c \in Callers, Succeed(c) PROVE ProbeInv'
  BY <1>3 DEF Succeed, InFlight, IsProbe, Become, Return
<1>4. ASSUME NEW c \in Callers, Fail(c) PROVE ProbeInv'
  BY <1>4 DEF Fail, InFlight, IsProbe, Become, Return, Trip
<1>5. ASSUME NEW c \in Callers, Drop(c) PROVE ProbeInv'
  BY <1>5 DEF Drop, InFlight, Return
<1>6. CASE Tick
  BY <1>6 DEF Tick
<1>7. CASE UNCHANGED vars
  BY <1>7 DEF vars
<1> QED
  BY <1>1, <1>2, <1>3, <1>4, <1>5, <1>6, <1>7 DEF Next, Result, Rejected

LEMMA InvAlways == Spec => []ProbeInv
BY InitInv, StepInv, PTL DEF Spec

\* A half-open breaker that loses no call has exactly one probe in the inner node
\* (circuit_breaker.rs:16, 73-105), for every number of callers.
THEOREM SingleProbe == Spec => []OneProbe
<1>1. ProbeInv => OneProbe
  BY DEF ProbeInv
<1> QED
  BY <1>1, InvAlways, PTL

\* Only the return of its probe takes a breaker out of half-open
\* (circuit_breaker.rs:112-166), even if calls are dropped.
THEOREM ProbeResolution == Spec => OnlyProbeResolves
<1>1. ProbeInv /\ [Next]_vars =>
        [state.kind = "half" /\ state' # state =>
           \E c \in Callers : call[c] = state.probe /\ call'[c] = Idle]_vars
  <2> SUFFICES ASSUME ProbeInv, [Next]_vars, state.kind = "half", state' # state
               PROVE  \E c \in Callers : call[c] = state.probe /\ call'[c] = Idle
    OBVIOUS
  <2>1. PICK c \in Callers : Succeed(c) \/ Fail(c)
    BY DEF Next, Result, Admit, Probe, Drop, Tick, Rejected, vars
  <2>2. call[c] = state.probe
    BY <2>1 DEF Succeed, Fail, IsProbe
  <2>3. call'[c] = Idle
    BY <2>1 DEF Succeed, Fail, Return, ProbeInv, TypeOK
  <2> QED
    BY <2>2, <2>3
<1> QED
  BY <1>1, InvAlways, PTL DEF Spec, OnlyProbeResolves

\* Two probes are at least reset_after apart (circuit_breaker.rs:77-93, 137, 157).
THEOREM Spacing == Spec => ProbesSpaced
<1>1. ProbeInv /\ [Next]_vars =>
        [probedAt # None /\ probeId' # probeId => now - probedAt >= ResetAfter]_vars
  <2> SUFFICES ASSUME ProbeInv, [Next]_vars, probedAt # None, probeId' # probeId
               PROVE  now - probedAt >= ResetAfter
    OBVIOUS
  <2>1. PICK c \in Callers : Probe(c)
    BY DEF Next, Result, Admit, Succeed, Fail, Drop, Tick, Rejected, vars
  <2>2. state.kind = "open" /\ now >= state.until
    BY <2>1 DEF Probe
  <2>3. state.until \in Nat /\ probedAt + ResetAfter <= state.until
    BY <2>2 DEF ProbeInv, TypeOK
  <2> QED
    BY <2>2, <2>3, TimeAssumption DEF ProbeInv, TypeOK
<1> QED
  BY <1>1, InvAlways, PTL DEF Spec, ProbesSpaced
=============================================================================
