-------------------------- MODULE IdempotencyProofs --------------------------
(* Proofs about Idempotency, for any number of workers and any lock lifetime. *)
EXTENDS Idempotency, TLAPS

LEMMA InitInv == Init => LockInv
<1> SUFFICES ASSUME Init PROVE LockInv
  OBVIOUS
<1>1. left \in -MaxLag..TTL /\ lag \in [Workers -> 0..MaxLag]
  BY TimeAssumption DEF Init
<1>2. /\ status \in {"New", "InProgress", "Completed"}
      /\ late \in BOOLEAN /\ skipped \in BOOLEAN
  BY DEF Init
<1>3. faults \in 0..MaxFaults /\ successes \in 0..2
  BY FaultAssumption DEF Init
<1>4. pc \in [Workers -> {"idle", "check", "steal", "exec", "mark", "release"}]
  BY DEF Init
<1>5. TypeOK
  BY <1>1, <1>2, <1>3, <1>4 DEF TypeOK
<1> QED
  BY <1>5 DEF Init, LockInv, Alone, Working

\* Types: the steps that touch the store, and the clock.
LEMMA StepType == TypeOK /\ [Next]_vars => TypeOK'
<1> SUFFICES ASSUME TypeOK, [Next]_vars PROVE TypeOK'
  OBVIOUS
<1> USE FaultAssumption DEF TypeOK
<1>0. TTL \in -MaxLag..TTL /\ 0 \in -MaxLag..TTL
  BY TimeAssumption
<1>1. CASE Tick
  <2>1. left' \in -MaxLag..TTL
    BY <1>1, TimeAssumption DEF Tick
  <2>2. lag' \in [Workers -> 0..MaxLag]
    BY <1>1, TimeAssumption DEF Tick
  <2>3. late' \in BOOLEAN
    BY <1>1 DEF Tick
  <2> QED
    BY <1>1, <2>1, <2>2, <2>3 DEF Tick
<1>2. ASSUME NEW w \in Workers, Begin(w) PROVE TypeOK'
  <2>1. lag' \in [Workers -> 0..MaxLag]
    BY <1>2, TimeAssumption DEF Begin
  <2> QED
    BY <1>2, <2>1 DEF Begin, Goto
<1>3. ASSUME NEW w \in Workers, Check(w) PROVE TypeOK'
  <2>1. status' \in {"New", "InProgress", "Completed"} /\ left' \in -MaxLag..TTL
    BY <1>0, <1>3 DEF Check, CheckNew, CheckCompleted, CheckActive, CheckStale,
                      CheckFails, Effect, Lock, Untouched
  <2>2. pc' \in [Workers -> {"idle", "check", "steal", "exec", "mark", "release"}]
    BY <1>3 DEF Check, CheckNew, CheckCompleted, CheckActive, CheckStale, CheckFails,
                Effect, Goto
  <2>3. faults' \in 0..MaxFaults
    BY <1>3 DEF Check, CheckNew, CheckCompleted, CheckActive, CheckStale, CheckFails,
                Effect, Inject
  <2>4. UNCHANGED <<lag, late, successes>> /\ skipped' \in BOOLEAN
    BY <1>3 DEF Check, CheckNew, CheckCompleted, CheckActive, CheckStale, CheckFails
  <2> QED
    BY <2>1, <2>2, <2>3, <2>4
<1>4. ASSUME NEW w \in Workers, Steal(w) PROVE TypeOK'
  BY <1>0, <1>4 DEF Steal, Effect, Lock, Untouched, Goto, Inject
<1>5. ASSUME NEW w \in Workers, Work(w) PROVE TypeOK'
  BY <1>0, <1>5 DEF Work, InnerOk, InnerErr, MarkSuccess, ReleaseLock, Effect, SetStatus,
              Untouched, Goto, Inject
<1>6. ASSUME NEW w \in Workers, Crash(w) PROVE TypeOK'
  BY <1>6 DEF Crash, Goto, Inject
<1>7. CASE UNCHANGED vars
  BY <1>7 DEF vars
<1> QED
  BY <1>1, <1>2, <1>3, <1>4, <1>5, <1>6, <1>7 DEF Next, Step

\* An orderly run: who has the item, and what the store knows of it.  A step that
\* ends an orderly run keeps only the types.
LEMMA StepInv == LockInv /\ [Next]_vars => LockInv'
<1> SUFFICES ASSUME LockInv, [Next]_vars, Orderly' PROVE LockInv'
  BY StepType DEF LockInv
<1>0. TypeOK /\ TypeOK'
  BY StepType DEF LockInv
<1>a. Orderly
  <2>1. CASE Tick
    BY <1>0, <2>1 DEF Orderly, Tick, TypeOK
  <2>2. ASSUME NEW w \in Workers, Step(w) PROVE Orderly
    <3>1. faults' = faults \/ faults' = faults + 1
      BY <2>2 DEF Step, Begin, Check, CheckNew, CheckCompleted, CheckActive, CheckStale,
                  CheckFails, Steal, Work, InnerOk, InnerErr, MarkSuccess, ReleaseLock,
                  Effect, Inject
    <3>2. late' = late
      BY <2>2 DEF Step, Begin, Check, CheckNew, CheckCompleted, CheckActive, CheckStale,
                  CheckFails, Steal, Work, InnerOk, InnerErr, MarkSuccess, ReleaseLock
    <3> QED
      BY <1>0, <3>1, <3>2, FaultAssumption DEF Orderly, TypeOK
  <2>3. ASSUME NEW w \in Workers, Crash(w) PROVE Orderly
    BY <1>0, <2>3, FaultAssumption DEF Orderly, Crash, Inject, TypeOK
  <2>4. CASE UNCHANGED vars
    BY <2>4 DEF Orderly, vars
  <2> QED
    BY <2>1, <2>2, <2>3, <2>4 DEF Next
<1>b. ~\E f \in {"crash", "store"} : Inject(f)
  BY <1>0, <1>a, FaultAssumption DEF Inject, Orderly, TypeOK
<1>c. faults = 0 /\ faults' = 0 /\ ~late /\ ~late'
  BY <1>a DEF Orderly
<1> USE <1>0, <1>a, <1>b, TimeAssumption DEF LockInv, Alone, Working
<1>1. CASE Tick
  <2>1. UNCHANGED <<status, pc, successes>>
    BY <1>1 DEF Tick
  <2>r. ~RunsOut
    BY ONLY <1>1, <1>c DEF Tick
  <2>i. left \in Int
    BY DEF TypeOK
  <2>2. status = "InProgress" => left > 1
    BY <2>r, <2>i DEF RunsOut
  <2>3. left \in Int /\ (status = "InProgress" => left' = left - 1)
    BY <1>1, <2>2 DEF Tick, TypeOK
  <2>4. status' = "InProgress" => left' > 0
    BY <2>1, <2>2, <2>3
  <2> QED
    BY <2>1, <2>4
<1>2. ASSUME NEW w \in Workers, Begin(w) PROVE LockInv'
  BY <1>2 DEF Begin, Goto, TypeOK
<1>3. ASSUME NEW w \in Workers, CheckNew(w) PROVE LockInv'
  BY <1>3 DEF CheckNew, Effect, Lock, Goto, TypeOK
<1>4. ASSUME NEW w \in Workers, CheckCompleted(w) \/ CheckActive(w) \/ CheckFails(w)
      PROVE  LockInv'
  BY <1>4 DEF CheckCompleted, CheckActive, CheckFails, Goto, TypeOK
<1>5. ASSUME NEW w \in Workers, CheckStale(w) PROVE FALSE
  BY <1>5 DEF CheckStale, Active, TypeOK
<1>6. ASSUME NEW w \in Workers, Steal(w) PROVE FALSE
  BY <1>6 DEF Steal
<1>7. ASSUME NEW w \in Workers, InnerOk(w) PROVE LockInv'
  BY <1>7 DEF InnerOk, Goto, TypeOK
<1>8. ASSUME NEW w \in Workers, InnerErr(w) PROVE LockInv'
  BY <1>8 DEF InnerErr, Goto, TypeOK
<1>9. ASSUME NEW w \in Workers, MarkSuccess(w) PROVE LockInv'
  BY <1>9 DEF MarkSuccess, Effect, SetStatus, Goto, TypeOK
<1>10. ASSUME NEW w \in Workers, ReleaseLock(w) PROVE LockInv'
  BY <1>10 DEF ReleaseLock, Effect, SetStatus, Goto, TypeOK
<1>11. ASSUME NEW w \in Workers, Crash(w) PROVE FALSE
  BY <1>11 DEF Crash
<1>12. CASE UNCHANGED vars
  BY <1>12 DEF vars, TypeOK
<1> QED
  BY <1>1, <1>2, <1>3, <1>4, <1>5, <1>6, <1>7, <1>8, <1>9, <1>10, <1>11, <1>12
     DEF Next, Step, Check, Work

LEMMA InvAlways == Spec => []LockInv
BY InitInv, StepInv, PTL DEF Spec

\* In an orderly run no two workers ever have the item at a time
\* (node/idempotency.rs:55-129), however many they are and whenever the clock ticks.
THEOREM Exclusion == Spec => []WorksAlone
<1>1. LockInv => WorksAlone
  BY DEF LockInv, WorksAlone
<1> QED
  BY <1>1, InvAlways, PTL

\* In an orderly run the inner node succeeds at most once for the item.
THEOREM AtMostOneSuccess == Spec => []ProcessedOnce
<1>1. LockInv => ProcessedOnce
  BY DEF LockInv, ProcessedOnce
<1> QED
  BY <1>1, InvAlways, PTL

\* In an orderly run Completed stays Completed (idempotency.rs:18).
THEOREM Permanence == Spec => PermanentlySuccessful
<1>1. LockInv /\ [Next]_vars =>
        [Orderly /\ status = "Completed" => status' = "Completed"]_vars
  <2> SUFFICES ASSUME LockInv, [Next]_vars, Orderly, status = "Completed"
               PROVE  status' = "Completed"
    OBVIOUS
  <2>1. \A w \in Workers : ~Working(w) /\ pc[w] # "steal"
    BY DEF LockInv
  <2> QED
    BY <2>1 DEF Next, Step, Tick, Begin, Check, CheckNew, CheckCompleted, CheckActive,
         CheckStale, CheckFails, Steal, Work, InnerOk, InnerErr, MarkSuccess, ReleaseLock,
         Crash, Working, vars
<1> QED
  BY <1>1, InvAlways, PTL DEF Spec, PermanentlySuccessful
-----------------------------------------------------------------------------
\* The inductive invariant behind NeverFalselyDone, in every run: whoever is about to
\* mark the item has seen the inner node succeed, and a success is never forgotten.
DoneInv ==
  /\ TypeOK /\ NeverFalselyDone
  /\ \A w \in Workers : pc[w] = "mark" => successes > 0

LEMMA DoneInit == Init => DoneInv
<1>1. Init => TypeOK
  BY InitInv DEF LockInv
<1> QED
  BY <1>1 DEF Init, DoneInv, NeverFalselyDone

LEMMA DoneStep == DoneInv /\ [Next]_vars => DoneInv'
<1> SUFFICES ASSUME DoneInv, [Next]_vars PROVE DoneInv'
  OBVIOUS
<1>0. TypeOK /\ TypeOK'
  BY StepType DEF DoneInv
<1> USE DEF DoneInv, NeverFalselyDone
<1>1. CASE Tick \/ UNCHANGED vars
  BY <1>0, <1>1 DEF Tick, vars
<1>2. ASSUME NEW w \in Workers, Begin(w) \/ Crash(w) PROVE DoneInv'
  BY <1>0, <1>2 DEF Begin, Crash, Goto, TypeOK
<1>3. ASSUME NEW w \in Workers, Check(w) PROVE DoneInv'
  BY <1>0, <1>3 DEF Check, CheckNew, CheckCompleted, CheckActive, CheckStale, CheckFails,
                    Effect, Lock, Untouched, Goto, TypeOK
<1>4. ASSUME NEW w \in Workers, Steal(w) \/ ReleaseLock(w) PROVE DoneInv'
  BY <1>0, <1>4 DEF Steal, ReleaseLock, Effect, Lock, SetStatus, Untouched, Goto, TypeOK
<1>5. ASSUME NEW w \in Workers, InnerOk(w) PROVE DoneInv'
  <2>1. successes' > 0
    BY <1>0, <1>5 DEF InnerOk, TypeOK
  <2> QED
    BY <1>0, <2>1
<1>6. ASSUME NEW w \in Workers, InnerErr(w) \/ MarkSuccess(w) PROVE DoneInv'
  BY <1>0, <1>6 DEF InnerErr, MarkSuccess, Effect, SetStatus, Untouched, Goto, TypeOK
<1> QED
  BY <1>1, <1>2, <1>3, <1>4, <1>5, <1>6 DEF Next, Step, Work

\* However the workers crash, overtake each other and lose answers of the store, an item
\* is marked or skipped as processed only after a success (idempotency.rs:16-20).
THEOREM HonestMarks == Spec => []NeverFalselyDone
<1>1. DoneInv => NeverFalselyDone
  BY DEF DoneInv
<1> QED
  BY <1>1, DoneInit, DoneStep, PTL DEF Spec
=============================================================================
