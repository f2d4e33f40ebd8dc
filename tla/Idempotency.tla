----------------------------- MODULE Idempotency -----------------------------
(***************************************************************************)
(* IdempotencyNode (crates/core/src/node/idempotency.rs): workers that     *)
(* share a lock store process the same item once.  The store is a service  *)
(* behind the IdempotencyStore trait; each of its calls is atomic, as in   *)
(* the trait's comments and the repository's in-memory store, and may fail *)
(* before or after it has taken effect.                                    *)
(*                                                                         *)
(* One item is modelled: the locks of different ids are independent.  Time *)
(* is relative: `left` ticks from now the lock expires, and lag[w] ticks   *)
(* ago worker w has read the clock.                                        *)
(***************************************************************************)
EXTENDS Integers, FiniteSets

CONSTANTS
  Workers,
  TTL,        \* how long a lock lives
  MaxLag,     \* ticks that a check_and_lock may take (a bound)
  Faults,     \* the faults the environment may inject: "crash", "store"
  MaxFaults   \* how many of them happen (a bound)

ASSUME TimeAssumption  == TTL \in Nat \ {0} /\ MaxLag \in Nat
ASSUME FaultAssumption == /\ MaxFaults \in Nat
                          /\ Faults \subseteq {"crash", "store"}

VARIABLES
  status,     \* the IdempotencyStatus of the item
  left,       \* expires_at - now, down to -MaxLag, of an InProgress status
  pc,         \* pc[w] : the await worker w is at
  lag,        \* lag[w] : the age of the `now` of worker w, while it checks
  faults,     \* how many faults have happened
  \* History variables.
  late,       \* a lock has expired under a worker that had the item
  successes,  \* successful executions of the inner node (at most 2 are counted)
  skipped     \* the item was answered with Ok(vec![]) as already processed

vars == <<status, left, pc, lag, faults, late, successes, skipped>>

Init ==
  /\ status = "New" /\ left = 0
  /\ pc = [w \in Workers |-> "idle"]
  /\ lag = [w \in Workers |-> 0]
  /\ faults = 0 /\ late = FALSE /\ successes = 0 /\ skipped = FALSE

Goto(w, label) == pc' = [pc EXCEPT ![w] = label]
Inject(f) == f \in Faults /\ faults < MaxFaults /\ faults' = faults + 1

-----------------------------------------------------------------------------
(* The store.                                                              *)

SetStatus(s) == status' = s /\ left' = 0
Lock         == status' = "InProgress" /\ left' = TTL
Untouched    == UNCHANGED <<status, left>>

\* A call that takes effect, and one that fails: in the store, or on the way back.
Effect(Op, w, next) ==
  \/ Op /\ Goto(w, next) /\ UNCHANGED faults
  \/ (Op \/ Untouched) /\ Inject("store") /\ Goto(w, "idle")

-----------------------------------------------------------------------------
(* One execute of a worker.                                                *)

\* `now` is read before the store is asked.
Begin(w) ==
  /\ pc[w] = "idle"
  /\ Goto(w, "check")
  /\ lag' = [lag EXCEPT ![w] = 0]
  /\ UNCHANGED <<status, left, faults, late, successes, skipped>>

\* Mutant: the comparison with expires_at is the wrong way round.
ActiveInverted(w) == left + lag[w] <= 0

\* Mutant: a lock never goes stale.
ActiveForever(w) == status = "InProgress"

Active(w) == left + lag[w] > 0     \* now < expires_at, by the clock of w

\* check_and_lock and the match on its answer, for each of its cases.
CheckNew(w) ==
  /\ pc[w] = "check" /\ status = "New"
  /\ Effect(Lock, w, "exec")
  /\ UNCHANGED <<lag, late, successes, skipped>>

\* Mutant: Completed falls through to the inner node.
CheckCompletedRuns(w) ==
  /\ pc[w] = "check" /\ status = "Completed"
  /\ Goto(w, "exec")
  /\ UNCHANGED <<status, left, lag, faults, late, successes, skipped>>

CheckCompleted(w) ==
  /\ pc[w] = "check" /\ status = "Completed"
  /\ Goto(w, "idle")
  /\ skipped' = TRUE
  /\ UNCHANGED <<status, left, lag, faults, late, successes>>

CheckActive(w) ==
  /\ pc[w] = "check" /\ status = "InProgress" /\ Active(w)
  /\ Goto(w, "idle")
  /\ UNCHANGED <<status, left, lag, faults, late, successes, skipped>>

CheckStale(w) ==
  /\ pc[w] = "check" /\ status = "InProgress" /\ ~Active(w)
  /\ Goto(w, "steal")
  /\ UNCHANGED <<status, left, lag, faults, late, successes, skipped>>

CheckFails(w) ==
  /\ pc[w] = "check" /\ Inject("store")
  /\ Goto(w, "idle")
  /\ UNCHANGED <<status, left, lag, late, successes, skipped>>

\* Nothing makes sure that the lock is still the stale one.
Steal(w) ==
  /\ pc[w] = "steal"
  /\ Effect(Lock, w, "exec")
  /\ UNCHANGED <<lag, late, successes, skipped>>

InnerOk(w) ==
  /\ pc[w] = "exec"
  /\ successes' = IF successes = 2 THEN 2 ELSE successes + 1
  /\ Goto(w, "mark")
  /\ UNCHANGED <<status, left, lag, faults, late, skipped>>

\* Mutant: an error is marked like a success.
InnerErrMarked(w) ==
  /\ pc[w] = "exec"
  /\ Goto(w, "mark")
  /\ UNCHANGED <<status, left, lag, faults, late, successes, skipped>>

InnerErr(w) ==
  /\ pc[w] = "exec"
  /\ Goto(w, "release")
  /\ UNCHANGED <<status, left, lag, faults, late, successes, skipped>>

\* Mutant: the lock is released after a success too.
MarkReleased(w) ==
  /\ pc[w] = "mark"
  /\ Effect(SetStatus("New"), w, "idle")
  /\ UNCHANGED <<lag, late, successes, skipped>>

MarkSuccess(w) ==
  /\ pc[w] = "mark"
  /\ Effect(SetStatus("Completed"), w, "idle")
  /\ UNCHANGED <<lag, late, successes, skipped>>

\* A failure of release_lock is only logged.
ReleaseLock(w) ==
  /\ pc[w] = "release"
  /\ Effect(SetStatus("New"), w, "idle")
  /\ UNCHANGED <<lag, late, successes, skipped>>

\* The worker dies, or its future is dropped; it may come back with a new execute.
Crash(w) ==
  /\ pc[w] # "idle" /\ Inject("crash")
  /\ Goto(w, "idle")
  /\ UNCHANGED <<status, left, lag, late, successes, skipped>>

Working(w)  == pc[w] \in {"exec", "mark", "release"}

\* The lock expires with this tick, under a worker that has the item.
RunsOut == status = "InProgress" /\ left = 1 /\ \E w \in Workers : Working(w)

Tick ==
  /\ \A w \in Workers : pc[w] = "check" => lag[w] < MaxLag
  /\ lag' = [w \in Workers |-> IF pc[w] = "check" THEN lag[w] + 1 ELSE lag[w]]
  /\ left' = IF status = "InProgress" /\ left > -MaxLag THEN left - 1 ELSE left
  /\ late' = (late \/ RunsOut)
  /\ UNCHANGED <<status, pc, faults, successes, skipped>>

Check(w) == CheckNew(w) \/ CheckCompleted(w) \/ CheckActive(w) \/ CheckStale(w)
            \/ CheckFails(w)
Work(w)  == InnerOk(w) \/ InnerErr(w) \/ MarkSuccess(w) \/ ReleaseLock(w)
Step(w)  == Begin(w) \/ Check(w) \/ Steal(w) \/ Work(w)

Next == Tick \/ \E w \in Workers : Step(w) \/ Crash(w)

Spec == Init /\ [][Next]_vars

\* Workers keep asking for the item (a failed one is delivered again), the store and
\* the inner node answer, and time goes on.
FairSpec == Spec /\ WF_vars(Tick) /\ \A w \in Workers : WF_vars(Step(w))

-----------------------------------------------------------------------------
TypeOK ==
  /\ status \in {"New", "InProgress", "Completed"}
  /\ left \in -MaxLag..TTL
  /\ pc \in [Workers -> {"idle", "check", "steal", "exec", "mark", "release"}]
  /\ lag \in [Workers -> 0..MaxLag]
  /\ faults \in 0..MaxFaults
  /\ late \in BOOLEAN /\ successes \in 0..2 /\ skipped \in BOOLEAN

\* Workers finish before their locks expire, none crashes, and the store answers.
Orderly == ~late /\ faults = 0

\* "If an item has already been processed, or is currently being processed by
\* another task, it is skipped" (node/idempotency.rs:16-17): in an orderly run two
\* workers never have the item at a time.
Alone      == \A v, w \in Workers : Working(v) /\ Working(w) => v = w
WorksAlone == Orderly => Alone

\* In an orderly run the inner node succeeds at most once for the item.
ProcessedOnce == Orderly => successes <= 1

\* "Marks the ID as permanently successful" (idempotency.rs:18): in an orderly run no
\* lock, steal or release undoes it.
PermanentlySuccessful ==
  [][Orderly /\ status = "Completed" => status' = "Completed"]_vars

\* However the workers crash, overtake each other and lose answers of the store: an
\* item is only marked or skipped as processed if the inner node has succeeded.
NeverFalselyDone == status = "Completed" \/ skipped => successes > 0

\* A lock whose worker is gone does not block the item forever: it is taken over
\* or the item is done (the stale branch, node/idempotency.rs:79-93).
Orphaned == status = "InProgress" /\ \A w \in Workers : ~Working(w)
OrphanTakenOver == Orphaned ~> ~Orphaned

-----------------------------------------------------------------------------
\* The inductive invariant behind WorksAlone, ProcessedOnce and PermanentlySuccessful:
\* in an orderly run an InProgress lock is fresh and belongs to the one worker that
\* has the item.
LockInv ==
  /\ TypeOK
  /\ Orderly =>
       /\ Alone
       /\ status = "InProgress" => left > 0 /\ \E w \in Workers : Working(w)
       /\ status = "New" => successes = 0
       /\ successes <= 1
       /\ \A w \in Workers :
            /\ pc[w] # "steal"
            /\ Working(w) => status = "InProgress"
            /\ pc[w] \in {"exec", "release"} => successes = 0
=============================================================================
