---------------------------- MODULE GraphEngine ----------------------------
(***************************************************************************)
(* GraphEngine (crates/core/src/graph.rs): executes the nodes of a state   *)
(* graph one after the other, pauses before chosen nodes, and checkpoints  *)
(* the execution context and the state of one thread_id so that it can be  *)
(* resumed after a suspension, a cancellation, an error or a crash.        *)
(*                                                                         *)
(* A runner is a call of execute or resume for that thread_id.  The state  *)
(* is abstracted to its trail, the nodes whose delta has been reduced into *)
(* it; route, a function of the state, is a choice among the edges of the  *)
(* node.  The checkpoint store is the service behind the Checkpoint trait: *)
(* a save is atomic, and may fail.                                         *)
(***************************************************************************)
EXTENDS Naturals, Sequences, FiniteSets, SequencesExt

CONSTANTS
  Runners,     \* concurrent callers of the engine for one thread_id
  Nodes, Start,
  End,         \* the None of next_node and route
  Edges,       \* Edges[n] : what route may answer after node n
  Interrupts,  \* interrupt_before
  Strategies,  \* the CheckpointStrategy of the engine is one of these
  EveryN,      \* the n of EveryNSteps(n)
  MaxSteps,    \* max_steps
  Faults       \* the faults the environment may inject

ASSUME GraphAssumption ==
  /\ Start \in Nodes /\ End \notin Nodes
  /\ Edges \in [Nodes -> (SUBSET (Nodes \cup {End})) \ {{}}]
  /\ Interrupts \subseteq Nodes
  /\ Strategies \subseteq {"suspend_only", "every", "always"}
  /\ EveryN \in Nat \ {0} /\ MaxSteps \in Nat
  /\ Faults \subseteq {"crash", "save", "node"}

VARIABLES
  strategy,   \* the CheckpointStrategy, chosen once
  pc,         \* pc[r] : where runner r is in execute
  ctx,        \* ctx[r] : its ExecutionContext
  trail,      \* trail[r] : its state
  result,     \* result[r] : how its last call has ended
  saved,      \* the checkpoint of the thread_id
  hasSaved,   \* is there one
  cancelled,  \* the cancellation token
  suspended   \* history: <<step_count, node>> of every suspension made durable

vars == <<pc, ctx, trail, result, saved, hasSaved, cancelled, suspended>>

NewContext == [next |-> Start, step |-> 0, resuming |-> FALSE]

Init ==
  /\ strategy \in Strategies
  /\ pc = [r \in Runners |-> "idle"]
  /\ ctx = [r \in Runners |-> NewContext]
  /\ trail = [r \in Runners |-> <<>>]
  /\ result = [r \in Runners |-> "none"]
  /\ saved = [ctx |-> NewContext, trail |-> <<>>]
  /\ hasSaved = FALSE
  /\ cancelled = FALSE
  /\ suspended = {}

Goto(r, label) == pc' = [pc EXCEPT ![r] = label]

\* The call returns to its caller.
Answer(r, outcome) ==
  /\ pc' = [pc EXCEPT ![r] = "idle"]
  /\ result' = [result EXCEPT ![r] = outcome]

Persist(r) ==
  /\ saved' = [ctx |-> ctx[r], trail |-> trail[r]]
  /\ hasSaved' = TRUE

SaveFails == "save" \in Faults /\ UNCHANGED <<saved, hasSaved>>

-----------------------------------------------------------------------------
\* execute(ExecutionContext::new(..), ..), the first call for the thread.
Execute(r) ==
  /\ \A q \in Runners : pc[q] = "idle" /\ result[q] = "none"
  /\ Goto(r, "loop")
  /\ UNCHANGED <<ctx, trail, result, saved, hasSaved, cancelled, suspended>>

\* Mutant: the saved state is not restored.
ResumeFromScratch(r) ==
  /\ pc[r] = "idle" /\ hasSaved
  /\ ctx' = [ctx EXCEPT ![r] = [NewContext EXCEPT !.resuming = TRUE]]
  /\ trail' = [trail EXCEPT ![r] = <<>>]
  /\ Goto(r, "loop")
  /\ UNCHANGED <<result, saved, hasSaved, cancelled, suspended>>

Resume(r) ==
  /\ pc[r] = "idle" /\ hasSaved
  /\ ctx' = [ctx EXCEPT ![r] = [saved.ctx EXCEPT !.resuming = TRUE]]
  /\ trail' = [trail EXCEPT ![r] = saved.trail]
  /\ Goto(r, "loop")
  /\ UNCHANGED <<result, saved, hasSaved, cancelled, suspended>>

\* The head of the loop, for each of its outcomes.
Complete(r) ==
  /\ pc[r] = "loop" /\ ctx[r].next = End
  /\ Answer(r, "completed")
  /\ UNCHANGED <<ctx, trail, saved, hasSaved, cancelled, suspended>>

AtInterrupt(r) == ~ctx[r].resuming /\ ctx[r].next \in Interrupts

Interrupt(r) ==
  /\ pc[r] = "loop" /\ AtInterrupt(r)
  /\ Goto(r, "suspending")
  /\ UNCHANGED <<ctx, trail, result, saved, hasSaved, cancelled, suspended>>

\* force_save, and Suspended if it has worked.
Suspend(r) ==
  /\ pc[r] = "suspending"
  /\ \/ /\ Persist(r)
        /\ suspended' = suspended \cup {<<ctx[r].step, ctx[r].next>>}
        /\ Answer(r, "suspended")
     \/ /\ SaveFails
        /\ Answer(r, "checkpoint_error")
        /\ UNCHANGED suspended
  /\ UNCHANGED <<ctx, trail, cancelled>>

\* Mutant: one step too many.
ProceedBeyond(r) ==
  /\ pc[r] = "loop" /\ ctx[r].next # End /\ ~AtInterrupt(r)
  /\ ctx' = [ctx EXCEPT ![r].resuming = FALSE]
  /\ IF ctx[r].step > MaxSteps
     THEN Answer(r, "max_steps")
     ELSE Goto(r, "exec") /\ UNCHANGED result
  /\ UNCHANGED <<trail, saved, hasSaved, cancelled, suspended>>

\* Mutant: is_resuming is not reset.
ProceedResuming(r) ==
  /\ pc[r] = "loop" /\ ctx[r].next # End /\ ~AtInterrupt(r)
  /\ IF ctx[r].step >= MaxSteps
     THEN Answer(r, "max_steps")
     ELSE Goto(r, "exec") /\ UNCHANGED result
  /\ UNCHANGED <<ctx, trail, saved, hasSaved, cancelled, suspended>>

Proceed(r) ==
  /\ pc[r] = "loop" /\ ctx[r].next # End /\ ~AtInterrupt(r)
  /\ ctx' = [ctx EXCEPT ![r].resuming = FALSE]
  /\ IF ctx[r].step >= MaxSteps
     THEN Answer(r, "max_steps")
     ELSE Goto(r, "exec") /\ UNCHANGED result
  /\ UNCHANGED <<trail, saved, hasSaved, cancelled, suspended>>

\* execute_node, reduce, the new step_count and route.
Step(r) ==
  LET node == ctx[r].next IN
  /\ pc[r] = "exec"
  /\ trail' = [trail EXCEPT ![r] = Append(@, node)]
  /\ \E n \in Edges[node] :
       ctx' = [ctx EXCEPT ![r].step = @ + 1, ![r].next = n]
  /\ Goto(r, "saving")
  /\ UNCHANGED <<result, saved, hasSaved, cancelled, suspended>>

\* An error of the node or of the reducer.
StepFails(r) ==
  /\ pc[r] = "exec" /\ "node" \in Faults
  /\ Answer(r, "error")
  /\ UNCHANGED <<ctx, trail, saved, hasSaved, cancelled, suspended>>

\* Mutant: the state saved by a cancellation has the delta of the dropped node.
CancelWinsReduced(r) ==
  /\ pc[r] = "exec" /\ cancelled
  /\ \/ /\ saved' = [ctx |-> ctx[r], trail |-> Append(trail[r], ctx[r].next)]
        /\ hasSaved' = TRUE
     \/ SaveFails
  /\ Answer(r, "cancelled")
  /\ UNCHANGED <<ctx, trail, cancelled, suspended>>

\* Mutant: the loop goes on after the save.
CancelWinsAndGoesOn(r) ==
  /\ pc[r] = "exec" /\ cancelled
  /\ Persist(r) \/ SaveFails
  /\ Goto(r, "loop")
  /\ UNCHANGED <<ctx, trail, result, cancelled, suspended>>

\* The other branch of the select!: force_save, whose failure is only logged.
CancelWins(r) ==
  /\ pc[r] = "exec" /\ cancelled
  /\ Persist(r) \/ SaveFails
  /\ Answer(r, "cancelled")
  /\ UNCHANGED <<ctx, trail, cancelled, suspended>>

\* Mutant: the first n steps are not saved.
ShouldSaveLate(step) ==
  CASE strategy = "always"       -> TRUE
    [] strategy = "every"        -> step > EveryN /\ step % EveryN = 0
    [] strategy = "suspend_only" -> FALSE

ShouldSave(step) ==
  CASE strategy = "always"       -> TRUE
    [] strategy = "every"        -> step > 0 /\ step % EveryN = 0
    [] strategy = "suspend_only" -> FALSE

Save(r) ==
  /\ pc[r] = "saving"
  /\ \/ /\ ~ShouldSave(ctx[r].step)
        /\ Goto(r, "loop")
        /\ UNCHANGED <<result, saved, hasSaved>>
     \/ /\ ShouldSave(ctx[r].step)
        /\ Persist(r)
        /\ Goto(r, "loop")
        /\ UNCHANGED result
     \/ /\ ShouldSave(ctx[r].step)
        /\ SaveFails
        /\ Answer(r, "checkpoint_error")
  /\ UNCHANGED <<ctx, trail, cancelled, suspended>>

\* The process dies; only the checkpoint survives.
Crash(r) ==
  /\ "crash" \in Faults /\ pc[r] # "idle"
  /\ Answer(r, "crashed")
  /\ UNCHANGED <<ctx, trail, saved, hasSaved, cancelled, suspended>>

Cancel ==
  /\ ~cancelled
  /\ cancelled' = TRUE
  /\ UNCHANGED <<pc, ctx, trail, result, saved, hasSaved, suspended>>

RunStep(r) == \/ Complete(r) \/ Interrupt(r) \/ Suspend(r) \/ Proceed(r)
              \/ Step(r) \/ StepFails(r) \/ CancelWins(r) \/ Save(r)

Next ==
  /\ \/ \E r \in Runners : Execute(r) \/ Resume(r) \/ RunStep(r) \/ Crash(r)
     \/ Cancel
  /\ UNCHANGED strategy

Spec == Init /\ [][Next]_<<strategy, vars>>
FairSpec == Spec /\ \A r \in Runners : WF_vars(RunStep(r))

-----------------------------------------------------------------------------
Contexts == [next : Nodes \cup {End}, step : 0..MaxSteps, resuming : BOOLEAN]

TypeOK ==
  /\ pc \in [Runners -> {"idle", "loop", "suspending", "exec", "saving"}]
  /\ ctx \in [Runners -> Contexts]
  /\ trail \in [Runners -> Seq(Nodes)]
  /\ result \in [Runners -> {"none", "completed", "suspended", "max_steps", "error",
                             "cancelled", "checkpoint_error", "crashed"}]
  /\ saved \in [ctx : Contexts, trail : Seq(Nodes)]
  /\ hasSaved \in BOOLEAN /\ cancelled \in BOOLEAN
  /\ suspended \subseteq (0..MaxSteps) \X Nodes

\* A context and a state belong together: the trail is a path of the graph from
\* Start, the next node is one that route can answer at its end, and step_count is
\* its length, which max_steps bounds.
Coherent(c, t) ==
  /\ Len(t) = c.step /\ c.step <= MaxSteps
  /\ IF t = <<>> THEN c.next = Start
     ELSE /\ t[1] = Start
          /\ \A k \in 1..(Len(t) - 1) : t[k + 1] \in Edges[t[k]]
          /\ c.next \in Edges[t[Len(t)]]

\* Every checkpoint is such a pair, whether it was saved by the strategy, at an
\* interrupt or in a cancellation that dropped a half-executed node (graph.rs:
\* 260-292), and whoever else resumes the thread meanwhile.
CheckpointCoherent == Coherent(saved.ctx, saved.trail)

\* "Specifies a node that, when reached, will pause execution and yield a
\* `Suspended` result" (graph.rs:141): a node of interrupt_before only runs after a
\* suspension before it at that step.
InterruptHonoured ==
  \A r \in Runners : pc[r] = "exec" /\ ctx[r].next \in Interrupts =>
    <<ctx[r].step, ctx[r].next>> \in suspended

\* It is so, whatever crashes, fails, is cancelled or resumed by two callers at once,
\* as long as only suspensions and cancellations are saved.
InterruptSuspends == strategy = "suspend_only" => InterruptHonoured

\* No two callers have worked on the thread.
Solo == \E r \in Runners : \A q \in Runners \ {r} : pc[q] = "idle" /\ result[q] = "none"

\* A checkpoint is never replaced by an older one or by one of another history: what
\* a resumed thread has durably done it never does again (one runner at a time).
HistoryOnlyGrows == [][Solo => IsPrefix(saved.trail, saved'.trail)]_vars

\* A crash repeats at most as many nodes as the strategy leaves unsaved: one with
\* Always, n with EveryNSteps(n) - and none of them once the save has returned.
RepeatBound ==
  Solo /\ strategy # "suspend_only" =>
    \A r \in Runners : pc[r] # "idle" =>
      LET unsaved == ctx[r].step - saved.ctx.step
          bound   == IF strategy = "always" THEN 1 ELSE EveryN
      IN  unsaved <= IF pc[r] = "saving" THEN bound ELSE bound - 1

\* Whatever route answers, a call of execute or resume comes to an end, and a
\* cancelled one or a crashed one too (max_steps, graph.rs:252-256).
CallsReturn == \A r \in Runners : []<>(pc[r] = "idle")
=============================================================================
