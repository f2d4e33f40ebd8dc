----------------------------- MODULE GraphProofs -----------------------------
(***************************************************************************)
(* The graph engine for every graph, every set of interrupts, each of its  *)
(* strategies and any number of runners: what is saved is coherent, an     *)
(* interrupt is not passed without a suspension, and one runner at a time  *)
(* never undoes what it has saved nor repeats more than the strategy       *)
(* leaves unsaved.                                                         *)
(***************************************************************************)
EXTENDS GraphEngine, TLAPS

\* A runner that has not been called yet.
Fresh(r) == pc[r] = "idle" /\ result[r] = "none"

RunInv(r) ==
  /\ Coherent(ctx[r], trail[r])
  /\ pc[r] \in {"exec", "saving"} => ~ctx[r].resuming
  /\ pc[r] = "exec" => ctx[r].next \in Nodes /\ ctx[r].step < MaxSteps
  /\ pc[r] = "suspending" => ctx[r].next \in Interrupts
  /\ pc[r] = "saving" => ctx[r].step > 0
  /\ Fresh(r) => ctx[r] = NewContext /\ trail[r] = <<>>

StoreInv ==
  /\ CheckpointCoherent
  /\ ~hasSaved => saved = [ctx |-> NewContext, trail |-> <<>>]
  /\ (\A r \in Runners : Fresh(r)) => ~hasSaved

EngineInv ==
  TypeOK /\ strategy \in Strategies /\ StoreInv /\ \A r \in Runners : RunInv(r)

\* If an interrupt comes next, there has been a suspension before it.
Paused(c) == c.next \in Interrupts => <<c.step, c.next>> \in suspended

\* With SuspendOnly that is so of the checkpoint, of whoever resumes from it, and of
\* whoever executes a node.
PauseInv ==
  strategy = "suspend_only" =>
    /\ hasSaved => Paused(saved.ctx)
    /\ \A r \in Runners : pc[r] = "exec" \/ (pc[r] = "loop" /\ ctx[r].resuming) => Paused(ctx[r])

Follows(t, s) == Len(s) <= Len(t) /\ \A k \in 1..Len(s) : t[k] = s[k]

\* The steps at which r has passed its save.
Passed(r) == IF pc[r] = "saving" THEN ctx[r].step - 1 ELSE ctx[r].step

\* The only runner goes on from the checkpoint, and what should have been saved has been.
HistoryInv ==
  Solo => \A r \in Runners : pc[r] # "idle" =>
    /\ Follows(trail[r], saved.trail)
    /\ \A m \in 1..Passed(r) : ShouldSave(m) => m <= saved.ctx.step

-----------------------------------------------------------------------------
(* One runner moves.                                                       *)

Labels  == {"idle", "loop", "suspending", "exec", "saving"}
Results == {"none", "completed", "suspended", "max_steps", "error", "cancelled",
            "checkpoint_error", "crashed"}

RunnerStep(r) == Execute(r) \/ Resume(r) \/ RunStep(r) \/ Crash(r)

\* A step of a runner leaves the others alone.
LEMMA Alone ==
  ASSUME TypeOK, NEW r \in Runners, RunnerStep(r)
  PROVE  /\ pc' = [pc EXCEPT ![r] = pc'[r]] /\ ctx' = [ctx EXCEPT ![r] = ctx'[r]]
         /\ trail' = [trail EXCEPT ![r] = trail'[r]]
         /\ result' = [result EXCEPT ![r] = result'[r]]
         /\ cancelled' = cancelled
<1>1. /\ pc \in [Runners -> Labels] /\ ctx \in [Runners -> Contexts]
      /\ trail \in [Runners -> Seq(Nodes)] /\ result \in [Runners -> Results]
  BY DEF TypeOK, Labels, Results
<1>2. CASE Execute(r)
  BY <1>1, <1>2 DEF Execute, Goto
<1>3. CASE Resume(r)
  BY <1>1, <1>3 DEF Resume, Goto
<1>4. CASE Complete(r)
  BY <1>1, <1>4 DEF Complete, Answer
<1>5. CASE Interrupt(r)
  BY <1>1, <1>5 DEF Interrupt, Goto
<1>6. CASE Suspend(r)
  BY <1>1, <1>6 DEF Suspend, Answer
<1>7. CASE Proceed(r)
  BY <1>1, <1>7 DEF Proceed, Goto, Answer
<1>8. CASE StepFails(r)
  BY <1>1, <1>8 DEF StepFails, Answer
<1>9. CASE CancelWins(r)
  BY <1>1, <1>9 DEF CancelWins, Answer
<1>10. CASE Save(r)
  BY <1>1, <1>10 DEF Save, Goto, Answer
<1>11. CASE Crash(r)
  BY <1>1, <1>11 DEF Crash, Answer
<1>12. CASE Step(r)
  <2>1. PICK n \in Edges[ctx[r].next] : ctx' = [ctx EXCEPT ![r].step = @ + 1, ![r].next = n]
    BY <1>12 DEF Step
  <2>2. ctx' = [ctx EXCEPT ![r] = ctx'[r]]
    BY <1>1, <2>1
  <2> QED
    BY <1>1, <1>12, <2>2 DEF Step, Goto
<1> QED
  BY <1>2, <1>3, <1>4, <1>5, <1>6, <1>7, <1>8, <1>9, <1>10, <1>11, <1>12 DEF RunnerStep, RunStep

\* What r has become, and what it may have saved.
Became(r) ==
  /\ pc'[r] \in Labels /\ result'[r] \in Results
  /\ ctx'[r] \in Contexts /\ trail'[r] \in Seq(Nodes)
  /\ Coherent(ctx'[r], trail'[r])
  /\ pc'[r] \in {"exec", "saving"} => ~ctx'[r].resuming
  /\ pc'[r] = "exec" => ctx'[r].next \in Nodes /\ ctx'[r].step < MaxSteps
  /\ pc'[r] = "suspending" => ctx'[r].next \in Interrupts
  /\ pc'[r] = "saving" => ctx'[r].step > 0
  /\ ~(pc'[r] = "idle" /\ result'[r] = "none")
  /\ suspended' \subseteq (0..MaxSteps) \X Nodes
  /\ UNCHANGED <<saved, hasSaved>> \/ Persist(r)

\* Node and route: the trail grows by the node, along an edge.
LEMMA CoherentAppend ==
  ASSUME NEW c \in Contexts, NEW t \in Seq(Nodes), Coherent(c, t),
         c.next \in Nodes, c.step < MaxSteps, NEW n \in Edges[c.next],
         NEW d \in Contexts, d.step = c.step + 1, d.next = n
  PROVE  Coherent(d, Append(t, c.next))
<1> DEFINE u == Append(t, c.next)
<1>0. MaxSteps \in Nat /\ c.step \in Nat
  BY GraphAssumption DEF Contexts
<1>1. /\ Len(t) = c.step /\ Len(u) = Len(t) + 1 /\ u[Len(u)] = c.next
      /\ \A k \in 1..Len(t) : u[k] = t[k]
  BY DEF Coherent
<1>2. Len(u) = d.step /\ d.step <= MaxSteps /\ u # <<>> /\ d.next \in Edges[u[Len(u)]]
  BY <1>0, <1>1
<1>3. u[1] = Start
  BY <1>0, <1>1 DEF Coherent
<1>4. ASSUME NEW k \in 1..(Len(u) - 1) PROVE u[k + 1] \in Edges[u[k]]
  <2>1. CASE k = Len(t)
    <3>1. /\ u[k] = t[Len(t)] /\ u[k + 1] = c.next /\ t # <<>>
      BY <1>0, <1>1, <2>1
    <3>2. c.next \in Edges[t[Len(t)]]
      BY ONLY <3>1, Coherent(c, t) DEF Coherent
    <3> QED
      BY ONLY <3>1, <3>2
  <2>2. CASE k # Len(t)
    <3>1. k \in 1..(Len(t) - 1) /\ k \in 1..Len(t) /\ k + 1 \in 1..Len(t)
      BY <1>0, <1>1, <2>2
    <3>2. u[k] = t[k] /\ u[k + 1] = t[k + 1] /\ t # <<>>
      BY <1>1, <3>1
    <3>3. t[k + 1] \in Edges[t[k]]
      BY ONLY <3>1, <3>2, Coherent(c, t) DEF Coherent
    <3> QED
      BY ONLY <3>2, <3>3
  <2> QED
    BY <2>1, <2>2
<1> QED
  BY <1>2, <1>3, <1>4 DEF Coherent

LEMMA EngineInit == Init => EngineInv /\ PauseInv /\ HistoryInv
<1> SUFFICES ASSUME Init PROVE EngineInv /\ PauseInv /\ HistoryInv
  OBVIOUS
<1>1. NewContext \in Contexts /\ <<>> \in Seq(Nodes)
  BY GraphAssumption DEF NewContext, Contexts
<1>2. TypeOK
  BY <1>1 DEF Init, TypeOK
<1>3. Coherent(NewContext, <<>>)
  BY GraphAssumption DEF Coherent, NewContext
<1>4. StoreInv
  BY <1>3 DEF Init, StoreInv, CheckpointCoherent
<1>5. \A r \in Runners : RunInv(r)
  BY <1>3 DEF Init, RunInv
<1> QED
  BY <1>2, <1>4, <1>5 DEF Init, EngineInv, PauseInv, HistoryInv
-----------------------------------------------------------------------------
(* Types, coherence, and what is fresh or saved.                           *)

\* What a step needs to know of its runner.
LEMMA Runner ==
  ASSUME EngineInv, NEW r \in Runners
  PROVE  /\ pc[r] \in Labels /\ result[r] \in Results
         /\ ctx[r] \in Contexts /\ trail[r] \in Seq(Nodes) /\ Coherent(ctx[r], trail[r])
         /\ saved \in [ctx : Contexts, trail : Seq(Nodes)] /\ RunInv(r)
         /\ suspended \subseteq (0..MaxSteps) \X Nodes
         /\ MaxSteps \in Nat /\ ctx[r].step \in 0..MaxSteps
BY GraphAssumption DEF EngineInv, TypeOK, RunInv, Contexts, Labels, Results

LEMMA BecameKeeps ==
  ASSUME EngineInv, UNCHANGED strategy, NEW r \in Runners, RunnerStep(r), Became(r)
  PROVE  EngineInv'
<1>0. TypeOK
  BY DEF EngineInv
<1>1. /\ pc' = [pc EXCEPT ![r] = pc'[r]] /\ ctx' = [ctx EXCEPT ![r] = ctx'[r]]
      /\ trail' = [trail EXCEPT ![r] = trail'[r]]
      /\ result' = [result EXCEPT ![r] = result'[r]]
      /\ cancelled' = cancelled
  BY <1>0, Alone
<1>2. /\ pc' \in [Runners -> Labels] /\ ctx' \in [Runners -> Contexts]
      /\ trail' \in [Runners -> Seq(Nodes)] /\ result' \in [Runners -> Results]
      /\ suspended' \subseteq (0..MaxSteps) \X Nodes /\ cancelled' \in BOOLEAN
  BY <1>0, <1>1 DEF TypeOK, Became, Labels, Results
<1>3. /\ saved' \in [ctx : Contexts, trail : Seq(Nodes)] /\ hasSaved' \in BOOLEAN
      /\ Coherent(saved'.ctx, saved'.trail)
      /\ ~hasSaved' => saved' = [ctx |-> NewContext, trail |-> <<>>]
  <2>1. CASE UNCHANGED <<saved, hasSaved>>
    BY <2>1 DEF EngineInv, TypeOK, StoreInv, CheckpointCoherent
  <2>2. CASE Persist(r)
    BY <2>2, Runner DEF Persist
  <2> QED
    BY <2>1, <2>2 DEF Became
<1>4. TypeOK'
  BY <1>2, <1>3 DEF TypeOK, Labels, Results
<1>5. StoreInv'
  BY <1>3 DEF StoreInv, CheckpointCoherent, Fresh, Became
<1>6. RunInv(r)'
  BY DEF RunInv, Became, Fresh
<1>7. ASSUME NEW q \in Runners \ {r} PROVE RunInv(q)'
  <2>1. /\ pc'[q] = pc[q] /\ ctx'[q] = ctx[q] /\ trail'[q] = trail[q] /\ result'[q] = result[q]
    BY <1>0, <1>1 DEF TypeOK
  <2> QED
    BY <2>1 DEF EngineInv, RunInv, Fresh
<1> QED
  BY <1>4, <1>5, <1>6, <1>7 DEF EngineInv

\* A step that leaves the context and the state of its runner as they are.
LEMMA Stays ==
  ASSUME EngineInv, NEW r \in Runners,
         Execute(r) \/ Complete(r) \/ Interrupt(r) \/ Suspend(r) \/ StepFails(r)
           \/ CancelWins(r) \/ Save(r) \/ Crash(r)
  PROVE  Became(r)
<1>0. /\ pc[r] \in Labels /\ result[r] \in Results
      /\ ctx'[r] = ctx[r] /\ trail'[r] = trail[r]
      /\ ctx[r] \in Contexts /\ trail[r] \in Seq(Nodes) /\ Coherent(ctx[r], trail[r])
      /\ RunInv(r) /\ ctx[r].step \in 0..MaxSteps
      /\ suspended \subseteq (0..MaxSteps) \X Nodes
      /\ DOMAIN pc = Runners /\ DOMAIN result = Runners
  BY Runner DEF EngineInv, TypeOK, Execute, Complete, Interrupt, Suspend, StepFails,
                CancelWins, Save, Crash
<1>1. Coherent(ctx'[r], trail'[r]) /\ ctx'[r] \in Contexts /\ trail'[r] \in Seq(Nodes)
  BY <1>0
<1>2. CASE Execute(r)
  BY <1>0, <1>1, <1>2 DEF Execute, Goto, Became, Labels
<1>3. CASE Complete(r) \/ StepFails(r) \/ Crash(r)
  BY <1>0, <1>1, <1>3 DEF Complete, StepFails, Crash, Answer, Became, Labels, Results
<1>4. CASE Interrupt(r)
  BY <1>0, <1>1, <1>4 DEF Interrupt, AtInterrupt, Goto, Became, Labels
<1>5. CASE Suspend(r)
  <2>1. ctx[r].next \in Nodes
    BY <1>0, <1>5, GraphAssumption DEF Suspend, RunInv
  <2>2. suspended' \subseteq (0..MaxSteps) \X Nodes
    BY <1>0, <1>5, <2>1 DEF Suspend
  <2> QED
    BY <1>0, <1>1, <1>5, <2>2 DEF Suspend, SaveFails, Answer, Became, Labels, Results
<1>6. CASE CancelWins(r)
  BY <1>0, <1>1, <1>6 DEF CancelWins, SaveFails, Answer, Became, Labels, Results
<1>7. CASE Save(r)
  BY <1>0, <1>1, <1>7 DEF Save, SaveFails, Goto, Answer, Became, Labels, Results
<1> QED
  BY <1>2, <1>3, <1>4, <1>5, <1>6, <1>7

LEMMA RunnerBecame ==
  ASSUME EngineInv, NEW r \in Runners, RunnerStep(r)
  PROVE  Became(r)
<1>0. /\ pc[r] \in Labels /\ result[r] \in Results
      /\ ctx[r] \in Contexts /\ trail[r] \in Seq(Nodes) /\ Coherent(ctx[r], trail[r])
      /\ saved \in [ctx : Contexts, trail : Seq(Nodes)] /\ RunInv(r)
      /\ suspended \subseteq (0..MaxSteps) \X Nodes
      /\ MaxSteps \in Nat /\ ctx[r].step \in 0..MaxSteps
  BY Runner
<1>t. DOMAIN pc = Runners /\ DOMAIN ctx = Runners /\ DOMAIN trail = Runners
      /\ DOMAIN result = Runners
  BY DEF EngineInv, TypeOK
<1>1. CASE Resume(r)
  <2>1. ctx'[r] = [saved.ctx EXCEPT !.resuming = TRUE] /\ trail'[r] = saved.trail /\ pc'[r] = "loop"
        /\ UNCHANGED <<suspended, saved, hasSaved, result>>
    BY <1>1, <1>t DEF Resume, Goto
  <2>2. ctx'[r] \in Contexts /\ ctx'[r].step = saved.ctx.step /\ ctx'[r].next = saved.ctx.next
    BY <1>0, <2>1 DEF Contexts
  <2>3. Coherent(ctx'[r], trail'[r])
    BY <2>1, <2>2 DEF Coherent, EngineInv, StoreInv, CheckpointCoherent
  <2> QED
    BY <1>0, <2>1, <2>2, <2>3 DEF Became, Labels
<1>2. CASE Proceed(r)
  <2>1. ctx'[r] = [ctx[r] EXCEPT !.resuming = FALSE] /\ UNCHANGED <<trail, suspended, saved, hasSaved>>
    BY <1>2, <1>t DEF Proceed
  <2>2. /\ ctx'[r] \in Contexts /\ ctx'[r].step = ctx[r].step /\ ctx'[r].next = ctx[r].next
        /\ ~ctx'[r].resuming /\ ctx[r].next \in Nodes
    BY <1>0, <1>2, <2>1, ZenonT(60) DEF Contexts, Proceed
  <2>3. Coherent(ctx'[r], trail'[r])
    BY <1>0, <2>1, <2>2 DEF Coherent
  <2>4. \/ pc'[r] = "exec" /\ ctx[r].step < MaxSteps /\ result'[r] = result[r]
        \/ pc'[r] = "idle" /\ result'[r] = "max_steps"
    BY <1>0, <1>2, <1>t DEF Proceed, Goto, Answer
  <2> QED
    BY <1>0, <2>1, <2>2, <2>3, <2>4 DEF Became, Labels, Results
<1>3. CASE Step(r)
  <2>1. PICK n \in Edges[ctx[r].next] : ctx' = [ctx EXCEPT ![r].step = @ + 1, ![r].next = n]
    BY <1>3 DEF Step
  <2>2. ctx[r].next \in Nodes /\ ctx[r].step < MaxSteps /\ ~ctx[r].resuming
    BY <1>0, <1>3 DEF Step, RunInv
  <2>3. n \in Nodes \cup {End}
    BY <2>2, GraphAssumption
  <2>4. ctx'[r] = [ctx[r] EXCEPT !.step = @ + 1, !.next = n]
    BY <1>t, <2>1
  <2>5. /\ ctx'[r] \in Contexts /\ ctx'[r].step = ctx[r].step + 1 /\ ctx'[r].next = n
        /\ ~ctx'[r].resuming /\ ctx'[r].step > 0
    <3>1. ctx[r].step + 1 \in 0..MaxSteps /\ ctx[r].step + 1 > 0
      BY <1>0, <2>2
    <3> QED
      BY <1>0, <2>2, <2>3, <2>4, <3>1 DEF Contexts
  <2>6. /\ trail'[r] = Append(trail[r], ctx[r].next) /\ pc'[r] = "saving"
        /\ UNCHANGED <<result, suspended, saved, hasSaved>>
    BY <1>3, <1>t DEF Step, Goto
  <2>7. trail'[r] \in Seq(Nodes)
    BY <1>0, <2>2, <2>6
  <2>8. Coherent(ctx'[r], trail'[r])
    BY <1>0, <2>2, <2>5, <2>6, CoherentAppend
  <2> QED
    BY <1>0, <2>5, <2>6, <2>7, <2>8 DEF Became, Labels
<1> QED
  BY <1>1, <1>2, <1>3, Stays DEF RunnerStep, RunStep

LEMMA EngineStep == EngineInv /\ [Next]_<<strategy, vars>> => EngineInv'
<1> SUFFICES ASSUME EngineInv, [Next]_<<strategy, vars>> PROVE EngineInv'
  OBVIOUS
<1>1. CASE Cancel \/ UNCHANGED vars
  <2>1. /\ UNCHANGED <<strategy, pc, ctx, trail, result, saved, hasSaved, suspended>>
        /\ cancelled' \in BOOLEAN
    BY <1>1 DEF Cancel, vars, Next, EngineInv, TypeOK
  <2>2. TypeOK' /\ strategy' \in Strategies
    BY <2>1 DEF EngineInv, TypeOK
  <2>3. StoreInv' /\ \A r \in Runners : RunInv(r)'
    BY <2>1 DEF EngineInv, StoreInv, CheckpointCoherent, RunInv, Fresh
  <2> QED
    BY <2>2, <2>3 DEF EngineInv
<1>2. ASSUME NEW r \in Runners, RunnerStep(r), UNCHANGED strategy PROVE EngineInv'
  BY <1>2, RunnerBecame, BecameKeeps
<1> QED
  BY <1>1, <1>2 DEF Next, RunnerStep, vars
-----------------------------------------------------------------------------
(* Interrupts.                                                             *)

LEMMA PausedRunner ==
  ASSUME EngineInv, PauseInv, strategy = "suspend_only", NEW r \in Runners, RunnerStep(r)
  PROVE  /\ suspended \subseteq suspended'
         /\ hasSaved' => Paused(saved.ctx)'
         /\ pc'[r] = "exec" \/ (pc'[r] = "loop" /\ ctx'[r].resuming) => Paused(ctx[r])'
<1>0. /\ ctx[r] \in Contexts /\ RunInv(r) /\ DOMAIN pc = Runners /\ DOMAIN ctx = Runners
      /\ saved \in [ctx : Contexts, trail : Seq(Nodes)]
      /\ pc[r] = "exec" \/ (pc[r] = "loop" /\ ctx[r].resuming) => Paused(ctx[r])
      /\ hasSaved => Paused(saved.ctx)
  BY DEF EngineInv, TypeOK, PauseInv
<1>1. CASE Execute(r)
  BY <1>0, <1>1 DEF Execute, Goto, RunInv, Fresh, NewContext, Paused
<1>2. CASE Resume(r)
  <2>1. ctx'[r] = [saved.ctx EXCEPT !.resuming = TRUE] /\ UNCHANGED <<saved, hasSaved, suspended>>
        /\ hasSaved
    BY <1>0, <1>2 DEF Resume
  <2>2. ctx'[r].step = saved.ctx.step /\ ctx'[r].next = saved.ctx.next
    BY <1>0, <2>1 DEF Contexts
  <2> QED
    BY <1>0, <2>1, <2>2 DEF Paused
<1>3. CASE Complete(r) \/ Interrupt(r) \/ StepFails(r) \/ Crash(r)
  <2>1. pc'[r] \in {"idle", "suspending"}
    BY <1>0, <1>3 DEF Complete, Interrupt, StepFails, Crash, Goto, Answer
  <2>2. UNCHANGED <<saved, hasSaved, suspended>>
    BY <1>3 DEF Complete, Interrupt, StepFails, Crash
  <2> QED
    BY <1>0, <2>1, <2>2 DEF Paused
<1>4. CASE Suspend(r)
  BY <1>0, <1>4 DEF Suspend, Persist, SaveFails, Answer, Paused
<1>5. CASE Proceed(r)
  <2>1. ctx'[r] = [ctx[r] EXCEPT !.resuming = FALSE] /\ UNCHANGED <<saved, hasSaved, suspended>>
        /\ pc[r] = "loop" /\ pc'[r] \in {"exec", "idle"}
    BY <1>0, <1>5 DEF Proceed, Goto, Answer
  <2>2. ctx'[r].step = ctx[r].step /\ ctx'[r].next = ctx[r].next
    BY <1>0, <2>1 DEF Contexts
  <2>3. Paused(ctx[r])
    BY <1>0, <1>5, <2>1 DEF Proceed, AtInterrupt, Paused
  <2> QED
    BY <1>0, <2>1, <2>2, <2>3 DEF Paused
<1>6. CASE Step(r)
  BY <1>0, <1>6 DEF Step, Goto, Paused
<1>7. CASE CancelWins(r)
  BY <1>0, <1>7 DEF CancelWins, Persist, SaveFails, Answer, Paused
<1>8. CASE Save(r)
  <2>1. ~ShouldSave(ctx[r].step)
    BY DEF ShouldSave
  <2> QED
    BY <1>0, <1>8, <2>1 DEF Save, Goto, RunInv, Paused
<1> QED
  BY <1>1, <1>2, <1>3, <1>4, <1>5, <1>6, <1>7, <1>8 DEF RunnerStep, RunStep

LEMMA PauseStep == EngineInv /\ PauseInv /\ [Next]_<<strategy, vars>> => PauseInv'
<1> SUFFICES ASSUME EngineInv, PauseInv, [Next]_<<strategy, vars>>, strategy' = "suspend_only"
             PROVE  PauseInv'
  BY DEF PauseInv
<1>0. strategy = "suspend_only"
  BY DEF Next
<1>1. CASE Cancel \/ UNCHANGED vars
  BY <1>0, <1>1 DEF Cancel, vars, PauseInv, Paused
<1>2. ASSUME NEW r \in Runners, RunnerStep(r) PROVE PauseInv'
  <2>1. /\ suspended \subseteq suspended'
        /\ hasSaved' => Paused(saved.ctx)'
        /\ pc'[r] = "exec" \/ (pc'[r] = "loop" /\ ctx'[r].resuming) => Paused(ctx[r])'
    BY <1>0, <1>2, PausedRunner
  <2>2. ASSUME NEW q \in Runners \ {r}, pc'[q] = "exec" \/ (pc'[q] = "loop" /\ ctx'[q].resuming)
        PROVE  Paused(ctx[q])'
    <3>1. pc'[q] = pc[q] /\ ctx'[q] = ctx[q]
      BY <1>2, Alone DEF EngineInv, TypeOK
    <3>2. Paused(ctx[q])
      BY <1>0, <2>2, <3>1 DEF PauseInv
    <3> QED
      BY <2>1, <3>1, <3>2 DEF Paused
  <2> QED
    BY <2>1, <2>2 DEF PauseInv
<1> QED
  BY <1>1, <1>2 DEF Next, RunnerStep, vars

-----------------------------------------------------------------------------
(* One runner at a time.                                                   *)

LEMMA HistoryRunner ==
  ASSUME EngineInv, HistoryInv, UNCHANGED strategy, NEW r \in Runners, RunnerStep(r),
         \A q \in Runners \ {r} : Fresh(q), pc'[r] # "idle"
  PROVE  /\ Follows(trail[r], saved.trail)'
         /\ \A m \in 1..Passed(r)' : ShouldSave(m) => m <= saved'.ctx.step
<1>0. /\ ctx[r] \in Contexts /\ trail[r] \in Seq(Nodes) /\ RunInv(r)
      /\ DOMAIN pc = Runners /\ DOMAIN ctx = Runners /\ DOMAIN trail = Runners
      /\ saved \in [ctx : Contexts, trail : Seq(Nodes)]
      /\ ctx[r].step \in Nat /\ saved.ctx.step \in Nat
  BY GraphAssumption DEF EngineInv, TypeOK, Contexts
<1>1. Solo
  BY DEF Solo, Fresh
<1>2. pc[r] # "idle" => /\ Follows(trail[r], saved.trail)
                        /\ \A m \in 1..Passed(r) : ShouldSave(m) => m <= saved.ctx.step
  BY <1>1 DEF HistoryInv
<1>3. CASE Execute(r)
  <2>1. ~hasSaved /\ ctx[r] = NewContext /\ trail[r] = <<>>
    BY <1>0, <1>3 DEF Execute, EngineInv, StoreInv, RunInv, Fresh
  <2>2. saved.trail = <<>> /\ UNCHANGED <<saved, ctx, trail>> /\ pc'[r] = "loop"
    BY <1>0, <1>3, <2>1 DEF Execute, Goto, EngineInv, StoreInv
  <2>3. Passed(r)' = 0
    BY <2>1, <2>2 DEF Passed, NewContext
  <2> QED
    BY <2>2, <2>3 DEF Follows
<1>4. CASE Resume(r)
  <2>1. ctx'[r] = [saved.ctx EXCEPT !.resuming = TRUE] /\ trail'[r] = saved.trail
        /\ pc'[r] = "loop" /\ saved' = saved
    BY <1>0, <1>4 DEF Resume, Goto
  <2>2. Passed(r)' = saved.ctx.step
    BY <1>0, <2>1 DEF Passed, Contexts
  <2> QED
    BY <1>0, <2>1, <2>2 DEF Follows
<1>5. CASE Interrupt(r)
  <2>1. pc[r] = "loop" /\ pc'[r] = "suspending" /\ UNCHANGED <<ctx, trail, saved>>
    BY <1>0, <1>5 DEF Interrupt, Goto
  <2> QED
    BY <1>2, <2>1 DEF Passed, Follows
<1>6. CASE Proceed(r)
  <2>1. ctx'[r] = [ctx[r] EXCEPT !.resuming = FALSE] /\ UNCHANGED <<trail, saved>>
        /\ pc[r] = "loop" /\ pc'[r] = "exec"
    BY <1>0, <1>6 DEF Proceed, Goto, Answer
  <2>2. Passed(r)' = Passed(r)
    BY <1>0, <2>1 DEF Passed, Contexts
  <2> QED
    BY <1>2, <2>1, <2>2 DEF Follows
<1>7. CASE Step(r)
  <2>1. PICK n : ctx' = [ctx EXCEPT ![r].step = @ + 1, ![r].next = n]
    BY <1>7 DEF Step
  <2>2. trail'[r] = Append(trail[r], ctx[r].next) /\ pc[r] = "exec" /\ pc'[r] = "saving"
        /\ saved' = saved
    BY <1>0, <1>7 DEF Step, Goto
  <2>3. Passed(r)' = Passed(r)
    BY <1>0, <2>1, <2>2 DEF Passed, Contexts
  <2>4. Follows(trail'[r], saved.trail)
    BY <1>0, <1>2, <2>2 DEF Follows
  <2> QED
    BY <1>2, <2>2, <2>3, <2>4 DEF Follows
<1>8. CASE Save(r)
  <2>1. pc[r] = "saving" /\ pc'[r] = "loop" /\ UNCHANGED <<ctx, trail>>
    BY <1>0, <1>8 DEF Save, Goto, Answer
  <2>2. Passed(r)' = ctx[r].step /\ Passed(r) = ctx[r].step - 1
    BY <2>1 DEF Passed
  <2>3. CASE Persist(r)
    BY <1>0, <2>1, <2>2, <2>3 DEF Persist, Follows
  <2>4. CASE ~ShouldSave(ctx[r].step) /\ saved' = saved
    <3>1. ASSUME NEW m \in 1..ctx[r].step, ShouldSave(m) PROVE m <= saved.ctx.step
      <4>1. m # ctx[r].step
        BY <2>4, <3>1
      <4>2. m \in 1..(ctx[r].step - 1)
        BY <1>0, <4>1
      <4> QED
        BY <1>2, <2>1, <2>2, <3>1, <4>2
    <3> QED
      BY <1>2, <2>1, <2>2, <2>4, <3>1 DEF Follows
  <2> QED
    BY <1>0, <1>8, <2>3, <2>4, <2>1 DEF Save, Answer
<1>9. CASE Complete(r) \/ Suspend(r) \/ StepFails(r) \/ CancelWins(r) \/ Crash(r)
  BY <1>0, <1>9 DEF Complete, Suspend, StepFails, CancelWins, Crash, Answer
<1> QED
  BY <1>3, <1>4, <1>5, <1>6, <1>7, <1>8, <1>9 DEF RunnerStep, RunStep

LEMMA HistoryStep == EngineInv /\ HistoryInv /\ [Next]_<<strategy, vars>> => HistoryInv'
<1> SUFFICES ASSUME EngineInv, HistoryInv, [Next]_<<strategy, vars>>, Solo' PROVE HistoryInv'
  BY DEF HistoryInv
<1>0. strategy' = strategy
  BY DEF Next
<1>1. CASE Cancel \/ UNCHANGED vars
  <2>1. UNCHANGED <<strategy, pc, ctx, trail, result, saved>>
    BY <1>0, <1>1 DEF Cancel, vars
  <2>2. Solo
    BY <2>1 DEF Solo
  <2> QED
    BY <2>1, <2>2 DEF HistoryInv, Follows, Passed, ShouldSave
<1>2. ASSUME NEW r \in Runners, RunnerStep(r) PROVE HistoryInv'
  <2>1. \A q \in Runners \ {r} : pc'[q] = pc[q] /\ result'[q] = result[q]
    BY <1>2, Alone DEF EngineInv, TypeOK
  <2>2. ~Fresh(r)'
    BY <1>2, RunnerBecame DEF Became, Fresh
  <2>3. \A q \in Runners \ {r} : Fresh(q) /\ pc'[q] = "idle"
    BY <2>1, <2>2 DEF Solo, Fresh
  <2>4. pc'[r] # "idle" => /\ Follows(trail[r], saved.trail)'
                           /\ \A m \in 1..Passed(r)' : ShouldSave(m) => m <= saved'.ctx.step
    BY <1>0, <1>2, <2>3, HistoryRunner
  <2> QED
    BY <1>0, <2>3, <2>4 DEF HistoryInv, ShouldSave
<1> QED
  BY <1>1, <1>2 DEF Next, RunnerStep, vars

\* Among the last n steps there is one that is a multiple of n, or there are not n yet.
LEMMA Multiple ==
  ASSUME NEW x \in Nat, NEW n \in Nat \ {0}
  PROVE  \E m \in 0..x : m % n = 0 /\ x - m < n
<1> DEFINE q == x \div n
<1>1. x = n * q + (x % n)
  BY Z3
<1>2. q \in Nat /\ x % n \in 0..(n - 1)
  OBVIOUS
<1>3. n * q \in Nat /\ (n * q) % n = 0
  BY ONLY <1>2, n \in Nat \ {0}
<1>4. n * q \in 0..x /\ x - n * q < n
  BY ONLY <1>1, <1>2, <1>3, x \in Nat, n \in Nat \ {0}
<1> QED
  BY <1>3, <1>4

\* Between two steps the bound follows from what should have been saved.
LEMMA BoundFromHistory ==
  ASSUME EngineInv, HistoryInv, Solo, strategy # "suspend_only",
         NEW r \in Runners, pc[r] # "idle"
  PROVE  Passed(r) - saved.ctx.step < IF strategy = "always" THEN 1 ELSE EveryN
<1>1. /\ ctx[r] \in Contexts /\ saved.ctx.step \in Nat /\ ctx[r].step \in Nat
      /\ strategy \in {"every", "always"} /\ EveryN \in Nat \ {0}
      /\ pc[r] = "saving" => ctx[r].step > 0
  BY GraphAssumption DEF EngineInv, TypeOK, Contexts, RunInv
<1>2. Passed(r) \in Nat
  BY <1>1 DEF Passed
<1>3. \A m \in 1..Passed(r) : ShouldSave(m) => m <= saved.ctx.step
  BY DEF HistoryInv
<1>4. CASE strategy = "always"
  <2>1. ShouldSave(Passed(r))
    BY <1>4 DEF ShouldSave
  <2>2. Passed(r) <= saved.ctx.step
    BY <1>1, <1>2, <1>3, <2>1
  <2> QED
    BY <1>1, <1>2, <1>4, <2>2
<1>5. CASE strategy = "every"
  <2>1. PICK m \in 0..Passed(r) : m % EveryN = 0 /\ Passed(r) - m < EveryN
    BY <1>1, <1>2, Multiple
  <2>2. m > 0 => ShouldSave(m)
    BY <1>5, <2>1 DEF ShouldSave
  <2>3. m <= saved.ctx.step
    BY <1>1, <1>2, <1>3, <2>1, <2>2
  <2> QED
    BY <1>1, <1>2, <1>5, <2>1, <2>3
<1> QED
  BY <1>1, <1>4, <1>5

LEMMA FollowsPrefix ==
  ASSUME NEW t \in Seq(Nodes), NEW s \in Seq(Nodes), Follows(t, s)
  PROVE  IsPrefix(s, t)
<1>1. SubSeq(s, 1, Len(s)) = SubSeq(t, 1, Len(s))
  BY DEF Follows
<1> QED
  BY <1>1 DEF IsPrefix, Follows

LEMMA HistoryNext ==
  EngineInv /\ HistoryInv /\ [Next]_<<strategy, vars>> =>
    [Solo => IsPrefix(saved.trail, saved'.trail)]_vars
<1> SUFFICES ASSUME EngineInv, HistoryInv, Next, Solo
             PROVE  IsPrefix(saved.trail, saved'.trail)
  BY DEF vars
<1>1. saved.trail \in Seq(Nodes)
  BY DEF EngineInv, TypeOK
<1>2. CASE UNCHANGED saved
  BY <1>1, <1>2, FollowsPrefix DEF Follows
<1>3. ASSUME NEW r \in Runners, RunnerStep(r), Persist(r), pc[r] # "idle"
      PROVE  IsPrefix(saved.trail, saved'.trail)
  <2>1. saved'.trail = trail[r] /\ trail[r] \in Seq(Nodes)
    BY <1>3 DEF Persist, EngineInv, TypeOK
  <2>2. Follows(trail[r], saved.trail)
    BY <1>3 DEF HistoryInv
  <2> QED
    BY <1>1, <2>1, <2>2, FollowsPrefix
<1>4. ASSUME NEW r \in Runners, RunnerStep(r)
      PROVE  UNCHANGED saved \/ (Persist(r) /\ pc[r] # "idle")
  <2>1. CASE Suspend(r) \/ CancelWins(r) \/ Save(r)
    BY <2>1 DEF Suspend, CancelWins, Save, SaveFails
  <2>2. CASE Execute(r) \/ Resume(r) \/ Complete(r) \/ Interrupt(r) \/ Proceed(r)
               \/ Step(r) \/ StepFails(r) \/ Crash(r)
    BY <2>2 DEF Execute, Resume, Complete, Interrupt, Proceed, Step, StepFails, Crash
  <2> QED
    BY <1>4, <2>1, <2>2 DEF RunnerStep, RunStep
<1> QED
  BY <1>2, <1>3, <1>4 DEF Next, RunnerStep, Cancel
-----------------------------------------------------------------------------
(* Theorems of the specification.                                          *)

LEMMA AllInv == Spec => [](EngineInv /\ PauseInv /\ HistoryInv)
<1>1. Init => EngineInv /\ PauseInv /\ HistoryInv
  BY EngineInit
<1>2. EngineInv /\ PauseInv /\ HistoryInv /\ [Next]_<<strategy, vars>>
        => (EngineInv /\ PauseInv /\ HistoryInv)'
  BY EngineStep, PauseStep, HistoryStep
<1> QED
  BY <1>1, <1>2, PTL DEF Spec

\* The runners, their contexts and the checkpoint have the shape that the structs of
\* graph.rs give them; step_count stays within max_steps.
THEOREM EngineTypes == Spec => []TypeOK
<1>1. EngineInv => TypeOK
  BY DEF EngineInv
<1> QED
  BY <1>1, AllInv, PTL

\* Every checkpoint holds a context and a state that belong together, whatever saves
\* it and whoever resumes the thread meanwhile (force_save, maybe_save and the
\* cancelled branch of the select!).
THEOREM CheckpointsCohere == Spec => []CheckpointCoherent
<1>1. EngineInv => CheckpointCoherent
  BY DEF EngineInv, StoreInv
<1> QED
  BY <1>1, AllInv, PTL

\* With CheckpointStrategy::SuspendOnly a node of interrupt_before runs only after a
\* suspension before it at that step was made durable, for every graph and any number
\* of callers of execute and resume.
THEOREM InterruptsSuspend == Spec => []InterruptSuspends
<1>1. EngineInv /\ PauseInv => InterruptSuspends
  BY DEF PauseInv, Paused, InterruptSuspends, InterruptHonoured
<1> QED
  BY <1>1, AllInv, PTL

\* One caller at a time never replaces the checkpoint by an older one or by one of
\* another history, whatever fails, is cancelled or crashes in between.
THEOREM HistoryGrows == Spec => HistoryOnlyGrows
<1>1. EngineInv /\ HistoryInv /\ [Next]_<<strategy, vars>> =>
        [Solo => IsPrefix(saved.trail, saved'.trail)]_vars
  BY HistoryNext
<1> QED
  BY <1>1, AllInv, PTL DEF Spec, HistoryOnlyGrows

\* With Always a crash repeats at most the node that was not saved yet, with
\* EveryNSteps(n) at most n of them, for every n.
THEOREM RepeatsBounded == Spec => []RepeatBound
<1>1. ASSUME EngineInv, HistoryInv PROVE RepeatBound
  <2> SUFFICES ASSUME Solo, strategy # "suspend_only", NEW r \in Runners, pc[r] # "idle"
               PROVE  ctx[r].step - saved.ctx.step <=
                        IF pc[r] = "saving"
                        THEN (IF strategy = "always" THEN 1 ELSE EveryN)
                        ELSE (IF strategy = "always" THEN 1 ELSE EveryN) - 1
    BY DEF RepeatBound
  <2>1. Passed(r) - saved.ctx.step < IF strategy = "always" THEN 1 ELSE EveryN
    BY <1>1, BoundFromHistory
  <2>2. ctx[r].step \in Nat /\ saved.ctx.step \in Nat /\ EveryN \in Nat
    BY <1>1, GraphAssumption DEF EngineInv, TypeOK, Contexts
  <2> QED
    BY <2>1, <2>2 DEF Passed
<1> QED
  BY <1>1, AllInv, PTL
=============================================================================
