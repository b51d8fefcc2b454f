----------------------------- MODULE DagExecution -----------------------------
(***************************************************************************)
(* One call of PlanningExecutorScheduler._execute_plan: the plan's steps   *)
(* run layer by layer, steps that need a confirmation are retried after    *)
(* it, failing steps are repaired locally or the plan is revised, a        *)
(* revision is checked and merged into what the root plan still needs, and *)
(* the completion gate decides between RunCompleted and RunFailed.         *)
(*                                                                         *)
(* Abstractions.                                                           *)
(*  - A step id is a number; its order is the order of the list of steps.  *)
(*  - A (tool, input) signature is an element of Actions.  A contract or a *)
(*    declared operation is the set of actions that step_satisfies.        *)
(*  - The planner is untrusted: it offers any plan of RootPlans, then any  *)
(*    revision of Revisions that its own guardrail lets through.           *)
(*  - The steps of a layer are gathered; nothing reads their results until *)
(*    all have returned, so a layer is one action with one outcome each.   *)
(*  - Waiting for a confirmation is in RunLifecycle; here the wait ends.   *)
(*  - An IDEMPOTENT result is told apart from a COMPLETED one by nothing   *)
(*    in this code and is modelled as "completed".                         *)
(***************************************************************************)
EXTENDS Naturals, FiniteSets, FiniteSetsExt

CONSTANTS
  MaxSteps,          \* step ids are 1..MaxSteps
  Actions,           \* (tool, input) signatures
  Mutating,          \* actions with side effects (step_is_mutating)
  ReadOnly,          \* actions local repair may use (_is_read_only_action)
  Dangerous,         \* sets of actions that exclude each other (dangerous_with)
  Contracts,         \* the run's DeliveryContracts
  RootPlans,         \* plans the planner may start with
  Revisions,         \* non-empty revisions the planner may return
  RunAttemptBudget,  \* SchedulerConfig.run_attempt_budget
  MaxReviseRetries,  \* SchedulerConfig.max_revise_retries
  MaxRepairRounds,   \* SchedulerConfig.local_repair_max_rounds, 0: disabled
  MaxConfirmRetries  \* SchedulerConfig.max_confirm_retries

Ids == 1..MaxSteps

Steps == [act: Actions, deps: SUBSET Ids, probe: BOOLEAN]

\* A DagPlan: its steps by id, and declared_operations.
IsPlan(p) ==
  /\ p = [steps |-> p.steps, declared |-> p.declared]
  /\ DOMAIN p.steps \subseteq Ids
  /\ p.steps \in [DOMAIN p.steps -> Steps]
  /\ \A op \in p.declared : op \subseteq Actions

ASSUME ConstantsAssumption ==
  /\ MaxSteps \in Nat
  /\ {RunAttemptBudget, MaxReviseRetries, MaxRepairRounds,
      MaxConfirmRetries} \subseteq Nat
  /\ Mutating \subseteq Actions
  /\ ReadOnly \subseteq Actions \ Mutating
  /\ \A p \in RootPlans \cup Revisions : IsPlan(p)
  \* satisfied: step_satisfies; exact: every key of the contract kept.
  /\ Contracts \subseteq [satisfied: SUBSET Actions, exact: SUBSET Actions]

VARIABLES
  root,       \* root_plan
  plan,       \* plan
  alias,      \* step_aliases
  results,    \* results: the state of each step's StepResult, or "none"
  achieved,   \* history: <<id, action, state>> of executions that went well
  heals,      \* self_heal_count
  rounds,     \* repair_rounds
  tried,      \* steps this _attempt_step_local_repair has given up on
  attempts,   \* attempt of _revise_with_degenerate_guard
  remaining,  \* steps of the layers still to execute
  layer,      \* the layer being executed
  waiting,    \* steps whose confirmation is still to be settled, in their order
  retries,    \* confirm_retries of the first of waiting
  site,       \* repairing after a failed "layer" or after all of the "plan"
  cancelled,  \* _cancel_flags
  pc,
  outcome     \* "none", "completed", or why the run failed

plans  == <<root, plan, alias>>
record == <<results, achieved>>
budget == <<heals, rounds, tried, attempts>>
layers == <<remaining, layer, waiting, retries>>
vars   == <<plans, record, budget, layers, site, cancelled, pc, outcome>>
-----------------------------------------------------------------------------
(***************************************************************************)
(* StepResult.  A transient error is the Tool Layer's to retry, so local   *)
(* repair leaves it alone; "answered" is UNSUCCESSFUL of a probe step.     *)
(***************************************************************************)
Failed == {"failed", "failed_transient"}

Unsuccessful == {"unsuccessful", "unsuccessful_transient"}

\* exec_state_is_normal
Normal == {"completed", "answered"}

\* should_not_rerun
NotRerun == {"completed"}

\* output_available
Available == {"completed", "answered"} \cup Unsuccessful

States == {"none", "pending", "skipped"} \cup Normal \cup Failed \cup Unsuccessful

\* What executing step s may return.
Returns(s) ==
  {"completed", "pending"} \cup Failed
    \cup IF plan.steps[s].probe THEN {"answered"} ELSE Unsuccessful

StepIds(p) == DOMAIN p.steps

ActsOf(p, S) == {p.steps[s].act : s \in S}

With(S) == {s \in Ids : results[s] \in S}
-----------------------------------------------------------------------------
(***************************************************************************)
(* PlanGuardrail.validate, the revision guards and the merge.              *)
(***************************************************************************)
Acyclic(p) ==
  \A S \in SUBSET StepIds(p) \ {{}} : \E s \in S : p.steps[s].deps \cap S = {}

Valid(p, external) ==
  /\ \A s \in StepIds(p) :
       /\ p.steps[s].probe => p.steps[s].act \notin Mutating
       /\ p.steps[s].deps \subseteq StepIds(p) \cup external
  /\ Acyclic(p)
  /\ \A op \in p.declared : op \cap ActsOf(p, StepIds(p)) # {}
  /\ \A pair \in Dangerous : ~(pair \subseteq ActsOf(p, StepIds(p)))

\* _closure of find_degenerate_revised_steps
Closure(p, s) ==
  {t \in StepIds(p) :
     \A S \in SUBSET StepIds(p) :
       (/\ s \in S
        /\ \A u \in S : p.steps[u].deps \cap StepIds(p) \subseteq S)
       => t \in S}

\* find_degenerate_revised_steps
Degenerate(r) ==
  LET ran    == StepIds(plan) \cap With(Failed \cup Unsuccessful)
      failed == ActsOf(plan, ran)
      seen   == ActsOf(plan, StepIds(plan))
  IN  {s \in StepIds(r) : /\ r.steps[s].act \in failed
                          /\ ActsOf(r, Closure(r, s)) \subseteq seen}

ResultOf(i) == results[alias[i]]

\* The replacements a revision brings, and the root steps that may take one.
Replacements(r) == StepIds(r) \ (StepIds(root) \cup StepIds(plan))

Replaceable ==
  {i \in StepIds(root) : ResultOf(i) \in Failed \cup Unsuccessful \cup {"skipped"}}

\* The only replacement with the signature of i, for the first such i.
Matching(r, i) == {x \in Replacements(r) : r.steps[x].act = root.steps[i].act}

Matched(r) ==
  {i \in Replaceable :
     /\ Cardinality(Matching(r, i)) = 1
     /\ \A j \in Replaceable : root.steps[j].act = root.steps[i].act => i <= j}

\* D12: one replacement and one failed step are left, so they belong together.
Forced(r) ==
  LET left == Replacements(r) \ UNION {Matching(r, i) : i \in Matched(r)}
      ran  == {i \in Replaceable \ Matched(r) : ResultOf(i) # "skipped"}
  IN  IF Cardinality(left) = 1 /\ Cardinality(ran) = 1 THEN ran \X left ELSE {}

MergedAlias(r) ==
  [i \in StepIds(root) |->
     IF i \in Matched(r) THEN CHOOSE x \in Matching(r, i) : TRUE
     ELSE IF \E f \in Forced(r) : f[1] = i
       THEN (CHOOSE f \in Forced(r) : f[1] = i)[2]
       ELSE alias[i]]

\* Root steps that the revision left out and that still have to be done.
Restored(r) ==
  {i \in StepIds(root) : /\ MergedAlias(r)[i] = i
                         /\ i \notin StepIds(r)
                         /\ results[i] \notin Normal}

\* merge_revised_plan: the plan,
Merged(r) ==
  [r EXCEPT !.steps =
     [s \in StepIds(r) \cup Restored(r) |->
        IF s \in StepIds(r) THEN r.steps[s]
        ELSE [root.steps[s] EXCEPT !.deps = {MergedAlias(r)[d] : d \in @}]]]

\* and the results: what runs again and what was replaced is dropped.
MergedResults(r) ==
  [s \in Ids |->
     IF \/ s \in StepIds(Merged(r)) /\ results[s] \notin Normal
        \/ s \in StepIds(root) /\ MergedAlias(r)[s] # s
     THEN "none" ELSE results[s]]

\* Mutant: the mutating steps of the merged plan are not looked at.
KeepsContractsOnly(p) ==
  \A c \in Contracts :
    /\ c.satisfied \cap ActsOf(p, StepIds(p)) # {}
    /\ c.satisfied \cap ActsOf(p, StepIds(p)) \subseteq c.exact

\* validate_revision_invariants
KeepsContracts(p) ==
  LET acts == ActsOf(p, StepIds(p))
  IN  /\ \A c \in Contracts : /\ c.satisfied \cap acts # {}
                              /\ c.satisfied \cap acts \subseteq c.exact
      /\ Contracts # {} =>
           Mutating \cap acts \subseteq UNION {c.satisfied : c \in Contracts}
-----------------------------------------------------------------------------
(***************************************************************************)
(* CompletionVerdict.compute over the root plan.                           *)
(***************************************************************************)
Met == {i \in StepIds(root) : ResultOf(i) \in Normal}

\* Mutant: the declared operations stand for the whole plan.
MechanicalCompleteDeclared ==
  \A op \in root.declared : op \cap ActsOf(root, Met) # {}

MechanicalComplete ==
  /\ Met = StepIds(root)
  /\ \A op \in root.declared : op \cap ActsOf(root, Met) # {}

\* verify_deliverables
Delivered == \A c \in Contracts : c.satisfied \cap ActsOf(root, Met) # {}
-----------------------------------------------------------------------------
End(why) == /\ pc' = "done"
             /\ outcome' = why

Goto(label) == /\ pc' = label
               /\ UNCHANGED outcome

Init ==
  /\ root \in {p \in RootPlans : StepIds(p) # {} /\ Valid(p, {})}
  /\ plan = root
  /\ alias = [i \in StepIds(root) |-> i]
  /\ results = [s \in Ids |-> "none"]
  /\ achieved = {}
  /\ heals = 0
  /\ rounds = [s \in Ids |-> 0]
  /\ tried = {}
  /\ attempts = 0
  /\ remaining = {}
  /\ layer = {}
  /\ waiting = {}
  /\ retries = 0
  /\ site = "layer"
  /\ cancelled = FALSE
  /\ pc = "entry"
  /\ outcome = "none"

\* Mutant: the breaker trips one round late.
OutOfBudgetLate == heals > RunAttemptBudget

OutOfBudget == heals >= RunAttemptBudget

\* The self-heal breaker at the top of the loop.
Exhausted ==
  /\ pc = "entry"
  /\ OutOfBudget
  /\ End("budget")
  /\ UNCHANGED <<plans, record, budget, layers, site, cancelled>>

\* The whole-plan revalidation at the execution entry refuses the plan.
EntryRejected ==
  /\ pc = "entry"
  /\ ~OutOfBudget
  /\ ~Valid(plan, {})
  /\ End("entry")
  /\ UNCHANGED <<plans, record, budget, layers, site, cancelled>>

\* topological_sort and PlanCreated.
Enter ==
  /\ pc = "entry"
  /\ ~OutOfBudget
  /\ Valid(plan, {})
  /\ remaining' = StepIds(plan) \ With(NotRerun)
  /\ Goto("layer")
  /\ UNCHANGED <<plans, record, budget, layer, waiting, retries, site, cancelled>>

\* The next layer of topological_sort: nothing it depends on is still to run.
NextLayer == {s \in remaining : plan.steps[s].deps \cap remaining = {}}

\* Mutant: a dependency that only left an output lets its dependents run.
GatedUnlessAvailable(s) ==
  \E d \in plan.steps[s].deps : results[d] \notin Available \cup {"none"}

\* _gate_skip_reason: a dependency has a result and it is not normal.
Gated(s) == \E d \in plan.steps[s].deps : results[d] \notin Normal \cup {"none"}

\* The steps of the next layer whose tool is called.
Executing == {s \in NextLayer : ~Gated(s)}

\* What goes into the history for the steps of S.
Well(S, raw) ==
  {<<s, plan.steps[s].act, raw[s]>> :
     s \in {t \in S : raw[t] \in {"completed", "answered"}}}

LayerOutcomes ==
  {raw \in [Executing -> States] : \A s \in Executing : raw[s] \in Returns(s)}

\* One layer: _execute_layer, and what its caller does with the outcome.
RunLayer ==
  /\ pc = "layer"
  /\ remaining # {}
  /\ ~cancelled
  /\ layer' = NextLayer
  /\ remaining' = remaining \ NextLayer
  /\ \E raw \in LayerOutcomes :
       LET pending == {s \in Executing : raw[s] = "pending"}
           failed  == {s \in Executing : raw[s] \in Failed}
       IN  /\ results' = [s \in Ids |-> IF s \in Executing THEN raw[s]
                                        ELSE IF s \in NextLayer THEN "skipped"
                                        ELSE results[s]]
           /\ achieved' = achieved \cup Well(Executing, raw)
           /\ waiting' = pending
           /\ Goto(IF pending # {} THEN "confirm"
                   ELSE IF failed # {} THEN "repair" ELSE "layer")
  /\ retries' = 0
  /\ tried' = {}
  /\ site' = "layer"
  /\ UNCHANGED <<plans, heals, rounds, attempts, cancelled>>

\* The store refuses an event of the layer.
LayerRaises ==
  /\ pc = "layer"
  /\ remaining # {}
  /\ ~cancelled
  /\ End("error")
  /\ UNCHANGED <<plans, record, budget, layers, site, cancelled>>

Cancel ==
  /\ pc # "done"
  /\ ~cancelled
  /\ cancelled' = TRUE
  /\ UNCHANGED <<plans, record, budget, layers, site, pc, outcome>>

\* The flag is looked at before a layer and around the wait for a confirmation.
SeesCancel ==
  /\ cancelled
  /\ \/ pc = "layer" /\ remaining # {}
     \/ pc = "confirm" /\ waiting # {}
  /\ End("cancelled")
  /\ UNCHANGED <<plans, record, budget, layers, site, cancelled>>
-----------------------------------------------------------------------------
(***************************************************************************)
(* _handle_dag_confirmations.                                              *)
(***************************************************************************)
ConfirmsExhausted ==
  /\ pc = "confirm"
  /\ waiting # {}
  /\ ~cancelled
  /\ retries >= MaxConfirmRetries
  /\ End("confirm")
  /\ UNCHANGED <<plans, record, budget, layers, site, cancelled>>

\* After the wait the run turns out to be over: somebody else ended it.
Superseded ==
  /\ pc = "confirm"
  /\ waiting # {}
  /\ ~cancelled
  /\ retries < MaxConfirmRetries
  /\ End("superseded")
  /\ UNCHANGED <<plans, record, budget, layers, site, cancelled>>

\* What _handle_dag_confirmations settles first.
FirstOf(S) == {s \in S : \A t \in S : s <= t}

\* retry_step, and the result it leaves unless it asks once more.
RetryStep ==
  /\ pc = "confirm"
  /\ ~cancelled
  /\ retries < MaxConfirmRetries
  /\ \E s \in FirstOf(waiting) :
       \E res \in IF Gated(s) THEN {"skipped"} ELSE Returns(s) :
           /\ results' = [results EXCEPT ![s] = res]
           /\ achieved' = achieved \cup Well({s}, [t \in {s} |-> res])
           /\ waiting' = IF res = "pending" THEN waiting ELSE waiting \ {s}
           /\ retries' = IF res = "pending" THEN retries + 1 ELSE 0
  /\ Goto("confirm")
  /\ UNCHANGED <<plans, budget, remaining, layer, site, cancelled>>

\* layer_failures: after a suspension every step that is not normal counts.
ConfirmsSettled ==
  /\ pc = "confirm"
  /\ waiting = {}
  /\ Goto(IF \A s \in layer : results[s] \in Normal THEN "layer" ELSE "repair")
  /\ UNCHANGED <<plans, record, budget, layers, site, cancelled>>
-----------------------------------------------------------------------------
(***************************************************************************)
(* _attempt_step_local_repair: one round for one failing step at a time.   *)
(***************************************************************************)
Bound(s) == \E c \in Contracts : plan.steps[s].act \in c.satisfied

Candidates ==
  {s \in StepIds(plan) \ tried : /\ results[s] \in {"failed", "unsuccessful"}
                                 /\ ~Bound(s)
                                 /\ rounds[s] < MaxRepairRounds}

\* validate_local_repair
RepairActions(s) == ReadOnly \ {plan.steps[s].act}

\* No proposal, or one that is not allowed.
RepairRejected ==
  /\ pc = "repair"
  /\ Candidates # {}
  /\ rounds' = [rounds EXCEPT ![Min(Candidates)] = @ + 1]
  /\ tried' = tried \cup {Min(Candidates)}
  /\ UNCHANGED <<plans, record, heals, attempts, layers, site, cancelled, pc, outcome>>

\* Mutant: a self-heal round is not counted.
HealedUncounted == UNCHANGED heals

Healed == heals' = heals + 1

\* The step gets another action and loses its result; the layers start over.
RepairAccepted(a) ==
  /\ pc = "repair"
  /\ Candidates # {}
  /\ LET s == Min(Candidates)
     IN  /\ a \in RepairActions(s)
         /\ plan' = [plan EXCEPT !.steps[s].act = a]
         /\ results' = [results EXCEPT ![s] = "none"]
         /\ rounds' = [rounds EXCEPT ![s] = @ + 1]
  /\ Healed
  /\ Goto("entry")
  /\ UNCHANGED <<root, alias, achieved, tried, attempts, layers, site, cancelled>>

\* Nothing to repair: a global revision.
Escalate ==
  /\ pc = "repair"
  /\ Candidates = {}
  /\ attempts' = 0
  /\ Goto("revise")
  /\ UNCHANGED <<plans, record, heals, rounds, tried, layers, site, cancelled>>
-----------------------------------------------------------------------------
(***************************************************************************)
(* _revise_with_degenerate_guard and what follows it.                      *)
(***************************************************************************)
\* _dispose_completion_verdict
Dispose ==
  \/ MechanicalComplete /\ Delivered /\ End("completed")
  \/ ~(MechanicalComplete /\ Delivered) /\ End("gate")

\* The planner has no valid revision.
RevisedNone ==
  /\ pc = "revise"
  /\ IF site = "layer" THEN End("steps") ELSE Dispose
  /\ UNCHANGED <<plans, record, budget, layers, site, cancelled>>

\* _settle_empty_revised: the planner gives up, or thinks that all is done.
RevisedEmpty ==
  /\ pc = "revise"
  /\ End("declared") \/ Dispose
  /\ UNCHANGED <<plans, record, budget, layers, site, cancelled>>

\* What Planner.revise returns has passed the guardrail.
Offered(r) == Valid(r, With(NotRerun \cup Available))

Refused(r) == Degenerate(r) # {} \/ ~KeepsContracts(Merged(r))

RevisionRefused(r) ==
  /\ pc = "revise"
  /\ Offered(r)
  /\ Refused(r)
  /\ attempts' = attempts + 1
  /\ IF attempts = MaxReviseRetries THEN End("degenerate") ELSE Goto("revise")
  /\ UNCHANGED <<plans, record, heals, rounds, tried, layers, site, cancelled>>

\* The merged plan is validated once more against the results left.
MergeValid(r) ==
  LET kept == {s \in Ids : MergedResults(r)[s] \in Available}
  IN  Valid(Merged(r), kept)

RevisionMerged(r) ==
  /\ pc = "revise"
  /\ Offered(r)
  /\ ~Refused(r)
  /\ alias' = MergedAlias(r)
  /\ results' = MergedResults(r)
  /\ IF MergeValid(r)
       THEN plan' = Merged(r) /\ Healed /\ Goto("entry")
       ELSE End("merge") /\ UNCHANGED <<plan, heals>>
  /\ UNCHANGED <<root, achieved, rounds, tried, attempts, layers, site, cancelled>>
-----------------------------------------------------------------------------
\* All layers are done: the completion gate, or one more self-heal round.
\* is_unsuccessful looks at exec_state only, so that an answered probe counts.
LayersDone ==
  /\ pc = "layer"
  /\ remaining = {}
  /\ IF /\ ~MechanicalComplete
        /\ \E s \in StepIds(plan) :
             results[s] \in Unsuccessful \cup {"answered", "skipped"}
       THEN Goto("repair") ELSE Dispose
  /\ tried' = {}
  /\ site' = "plan"
  /\ UNCHANGED <<plans, record, heals, rounds, attempts, layers, cancelled>>

Step ==
  \/ Exhausted \/ EntryRejected \/ Enter
  \/ RunLayer \/ LayerRaises \/ SeesCancel \/ LayersDone
  \/ ConfirmsExhausted \/ Superseded \/ RetryStep \/ ConfirmsSettled
  \/ RepairRejected \/ Escalate
  \/ \E a \in Actions : RepairAccepted(a)
  \/ RevisedNone \/ RevisedEmpty
  \/ \E r \in Revisions : RevisionRefused(r) \/ RevisionMerged(r)

Next == Step \/ Cancel

Spec == Init /\ [][Next]_vars

\* The loop is one task; every await in it ends (Tool Layer and LLM calls have
\* timeouts, waits for a confirmation too).
FairSpec == Spec /\ WF_vars(Step)
-----------------------------------------------------------------------------
(***************************************************************************)
(* What is checked.                                                        *)
(***************************************************************************)
Reasons == {"budget", "entry", "error", "cancelled", "confirm", "superseded",
            "steps", "declared", "gate", "degenerate", "merge"}

\* The shape of the state; the self-heal count never passes the attempt
\* budget, the repair rounds of a step and the retries of a revision never
\* pass theirs.
TypeOK ==
  /\ IsPlan(root)
  /\ IsPlan(plan)
  /\ alias \in [StepIds(root) -> Ids]
  /\ results \in [Ids -> States]
  /\ achieved \subseteq Ids \X Actions \X {"completed", "answered"}
  /\ heals \in 0..RunAttemptBudget
  /\ rounds \in [Ids -> 0..MaxRepairRounds]
  /\ tried \subseteq Ids
  /\ attempts \in 0..(MaxReviseRetries + 1)
  /\ remaining \subseteq Ids
  /\ layer \subseteq Ids
  /\ waiting \subseteq Ids
  /\ retries \in 0..MaxConfirmRetries
  /\ site \in {"layer", "plan"}
  /\ cancelled \in BOOLEAN
  /\ pc \in {"entry", "layer", "confirm", "repair", "revise", "done"}
  /\ outcome \in Reasons \cup {"none", "completed"}

\* A run is completed only if for every step of the root plan the step that
\* stands for it now was executed in this run and did what it had to do,
\* through every repair, revision, replacement and dropped result.
NoFakeGreen ==
  outcome = "completed" =>
    \A i \in StepIds(root) : \E e \in achieved : e[1] = alias[i]

\* step s has its tool called by this step of the system
Calls(s) ==
  /\ results'[s] # "skipped"
  /\ \/ pc = "layer" /\ s \in remaining \ remaining'
     \/ /\ pc = "confirm" /\ s \in FirstOf(waiting)
        /\ <<waiting, retries>>' # <<waiting, retries>>

\* A tool is called only when every dependency of its step has a normal
\* result: the gate lets a missing result pass, so it is the layers, the
\* entry check and the merge together that must not leave one out.
RunsAfterDependencies ==
  [][\A s \in Ids : Calls(s) =>
       \A d \in plan.steps[s].deps : results[d] \in {"completed", "answered"}]_vars

\* A run with contracts never calls a tool with side effects that neither the
\* root plan named nor a contract asks for, however it was repaired, revised
\* and merged on the way.
MutationCovered ==
  [][\A s \in Ids : Calls(s) /\ Contracts # {} /\ plan.steps[s].act \in Mutating =>
       plan.steps[s].act \in ActsOf(root, StepIds(root))
                                \cup UNION {c.satisfied : c \in Contracts}]_vars

\* Executing a plan ends: no succession of failures, repairs, refused and
\* accepted revisions and confirmations goes on for ever.
Terminates == <>(pc = "done")

\* A run that completes with delivery contracts has carried out an action of
\* each of them.
DeliversWhatItClaims ==
  outcome = "completed" =>
    \A c \in Contracts : \E e \in achieved : e[2] \in c.satisfied
=============================================================================
