------------------------- MODULE DagExecution_proofs -------------------------
(***************************************************************************)
(* The safety properties of DagExecution, for any plans, revisions,        *)
(* contracts and budgets.  The three theorems rest on one inductive        *)
(* invariant, Inv: what the merge and the local repair keep of the plan    *)
(* (Shape, Covered), what the layers have left behind (Layered,            *)
(* Suspended), and that every normal result comes from an execution        *)
(* (Backed).                                                               *)
(***************************************************************************)
EXTENDS DagExecution, FiniteSetTheorems, TLAPS

\* The plans, the aliases and the results are what TypeOK says they are.
Shape ==
  /\ IsPlan(root)
  /\ IsPlan(plan)
  /\ alias \in [StepIds(root) -> Ids]
  /\ results \in [Ids -> States]

\* The root plan's dependencies are steps of the root plan.
Closed == \A s \in StepIds(root) : root.steps[s].deps \subseteq StepIds(root)

\* A normal result comes from an execution that went well.
Backed == \A s \in Ids : results[s] \in Normal => \E e \in achieved : e[1] = s

\* While layers run, whatever is not to be executed any more has a result,
Layered ==
  pc \in {"layer", "confirm"} =>
    /\ remaining \subseteq StepIds(plan)
    /\ \A s \in StepIds(plan) : plan.steps[s].deps \subseteq StepIds(plan)
    /\ \A s \in StepIds(plan) \ remaining : results[s] # "none"

\* and a step that waits for its confirmation depends only on such steps.
Suspended ==
  pc = "confirm" =>
    /\ waiting \subseteq StepIds(plan)
    /\ \A s \in waiting : plan.steps[s].deps \cap remaining = {}

\* The actions with side effects that the run may carry out.
Allowed == ActsOf(root, StepIds(root)) \cup UNION {c.satisfied : c \in Contracts}

\* Every action with side effects in the plan is one of those.
Covered == Contracts # {} => Mutating \cap ActsOf(plan, StepIds(plan)) \subseteq Allowed

\* A run that completed stays as it was.
Ended == outcome = "completed" => pc = "done" /\ Met = StepIds(root)

Inv == Shape /\ Closed /\ Backed /\ Layered /\ Suspended /\ Covered /\ Ended
-----------------------------------------------------------------------------
\* A set with one element has one.
LEMMA OneIsSome ==
  ASSUME NEW S, Cardinality(S) = 1
  PROVE  S # {}
BY FS_EmptySet

\* The invariant holds when the plan starts to execute.
LEMMA InitInv == Init => Inv
<1> SUFFICES ASSUME Init PROVE Inv
  OBVIOUS
<1>1. IsPlan(root) /\ StepIds(root) \subseteq Ids
  BY ConstantsAssumption DEF Init, IsPlan, StepIds
<1>2. Shape
  BY <1>1 DEF Init, Shape, States
<1>3. Backed
  BY DEF Init, Backed, Normal
<1>4. Closed
  BY DEF Init, Closed, Valid
<1>5. Layered /\ Suspended /\ Covered /\ Ended
  BY DEF Init, Layered, Suspended, Covered, Allowed, Ended
<1> QED
  BY <1>2, <1>3, <1>4, <1>5 DEF Inv

\* A step that leaves plans and results alone keeps the invariant.
LEMMA StillInv ==
  ASSUME Inv,
         UNCHANGED <<plans, record>>,
         pc' = "layer" => pc \in {"layer", "confirm"} /\ UNCHANGED remaining,
         pc' = "confirm" => pc = "confirm" /\ UNCHANGED <<remaining, waiting>>,
         outcome' = "completed" => pc' = "done" /\ Met = StepIds(root)
  PROVE  Inv'
<1> USE DEF Inv, plans, record
<1>1. Shape' /\ Closed'
  BY DEF Shape, Closed, StepIds
<1>2. Backed'
  BY DEF Backed
<1>3. Layered' /\ Suspended'
  BY DEF Layered, Suspended, StepIds
<1>4. Covered'
  BY DEF Covered, Allowed, ActsOf, StepIds
<1>5. Ended'
  BY DEF Ended, Met, ResultOf, StepIds
<1> QED
  BY <1>1, <1>2, <1>3, <1>4, <1>5

\* The completion gate completes only a run whose root steps are all met.
LEMMA DisposeMet ==
  ASSUME Dispose
  PROVE  pc' = "done" /\ (outcome' = "completed" => Met = StepIds(root))
BY DEF Dispose, End, MechanicalComplete

\* Every action that only decides where to go next keeps the invariant.
LEMMA ControlInv ==
  ASSUME Inv,
         \/ Exhausted \/ EntryRejected \/ LayerRaises \/ SeesCancel \/ LayersDone
         \/ ConfirmsExhausted \/ Superseded \/ ConfirmsSettled
         \/ RepairRejected \/ Escalate \/ RevisedNone \/ RevisedEmpty
         \/ \E r \in Revisions : RevisionRefused(r)
         \/ Cancel
         \/ UNCHANGED vars
  PROVE  Inv'
<1> USE DEF End, Goto, layers
<1>a. Ended
  BY DEF Inv
<1>1. CASE Exhausted \/ EntryRejected \/ LayerRaises \/ SeesCancel
  BY <1>1, StillInv DEF Exhausted, EntryRejected, LayerRaises, SeesCancel
<1>2. CASE ConfirmsExhausted \/ Superseded
  BY <1>2, StillInv DEF ConfirmsExhausted, Superseded
<1>3. CASE ConfirmsSettled
  BY <1>3, <1>a, StillInv DEF ConfirmsSettled, Ended
<1>4. CASE RepairRejected
  BY <1>4, <1>a, StillInv DEF RepairRejected, Ended
<1>5. CASE Escalate
  BY <1>5, <1>a, StillInv DEF Escalate, Ended
<1>6. CASE LayersDone
  BY <1>6, <1>a, StillInv, DisposeMet DEF LayersDone, Ended
<1>7. CASE RevisedNone \/ RevisedEmpty
  BY <1>7, StillInv, DisposeMet DEF RevisedNone, RevisedEmpty
<1>8. CASE \E r \in Revisions : RevisionRefused(r)
  BY <1>8, <1>a, StillInv DEF RevisionRefused, Ended
<1>9. CASE Cancel
  BY <1>9, <1>a, StillInv DEF Cancel, Ended
<1>10. CASE UNCHANGED vars
  BY <1>10, <1>a, StillInv DEF vars, Ended
<1> QED
  BY <1>1, <1>2, <1>3, <1>4, <1>5, <1>6, <1>7, <1>8, <1>9, <1>10

\* The entry check makes the dependencies steps of the plan, and what is left
\* out of the layers has a result.
LEMMA EnterInv ==
  ASSUME Inv, Enter
  PROVE  Inv'
<1> USE DEF Inv, Enter, Goto, plans, record
<1>1. Shape' /\ Closed' /\ Backed' /\ Covered'
  BY DEF Shape, Closed, Backed, Covered, Allowed, ActsOf, StepIds
<1>2. \A s \in StepIds(plan) : plan.steps[s].deps \subseteq StepIds(plan)
  BY DEF Valid
<1>3. StepIds(plan) \subseteq Ids
  BY DEF Shape, IsPlan, StepIds
<1>4. Layered' /\ Suspended'
  BY <1>2, <1>3 DEF Layered, Suspended, With, NotRerun, StepIds
<1>5. Ended'
  BY DEF Ended
<1> QED
  BY <1>1, <1>4, <1>5

\* Every step of a layer that runs gets a result, and a result that is normal
\* gets its execution recorded.
LEMMA RunLayerInv ==
  ASSUME Inv, RunLayer
  PROVE  Inv'
<1> DEFINE pending(raw) == {s \in Executing : raw[s] = "pending"}
           failed(raw)  == {s \in Executing : raw[s] \in Failed}
<1>1. PICK raw \in LayerOutcomes :
        /\ results' = [s \in Ids |-> IF s \in Executing THEN raw[s]
                                     ELSE IF s \in NextLayer THEN "skipped"
                                     ELSE results[s]]
        /\ achieved' = achieved \cup Well(Executing, raw)
        /\ waiting' = pending(raw)
        /\ Goto(IF pending(raw) # {} THEN "confirm"
                ELSE IF failed(raw) # {} THEN "repair" ELSE "layer")
  BY DEF RunLayer
<1>2. /\ pc = "layer"
      /\ remaining' = remaining \ NextLayer
      /\ UNCHANGED <<root, plan, alias>>
  BY DEF RunLayer, plans
<1>3. /\ remaining \subseteq StepIds(plan)
      /\ \A s \in StepIds(plan) : plan.steps[s].deps \subseteq StepIds(plan)
      /\ \A s \in StepIds(plan) \ remaining : results[s] # "none"
  BY <1>2 DEF Inv, Layered
<1>4. StepIds(plan) \subseteq Ids
  BY DEF Inv, Shape, IsPlan, StepIds
<1>5. Executing \subseteq NextLayer /\ NextLayer \subseteq remaining
  BY DEF Executing, NextLayer
<1>6. \A s \in Executing : raw[s] \in States \ {"none"}
  BY DEF LayerOutcomes, Returns, States, Normal, Failed, Unsuccessful
<1>7. Shape' /\ Closed'
  BY <1>1, <1>2, <1>6 DEF Inv, Shape, Closed, States, StepIds
<1>8. Backed'
  <2> SUFFICES ASSUME NEW s \in Ids, results'[s] \in Normal
               PROVE  \E e \in achieved' : e[1] = s
    BY DEF Backed, Normal
  <2>1. CASE s \in Executing
    <3>1. <<s, plan.steps[s].act, raw[s]>> \in Well(Executing, raw)
      BY <1>1, <2>1 DEF Well, Normal
    <3> QED
      BY <1>1, <3>1
  <2>2. CASE s \notin Executing
    BY <1>1, <2>2 DEF Inv, Backed, Normal
  <2> QED
    BY <2>1, <2>2
<1>9. Layered'
  BY <1>1, <1>2, <1>3, <1>4, <1>5, <1>6 DEF Layered, StepIds
<1>10. Suspended'
  BY <1>1, <1>2, <1>3, <1>5 DEF Suspended, NextLayer, Goto, StepIds
<1>11. Covered'
  BY <1>2 DEF Inv, Covered, Allowed, ActsOf, StepIds
<1>12. Ended'
  BY <1>1, <1>2 DEF Inv, Ended, Goto
<1> QED
  BY <1>7, <1>8, <1>9, <1>10, <1>11, <1>12 DEF Inv

\* A retried step keeps having a result.
LEMMA RetryStepInv ==
  ASSUME Inv, RetryStep
  PROVE  Inv'
<1>a. PICK s \in FirstOf(waiting) :
        \E res \in IF Gated(s) THEN {"skipped"} ELSE Returns(s) :
          /\ results' = [results EXCEPT ![s] = res]
          /\ achieved' = achieved \cup Well({s}, [t \in {s} |-> res])
          /\ waiting' = IF res = "pending" THEN waiting ELSE waiting \ {s}
  BY DEF RetryStep
<1>1. PICK res \in IF Gated(s) THEN {"skipped"} ELSE Returns(s) :
        /\ results' = [results EXCEPT ![s] = res]
        /\ achieved' = achieved \cup Well({s}, [t \in {s} |-> res])
        /\ waiting' = IF res = "pending" THEN waiting ELSE waiting \ {s}
  BY <1>a
<1>2. /\ pc = "confirm" /\ pc' = "confirm"
      /\ UNCHANGED <<root, plan, alias, remaining, outcome>>
  BY DEF RetryStep, Goto, plans
<1>3. s \in waiting /\ s \in Ids
  BY <1>2 DEF FirstOf, Inv, Suspended, Shape, IsPlan, StepIds
<1>4. res \in States \ {"none"}
  BY DEF Returns, States, Normal, Failed, Unsuccessful
<1>5. Shape' /\ Closed'
  BY <1>1, <1>2, <1>3, <1>4 DEF Inv, Shape, Closed, StepIds
<1>6. Backed'
  <2> SUFFICES ASSUME NEW t \in Ids, results'[t] \in Normal
               PROVE  \E e \in achieved' : e[1] = t
    BY DEF Backed, Normal
  <2>1. CASE t = s
    <3>1. results'[s] = res
      BY <1>1, <1>3 DEF Inv, Shape
    <3>2. <<s, plan.steps[s].act, res>> \in Well({s}, [u \in {s} |-> res])
      BY <2>1, <3>1 DEF Well, Normal
    <3> QED
      BY <1>1, <2>1, <3>2
  <2>2. CASE t # s
    BY <1>1, <2>2 DEF Inv, Backed, Normal, Shape
  <2> QED
    BY <2>1, <2>2
<1>7. Layered' /\ Suspended'
  BY <1>1, <1>2, <1>3, <1>4 DEF Inv, Layered, Suspended, Shape, StepIds, IsPlan
<1>8. Covered' /\ Ended'
  BY <1>2 DEF Inv, Covered, Allowed, ActsOf, StepIds, Ended
<1> QED
  BY <1>5, <1>6, <1>7, <1>8 DEF Inv

\* A repair puts an action without side effects in the place of another.
LEMMA RepairInv ==
  ASSUME Inv, NEW a \in Actions, RepairAccepted(a)
  PROVE  Inv'
<1> DEFINE s == Min(Candidates)
<1>1. /\ plan' = [plan EXCEPT !.steps[s].act = a]
      /\ results' = [results EXCEPT ![s] = "none"]
      /\ a \in ReadOnly
      /\ pc = "repair" /\ pc' = "entry"
      /\ UNCHANGED <<root, alias, achieved, outcome>>
  BY DEF RepairAccepted, RepairActions, Goto
<1> HIDE DEF s
<1>2. /\ plan = [steps |-> plan.steps, declared |-> plan.declared]
      /\ plan.steps \in [StepIds(plan) -> Steps]
      /\ StepIds(plan) \subseteq Ids
  BY DEF Inv, Shape, IsPlan, StepIds
<1>3. /\ StepIds(plan') = StepIds(plan)
      /\ plan'.declared = plan.declared
      /\ plan' = [steps |-> plan'.steps, declared |-> plan'.declared]
      /\ \A t \in StepIds(plan) :
           plan'.steps[t] = IF t = s THEN [plan.steps[t] EXCEPT !.act = a] ELSE plan.steps[t]
      /\ plan'.steps \in [StepIds(plan) -> Steps]
  BY <1>1, <1>2 DEF StepIds, Steps
<1>4. Shape'
  <2>1. IsPlan(plan')
    BY <1>2, <1>3 DEF Inv, Shape, IsPlan, StepIds
  <2>2. results' \in [Ids -> States]
    BY <1>1 DEF Inv, Shape, States
  <2> QED
    BY <1>1, <2>1, <2>2 DEF Inv, Shape, StepIds
<1>5. Backed'
  BY <1>1 DEF Inv, Backed, Shape, Normal
<1>6. Closed' /\ Layered' /\ Suspended' /\ Ended'
  BY <1>1 DEF Inv, Closed, StepIds, Layered, Suspended, Ended
<1>7. Covered'
  <2> SUFFICES ASSUME Contracts # {}, NEW t \in StepIds(plan'), plan'.steps[t].act \in Mutating
               PROVE  plan'.steps[t].act \in Allowed
    BY <1>1 DEF Covered, Allowed, ActsOf, StepIds
  <2>1. t # s
    BY <1>1, <1>2, <1>3, ConstantsAssumption DEF Steps
  <2> QED
    BY <1>3, <2>1 DEF Inv, Covered, ActsOf
<1> QED
  BY <1>4, <1>5, <1>6, <1>7 DEF Inv

\* The merge points every root step to a step id.
LEMMA MergedAliasType ==
  ASSUME Inv, NEW r \in Revisions
  PROVE  MergedAlias(r) \in [StepIds(root) -> Ids]
<1>1. StepIds(r) \subseteq Ids
  BY ConstantsAssumption DEF IsPlan, StepIds
<1>2. \A i : Matching(r, i) \subseteq Ids
  BY <1>1 DEF Matching, Replacements
<1>3. \A f \in Forced(r) : f[2] \in Ids
  BY <1>1 DEF Forced, Replacements
<1>4. ASSUME NEW i \in StepIds(root)
      PROVE  MergedAlias(r)[i] \in Ids
  <2>1. CASE i \in Matched(r)
    <3>1. Matching(r, i) # {}
      BY <2>1, OneIsSome DEF Matched
    <3> QED
      BY <1>2, <2>1, <3>1 DEF MergedAlias
  <2>2. CASE i \notin Matched(r) /\ \E f \in Forced(r) : f[1] = i
    <3>1. (CHOOSE f \in Forced(r) : f[1] = i) \in Forced(r)
      BY <2>2
    <3> QED
      BY <1>3, <2>2, <3>1 DEF MergedAlias
  <2>3. CASE i \notin Matched(r) /\ ~\E f \in Forced(r) : f[1] = i
    BY <2>3 DEF MergedAlias, Inv, Shape
  <2> QED
    BY <2>1, <2>2, <2>3
<1> QED
  BY <1>4 DEF MergedAlias

\* A revision that passes the guards keeps the side effects covered, and the
\* merge keeps no normal result that was not there.
LEMMA MergeInv ==
  ASSUME Inv, NEW r \in Revisions, RevisionMerged(r)
  PROVE  Inv'
<1>1. /\ alias' = MergedAlias(r)
      /\ results' = MergedResults(r)
      /\ pc = "revise" /\ pc' \in {"entry", "done"}
      /\ outcome' # "completed" \/ UNCHANGED outcome
      /\ plan' = Merged(r) \/ UNCHANGED plan
      /\ KeepsContracts(Merged(r))
      /\ UNCHANGED <<root, achieved>>
  BY DEF RevisionMerged, Refused, End, Goto
<1>2. IsPlan(r)
  BY ConstantsAssumption
<1>3. Restored(r) \subseteq StepIds(root) /\ StepIds(root) \subseteq Ids
  BY DEF Restored, Inv, Shape, IsPlan, StepIds
<1> DEFINE F == [s \in StepIds(r) \cup Restored(r) |->
                   IF s \in StepIds(r) THEN r.steps[s]
                   ELSE [root.steps[s] EXCEPT !.deps = {MergedAlias(r)[d] : d \in @}]]
<1>a. Merged(r) = [r EXCEPT !.steps = F]
  BY DEF Merged
<1>b. Merged(r) = [steps |-> F, declared |-> r.declared]
  <2> HIDE DEF F
  <2> QED
    BY <1>2, <1>a DEF IsPlan
<1>4. /\ Merged(r) = [steps |-> Merged(r).steps, declared |-> r.declared]
      /\ StepIds(Merged(r)) = StepIds(r) \cup Restored(r)
      /\ \A s \in StepIds(Merged(r)) :
           Merged(r).steps[s] =
             IF s \in StepIds(r) THEN r.steps[s]
             ELSE [root.steps[s] EXCEPT !.deps = {MergedAlias(r)[d] : d \in @}]
      /\ Merged(r).steps = [s \in StepIds(Merged(r)) |-> Merged(r).steps[s]]
  BY <1>b DEF StepIds
<1> HIDE DEF F
<1>5. ASSUME NEW s \in StepIds(Merged(r))
      PROVE  Merged(r).steps[s] \in Steps
  <2>1. CASE s \in StepIds(r)
    BY <1>2, <1>4, <2>1 DEF IsPlan, StepIds
  <2>2. CASE s \notin StepIds(r)
    <3>1. s \in StepIds(root) /\ root.steps[s] \in Steps
      BY <1>3, <1>4, <2>2 DEF Inv, Shape, IsPlan, StepIds
    <3>2. {MergedAlias(r)[d] : d \in root.steps[s].deps} \subseteq Ids
      <4>1. root.steps[s].deps \subseteq StepIds(root)
        BY <3>1 DEF Inv, Closed
      <4> QED
        BY <4>1, MergedAliasType
    <3> QED
      BY <1>4, <2>2, <3>1, <3>2 DEF Steps
  <2> QED
    BY <2>1, <2>2
<1>6. IsPlan(Merged(r))
  BY <1>2, <1>3, <1>4, <1>5 DEF IsPlan, StepIds
<1>7. MergedResults(r) \in [Ids -> States]
  BY DEF MergedResults, Inv, Shape, States
<1>8. Shape'
  BY <1>1, <1>6, <1>7, MergedAliasType DEF Inv, Shape, StepIds
<1>9. Backed'
  BY <1>1 DEF MergedResults, Inv, Backed, Normal
<1>10. Layered' /\ Suspended' /\ Ended'
  BY <1>1 DEF Inv, Layered, Suspended, Ended
<1>11. Covered'
  <2>1. Contracts # {} => Mutating \cap ActsOf(Merged(r), StepIds(Merged(r))) \subseteq Allowed
    BY <1>1 DEF KeepsContracts, Allowed
  <2> QED
    BY <1>1, <2>1 DEF Inv, Covered, Allowed, ActsOf, StepIds
<1>12. Closed'
  BY <1>1 DEF Inv, Closed, StepIds
<1> QED
  BY <1>8, <1>9, <1>10, <1>11, <1>12 DEF Inv

\* Inv is an invariant of the execution of a plan.
THEOREM Invariance == Spec => []Inv
<1>1. Inv /\ [Next]_vars => Inv'
  <2> SUFFICES ASSUME Inv, [Next]_vars PROVE Inv'
    OBVIOUS
  <2>1. CASE Enter
    BY <2>1, EnterInv
  <2>2. CASE RunLayer
    BY <2>2, RunLayerInv
  <2>3. CASE RetryStep
    BY <2>3, RetryStepInv
  <2>4. CASE \E a \in Actions : RepairAccepted(a)
    BY <2>4, RepairInv
  <2>5. CASE \E r \in Revisions : RevisionMerged(r)
    BY <2>5, MergeInv
  <2> QED
    BY <2>1, <2>2, <2>3, <2>4, <2>5, ControlInv DEF Next, Step
<1> QED
  BY <1>1, InitInv, PTL DEF Spec

\* A completed run has executed, and executed well, the step that stands for
\* each step of the root plan: merge_revised_plan, local repair, the layers and
\* the completion gate together never declare work done that was not.
THEOREM CompletedIsDone == Spec => []NoFakeGreen
<1>1. Inv => NoFakeGreen
  BY DEF Inv, NoFakeGreen, Ended, Backed, Met, ResultOf, Shape
<1> QED
  BY <1>1, Invariance, PTL

\* _execute_layer and retry_step call a tool only when every dependency of its
\* step has a normal result, although the gate lets a missing result pass.
THEOREM DependenciesFirst == Spec => RunsAfterDependencies
<1> DEFINE Safe == \A s \in Ids : Calls(s) =>
                     \A d \in plan.steps[s].deps : results[d] \in {"completed", "answered"}
<1>1. Inv /\ [Next]_vars => [Safe]_vars
  <2> SUFFICES ASSUME Inv, Next, NEW s \in Ids, Calls(s), NEW d \in plan.steps[s].deps
               PROVE  results[d] \in {"completed", "answered"}
    OBVIOUS
  <2>1. CASE pc = "layer"
    <3>1. RunLayer
      BY <2>1 DEF Next, Step, Calls, Exhausted, EntryRejected, Enter, LayerRaises,
        SeesCancel, LayersDone, ConfirmsExhausted, Superseded, RetryStep, ConfirmsSettled,
        RepairRejected, Escalate, RepairAccepted, RevisedNone, RevisedEmpty,
        RevisionRefused, RevisionMerged, Cancel, layers
    <3>2. s \in NextLayer
      BY <2>1, <3>1 DEF RunLayer, Calls
    <3>3. s \in Executing
      BY <3>1, <3>2 DEF RunLayer, Calls
    <3> QED
      BY <2>1, <3>2, <3>3 DEF Inv, Layered, NextLayer, Executing, Gated, Normal
  <2>2. CASE pc = "confirm"
    <3>1. s \in FirstOf(waiting) /\ s \in waiting
      BY <2>2 DEF Calls, FirstOf
    <3>2. RetryStep
      BY <2>2, <3>1 DEF Next, Step, Calls, Exhausted, EntryRejected, Enter, RunLayer, LayerRaises,
        SeesCancel, LayersDone, ConfirmsExhausted, Superseded, ConfirmsSettled,
        RepairRejected, Escalate, RepairAccepted, RevisedNone, RevisedEmpty,
        RevisionRefused, RevisionMerged, Cancel, layers
    <3>3. ~Gated(s)
      <4>1. waiting \subseteq Nat
        BY <2>2 DEF Inv, Suspended, Shape, IsPlan, StepIds, Ids
      <4>2. \A t \in FirstOf(waiting) : t = s
        BY <3>1, <4>1 DEF FirstOf
      <4>3. Gated(s) => results' = [results EXCEPT ![s] = "skipped"]
        BY <3>2, <4>2 DEF RetryStep
      <4> QED
        BY <4>3 DEF Calls, Inv, Shape
    <3> QED
      BY <2>2, <3>1, <3>3 DEF Inv, Layered, Suspended, Gated, Normal
  <2> QED
    BY <2>1, <2>2 DEF Calls
<1> QED
  BY <1>1, Invariance, PTL DEF Spec, RunsAfterDependencies

\* With delivery contracts no tool with side effects is called that neither the
\* root plan nor a contract asks for: validate_revision_invariants on the merged
\* plan and the read-only rule of validate_local_repair are enough for that.
THEOREM SideEffectsCovered == Spec => MutationCovered
<1> DEFINE Safe == \A s \in Ids :
                     Calls(s) /\ Contracts # {} /\ plan.steps[s].act \in Mutating =>
                       plan.steps[s].act \in ActsOf(root, StepIds(root))
                                               \cup UNION {c.satisfied : c \in Contracts}
<1>1. Inv /\ [Next]_vars => [Safe]_vars
  <2> SUFFICES ASSUME Inv, NEW s \in Ids, Calls(s), Contracts # {},
                      plan.steps[s].act \in Mutating
               PROVE  plan.steps[s].act \in Allowed
    BY DEF Allowed
  <2>1. s \in StepIds(plan)
    BY DEF Inv, Layered, Suspended, Calls, FirstOf
  <2> QED
    BY <2>1 DEF Inv, Covered, ActsOf
<1> QED
  BY <1>1, Invariance, PTL DEF Spec, MutationCovered
=============================================================================
