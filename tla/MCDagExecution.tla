---------------------------- MODULE MCDagExecution ----------------------------
(***************************************************************************)
(* Small instances of DagExecution.  "w" and "w2" write the deliverable,   *)
(* "v" writes something else, "r" and "r2" only read.                      *)
(***************************************************************************)
EXTENDS DagExecution, TLC

MCActions  == {"w", "w2", "v", "r", "r2"}
MCMutating == {"w", "w2", "v"}
MCReadOnly == {"r", "r2"}
NoSets     == {}

Deliverable == {[satisfied |-> {"w", "w2"}, exact |-> {"w", "w2"}]}
WriteAndRead == {{"v", "r2"}}

Do(a, D) == [act |-> a, deps |-> D, probe |-> FALSE]
Probe(a) == [act |-> a, deps |-> {}, probe |-> TRUE]
Plan(f)  == [steps |-> f, declared |-> {}]

\* A chain, two independent steps, a probe in front of a declared write.
Chain    == Plan(1 :> Do("r", {}) @@ 2 :> Do("w", {1}))
Parallel == Plan(1 :> Do("w", {}) @@ 2 :> Do("r", {}))
Probing  == [steps |-> 1 :> Probe("r") @@ 2 :> Do("w", {1}), declared |-> {{"w"}}]
Alone    == Plan(1 :> Do("w", {}))

MCRootPlans == {Chain, Parallel, Probing}

\* The planner may touch any two ids, with new or known actions.
MCRevisions ==
  {Plan(2 :> Do(a, {})) : a \in {"w2", "v"}}
    \cup {Plan(3 :> Do("w2", D)) : D \in {{}, {1}}}
    \cup {Plan(3 :> Do("r2", {}) @@ 2 :> Do("w", {3}))}
    \cup {Plan(1 :> Do("r2", {}) @@ 2 :> Do("w2", {1}))}

\* The planner corrects the failed step and puts a new one in front of it.
AloneRoots == {Alone}
CorrectedRevisions == {Plan(1 :> Do("w2", {2}) @@ 2 :> Do("r2", {}))}

-----------------------------------------------------------------------------
(***************************************************************************)
(* Four expectations the repository states and the code does not meet, each *)
(* after the root plans and revisions that show it (see README.md).        *)
(***************************************************************************)
\* The planner replaces the second step of the chain and keeps its dependency.
ChainRoots == {Chain}
DependingRevisions == {Plan(3 :> Do("w2", {1}))}

\* A revision that passed the guards and the merge can be executed: the entry
\* check does not turn down what the merge has just validated.
MergedPlanRuns ==
  [][pc = "revise" /\ pc' = "entry" => Valid(plan', {})]_vars

\* The planner corrects the step, then lists it once more.
RepeatingRevisions ==
  {Plan(1 :> Do("w2", {}) @@ 2 :> Do("r2", {})), Plan(1 :> Do("w2", {}) @@ 3 :> Do("r", {}))}

\* A step whose tool has completed is not called again under the same id.
CompletedNotRerun ==
  [][\A s \in Ids : Calls(s) => ~\E e \in achieved : e[1] = s /\ e[3] = "completed"]_vars

\* A replacement fails, and two steps take its place.
SplitRevisions ==
  {Plan(2 :> Do("r2", {})), Plan(3 :> Do("w2", {}) @@ 4 :> Do("r", {}))}

\* A revision loses no work of the root plan: what is not done is in the plan.
NothingLost ==
  pc = "entry" =>
    \A i \in StepIds(root) : ResultOf(i) \in Normal \/ alias[i] \in StepIds(plan)

\* The planner uses the id of an earlier replacement again.
ReusingRevisions ==
  {Plan(3 :> Do("r2", {})), Plan(2 :> Do("w2", {})), Plan(3 :> Do("r", {}))}

\* A run is completed only if no execution stands for two root steps.
OneStepEach ==
  outcome = "completed" =>
    \A i, j \in StepIds(root) : alias[i] = alias[j] => i = j
=============================================================================
