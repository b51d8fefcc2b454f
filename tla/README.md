# JAgent: specifications, model checking and proofs

JAgent ("Harness") runs LLM agents as *runs*. Everything that happens to a run is an event in an
append-only SQLite table, and the state of a run is what `fold_events` makes of its events. One
FastAPI process owns all runs: one asyncio task per run, plus the tasks of the HTTP requests that
pause, resume, confirm or delete it, plus callbacks on every append. This directory holds TLA+
models of the parts whose correctness depends on the order in which these tasks take their steps,
the TLC configurations that check them, and TLAPS proofs of their main safety properties.

Paths below are relative to `src/harness/`. `PROJECT.json` maps every definition to its lines.

## The system

| part | state | operations | modelled in |
|---|---|---|---|
| run lifecycle (`core/scheduler/base.py`, `core/scheduler/plan.py`, `api/routes.py`, `api/deps.py`, `core/lifecycle.py`) | RUN and CONFIRMATION events, `_resume_lock`, `_cancel_flags`, `_pause_events`, `_confirm_events`, budgets | run, watchdog, complete, fail, pause, resume, confirm, delete, crash, orphan scan | `RunContract`, `RunLifecycle` |
| Event Store (`storage/event_store.py`) | tables `events` and `client_request_claims`, one connection with its statement queue, `_db_write_lock` | `append_event`, `claim_client_request`, cancellation, failing statements, callbacks | `EventLog`, `EventStore` |
| plan execution (`_execute_plan`, `core/dag_executor.py`, `core/scheduler/revision_guard.py`, `local_repair.py`, `completion.py`, `core/planner/guardrail.py`, `revision_invariants.py`) | root plan, current plan, aliases, step results, self-heal / repair / revision / confirmation budgets | layers, gate, confirmed retry, local repair, revision, merge, completion gate, cancel | `DagExecution` |
| tool executor (`tools/executor.py`, `retry.py`, `idempotency.py`, `sandbox.py`) | TOOL and CONFIRMATION events, idempotency keys, two semaphores | `execute`, retry, confirmation, re-execution | `ToolExecution` |
| fold (`core/fold.py`) | `RunState` | one case per event type | the status, in `RunLifecycle` |
| planner (`core/planner/agent.py`, ...) | rejection counters | plan, revise | as an untrusted environment of `DagExecution` |
| serial loop (`core/scheduler/loop.py`) | messages | think, act, observe | not yet |
| context manager, run monitor, browser pool, MCP manager, WebSocket stream, conversations, execution targets and reaper | see `PROJECT.json` | | not yet |
| tenancy, replay, analysis, single tools, LLM client, frontend pages, evaluation | no shared state that is changed concurrently, or external I/O | | not modelled |

How the parts meet. A request or the scheduler changes a run only by appending an event, so
`append_event` is the point where all of them interleave. `RunLifecycle` treats an append as one
step; `EventStore` opens that step and shows that the committed table behaves as `EventLog`, that
is, that the step is atomic for everybody who reads committed rows. `RunLifecycle` treats the
execution of a layer and of a confirmed step as one await with every outcome that its caller tells
apart; `DagExecution` opens it. `DagExecution` treats the execution of a step as one outcome;
`ToolExecution` opens that.

## Modules

### RunContract, RunLifecycle

`RunContract` is what a client may rely on: the status it folds from the stream moves between
RUNNING and PAUSED until it becomes COMPLETED or FAILED, once and for all.

`RunLifecycle` has one program counter per task: the loop task (`_run_loop` with
`_plan_execute_revise_loop`, `_handle_dag_confirmations`, `_handle_pause`, `_wait_for_resume`), the
wrapper `run()`, and one per request. A label is a point between two awaits. `_complete` is
`CompleteCheck; CompleteAppend`, `_fail` is `FailCheck; FailAppend; FailSignal` (both under
`_resume_lock`), `pause` and `resume` likewise; `_append_run_event` (`ConfirmTop; ConfirmAppend`)
checks and appends *without* the lock, as in the code. `delete_run` cancels and then appends
RunFailed whatever the status. `Watchdog` cancels the loop task at any await. `Crash` loses all but
the store; `Restart`, `ScanOrphan` and `ScanFail` are the startup scan, which writes RunOrphaned and
RunFailed as two events with a possible crash in between. An append (`Write`) is `append_event` as
one step; it may also raise and store nothing: `LoopAppendRaises` takes the exception out of the
lock and the loop task to `run()`, `RequestAppendRaises` out of the request. Times are not measured: a timeout may
happen at any moment of the wait it bounds.

### EventLog, EventStore

`EventLog` is the promise: per run, sequence numbers 1, 2, 3, ..., no key twice, a claim together
with the first event of its run. `EventStore` models the one aiosqlite connection: a call puts a
statement into the worker's queue and awaits the answer; a cancellation abandons the await and
leaves the statement in the queue. `db` is what is committed, `view` what the connection sees.
The look-up by idempotency key runs outside the write lock and sees uncommitted rows of whoever has
a transaction open. A statement may fail; the cleanup ROLLBACK may fail too, in which case the next
`BEGIN IMMEDIATE` finds a transaction open and `_begin_immediate_with_recovery` rolls it back.

### DagExecution

One call of `_execute_plan`. The planner is untrusted: it may start with any plan of `RootPlans`
and answer a revision request with any member of `Revisions` that its own guardrail lets through.
`RunLayer` executes the first layer of what is left; a gated step is skipped; every other step gets
any outcome that `_execute_step` can return. A suspended layer goes through
`_handle_dag_confirmations` step by step. After a failure the step may be repaired locally
(read-only actions only, bounded rounds), otherwise the plan is revised, the revision is checked for
degenerate steps and for the delivery contracts, merged into the root plan (`Merged`,
`MergedAlias`, `MergedResults` are `merge_revised_plan`), validated and executed again. `Dispose` is
the completion gate.

### ToolExecution

`ToolExecutor.execute` for several calls at a time. An action is what a call does between two awaits:
both semaphores, guardrails, idempotency look-up, look-up of the confirmation request, look-up of its
answer, ToolCalled, each invocation under `RetryRunner`, and the final event. A call that needs a
confirmation returns; `Rerun` executes it again as `_handle_dag_confirmations` does. An append with a
key that is taken stores nothing, which is how `append_event` deduplicates. During a call of `Faulty`
the store may raise. `SettleLost`: the append of ToolCompleted is inside the try, so the handler
writes ToolFailed for a tool that returned, and nothing is cached. `StoreRaises`: any other look-up or
append, the handler's included, leaves `execute` with nothing written; the step has failed, or the
run when the step was executed again after a confirmation (`EndsRun`).

## Runs

All passing runs finish in a few minutes with two workers.

| run | instance | shows |
|---|---|---|
| `run_safety` | 2 confirmations, 1 pause, 1 resume, 2 confirm requests, watchdog, raising appends, 2 crashes, attempt budget 2, 2 confirmation retries | at most one terminal event and nothing after it; RunResumed only answers a pause; no open run without a driver; the folded status implements `RunContract` |
| `run_liveness` | 1 request of each kind but DELETE, 1 crash | every run ends although LLM and tool calls may hang |
| `run_unwatched` | no watchdog, 2 confirmations, 2 confirm requests, 1 DELETE, 1 crash | the budgets alone end every run whose external calls return |
| `run_lost_wakeup` (violation) | 1 confirmation | see Findings |
| `run_zombie` (violation) | 1 pause, 1 resume, 1 DELETE | see Findings |
| `store_append` | 3 appends to one run, two with one key, 2 cancellations, 2 failing statements | `db` implements `EventLog`; what a call reports as created is committed; a call that raised left nothing; every call ends |
| `store_claim` | 2 claims of one request and an append, 2 cancellations, 2 failing statements | the same, for claims: one run per request, together with its RunStarted |
| `store_existing` (violation) | 2 appends with one key, 1 cancellation | see Findings |
| `dag_gates` | 3 root plans, 6 revisions, self-heal budget 3, one repair round, one revision retry, one confirmation retry | a completed run has executed what stands for every root step; no tool before its dependencies; no side effect that nobody asked for; the loop ends |
| `dag_delivers` (violation) | a plan of one step, one revision | see Findings |
| `tool_calls` | 2 equal calls of a tool with `max_parallel = 1`, then 2 equal calls of a parallel tool that need a confirmation, one retry, one re-execution, common limit 2; the store may raise during one call of each tool | a cache hit is a success of an equal call; nothing runs unconfirmed; a key that has succeeded does not run again unless the calls overlap or the store refused the success; every finished call is settled in the log; every call gets through the semaphores |
| `tool_clicks` (violation) | 2 browser actions, one after the other | see Findings |

**Why these bounds.** Every property is about how a few actors get in each other's way, so each
instance has two of what can collide (two confirm requests, two equal keys, two claims) and one of
what merely interferes. Two crashes are needed to crash inside the orphan scan and to scan again.
Two cancellations and two faults reach the double cancellation during a ROLLBACK and the failing
ROLLBACK followed by an inherited transaction. A budget of 2 or 3 lets a loop be entered again after
it has been used once and then be exhausted. In `dag_gates` the six revisions are: a correction under
the old id that a contract allows or does not allow, a replacement with and without a dependency, a
helper in front of a corrected step, and a rewrite of both steps; together they reach every disjunct
of the specification. `MaxLayers`, `MaxCrashes`, `MaxCancels`, `MaxFaults` and `Faulty` are bounds
of the instances; all others are settings of the program. `Faulty` has one of two equal calls for each
tool, so that a lost success meets a call that looks it up.

Deadlock is checked in the runs of `RunLifecycle`, where `Quiescent` is the only legal rest. The
other models stop when their calls have returned or the plan is done, so they say
`CHECK_DEADLOCK FALSE`; that nothing stops earlier is what `EveryCallEnds`, `Terminates` and
`CallsReturn` check.

**Fairness.** The event loop runs every coroutine that can run, an asyncio timer fires, a store
operation returns, a process that died is started again: weak fairness of the tasks, per request and
per call. Nothing is assumed of the LLM and of tools in `RunLifecycle` (the watchdog has to deal with
a hanging call), except in `run_unwatched`, where `run_timeout_ms = 0` and the specification says so.
Nothing is ever assumed of users: no pause, resume, confirmation or deletion has to arrive. In
`DagExecution` every await of the loop ends, because tool calls, LLM calls and confirmation waits
have timeouts. In `ToolExecution` `Sandbox.invoke` bounds an invocation with `asyncio.wait_for` (a
synchronous tool function is not bounded; the assumption is about coroutine tools).

## Findings

Each is a violation run: a sentence of the repository, stated as a property, and what the code does.

* `run_lost_wakeup` — `resume_run` "wakes the scheduler loop" (`api/routes.py:479`). RunPaused is
  committed and broadcast before `_wait_for_resume` creates and clears its event. A confirmation in
  that window writes RunResumed and sets an event that is absent, or cleared at once: the run is
  RUNNING while its loop sleeps until the confirmation timeout fails it.
* `run_zombie` — `api/routes.py:496` rules out "a fake-RUNNING zombie with nobody executing it".
  `delete_run` appends RunFailed between `resume()`'s check and its append; the loop sees RunFailed
  and returns, `run()` ends, and RunResumed then makes the run RUNNING again.
* `store_existing` — `append_event` promises an atomic transaction. A second append with the same key
  finds the first one's *uncommitted* row and returns it; the first is cancelled and rolled back; the
  caller holds an event that does not exist.
* `dag_delivers` — a revision that corrects a failed contract step under its own id and adds a helper
  makes `merge_revised_plan` bind the root step to the helper; the completion gate then accepts the
  helper's result for the deliverable.
* `tool_clicks` — "Browser actions are not safely replayable: never idempotency-cache."
  (`tools/browser_mcp.py:46`). `idempotency_key_fields = []` is a constant key, not the absence of
  one: the second click of a run is answered with the result of the first and does not happen.

Six more disagreements have no run of their own. Their properties and instances are in the MC
modules; to see the trace, give the instance to the named property in a configuration.

* `UserPauseHalts` (`MCRunLifecycle`, with one pauser): `pause_run` "halts the scheduler loop"
  (`api/routes.py:446`), but the status is not read between the layers of a plan, so a paused run may
  complete.
* `TerminalIsLast` with one deleter: `delete_run` appends RunFailed to a run that has completed
  (`api/routes.py:658`); `tests/test_terminal_guard.py:4` says a run has at most one terminal event.
* `MergedPlanRuns` (`MCDagExecution`, `ChainRoots`, `DependingRevisions`): the entry check validates
  a merged plan without the completed ids and fails the run, although the same plan was validated
  with them after the merge (`core/planner/guardrail.py:35` calls such dependencies valid).
* `CompletedNotRerun` (`AloneRoots`, `RepeatingRevisions`): once a root step has an alias, each merge
  pops its own result, so a step that completed under its own id is called again;
  `core/dag_types.py:111` says redoing it needs a new step id.
* `NothingLost` (`AloneRoots`, `SplitRevisions`): a root step whose replacement failed is neither
  restored nor replaced when the next revision brings two new steps; the docstring of
  `merge_revised_plan` promises "without losing original downstream work".
* `OneStepEach` (`ChainRoots`, `ReusingRevisions`): the id of an earlier, completed
  replacement counts as new and is bound to a second root step, so one execution stands for two.

## Proofs

Proved by TLAPS for all values of the constants that satisfy the named assumptions. TLC checks the
same properties on the instances above; the inductive invariants were model-checked on them too
before they were proved.

**RunLifecycle_proofs** (`ConstantsAssumption`, `RequestsAssumption`, and `Deleters = {}`, because
`run_zombie` and the deletion of a completed run refute the properties otherwise). `IInv` strengthens
`TerminalIsLast`, which is not inductive: an append knows that the run is open only from a check made
one or more steps earlier. `LockInv` says that `_resume_lock` is held exactly between check and
append; `CheckStillValid` that what was checked still holds at the append, also for the append of
`_append_run_event`, which takes no lock; the latter needs `RunInv` (the watchdog and `run()` act on
the stream only when the loop task is gone) and `DownInv` (nothing runs during the startup scan).
`OverInv` carries the terminal status from the end of the loop to the end of `run()`, and
`BudgetInv` the budgets. Theorems: `TypeCorrect`, `TerminalOnce`, `ResumeOnlyPaused`,
`NothingAbandoned`, and `Refinement`: every step of `RunLifecycle` is a step of `RunContract` or
leaves the folded status alone (`OneAppend`: a step appends at most one RUN event).

**DagExecution_proofs** (`ConstantsAssumption`). `Inv` consists of what the merge and the repair keep
of the plan (`Shape`, `Covered`), that root dependencies stay inside the root plan (`Closed`), that
whatever the layers have left behind has a result (`Layered`, `Suspended`) and that every normal
result comes from an execution (`Backed`). `NoFakeGreen` follows because the gate asks for a normal
result of every alias; `RunsAfterDependencies` because a layer contains only steps whose dependencies
are no longer remaining, which have a result by `Layered`, which the gate then requires to be normal.
Theorems: `CompletedIsDone`, `DependenciesFirst`, `SideEffectsCovered`.

**ToolExecution_proofs** (`ToolAssumption`). The look-up happens long before the success is stored,
so `SucceedsOnce` needs to know what a call that missed may find later: `MissedOnly` says that a
success it did not see belongs to a call it overlapped with or was lost in the store. This rests on `OneHolder` (a tool with
`max_parallel = 1` is held by one call, from the cardinality in `ToolFree`), `Layered` (lower layers
are over while a call is under way), `WonStored` (a success is being stored, is stored, or was
refused by the store) and `LostStays` (a lost success stays lost).
`CachedWon` says that what is stored under a key is a settled success of an equal call. Theorems:
`HitsAreSuccesses`, `ConfirmedFirst`, `OneSuccess`, `CallsAreSettled`.

Only model-checked: all liveness properties (`RunTerminates`, `EveryCallEnds`, `Terminates`,
`CallsReturn`), which the prover cannot handle, and everything about `EventStore`, whose proof is
planned.

## Limits of the models

* One run. Runs share only the Event Store and the browser pool.
* `RunLifecycle`: a deployment without LLM client and errors of store reads are left out; a
  confirmation asked for inside a tool is like any other. The RunFailed written as a last resort, by
  `run()`, by a `start_run` that fails and by the startup scan, does not raise. When it does, the code
  logs "RunFailed write also failed" (`core/scheduler/base.py:280` and `:299`) and the run stays open
  until the next startup scan: `NoAbandonedRun` and `RunTerminates` hold only without that.
* `EventStore`: the record tables (tenants, workspaces, conversations) are single statements under
  the same transaction helper and are left out; a failing statement has no effect on the tables;
  SELECT and its fetch are one statement.
* `DagExecution`: results rebuilt from evidence at the start, audit events and the text of feedback
  are left out. A layer is one step because nothing reads its results before all have returned. A
  `$ref` that cannot be resolved is a failed step. An IDEMPOTENT result counts as completed.
* `ToolExecution`: an append is atomic, and one that raises stores nothing; what guardrails, the semantic verdict, the
  output schema and the output store compute is an arbitrary result; the caller in the serial loop
  is left out.

## Plan

1. `EventStream`: registration of a WebSocket client, history, broadcast and the client's seq filter;
   `RunMonitor` and `BrowserPool` as further callbacks of the same append (acquire and release
   against the end of a run, the profile lock held under the pool's guard). One composed model, since
   all three hear of an event from `append_event`.
2. The rest of `fold_events` and `DagPlan.topological_sort` as functions, checked against reference
   definitions; the rejection loop of the planner.
3. `ContextManager` (archive, checkpoint, compression), `McpManager` (connect, disconnect, lazy
   tenant sessions), the serial loop with its unguarded appends, the messages of a conversation, the
   reaper against live runs.
4. Proofs: `EventStore` implements `EventLog`; the invariants of the new modules.
