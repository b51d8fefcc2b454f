----------------------------- MODULE RunLifecycle -----------------------------
(***************************************************************************)
(* The life of one run: the scheduler task that drives it                  *)
(* (PlanningExecutorScheduler._run_loop), the BaseScheduler.run() wrapper   *)
(* with its watchdog, the API requests that pause, resume, confirm and     *)
(* delete it, a crash of the process and the orphan scan of the next       *)
(* startup.  All of them meet in the run's event stream and in the         *)
(* in-memory signals (_cancel_flags, _pause_events, _confirm_events).      *)
(*                                                                         *)
(* asyncio is cooperative: control changes hands only at an await.  One    *)
(* action is what a task does between two awaits that matter, where        *)
(* reading the event stream and appending to it are awaits.                *)
(*                                                                         *)
(* Abstractions.                                                           *)
(*  - Only RUN and CONFIRMATION events are kept: fold_events derives the   *)
(*    status and the pending confirmations from nothing else.              *)
(*  - Planning, a DAG layer and a step retry are single awaits with every  *)
(*    outcome the caller tells apart; DagExecution models their inside.    *)
(*  - Timers are not measured: a wait may time out at any moment.          *)
(*  - An append is atomic here, and one that raises stores nothing;        *)
(*    EventStore models its inside.  The RunFailed that run(), start_run   *)
(*    and the startup scan write as a last resort does not raise.          *)
(***************************************************************************)
EXTENDS Naturals, Sequences, FiniteSets

CONSTANTS
  Confirms,           \* confirmation ids the layers of this run may ask for
  Pausers,            \* POST /pause requests
  Resumers,           \* POST /resume requests
  Confirmers,         \* POST /confirm requests
  Deleters,           \* DELETE /runs/{id} requests
  RunAttemptBudget,   \* SchedulerConfig.run_attempt_budget
  MaxConfirmRetries,  \* SchedulerConfig.max_confirm_retries
  MaxLayers,          \* bound: layer executions of one plan, all rounds together
  MaxCrashes          \* bound: process crashes

Requests == Pausers \cup Resumers \cup Confirmers \cup Deleters

Tasks == {"loop", "run"}

Procs == Tasks \cup Requests

ASSUME ConstantsAssumption ==
  /\ RunAttemptBudget \in Nat \ {0}
  /\ MaxConfirmRetries \in Nat
  /\ MaxLayers \in Nat
  /\ MaxCrashes \in Nat
  /\ IsFiniteSet(Confirms)

ASSUME RequestsAssumption ==
  /\ Requests \cap Tasks = {}
  /\ "free" \notin Requests
  /\ Pausers \cap (Resumers \cup Confirmers \cup Deleters) = {}
  /\ Resumers \cap (Confirmers \cup Deleters) = {}
  /\ Confirmers \cap Deleters = {}

VARIABLES
  log,         \* RUN events of the run, in seq order, without RunOrphaned
  orphaned,    \* a RunOrphaned event has been written
  requested,   \* confirmation ids with a ConfirmationRequested event
  received,    \* confirmation ids with a ConfirmationReceived event
  server,      \* the process: serving, down, or in the startup scan
  crashes,     \* crashes so far
  pc,          \* where each task and each request handler stands
  target,      \* the confirmation id a /confirm request is about
  lock,        \* holder of BaseScheduler._resume_lock
  registered,  \* the run is in HarnessAPI._schedulers
  cancelFlag,  \* _cancel_flags[run_id]
  pauseEvent,  \* _pause_events[run_id]
  confirmEvent,\* _confirm_events[run_id]
  iteration,   \* loop_iteration of _plan_execute_revise_loop
  layers,      \* layers executed for the current plan
  queue,       \* confirmations _handle_dag_confirmations still has to settle
  retries,     \* confirm_retries of the head of queue
  returnTo     \* where the loop task continues after _complete or _fail

store   == <<log, orphaned, requested, received>>
process == <<server, crashes>>
signals == <<cancelFlag, pauseEvent, confirmEvent>>
locals  == <<iteration, layers, queue, retries, returnTo>>
vars == <<store, process, pc, target, lock, registered, signals, locals>>
-----------------------------------------------------------------------------
(***************************************************************************)
(* The event stream.                                                       *)
(***************************************************************************)
Phases == {"started", "paused_user", "paused_confirm", "resumed",
           "completed", "failed"}

\* fold_events: the last RUN event decides the status (RunOrphaned does not).
StatusAfter == [started        |-> "RUNNING",
                paused_user    |-> "PAUSED",
                paused_confirm |-> "PAUSED",
                resumed        |-> "RUNNING",
                completed      |-> "COMPLETED",
                failed         |-> "FAILED"]

Status == StatusAfter[log[Len(log)]]

\* Mutant: the check answers "not terminal" for every run.
IsTerminalNever == FALSE

\* BaseScheduler._is_run_terminal.
IsTerminal == Status \in {"COMPLETED", "FAILED"}

Write(phase) == log' = Append(log, phase)

TerminalPhases == {"completed", "failed"}
-----------------------------------------------------------------------------
(***************************************************************************)
(* asyncio.Event: absent from its dictionary, present and clear, or set.   *)
(***************************************************************************)
EventStates == {"absent", "clear", "set"}

SetIfPresent(e) == IF e = "absent" THEN "absent" ELSE "set"

IsCancelled == cancelFlag = "set"

Goto(p, label) == pc' = [pc EXCEPT ![p] = label]

LoopLabels == {"idle", "classify", "top", "pause_enter", "pause_wait",
               "planning", "layer_top", "layer", "layered", "executed",
               "confirm_top", "confirm_append", "confirm_enter",
               "confirm_wait", "confirm_check", "retry",
               "complete", "complete_append",
               "fail", "fail_append", "fail_signal",
               "returned", "raised", "cancelled"}

RunLabels == {"starting", "spawned", "await", "fail", "fail_append",
              "fail_signal", "final", "ended"}

RequestLabels == {"idle", "want", "append", "wake", "receive", "delete",
                  "done"}

Labels == LoopLabels \cup RunLabels \cup RequestLabels

\* The loop task has finished, one way or another.
LoopStopped == pc["loop"] \in {"idle", "returned", "raised", "cancelled"}
-----------------------------------------------------------------------------
Init ==
  /\ log = <<"started">>
  /\ orphaned = FALSE
  /\ requested = {}
  /\ received = {}
  /\ server = "serving"
  /\ crashes = 0
  /\ pc = [p \in Procs |->
             IF p = "run" THEN "starting" ELSE "idle"]
  /\ target \in [Confirmers -> Confirms]
  /\ lock = "free"
  /\ registered = FALSE
  /\ cancelFlag = "absent"
  /\ pauseEvent = "absent"
  /\ confirmEvent = "absent"
  /\ iteration = 0
  /\ layers = 0
  /\ queue = <<>>
  /\ retries = 0
  /\ returnTo = "returned"
-----------------------------------------------------------------------------
(***************************************************************************)
(* BaseScheduler._complete and _fail.  Both hold _resume_lock from the     *)
(* terminal check to the end of the append, so the pair cannot be split by *)
(* pause(), resume() or the other of the two.                              *)
(***************************************************************************)
CompleteCheck ==
  /\ pc["loop"] = "complete"
  /\ lock = "free"
  /\ \/ /\ IsTerminal
        /\ Goto("loop", returnTo)
        /\ UNCHANGED lock
     \/ /\ ~IsTerminal
        /\ Goto("loop", "complete_append")
        /\ lock' = "loop"
  /\ UNCHANGED <<store, process, target, registered, signals, locals>>

CompleteAppend ==
  /\ pc["loop"] = "complete_append"
  /\ Write("completed")
  /\ lock' = "free"
  /\ Goto("loop", returnTo)
  /\ UNCHANGED <<orphaned, requested, received, process, target, registered,
                 signals, locals>>

\* Where task p goes on once _fail has returned.
AfterCall(p) == IF p = "run" THEN "final" ELSE returnTo

FailCheck(p) ==
  /\ pc[p] = "fail"
  /\ lock = "free"
  /\ \/ /\ IsTerminal
        /\ Goto(p, AfterCall(p))
        /\ UNCHANGED lock
     \/ /\ ~IsTerminal
        /\ Goto(p, "fail_append")
        /\ lock' = p
  /\ UNCHANGED <<store, process, target, registered, signals, locals>>

FailAppend(p) ==
  /\ pc[p] = "fail_append"
  /\ Write("failed")
  /\ Goto(p, "fail_signal")
  /\ UNCHANGED <<orphaned, requested, received, process, target, lock,
                 registered, signals, locals>>

\* The appended event's callbacks have run; wake whoever waits, then unlock.
FailSignal(p) ==
  /\ pc[p] = "fail_signal"
  /\ cancelFlag' = SetIfPresent(cancelFlag)
  /\ pauseEvent' = SetIfPresent(pauseEvent)
  /\ confirmEvent' = SetIfPresent(confirmEvent)
  /\ lock' = "free"
  /\ Goto(p, AfterCall(p))
  /\ UNCHANGED <<store, process, target, registered, locals>>

\* The loop task calls _complete or _fail and goes on at label after.
Call(label, after) ==
  /\ Goto("loop", label)
  /\ returnTo' = after
-----------------------------------------------------------------------------
(***************************************************************************)
(* The loop task: PlanningExecutorScheduler._run_loop.                     *)
(***************************************************************************)
\* Contracts and intent are resolved; an analysis-only intent is answered
\* and completed at once, every other enters the plan loop.
ClassifyIntent ==
  /\ pc["loop"] = "classify"
  /\ \/ Goto("loop", "top") /\ UNCHANGED returnTo
     \/ Call("complete", "returned")
  /\ UNCHANGED <<store, process, target, lock, registered, signals,
                 iteration, layers, queue, retries>>

\* Mutant: the budget does not count the turns spent in a pause.
BudgetExhaustedPlanning(n) == n > RunAttemptBudget /\ Status # "PAUSED"

\* The loop's attempt budget, which every turn consumes.
BudgetExhausted(n) == n > RunAttemptBudget

\* One turn of _plan_execute_revise_loop up to its first await.
LoopTop ==
  /\ pc["loop"] = "top"
  /\ \/ /\ IsTerminal
        /\ Goto("loop", "returned")
        /\ UNCHANGED <<iteration, returnTo>>
     \/ /\ ~IsTerminal
        /\ iteration' = iteration + 1
        /\ \/ /\ BudgetExhausted(iteration + 1) \/ IsCancelled
              /\ Call("fail", "returned")
           \/ /\ ~BudgetExhausted(iteration + 1) /\ ~IsCancelled
              /\ Goto("loop", IF Status = "PAUSED" THEN "pause_enter"
                                                   ELSE "planning")
              /\ UNCHANGED returnTo
  /\ UNCHANGED <<store, process, target, lock, registered, signals, layers,
                 queue, retries>>

\* _handle_pause: the state is read again (an await) before the event is
\* created and cleared.
PauseEnter ==
  /\ pc["loop"] = "pause_enter"
  /\ pauseEvent' = "clear"
  /\ Goto("loop", "pause_wait")
  /\ UNCHANGED <<store, process, target, lock, registered, cancelFlag,
                 confirmEvent, locals>>

\* The event is set, or the pause times out, which is only logged.
PauseLeave ==
  /\ pc["loop"] = "pause_wait"
  /\ pauseEvent' = "clear"
  /\ Goto("loop", "top")
  /\ UNCHANGED <<store, process, target, lock, registered, cancelFlag,
                 confirmEvent, locals>>

\* The planner answers: no plan, an empty plan (answered and completed, or
\* failed when operations were declared), a plan the guardrail rejects at
\* the execution entry, or a plan to execute.  The steps completed by earlier
\* plans are not run again, which may leave no layer at all.
Plan ==
  /\ pc["loop"] = "planning"
  /\ \/ /\ \E label \in {"complete", "fail"} : Call(label, "returned")
        /\ UNCHANGED layers
     \/ /\ Call("fail", "executed")
        /\ UNCHANGED layers
     \/ /\ \E label \in {"layer_top", "layered"} : Goto("loop", label)
        /\ layers' = 0
        /\ UNCHANGED returnTo
  /\ UNCHANGED <<store, process, target, lock, registered, signals,
                 iteration, queue, retries>>

LayerTop ==
  /\ pc["loop"] = "layer_top"
  /\ \/ IsCancelled /\ Call("fail", "executed")
     \/ ~IsCancelled /\ Goto("loop", "layer") /\ UNCHANGED returnTo
  /\ UNCHANGED <<store, process, target, lock, registered, signals,
                 iteration, layers, queue, retries>>

\* The orders in which a layer can leave a set of steps to be confirmed.
Orders(S) == {q \in UNION {[1..n -> S] : n \in 1..Cardinality(S)} :
                \A i, j \in DOMAIN q : q[i] = q[j] => i = j}

\* A layer is over, with or without confirmations: a further layer follows
\* (the next one, or the first one of a repaired or revised plan) ...
LayerNext ==
  /\ pc["loop"] \in {"layer", "layered"}
  /\ layers < MaxLayers
  /\ layers' = layers + 1
  /\ Goto("loop", "layer_top")
  /\ UNCHANGED <<store, process, target, lock, registered, signals,
                 iteration, queue, retries, returnTo>>

\* ... or the completion gate, an exhausted budget or a failed revision
\* settles the run ...
LayerSettle ==
  /\ pc["loop"] \in {"layer", "layered"}
  /\ \E label \in {"complete", "fail"} : Call(label, "executed")
  /\ UNCHANGED <<store, process, target, lock, registered, signals,
                 iteration, layers, queue, retries>>

\* ... or steps of the layer have to be confirmed first (ConfirmationRequested
\* is written once per confirmation, a step may ask again until it is decided).
LayerSuspend ==
  /\ pc["loop"] = "layer"
  /\ \E q \in Orders(Confirms \ received) :
       /\ queue' = q
       /\ requested' = requested \cup {q[i] : i \in DOMAIN q}
  /\ retries' = 0
  /\ Goto("loop", "confirm_top")
  /\ UNCHANGED <<log, orphaned, received, process, target, lock, registered,
                 signals, iteration, layers, returnTo>>

\* _execute_plan has returned: _plan_cycle looks at the status it left, and
\* trips its breaker or plans again when the run is not over.
Executed ==
  /\ pc["loop"] = "executed"
  /\ \/ IsTerminal /\ Goto("loop", "returned") /\ UNCHANGED returnTo
     \/ ~IsTerminal /\ Goto("loop", "top") /\ UNCHANGED returnTo
     \/ ~IsTerminal /\ Call("fail", "returned")
  /\ UNCHANGED <<store, process, target, lock, registered, signals,
                 iteration, layers, queue, retries>>
-----------------------------------------------------------------------------
(***************************************************************************)
(* _handle_dag_confirmations, one confirmation at a time in queue order.   *)
(***************************************************************************)
\* The checks before RunPaused, and the terminal check of _append_run_event,
\* which rejects the event but not the wait that follows it.
ConfirmTop ==
  /\ pc["loop"] = "confirm_top"
  /\ \/ /\ IsCancelled \/ retries >= MaxConfirmRetries
        /\ Call("fail", "executed")
     \/ /\ ~IsCancelled /\ retries < MaxConfirmRetries
        /\ Goto("loop", IF IsTerminal THEN "confirm_enter"
                                      ELSE "confirm_append")
        /\ UNCHANGED returnTo
  /\ UNCHANGED <<store, process, target, lock, registered, signals,
                 iteration, layers, queue, retries>>

\* _resume_lock is not taken: the check above may be stale by now.
ConfirmAppend ==
  /\ pc["loop"] = "confirm_append"
  /\ Write("paused_confirm")
  /\ Goto("loop", "confirm_enter")
  /\ UNCHANGED <<orphaned, requested, received, process, target, lock,
                 registered, signals, locals>>

\* _wait_for_resume creates or clears the event only after RunPaused is
\* committed and its callbacks have run.
ConfirmEnter ==
  /\ pc["loop"] = "confirm_enter"
  /\ confirmEvent' = "clear"
  /\ Goto("loop", "confirm_wait")
  /\ UNCHANGED <<store, process, target, lock, registered, cancelFlag,
                 pauseEvent, locals>>

ConfirmWoken ==
  /\ pc["loop"] = "confirm_wait"
  /\ confirmEvent = "set"
  /\ confirmEvent' = "clear"
  /\ Goto("loop", "confirm_check")
  /\ UNCHANGED <<store, process, target, lock, registered, cancelFlag,
                 pauseEvent, locals>>

ConfirmTimeout ==
  /\ pc["loop"] = "confirm_wait"
  /\ \/ /\ IsCancelled
        /\ Goto("loop", "confirm_check")
        /\ UNCHANGED returnTo
     \/ /\ ~IsCancelled
        /\ Call("fail", "confirm_check")
  /\ UNCHANGED <<store, process, target, lock, registered, signals,
                 iteration, layers, queue, retries>>

\* finally: event.clear(), then the caller's cancellation and status checks.
ConfirmCheck ==
  /\ pc["loop"] = "confirm_check"
  /\ confirmEvent' = "clear"
  /\ \/ IsCancelled /\ Call("fail", "executed")
     \/ /\ ~IsCancelled
        /\ Goto("loop", IF IsTerminal THEN "executed" ELSE "retry")
        /\ UNCHANGED returnTo
  /\ UNCHANGED <<store, process, target, lock, registered, cancelFlag,
                 pauseEvent, iteration, layers, queue, retries>>

\* dag_executor.retry_step: without a decision confirmation is needed again,
\* unless a guardrail or a dependency now stops the step; otherwise the step
\* is settled (completed, failed or skipped).
RetryStep ==
  /\ pc["loop"] = "retry"
  /\ \/ /\ queue' = Tail(queue)
        /\ retries' = 0
        /\ Goto("loop", IF queue' = <<>> THEN "layered" ELSE "confirm_top")
     \/ /\ Head(queue) \notin received
        /\ retries' = retries + 1
        /\ Goto("loop", "confirm_top")
        /\ UNCHANGED queue
  /\ UNCHANGED <<store, process, target, lock, registered, signals,
                 iteration, layers, returnTo>>

\* The append of RunPaused, RunCompleted or RunFailed raises: the exception
\* leaves _resume_lock and the loop.  _finalize_with_summary then calls _complete
\* once more, which is as if it had not called it before.
LoopAppendRaises ==
  /\ pc["loop"] \in {"confirm_append", "complete_append", "fail_append"}
  /\ lock' = IF lock = "loop" THEN "free" ELSE lock
  /\ Goto("loop", "raised")
  /\ UNCHANGED <<store, process, target, registered, signals, locals>>

\* An exception escapes _run_loop at one of its external calls.
LoopRaise ==
  /\ pc["loop"] \in {"classify", "planning", "layer", "layered", "retry"}
  /\ Goto("loop", "raised")
  /\ UNCHANGED <<store, process, target, lock, registered, signals, locals>>
-----------------------------------------------------------------------------
(***************************************************************************)
(* HarnessAPI.start_run and BaseScheduler.run().                           *)
(***************************************************************************)
\* The scheduler is registered, its task created but not yet started.
StartRun ==
  /\ pc["run"] = "starting"
  /\ registered' = TRUE
  /\ Goto("run", "spawned")
  /\ UNCHANGED <<store, process, target, lock, signals, locals>>

StartRunFails ==
  /\ pc["run"] = "starting"
  /\ Write("failed")
  /\ Goto("run", "ended")
  /\ UNCHANGED <<orphaned, requested, received, process, target, lock,
                 registered, signals, locals>>

RunBegin ==
  /\ pc["run"] = "spawned"
  /\ cancelFlag' = "clear"
  /\ pc' = [pc EXCEPT !["run"] = "await", !["loop"] = "classify"]
  /\ UNCHANGED <<store, process, target, lock, registered, pauseEvent,
                 confirmEvent, locals>>

\* Mutant: cancelling the loop task does not release _resume_lock.
LockAfterCancelKept == lock

LockAfterCancel == IF lock = "loop" THEN "free" ELSE lock

\* The watchdog cancels the loop task at whatever await it stands, which
\* leaves _resume_lock if it held it, reaps its children and fails the run.
Watchdog ==
  /\ pc["run"] = "await"
  /\ ~LoopStopped
  /\ pc' = [pc EXCEPT !["run"] = "fail", !["loop"] = "cancelled"]
  /\ lock' = LockAfterCancel
  /\ UNCHANGED <<store, process, target, registered, signals, locals>>

\* Mutant: an exception of the loop task is logged and not turned into
\* RunFailed.
RunObserveLogs ==
  /\ pc["run"] = "await"
  /\ pc["loop"] \in {"returned", "raised"}
  /\ Goto("run", "final")
  /\ UNCHANGED <<store, process, target, lock, registered, signals, locals>>

\* run() sees the loop task return, or raise, which becomes RunFailed.
RunObserve ==
  /\ pc["run"] = "await"
  /\ \/ pc["loop"] = "returned" /\ Goto("run", "final")
     \/ pc["loop"] = "raised" /\ Goto("run", "fail")
  /\ UNCHANGED <<store, process, target, lock, registered, signals, locals>>

\* The finally block: the run's signals are dropped, the scheduler leaves
\* the registry through _run_end_cb.
RunFinally ==
  /\ pc["run"] = "final"
  /\ cancelFlag' = "absent"
  /\ pauseEvent' = "absent"
  /\ confirmEvent' = "absent"
  /\ registered' = FALSE
  /\ Goto("run", "ended")
  /\ UNCHANGED <<store, process, target, lock, locals>>
-----------------------------------------------------------------------------
(***************************************************************************)
(* The request handlers of api/routes.py.                                  *)
(***************************************************************************)
\* pause_run and resume_run look the scheduler up; without one they reject.
ControlBegin(h) ==
  /\ server = "serving"
  /\ pc[h] = "idle"
  /\ Goto(h, IF registered THEN "want" ELSE "done")
  /\ UNCHANGED <<store, process, target, lock, registered, signals, locals>>

\* BaseScheduler.pause
PauseCheck(h) ==
  /\ pc[h] = "want"
  /\ lock = "free"
  /\ \/ /\ Status = "RUNNING"
        /\ lock' = h
        /\ Goto(h, "append")
     \/ /\ Status # "RUNNING"
        /\ Goto(h, "done")
        /\ UNCHANGED lock
  /\ UNCHANGED <<store, process, target, registered, signals, locals>>

PauseAppend(h) ==
  /\ pc[h] = "append"
  /\ Write("paused_user")
  /\ lock' = "free"
  /\ Goto(h, "done")
  /\ UNCHANGED <<orphaned, requested, received, process, target, registered,
                 signals, locals>>

\* Mutant: any run that is not over can be resumed.
MayResumeOpen == ~IsTerminal

MayResume == Status = "PAUSED"

\* BaseScheduler.resume
ResumeCheck(h) ==
  /\ pc[h] = "want"
  /\ lock = "free"
  /\ \/ /\ MayResume
        /\ lock' = h
        /\ Goto(h, "append")
     \/ /\ ~MayResume
        /\ Goto(h, "done")
        /\ UNCHANGED lock
  /\ UNCHANGED <<store, process, target, registered, signals, locals>>

ResumeAppend(h) ==
  /\ pc[h] = "append"
  /\ Write("resumed")
  /\ Goto(h, "wake")
  /\ UNCHANGED <<orphaned, requested, received, process, target, lock,
                 registered, signals, locals>>

ResumeWake(h) ==
  /\ pc[h] = "wake"
  /\ pauseEvent' = SetIfPresent(pauseEvent)
  /\ confirmEvent' = SetIfPresent(confirmEvent)
  /\ lock' = "free"
  /\ Goto(h, "done")
  /\ UNCHANGED <<store, process, target, registered, cancelFlag, locals>>

\* confirm_run: accepted only for a paused run and a pending confirmation.
ConfirmBegin(h) ==
  /\ server = "serving"
  /\ pc[h] = "idle"
  /\ Goto(h, IF Status = "PAUSED" /\ target[h] \in requested \ received
             THEN "receive" ELSE "done")
  /\ UNCHANGED <<store, process, target, lock, registered, signals, locals>>

\* ConfirmationReceived is deduplicated by its idempotency key; the
\* scheduler, if any, is resumed in either case.
ConfirmReceive(h) ==
  /\ pc[h] = "receive"
  /\ received' = received \cup {target[h]}
  /\ Goto(h, IF registered THEN "want" ELSE "done")
  /\ UNCHANGED <<log, orphaned, requested, process, target, lock, registered,
                 signals, locals>>

\* delete_run: cancel() takes no lock and writes no event ...
DeleteCancel(h) ==
  /\ server = "serving"
  /\ pc[h] = "idle"
  /\ IF registered
     THEN /\ cancelFlag' = SetIfPresent(cancelFlag)
          /\ pauseEvent' = SetIfPresent(pauseEvent)
          /\ confirmEvent' = SetIfPresent(confirmEvent)
     ELSE UNCHANGED signals
  /\ Goto(h, "delete")
  /\ UNCHANGED <<store, process, target, lock, registered, locals>>

\* ... then RunFailed is appended whatever the status, and the scheduler is
\* dropped from the registry while its task may still be running.
DeleteAppend(h) ==
  /\ pc[h] = "delete"
  /\ Write("failed")
  /\ registered' = FALSE
  /\ Goto(h, "done")
  /\ UNCHANGED <<orphaned, requested, received, process, target, lock,
                 signals, locals>>

\* The append of a request raises: _resume_lock is left, the request fails.
RequestAppendRaises(h) ==
  /\ pc[h] \in {"append", "receive", "delete"}
  /\ lock' = IF lock = h THEN "free" ELSE lock
  /\ Goto(h, "done")
  /\ UNCHANGED <<store, process, target, registered, signals, locals>>
-----------------------------------------------------------------------------
(***************************************************************************)
(* A crash loses everything but the store; startup runs mark_orphans       *)
(* before the first request is served.                                     *)
(***************************************************************************)
Crash ==
  /\ server # "down"
  /\ crashes < MaxCrashes
  /\ crashes' = crashes + 1
  /\ server' = "down"
  /\ pc' = [p \in DOMAIN pc |->
              CASE p = "run" -> "ended"
                [] p = "loop" -> IF pc[p] = "idle" THEN "idle" ELSE "cancelled"
                [] OTHER -> IF pc[p] = "idle" THEN "idle" ELSE "done"]
  /\ lock' = "free"
  /\ registered' = FALSE
  /\ cancelFlag' = "absent"
  /\ pauseEvent' = "absent"
  /\ confirmEvent' = "absent"
  /\ UNCHANGED <<store, target, locals>>

Restart ==
  /\ server = "down"
  /\ server' = "scan"
  /\ UNCHANGED <<store, crashes, pc, target, lock, registered, signals,
                 locals>>

\* mark_orphans: RunOrphaned first; the status it leaves is unchanged.
ScanOrphan ==
  /\ server = "scan"
  /\ \/ /\ IsTerminal
        /\ server' = "serving"
        /\ UNCHANGED orphaned
     \/ /\ ~IsTerminal
        /\ server' = "scan_fail"
        /\ orphaned' = TRUE
  /\ UNCHANGED <<log, requested, received, crashes, pc, target, lock,
                 registered, signals, locals>>

ScanFail ==
  /\ server = "scan_fail"
  /\ Write("failed")
  /\ server' = "serving"
  /\ UNCHANGED <<orphaned, requested, received, crashes, pc, target, lock,
                 registered, signals, locals>>
-----------------------------------------------------------------------------
\* What the loop task does by itself, and what it awaits from outside (LLM
\* and tool calls, which may hang).
LoopInternal ==
  \/ LoopTop \/ PauseEnter \/ PauseLeave \/ LayerTop \/ Executed
  \/ ConfirmTop \/ ConfirmAppend \/ ConfirmEnter \/ ConfirmWoken
  \/ ConfirmTimeout \/ ConfirmCheck
  \/ CompleteCheck \/ CompleteAppend
  \/ FailCheck("loop") \/ FailAppend("loop") \/ FailSignal("loop")
  \/ LoopAppendRaises

LoopExternal ==
  \/ ClassifyIntent \/ Plan \/ LayerNext \/ LayerSettle \/ LayerSuspend
  \/ RetryStep \/ LoopRaise

RunTask ==
  \/ StartRun \/ StartRunFails \/ RunBegin \/ RunObserve \/ RunFinally
  \/ FailCheck("run") \/ FailAppend("run") \/ FailSignal("run")

RequestBegin ==
  \/ \E h \in Pausers \cup Resumers : ControlBegin(h)
  \/ \E h \in Confirmers : ConfirmBegin(h)
  \/ \E h \in Deleters : DeleteCancel(h)

RequestStep(h) ==
  \/ h \in Pausers /\ (PauseCheck(h) \/ PauseAppend(h))
  \/ h \in Resumers \cup Confirmers
       /\ (ResumeCheck(h) \/ ResumeAppend(h) \/ ResumeWake(h))
  \/ h \in Confirmers /\ ConfirmReceive(h)
  \/ h \in Deleters /\ DeleteAppend(h)
  \/ RequestAppendRaises(h)

Startup == Restart \/ ScanOrphan \/ ScanFail

\* The run is over and nobody has anything left to do.
Quiescent ==
  /\ server = "serving"
  /\ pc["run"] = "ended"
  /\ \A h \in Requests : pc[h] = "done"
  /\ UNCHANGED vars

\* After a crash no task or request is in progress, so only the beginning of
\* a request has to ask whether the server is up.
UnwatchedNext ==
  \/ LoopInternal \/ LoopExternal \/ RunTask
  \/ RequestBegin \/ \E h \in Requests : RequestStep(h)
  \/ Crash \/ Startup \/ Quiescent

Next == UnwatchedNext \/ Watchdog

Spec == Init /\ [][Next]_vars
-----------------------------------------------------------------------------
(***************************************************************************)
(* Fairness.  Every coroutine that can run is eventually run by the event  *)
(* loop, an asyncio timer eventually fires, a store operation returns, and *)
(* a process that went down is started again.  Nothing is assumed of the   *)
(* LLM and tool calls (LoopExternal), nor that any request arrives: it is  *)
(* the watchdog that has to deal with a call that never returns.           *)
(***************************************************************************)
Fairness ==
  /\ WF_vars(LoopInternal)
  /\ WF_vars(RunTask)
  /\ WF_vars(Watchdog)
  /\ \A h \in Requests : WF_vars(RequestStep(h))
  /\ WF_vars(Startup)

FairSpec == Spec /\ Fairness

\* With run_timeout_ms = 0 there is no watchdog; then LLM and tool calls have
\* to return for the run to end.
NoWatchdogFairness ==
  /\ WF_vars(LoopInternal)
  /\ WF_vars(LoopExternal)
  /\ WF_vars(RunTask)
  /\ \A h \in Requests : WF_vars(RequestStep(h))
  /\ WF_vars(Startup)

NoWatchdogSpec == Init /\ [][UnwatchedNext]_vars /\ NoWatchdogFairness
-----------------------------------------------------------------------------
StoreType ==
  /\ log \in Seq(Phases) /\ log # <<>>
  /\ orphaned \in BOOLEAN
  /\ requested \subseteq Confirms
  /\ received \subseteq Confirms

ProcessType ==
  /\ server \in {"serving", "down", "scan", "scan_fail"}
  /\ crashes \in 0..MaxCrashes
  /\ target \in [Confirmers -> Confirms]
  /\ registered \in BOOLEAN

ControlType ==
  /\ pc \in [Procs -> Labels]
  /\ lock \in Procs \cup {"free"}

SignalType ==
  /\ cancelFlag \in EventStates
  /\ pauseEvent \in EventStates
  /\ confirmEvent \in EventStates

LocalType ==
  /\ iteration \in 0..RunAttemptBudget + 1
  /\ layers \in 0..MaxLayers
  /\ queue \in Seq(Confirms)
  /\ retries \in 0..MaxConfirmRetries
  /\ returnTo \in {"returned", "executed", "confirm_check"}

TypeOK == StoreType /\ ProcessType /\ ControlType /\ SignalType /\ LocalType

\* A run has at most one terminal event and nothing follows it in the RUN
\* stream, whatever completion, failure, watchdog, confirmation timeout,
\* pause, resume, crash and orphan scan do to each other (_is_run_terminal
\* under _resume_lock).
TerminalIsLast ==
  \A i \in 1..Len(log) - 1 : log[i] \notin TerminalPhases

\* resume() writes RunResumed only onto a paused run, also when two resumes,
\* or a resume and a confirmation, race for the same pause.
ResumeAnswersPause ==
  \A i \in 2..Len(log) :
    log[i] = "resumed" => StatusAfter[log[i-1]] = "PAUSED"

\* When run() has ended, or the startup scan is over, the stream says that
\* the run is over: no run is left RUNNING or PAUSED with nobody driving it.
NoAbandonedRun ==
  server = "serving" /\ pc["run"] = "ended" => IsTerminal

\* resume_run "wakes the scheduler loop": once no resume is in progress, the
\* loop does not sit in _wait_for_resume or _handle_pause for a run whose
\* status is RUNNING again.
ResumeWakesLoop ==
  /\ pc["loop"] = "confirm_wait" /\ confirmEvent = "clear"
       /\ lock = "free" => Status # "RUNNING"
  /\ pc["loop"] = "pause_wait" /\ pauseEvent = "clear"
       /\ lock = "free" => Status # "RUNNING"

\* Every run reaches a terminal status and stays there, even when LLM and
\* tool calls hang and the process crashes: watchdog, timeouts, orphan scan.
RunTerminates == <>[]IsTerminal

\* The status a client folds from the stream obeys RunContract.
Contract == INSTANCE RunContract WITH status <- Status

ImplementsContract == Contract!Spec
-----------------------------------------------------------------------------
(***************************************************************************)
(* The inductive invariant behind TerminalIsLast, for runs nobody deletes. *)
(***************************************************************************)
Critical == {"complete_append", "fail_append", "fail_signal", "append", "wake"}

\* _resume_lock is held exactly by the task or request between its check and
\* the end of its append.
LockInv ==
  \A p \in Procs : lock = p <=> pc[p] \in Critical

\* What was checked before an append still holds when the append is made.
CheckStillValid ==
  /\ \A p \in Procs :
       pc[p] \in {"complete_append", "fail_append", "append"} => ~IsTerminal
  /\ \A h \in Resumers \cup Confirmers : pc[h] = "append" => Status = "PAUSED"
  /\ pc["loop"] = "confirm_append" => ~IsTerminal
  /\ server = "scan_fail" => ~IsTerminal

\* The loop task lives between two steps of run(): nobody but itself and the
\* requests acts on the stream meanwhile.
RunInv ==
  /\ ~LoopStopped => pc["run"] = "await" /\ server = "serving"
  /\ pc["run"] \in {"starting", "spawned"} => pc["loop"] = "idle"
  /\ pc["loop"] = "idle" => pc["run"] \in {"starting", "spawned", "ended"}
  /\ pc["run"] = "starting" => /\ log = <<"started">>
                               /\ ~registered
                               /\ \A h \in Requests : pc[h] \in {"idle", "done"}

\* The loop task returns, and run() finishes, only on a terminal run.
OverInv ==
  /\ pc["loop"] \in {"returned", "executed", "fail_signal"} => IsTerminal
  /\ pc["run"] \in {"final", "fail_signal"} => IsTerminal

\* Outside "serving" no task runs and no request is in progress.
DownInv ==
  server # "serving" => /\ pc["run"] = "ended"
                        /\ \A h \in Requests : pc[h] \in {"idle", "done"}

\* The loop's counters stay within their budgets, and there is a confirmation
\* to settle wherever _handle_dag_confirmations needs one.
SettlingConfirmation ==
  \/ pc["loop"] \in {"confirm_append", "confirm_enter", "confirm_wait",
                     "confirm_check", "retry"}
  \/ /\ pc["loop"] \in {"fail", "fail_append", "fail_signal"}
     /\ returnTo = "confirm_check"

BudgetInv ==
  /\ pc["loop"] \in {"idle", "classify", "top", "pause_enter", "pause_wait"}
       => iteration <= RunAttemptBudget
  /\ SettlingConfirmation => queue # <<>> /\ retries < MaxConfirmRetries
  /\ pc["loop"] = "confirm_top" => queue # <<>>
  /\ pc["loop"] \in {"complete", "complete_append"}
       => returnTo # "confirm_check"

IInv ==
  /\ TypeOK /\ BudgetInv /\ LockInv /\ CheckStillValid /\ RunInv /\ OverInv /\ DownInv
  /\ TerminalIsLast /\ ResumeAnswersPause /\ NoAbandonedRun
=============================================================================
