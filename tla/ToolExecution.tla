---------------------------- MODULE ToolExecution ----------------------------
(***************************************************************************)
(* ToolExecutor.execute as the steps of a run use it: several calls of one *)
(* layer run concurrently under two semaphores (all tools, one tool), look *)
(* up the idempotency key, ask for a confirmation, run the tool with       *)
(* retries and settle the call in the event log.  A call that needs a      *)
(* confirmation returns and is executed again after the operator's answer, *)
(* or after a bare resume.                                                 *)
(*                                                                         *)
(* One action is what a call does between two awaits of execute.           *)
(*                                                                         *)
(* Abstractions.                                                           *)
(*  - An append is atomic; one that raises stores nothing (EventStore has  *)
(*    its inside).                                                         *)
(*  - A tool_call_id and a confirmation_id drawn in the same execute are   *)
(*    named alike: the step and the number of its execution.               *)
(*  - What a tool returns or raises is one of Results; OutputBlobStored    *)
(*    and GuardrailTriggered events carry data only.                       *)
(***************************************************************************)
EXTENDS Naturals, FiniteSets, Functions

CONSTANTS
  Calls,         \* steps that call a tool
  Tools,
  ToolOf,        \* the tool of a call
  Input,         \* its input, a function on the fields it has
  KeyFields,     \* idempotency_key_fields of a tool: a set of fields or NoFields
  NoFields,      \* idempotency_key_fields is None
  LayerOf,       \* the layer a call belongs to, over all plans of the run
  ReadOnly,      \* calls for which is_read_only_action holds
  Confirming,    \* calls that need a confirmation (contract or guardrail)
  Faulty,        \* calls during which the store may raise (a bound)
  Retried,       \* exceptions that retry_policy.retryable_errors lets through
  MaxParallel,   \* the executor's semaphore
  ToolLimit,     \* max_parallel of a tool
  MaxRetries,    \* retry_policy.max_retries
  MaxConfirmRetries  \* SchedulerConfig.max_confirm_retries

Raises  == {"raised", "timeout", "asks"}
Returns == {"success", "flaky", "unsuccessful", "malformed"}
Results == Raises \cup Returns

ASSUME ToolAssumption ==
  /\ ToolOf \in [Calls -> Tools]
  /\ LayerOf \in [Calls -> Nat]
  /\ ReadOnly \subseteq Calls /\ Confirming \subseteq Calls /\ Faulty \subseteq Calls
  /\ Retried \subseteq Raises
  /\ MaxParallel \in Nat \ {0}
  /\ ToolLimit \in [Tools -> Nat \ {0}]
  /\ MaxRetries \in Nat /\ MaxConfirmRetries \in Nat
  /\ IsFiniteSet(Calls)

VARIABLES
  pc,         \* where each call is
  round,      \* which execution of the call this is
  callId,     \* its tool_call_id
  attempt,    \* invocations of the tool in this execution
  result,     \* what the last invocation came to
  status,     \* ExecutionStatus of the last execution that returned
  requested,  \* ConfirmationRequested events by key: none or one id
  verdict,    \* the ConfirmationReceived event of an id
  cached,     \* ToolCompleted events with an idempotency key: none or one id
  called,     \* tool_call_ids of ToolCalled events
  settled,    \* tool_call_ids of ToolCompleted, ToolFailed and ToolTimeout
  wins        \* history: executions whose tool succeeded, with their ids

locals == <<round, callId, attempt, result>>
events == <<requested, verdict, cached, called, settled>>
vars == <<pc, round, callId, attempt, result, status,
          requested, verdict, cached, called, settled, wins>>

Ids == Calls \X (0..MaxConfirmRetries)

This(c) == <<c, round[c]>>

Keyed(c) == KeyFields[ToolOf[c]] # NoFields

\* IdempotencyKeyGenerator.compute: the tool's name and the key fields that
\* the input has.
Key(c) ==
  <<ToolOf[c], {Restrict(Input[c], KeyFields[ToolOf[c]] \cap DOMAIN Input[c])}>>

\* Without an idempotency key all calls of a tool share one confirmation key.
ConfirmKey(c) == IF Keyed(c) THEN Key(c) ELSE <<ToolOf[c], {}>>

Keys == {ConfirmKey(c) : c \in Calls}

Pcs == {"ready", "tool", "guard", "lookup", "ask", "answer", "request",
        "call", "run", "settle", "returned"}

\* "raised": execute was left by an exception.
Statuses == {"none", "blocked", "hit", "waiting", "completed", "failed", "timeout",
             "raised"}

Init ==
  /\ pc = [c \in Calls |-> "ready"]
  /\ round = [c \in Calls |-> 0]
  /\ callId = [c \in Calls |-> <<c, 0>>]
  /\ attempt = [c \in Calls |-> 0]
  /\ result = [c \in Calls |-> "none"]
  /\ status = [c \in Calls |-> "none"]
  /\ requested = [k \in Keys |-> {}]
  /\ verdict = [i \in Ids |-> "none"]
  /\ cached = [k \in Keys |-> {}]
  /\ called = {}
  /\ settled = {}
  /\ wins = {}
-----------------------------------------------------------------------------
(* Semaphores: async with self._semaphore, self._tool_semaphore(...).      *)
\* Mutant: a call that has returned keeps the common semaphore.
HoldsAnyKept(c) == pc[c] # "ready"

HoldsTool(c) == pc[c] \notin {"ready", "tool", "returned"}
HoldsAny(c) == pc[c] \notin {"ready", "returned"}

Goto(c, l) == pc' = [pc EXCEPT ![c] = l]

\* execute returns: both semaphores are released and its locals are gone.
Return(c, s) ==
  /\ Goto(c, "returned")
  /\ attempt' = [attempt EXCEPT ![c] = 0]
  /\ result' = [result EXCEPT ![c] = "none"]
  /\ status' = [status EXCEPT ![c] = s]

\* An exception fails the step, but the run if it comes from a step executed
\* again after a confirmation.
EndsRun(c) == status[c] = "raised" /\ round[c] > 0

\* Layers run one after the other, and a later one waits for confirmations.
LayerOpen(c) ==
  \A d \in Calls : LayerOf[d] < LayerOf[c] =>
    status[d] \notin {"none", "waiting"} /\ ~EndsRun(d)

Enter(c) ==
  /\ pc[c] = "ready" /\ LayerOpen(c)
  /\ Cardinality({d \in Calls : HoldsAny(d)}) < MaxParallel
  /\ Goto(c, "tool")
  /\ UNCHANGED <<locals, status, events, wins>>

\* Mutant: only the common semaphore is taken.
ToolFreeAlways(c) == TRUE

ToolFree(c) ==
  Cardinality({d \in Calls : ToolOf[d] = ToolOf[c] /\ HoldsTool(d)}) < ToolLimit[ToolOf[c]]

EnterTool(c) ==
  /\ pc[c] = "tool" /\ ToolFree(c)
  /\ Goto(c, "guard")
  /\ callId' = [callId EXCEPT ![c] = This(c)]
  /\ UNCHANGED <<round, attempt, result, status, events, wins>>
-----------------------------------------------------------------------------
(* Guardrails, idempotency and confirmation.                               *)
AfterLookup(c) == IF c \in Confirming THEN "ask" ELSE "call"

GuardBlocks(c) ==
  /\ pc[c] = "guard"
  /\ Return(c, "blocked")
  /\ UNCHANGED <<round, callId, events, wins>>

GuardPasses(c) ==
  /\ pc[c] = "guard"
  /\ Goto(c, IF Keyed(c) THEN "lookup" ELSE AfterLookup(c))
  /\ UNCHANGED <<locals, status, events, wins>>

\* A hit returns the tool_call_id of the execution that was stored.
LookupHit(c) ==
  /\ pc[c] = "lookup"
  /\ \E i \in cached[Key(c)] : callId' = [callId EXCEPT ![c] = i]
  /\ Return(c, "hit")
  /\ UNCHANGED <<round, events, wins>>

LookupMiss(c) ==
  /\ pc[c] = "lookup" /\ cached[Key(c)] = {}
  /\ Goto(c, AfterLookup(c))
  /\ UNCHANGED <<locals, status, events, wins>>

Ask(c) ==
  /\ pc[c] = "ask"
  /\ Goto(c, IF requested[ConfirmKey(c)] = {} THEN "request" ELSE "answer")
  /\ UNCHANGED <<locals, status, events, wins>>

\* append_event with a key that is taken stores nothing; the caller is told
\* of its own confirmation all the same.
Request(c) ==
  /\ pc[c] = "request"
  /\ requested' = [requested EXCEPT ![ConfirmKey(c)] = IF @ = {} THEN {This(c)} ELSE @]
  /\ Return(c, "waiting")
  /\ UNCHANGED <<round, callId, verdict, cached, called, settled, wins>>

\* Mutant: any answer lets the call proceed.
AcceptsAny(i) == verdict[i] # "none"

Accepts(i) == verdict[i] = "yes"

\* The confirmed call goes on under the tool_call_id that was confirmed.
Proceed(c) ==
  /\ pc[c] = "answer"
  /\ \E i \in requested[ConfirmKey(c)] :
       Accepts(i) /\ callId' = [callId EXCEPT ![c] = i]
  /\ Goto(c, "call")
  /\ UNCHANGED <<round, attempt, result, status, events, wins>>

Declined(c) ==
  /\ pc[c] = "answer"
  /\ \E i \in requested[ConfirmKey(c)] : ~Accepts(i) /\ verdict[i] # "none"
  /\ settled' = settled \cup {callId[c]}
  /\ Return(c, "failed")
  /\ UNCHANGED <<round, callId, requested, verdict, cached, called, wins>>

Unanswered(c) ==
  /\ pc[c] = "answer"
  /\ \E i \in requested[ConfirmKey(c)] : verdict[i] = "none"
  /\ Return(c, "waiting")
  /\ UNCHANGED <<round, callId, events, wins>>
-----------------------------------------------------------------------------
(* The call itself: ToolCalled, the sandbox under RetryRunner, settlement. *)
Call(c) ==
  /\ pc[c] = "call"
  /\ called' = called \cup {callId[c]}
  /\ Goto(c, "run")
  /\ UNCHANGED <<locals, status, requested, verdict, cached, settled, wins>>

\* Exceptions are retried as the policy says, whatever the tool does; an
\* output only if it is a transient failure of a read-only call.
WantsRetry(c, r) == r \in Retried \/ (r = "flaky" /\ c \in ReadOnly)

\* Mutant: the last attempt is retried too.
ExhaustedLate(n) == n > MaxRetries + 1

Exhausted(n) == n > MaxRetries

\* One invocation of the tool.  The last result counts once the budget is
\* used up.
Invoke(c, r) ==
  LET n == attempt[c] + 1 IN
  /\ pc[c] = "run"
  /\ attempt' = [attempt EXCEPT ![c] = n]
  /\ result' = [result EXCEPT ![c] = r]
  /\ Goto(c, IF WantsRetry(c, r) /\ ~Exhausted(n) THEN "run" ELSE "settle")
  /\ wins' = wins \cup IF r = "success" THEN {<<This(c), callId[c]>>} ELSE {}
  /\ UNCHANGED <<round, callId, status, events>>

\* ToolCompleted with the idempotency key; a key that is taken stores nothing.
SettleSuccess(c) ==
  LET fresh == ~Keyed(c) \/ cached[Key(c)] = {} IN
  /\ pc[c] = "settle" /\ result[c] = "success"
  /\ cached' = IF Keyed(c) /\ fresh THEN [cached EXCEPT ![Key(c)] = {callId[c]}] ELSE cached
  /\ settled' = IF fresh THEN settled \cup {callId[c]} ELSE settled
  /\ Return(c, "completed")
  /\ UNCHANGED <<round, callId, requested, verdict, called, wins>>

\* Mutant: an UNSUCCESSFUL result is stored under the idempotency key too.
SettleUnsuccessfulCached(c) ==
  LET fresh == Keyed(c) /\ cached[Key(c)] = {} IN
  /\ pc[c] = "settle" /\ result[c] \in {"flaky", "unsuccessful"}
  /\ cached' = IF fresh THEN [cached EXCEPT ![Key(c)] = {callId[c]}] ELSE cached
  /\ settled' = settled \cup {callId[c]}
  /\ Return(c, "completed")
  /\ UNCHANGED <<round, callId, requested, verdict, called, wins>>

\* ToolCompleted(UNSUCCESSFUL), without key.
SettleUnsuccessful(c) ==
  /\ pc[c] = "settle" /\ result[c] \in {"flaky", "unsuccessful"}
  /\ settled' = settled \cup {callId[c]}
  /\ Return(c, "completed")
  /\ UNCHANGED <<round, callId, requested, verdict, cached, called, wins>>

\* Mutant: a timeout writes no event.
SettleFailedTimeoutLost(c) ==
  /\ pc[c] = "settle" /\ result[c] \in {"raised", "malformed", "timeout"}
  /\ settled' = IF result[c] = "timeout" THEN settled ELSE settled \cup {callId[c]}
  /\ Return(c, IF result[c] = "timeout" THEN "timeout" ELSE "failed")
  /\ UNCHANGED <<round, callId, requested, verdict, cached, called, wins>>

\* ToolFailed after an exception or an unusable output, ToolTimeout.
SettleFailed(c) ==
  /\ pc[c] = "settle" /\ result[c] \in {"raised", "malformed", "timeout"}
  /\ settled' = settled \cup {callId[c]}
  /\ Return(c, IF result[c] = "timeout" THEN "timeout" ELSE "failed")
  /\ UNCHANGED <<round, callId, requested, verdict, cached, called, wins>>

\* The append of ToolCompleted is inside the try: when it raises the handler
\* writes ToolFailed, whatever the tool did, and nothing is cached.
SettleLost(c) ==
  /\ c \in Faulty
  /\ pc[c] = "settle" /\ result[c] \in {"success", "flaky", "unsuccessful"}
  /\ settled' = settled \cup {callId[c]}
  /\ Return(c, "failed")
  /\ UNCHANGED <<round, callId, requested, verdict, cached, called, wins>>

\* A look-up or an append outside the try raises, or the one of the handler:
\* execute is left by the exception with nothing written.
StoreRaises(c) ==
  /\ c \in Faulty
  /\ pc[c] \in {"guard", "lookup", "ask", "answer", "request", "call", "settle"}
  /\ result[c] # "asks"
  /\ Return(c, "raised")
  /\ UNCHANGED <<round, callId, events, wins>>

\* ConfirmationNeededError of an inner call: nothing is written.
SettleAsks(c) ==
  /\ pc[c] = "settle" /\ result[c] = "asks"
  /\ Return(c, "waiting")
  /\ UNCHANGED <<round, callId, events, wins>>
-----------------------------------------------------------------------------
(* Around the call.                                                        *)
\* _handle_dag_confirmations: once the layer's gather is over the suspended
\* steps are executed again, one step after the other, after the run was
\* resumed.  A step that is still suspended at the end fails the run.
Rerun(c) ==
  /\ pc[c] = "returned" /\ status[c] = "waiting" /\ round[c] < MaxConfirmRetries
  /\ \A d \in Calls \ {c} : LayerOf[d] = LayerOf[c] =>
       /\ pc[d] = "returned" /\ ~EndsRun(d)
       /\ status[d] = "waiting" => round[d] = 0
  /\ Goto(c, "ready")
  /\ round' = [round EXCEPT ![c] = @ + 1]
  /\ UNCHANGED <<callId, attempt, result, status, events, wins>>

\* The operator answers a stored request, once.
Confirm(i, v) ==
  /\ \E k \in Keys : i \in requested[k]
  /\ verdict[i] = "none"
  /\ verdict' = [verdict EXCEPT ![i] = v]
  /\ UNCHANGED <<pc, locals, status, requested, cached, called, settled, wins>>

Step(c) ==
  \/ Enter(c) \/ EnterTool(c) \/ GuardBlocks(c) \/ GuardPasses(c)
  \/ LookupHit(c) \/ LookupMiss(c) \/ Ask(c) \/ Request(c)
  \/ Proceed(c) \/ Declined(c) \/ Unanswered(c) \/ Call(c)
  \/ \E r \in Results : Invoke(c, r)
  \/ SettleSuccess(c) \/ SettleUnsuccessful(c) \/ SettleFailed(c) \/ SettleAsks(c)
  \/ SettleLost(c) \/ StoreRaises(c)

Next ==
  \/ \E c \in Calls : Step(c) \/ Rerun(c)
  \/ \E i \in Ids, v \in {"yes", "no"} : Confirm(i, v)

Spec == Init /\ [][Next]_vars

\* The event loop runs every call that can run, and Sandbox.invoke bounds the
\* time of an invocation.  Nothing is assumed of the operator.
FairSpec == Spec /\ \A c \in Calls : WF_vars(Step(c))
-----------------------------------------------------------------------------
TypeOK ==
  /\ pc \in [Calls -> Pcs]
  /\ round \in [Calls -> 0..MaxConfirmRetries]
  /\ callId \in [Calls -> Ids]
  /\ attempt \in [Calls -> 0..MaxRetries + 1]
  /\ result \in [Calls -> Results \cup {"none"}]
  /\ status \in [Calls -> Statuses]
  /\ requested \in [Keys -> SUBSET Ids]
  /\ verdict \in [Ids -> {"none", "yes", "no"}]
  /\ cached \in [Keys -> SUBSET Ids]
  /\ called \subseteq Ids
  /\ settled \subseteq Ids
  /\ wins \subseteq Ids \X Ids

Winner(w) == w[1][1]

SameKey(c, d) == Keyed(c) /\ Keyed(d) /\ Key(c) = Key(d)

Overlapping(c, d) == LayerOf[c] = LayerOf[d] /\ ToolLimit[ToolOf[c]] > 1

\* A call answered from the idempotency cache gets the tool_call_id of an
\* execution with the same key whose tool succeeded: a failure is never cached.
HitIsGenuine ==
  \A c \in Calls : status[c] = "hit" =>
    \E w \in wins : SameKey(Winner(w), c) /\ w[2] = callId[c]

\* A tool that needs a confirmation is called and run only after the operator
\* said yes to the request stored under the call's key.
RunsConfirmed ==
  \A c \in Confirming : pc[c] \in {"call", "run", "settle"} =>
    \E i \in requested[ConfirmKey(c)] : verdict[i] = "yes" /\ callId[c] = i

\* The ToolCompleted of a success could not be stored.
Lost(w) == status[Winner(w)] \in {"failed", "raised"}

\* The tool is not run under an idempotency key under which it has succeeded.
\* Only calls of one layer whose tool may run in parallel escape the look-up,
\* and a success that could not be stored is not known to it.
SucceedsOnce ==
  \A c \in Calls, w \in wins :
    pc[c] = "run" /\ SameKey(Winner(w), c) => Overlapping(Winner(w), c) \/ Lost(w)

\* A call that has returned for good is settled in the log, unless its success
\* was stored by another call with the same key.
CallsSettled ==
  \A c \in Calls :
    pc[c] = "returned" /\ status[c] \in {"completed", "failed", "timeout"} =>
      \/ callId[c] \in settled
      \/ Keyed(c) /\ cached[Key(c)] # {} /\ callId[c] \notin cached[Key(c)]

\* A call whose layer is open gets both semaphores and returns.
CallsReturn ==
  \A c \in Calls : (pc[c] # "returned" /\ LayerOpen(c)) ~> pc[c] = "returned"

\* A tool with idempotency_key_fields = [] is never answered from the cache.
NeverCached ==
  \A c \in Calls : KeyFields[ToolOf[c]] = {} => status[c] # "hit"
=============================================================================
