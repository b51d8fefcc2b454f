-------------------------- MODULE RunLifecycle_proofs --------------------------
(***************************************************************************)
(* Proofs about RunLifecycle for every set of requests without DELETE,     *)
(* every number of confirmations, every budget and any number of crashes.  *)
(***************************************************************************)
EXTENDS RunLifecycle, FiniteSetTheorems, TLAPS

\* What fold_events makes of each phase, once and for all.
LEMMA StatusFacts ==
  /\ StatusAfter["started"] = "RUNNING" /\ StatusAfter["resumed"] = "RUNNING"
  /\ StatusAfter["paused_user"] = "PAUSED" /\ StatusAfter["paused_confirm"] = "PAUSED"
  /\ StatusAfter["completed"] = "COMPLETED" /\ StatusAfter["failed"] = "FAILED"
<1>1. StatusAfter["started"] = "RUNNING"
  BY SMTT(30) DEF StatusAfter
<1>2. StatusAfter["resumed"] = "RUNNING"
  BY SMTT(30) DEF StatusAfter
<1>3. StatusAfter["paused_user"] = "PAUSED"
  BY SMTT(30) DEF StatusAfter
<1>4. StatusAfter["paused_confirm"] = "PAUSED"
  BY SMTT(30) DEF StatusAfter
<1>5. StatusAfter["completed"] = "COMPLETED"
  BY SMTT(30) DEF StatusAfter
<1>6. StatusAfter["failed"] = "FAILED"
  BY SMTT(30) DEF StatusAfter
<1>7. QED
  BY <1>1, <1>2, <1>3, <1>4, <1>5, <1>6

\* Appending to the stream: the status is the one of the appended event, the
\* earlier events are the ones that were there.
LEMMA WriteLemma ==
  ASSUME NEW phase \in Phases, TypeOK, Write(phase)
  PROVE  /\ log' \in Seq(Phases)
         /\ Len(log') = Len(log) + 1
         /\ Len(log) \in Nat \ {0}
         /\ \A i \in 1..Len(log) : log'[i] = log[i]
         /\ log'[Len(log')] = phase
         /\ Status' = StatusAfter[phase]
BY DEF TypeOK, StoreType, Write, Status

\* A write onto an open run keeps the terminal event last.
LEMMA OpenWrite ==
  ASSUME NEW phase \in Phases, TypeOK, TerminalIsLast, ~IsTerminal,
         Write(phase)
  PROVE  TerminalIsLast'
<1>1. log[Len(log)] \notin TerminalPhases
  BY StatusFacts DEF IsTerminal, Status, TerminalPhases
<1>2. QED
  BY <1>1, WriteLemma DEF TerminalIsLast

\* A write of anything but RunResumed, or onto a paused run, keeps every
\* RunResumed right after a pause.
LEMMA ResumeWrite ==
  ASSUME NEW phase \in Phases, TypeOK, ResumeAnswersPause, Write(phase),
         phase = "resumed" => Status = "PAUSED"
  PROVE  ResumeAnswersPause'
<1> SUFFICES ASSUME NEW i \in 2..Len(log'), log'[i] = "resumed"
             PROVE  StatusAfter[log'[i-1]] = "PAUSED"
  BY DEF ResumeAnswersPause
<1>1. CASE i = Len(log')
  BY <1>1, WriteLemma DEF Status
<1>2. CASE i # Len(log')
  <2>1. i \in 2..Len(log) /\ i \in 1..Len(log) /\ i - 1 \in 1..Len(log)
    BY <1>2, WriteLemma
  <2>2. QED
    BY <2>1, WriteLemma DEF ResumeAnswersPause
<1>3. QED
  BY <1>1, <1>2
-----------------------------------------------------------------------------
\* The tasks are processes and no request is a task.
LEMMA ProcsFacts ==
  /\ "loop" \in Procs /\ "run" \in Procs
  /\ "free" \notin Procs
  /\ \A h \in Requests : h \in Procs /\ h # "loop" /\ h # "run"
BY RequestsAssumption DEF Procs, Tasks

\* One process moves, the others stay.
LEMMA GotoLemma ==
  ASSUME ControlType, NEW p \in Procs, NEW l \in Labels, Goto(p, l)
  PROVE  /\ pc' \in [Procs -> Labels]
         /\ pc'[p] = l
         /\ \A q \in Procs : q # p => pc'[q] = pc[q]
BY DEF ControlType, Goto

\* Every step keeps the event stream and its confirmations well typed.
LEMMA StoreStep ==
  ASSUME TypeOK, [Next]_vars
  PROVE  StoreType'
<1> USE DEF TypeOK, store
<1>w. ASSUME NEW phase \in Phases, Write(phase)
      PROVE  log' \in Seq(Phases) /\ log' # <<>>
  BY <1>w DEF Write, StoreType
<1>u. CASE UNCHANGED store
  BY <1>u DEF StoreType
<1>r. CASE UNCHANGED <<orphaned, requested, received>>
           /\ \E phase \in Phases : Write(phase)
  BY <1>r, <1>w, Zenon DEF StoreType
<1>1. CASE LoopInternal
  BY <1>1, <1>u, <1>r
     DEF LoopInternal, LoopTop, PauseEnter, PauseLeave, LayerTop, Executed,
       ConfirmTop, ConfirmAppend, ConfirmEnter, ConfirmWoken,
       ConfirmTimeout, ConfirmCheck, CompleteCheck,
       CompleteAppend, FailCheck, FailAppend, FailSignal, LoopAppendRaises,
       Phases
<1>2. CASE LoopExternal
  BY <1>2, <1>u
     DEF LoopExternal, ClassifyIntent, Plan, LayerNext, LayerSettle,
       LayerSuspend, RetryStep, LoopRaise, StoreType, Orders
<1>3. CASE RunTask
  BY <1>3, <1>u, <1>r
     DEF RunTask, StartRun, StartRunFails, RunBegin, RunObserve,
       RunFinally, FailCheck, FailAppend, FailSignal, Phases
<1>4. CASE RequestBegin
  BY <1>4, <1>u
     DEF RequestBegin, ControlBegin, ConfirmBegin, DeleteCancel
<1>5. ASSUME NEW h \in Requests, RequestStep(h)
      PROVE  StoreType'
  BY <1>5, <1>u, <1>r
     DEF RequestStep, PauseCheck, PauseAppend, ResumeCheck, ResumeAppend,
       ResumeWake, ConfirmReceive, DeleteAppend, RequestAppendRaises, Phases,
       StoreType, ProcessType
<1>6. CASE Startup
  BY <1>6, <1>u, <1>r, Zenon
     DEF Startup, Restart, ScanOrphan, ScanFail, Phases, StoreType
<1>7. CASE Watchdog
  BY <1>7, <1>u DEF Watchdog
<1>8. CASE Crash
  BY <1>8, <1>u DEF Crash
<1>9. CASE Quiescent \/ UNCHANGED vars
  BY <1>9, <1>u DEF Quiescent, vars
<1>10. QED
  BY <1>1, <1>2, <1>3, <1>4, <1>5, <1>6, <1>7, <1>8, <1>9
     DEF Next, UnwatchedNext

\* Every step keeps the state of the process well typed.
LEMMA ProcessStep ==
  ASSUME TypeOK, [Next]_vars
  PROVE  ProcessType'
<1> USE ConstantsAssumption DEF TypeOK, process
<1>u. CASE UNCHANGED <<process, target, registered>>
  BY <1>u DEF ProcessType
<1>1. CASE LoopInternal
  BY <1>1, <1>u
     DEF LoopInternal, LoopTop, PauseEnter, PauseLeave, LayerTop, Executed,
       ConfirmTop, ConfirmAppend, ConfirmEnter, ConfirmWoken,
       ConfirmTimeout, ConfirmCheck, CompleteCheck,
       CompleteAppend, FailCheck, FailAppend, FailSignal, LoopAppendRaises,
       ProcessType
<1>2. CASE LoopExternal
  BY <1>2, <1>u
     DEF LoopExternal, ClassifyIntent, Plan, LayerNext, LayerSettle,
       LayerSuspend, RetryStep, LoopRaise, ProcessType
<1>3. CASE RunTask
  BY <1>3, <1>u, Zenon
     DEF RunTask, StartRun, StartRunFails, RunBegin, RunObserve,
       RunFinally, FailCheck, FailAppend, FailSignal, ProcessType
<1>4. CASE RequestBegin
  BY <1>4, <1>u
     DEF RequestBegin, ControlBegin, ConfirmBegin, DeleteCancel,
       ProcessType
<1>5. ASSUME NEW h \in Requests, RequestStep(h)
      PROVE  ProcessType'
  BY <1>5, <1>u, Zenon
     DEF RequestStep, PauseCheck, PauseAppend, ResumeCheck, ResumeAppend,
       ResumeWake, ConfirmReceive, DeleteAppend, RequestAppendRaises, ProcessType
<1>6. CASE Startup
  BY <1>6, <1>u
     DEF Startup, Restart, ScanOrphan, ScanFail, ProcessType
<1>7. CASE Watchdog
  BY <1>7, <1>u DEF Watchdog
<1>8. CASE Crash
  <2>1. /\ server' = "down" /\ crashes' = crashes + 1 /\ crashes < MaxCrashes
        /\ target' = target
    BY <1>8 DEF Crash
  <2>2. registered' \in BOOLEAN
    BY <1>8, Zenon DEF Crash
  <2>3. crashes' \in 0..MaxCrashes
    BY <2>1 DEF ProcessType
  <2>4. QED
    BY <2>1, <2>2, <2>3 DEF ProcessType
<1>9. CASE Quiescent \/ UNCHANGED vars
  BY <1>9, <1>u DEF Quiescent, vars
<1>10. QED
  BY <1>1, <1>2, <1>3, <1>4, <1>5, <1>6, <1>7, <1>8, <1>9
     DEF Next, UnwatchedNext

\* Every step keeps the asyncio events well typed.
LEMMA SignalStep ==
  ASSUME TypeOK, [Next]_vars
  PROVE  SignalType'
<1> USE DEF TypeOK, signals
<1>u. CASE UNCHANGED signals
  BY <1>u, Zenon DEF SignalType
<1>1. CASE LoopInternal
  BY <1>1, <1>u
     DEF LoopInternal, LoopTop, PauseEnter, PauseLeave, LayerTop, Executed,
       ConfirmTop, ConfirmAppend, ConfirmEnter, ConfirmWoken,
       ConfirmTimeout, ConfirmCheck, CompleteCheck,
       CompleteAppend, FailCheck, FailAppend, FailSignal, LoopAppendRaises,
       SignalType, EventStates, SetIfPresent
<1>2. CASE LoopExternal
  BY <1>2, <1>u
     DEF LoopExternal, ClassifyIntent, Plan, LayerNext, LayerSettle,
       LayerSuspend, RetryStep, LoopRaise, SignalType,
       EventStates, SetIfPresent
<1>3. CASE RunTask
  BY <1>3, <1>u
     DEF RunTask, StartRun, StartRunFails, RunBegin, RunObserve,
       RunFinally, FailCheck, FailAppend, FailSignal, SignalType,
       EventStates, SetIfPresent
<1>4. CASE RequestBegin
  BY <1>4, <1>u
     DEF RequestBegin, ControlBegin, ConfirmBegin, DeleteCancel,
       SignalType, EventStates, SetIfPresent
<1>5. ASSUME NEW h \in Requests, RequestStep(h)
      PROVE  SignalType'
  BY <1>5, <1>u
     DEF RequestStep, PauseCheck, PauseAppend, ResumeCheck, ResumeAppend,
       ResumeWake, ConfirmReceive, DeleteAppend, RequestAppendRaises, SignalType,
       EventStates, SetIfPresent
<1>6. CASE Startup
  BY <1>6, <1>u
     DEF Startup, Restart, ScanOrphan, ScanFail, SignalType, EventStates,
       SetIfPresent
<1>7. CASE Watchdog
  BY <1>7, <1>u DEF Watchdog
<1>8. CASE Crash
  BY <1>8 DEF Crash, SignalType, EventStates
<1>9. CASE Quiescent \/ UNCHANGED vars
  BY <1>9, <1>u DEF Quiescent, vars
<1>10. QED
  BY <1>1, <1>2, <1>3, <1>4, <1>5, <1>6, <1>7, <1>8, <1>9
     DEF Next, UnwatchedNext

\* Every step keeps the program counters and _resume_lock well typed.
LEMMA ControlStep ==
  ASSUME TypeOK, [Next]_vars
  PROVE  ControlType'
<1> USE DEF TypeOK
<1>g. ASSUME NEW p \in Procs, NEW l \in Labels, Goto(p, l),
             lock' \in Procs \cup {"free"}
      PROVE  ControlType'
  BY <1>g, GotoLemma DEF ControlType
<1>u. CASE UNCHANGED <<pc, lock>>
  BY <1>u DEF ControlType
<1>l. ASSUME NEW l \in LoopLabels, Goto("loop", l), lock' \in {lock, "free", "loop"}
      PROVE  ControlType'
  <2>1. l \in Labels /\ lock' \in Procs \cup {"free"}
    BY <1>l, ProcsFacts DEF Labels, ControlType
  <2>2. QED
    BY <1>l, <1>g, <2>1, ProcsFacts
<1>1. CASE LoopInternal
  <2>1. CASE LoopTop \/ PauseEnter \/ PauseLeave
    BY <2>1, <1>l, <1>u DEF LoopTop, PauseEnter, PauseLeave, LoopLabels, Call
  <2>2. CASE LayerTop \/ Executed
    BY <2>2, <1>l, <1>u DEF LayerTop, Executed, LoopLabels, Call
  <2>3. CASE ConfirmTop \/ ConfirmAppend \/ ConfirmEnter
    BY <2>3, <1>l, <1>u DEF ConfirmTop, ConfirmAppend, ConfirmEnter, LoopLabels, Call
  <2>4. CASE ConfirmWoken \/ ConfirmTimeout \/ ConfirmCheck
    BY <2>4, <1>l, <1>u DEF ConfirmWoken, ConfirmTimeout, ConfirmCheck, LoopLabels, Call
  <2>5. CASE CompleteCheck \/ CompleteAppend
    BY <2>5, <1>l, <1>u DEF CompleteCheck, CompleteAppend, LoopLabels, LocalType
  <2>6. CASE FailCheck("loop") \/ FailAppend("loop") \/ FailSignal("loop")
    BY <2>6, <1>l, <1>u, ProcsFacts
       DEF FailCheck, FailAppend, FailSignal, AfterCall, LoopLabels, LocalType
  <2>7. CASE LoopAppendRaises
    BY <2>7, <1>l DEF LoopAppendRaises, LoopLabels
  <2>8. QED
    BY <1>1, <2>1, <2>2, <2>3, <2>4, <2>5, <2>6, <2>7 DEF LoopInternal
<1>2. CASE LoopExternal
  <2>1. CASE ClassifyIntent \/ Plan
    BY <2>1, <1>l, <1>u DEF ClassifyIntent, Plan, LoopLabels, Call
  <2>2. CASE LayerNext \/ LayerSettle \/ LayerSuspend
    BY <2>2, <1>l, <1>u DEF LayerNext, LayerSettle, LayerSuspend, LoopLabels, Call
  <2>3. CASE RetryStep \/ LoopRaise
    BY <2>3, <1>l, <1>u DEF RetryStep, LoopRaise, LoopLabels, Call
  <2>4. QED
    BY <1>2, <2>1, <2>2, <2>3 DEF LoopExternal
<1>3. CASE RunTask
  <2>1. CASE StartRun \/ StartRunFails
    BY <2>1, <1>g, <1>u, ProcsFacts DEF StartRun, StartRunFails, ControlType, Labels, RunLabels
  <2>2. CASE RunBegin
    BY <2>2, ProcsFacts DEF RunBegin, ControlType, Labels, RunLabels, LoopLabels
  <2>3. CASE RunObserve \/ RunFinally
    BY <2>3, <1>g, <1>u, ProcsFacts DEF RunObserve, RunFinally, ControlType, Labels, RunLabels
  <2>4. CASE FailCheck("run") \/ FailAppend("run") \/ FailSignal("run")
    BY <2>4, <1>g, <1>u, ProcsFacts
       DEF FailCheck, FailAppend, FailSignal, AfterCall, ControlType, Labels, RunLabels
  <2>5. QED
    BY <1>3, <2>1, <2>2, <2>3, <2>4 DEF RunTask
<1>4. CASE RequestBegin
  <2>1. CASE \E h \in Requests, l \in Labels : Goto(h, l) /\ UNCHANGED lock
    BY <2>1, <1>g, ProcsFacts DEF ControlType
  <2>2. ASSUME NEW h \in Pausers \cup Resumers, ControlBegin(h)
        PROVE  ControlType'
    BY <2>1, <2>2 DEF ControlBegin, Requests, Labels, RequestLabels
  <2>3. ASSUME NEW h \in Confirmers, ConfirmBegin(h)
        PROVE  ControlType'
    BY <2>1, <2>3 DEF ConfirmBegin, Requests, Labels, RequestLabels
  <2>4. ASSUME NEW h \in Deleters, DeleteCancel(h)
        PROVE  ControlType'
    <3>1. Goto(h, "delete") /\ UNCHANGED lock
      BY <2>4 DEF DeleteCancel
    <3>2. QED
      BY <2>1, <3>1 DEF Requests, Labels, RequestLabels
  <2>5. QED
    BY <1>4, <2>2, <2>3, <2>4 DEF RequestBegin
<1>5. ASSUME NEW h \in Requests, RequestStep(h)
      PROVE  ControlType'
  BY <1>5, <1>g, <1>u, ProcsFacts
     DEF RequestStep, PauseCheck, PauseAppend, ResumeCheck, ResumeAppend,
       ResumeWake, ConfirmReceive, DeleteAppend, RequestAppendRaises, ControlType,
       Labels, LoopLabels, RunLabels, RequestLabels, Call,
       AfterCall, LocalType
<1>6. CASE Startup
  BY <1>6, <1>g, <1>u, ProcsFacts
     DEF Startup, Restart, ScanOrphan, ScanFail, ControlType, Labels,
       LoopLabels, RunLabels, RequestLabels, Call, AfterCall,
       LocalType
<1>7. CASE Watchdog
  BY <1>7, ProcsFacts DEF Watchdog, ControlType, LockAfterCancel, Labels, LoopLabels, RunLabels
<1>8. CASE Crash
  BY <1>8, ProcsFacts DEF Crash, ControlType, Labels, LoopLabels, RunLabels, RequestLabels
<1>9. CASE Quiescent \/ UNCHANGED vars
  BY <1>9, <1>u DEF Quiescent, vars
<1>10. QED
  BY <1>1, <1>2, <1>3, <1>4, <1>5, <1>6, <1>7, <1>8, <1>9
     DEF Next, UnwatchedNext

\* The loop task's counters stay within their budgets.
LEMMA LocalStep ==
  ASSUME TypeOK, BudgetInv, RunInv, OverInv, [Next]_vars
  PROVE  LocalType' /\ BudgetInv'
<1> USE ConstantsAssumption DEF TypeOK, locals
<1>u. CASE UNCHANGED locals /\ pc'["loop"] = pc["loop"]
  BY <1>u DEF LocalType, BudgetInv, SettlingConfirmation
<1>s. ASSUME UNCHANGED locals,
             pc'["loop"] \in {"idle", "returned", "raised", "cancelled"},
             pc["loop"] = "idle" \/ pc'["loop"] # "idle"
      PROVE  LocalType' /\ BudgetInv'
  BY <1>s DEF LocalType, BudgetInv, SettlingConfirmation
<1>1. CASE LoopInternal
  <2>1. CASE LoopTop
    BY <2>1, GotoLemma, ProcsFacts
       DEF LoopTop, Labels, LoopLabels, ControlType, LocalType, BudgetInv,
         SettlingConfirmation, Call, BudgetExhausted
  <2>2. CASE PauseEnter
    BY <2>2, GotoLemma, ProcsFacts
       DEF PauseEnter, Labels, LoopLabels, ControlType, LocalType, BudgetInv,
         SettlingConfirmation
  <2>3. CASE PauseLeave
    BY <2>3, GotoLemma, ProcsFacts
       DEF PauseLeave, Labels, LoopLabels, ControlType, LocalType, BudgetInv,
         SettlingConfirmation
  <2>4. CASE LayerTop
    BY <2>4, GotoLemma, ProcsFacts
       DEF LayerTop, Labels, LoopLabels, ControlType, LocalType, BudgetInv,
         SettlingConfirmation, Call
  <2>5. CASE ConfirmTop
    BY <2>5, GotoLemma, ProcsFacts
       DEF ConfirmTop, Labels, LoopLabels, ControlType, LocalType, BudgetInv,
         SettlingConfirmation, Call
  <2>6. CASE ConfirmAppend
    BY <2>6, GotoLemma, ProcsFacts
       DEF ConfirmAppend, Labels, LoopLabels, ControlType, LocalType, BudgetInv,
         SettlingConfirmation
  <2>7. CASE ConfirmEnter
    BY <2>7, GotoLemma, ProcsFacts
       DEF ConfirmEnter, Labels, LoopLabels, ControlType, LocalType, BudgetInv,
         SettlingConfirmation
  <2>8. CASE ConfirmWoken
    BY <2>8, GotoLemma, ProcsFacts
       DEF ConfirmWoken, Labels, LoopLabels, ControlType, LocalType, BudgetInv,
         SettlingConfirmation
  <2>9. CASE ConfirmTimeout
    BY <2>9, GotoLemma, ProcsFacts
       DEF ConfirmTimeout, Labels, LoopLabels, ControlType, LocalType, BudgetInv,
         SettlingConfirmation, Call
  <2>10. CASE ConfirmCheck
    BY <2>10, GotoLemma, ProcsFacts
       DEF ConfirmCheck, Labels, LoopLabels, ControlType, LocalType, BudgetInv,
         SettlingConfirmation, Call
  <2>11. CASE CompleteCheck
    BY <2>11, GotoLemma, ProcsFacts
       DEF CompleteCheck, Labels, LoopLabels, ControlType, LocalType, BudgetInv,
         SettlingConfirmation
  <2>12. CASE CompleteAppend
    BY <2>12, GotoLemma, ProcsFacts
       DEF CompleteAppend, Labels, LoopLabels, ControlType, LocalType, BudgetInv,
         SettlingConfirmation
  <2>13. CASE FailCheck("loop")
    BY <2>13, GotoLemma, ProcsFacts
       DEF FailCheck, Labels, LoopLabels, ControlType, LocalType, BudgetInv,
         SettlingConfirmation, AfterCall
  <2>14. CASE FailAppend("loop")
    BY <2>14, GotoLemma, ProcsFacts
       DEF FailAppend, Labels, LoopLabels, ControlType, LocalType, BudgetInv,
         SettlingConfirmation
  <2>15. CASE FailSignal("loop")
    BY <2>15, GotoLemma, ProcsFacts
       DEF FailSignal, Labels, LoopLabels, ControlType, LocalType, BudgetInv,
         SettlingConfirmation, AfterCall
  <2>16. CASE Executed
    BY <2>16, GotoLemma, ProcsFacts
       DEF Executed, Labels, LoopLabels, ControlType, LocalType, BudgetInv,
         SettlingConfirmation, Call, OverInv
  <2>17. CASE LoopAppendRaises
    BY <2>17, GotoLemma, ProcsFacts
       DEF LoopAppendRaises, Labels, LoopLabels, ControlType, LocalType,
         BudgetInv, SettlingConfirmation
  <2>18. QED
    BY <1>1, <2>1, <2>2, <2>3, <2>4, <2>5, <2>6, <2>7, <2>8, <2>9, <2>10,
       <2>11, <2>12, <2>13, <2>14, <2>15, <2>16, <2>17
       DEF LoopInternal
<1>2. CASE LoopExternal
  <2>1. CASE ClassifyIntent
    BY <2>1, GotoLemma, ProcsFacts
       DEF ClassifyIntent, Labels, LoopLabels, ControlType, LocalType, BudgetInv,
         SettlingConfirmation, Call
  <2>2. CASE Plan
    BY <2>2, GotoLemma, ProcsFacts
       DEF Plan, Labels, LoopLabels, ControlType, LocalType, BudgetInv,
         SettlingConfirmation, Call
  <2>3. CASE LayerNext
    BY <2>3, GotoLemma, ProcsFacts
       DEF LayerNext, Labels, LoopLabels, ControlType, LocalType, BudgetInv,
         SettlingConfirmation
  <2>4. CASE LayerSettle
    BY <2>4, GotoLemma, ProcsFacts
       DEF LayerSettle, Labels, LoopLabels, ControlType, LocalType, BudgetInv,
         SettlingConfirmation, Call
  <2>5. CASE RetryStep
    <3>1. queue \in Seq(Confirms) /\ queue # <<>> /\ retries < MaxConfirmRetries
      BY <2>5 DEF RetryStep, BudgetInv, SettlingConfirmation, LocalType
    <3>2. CASE queue' = Tail(queue) /\ retries' = 0
      <4>1. queue' \in Seq(Confirms)
        BY <3>1, <3>2
      <4>2. /\ UNCHANGED <<iteration, layers, returnTo>>
            /\ \/ queue' = <<>> /\ Goto("loop", "layered")
               \/ queue' # <<>> /\ Goto("loop", "confirm_top")
        BY <2>5, <3>1, <3>2 DEF RetryStep, LocalType
      <4>3. \/ pc'["loop"] = "layered"
            \/ pc'["loop"] = "confirm_top" /\ queue' # <<>>
        BY <4>2, GotoLemma, ProcsFacts DEF Labels, LoopLabels
      <4>4. QED
        BY <3>2, <4>1, <4>2, <4>3
           DEF LocalType, BudgetInv, SettlingConfirmation
    <3>3. CASE queue' = queue /\ retries' = retries + 1
      <4>1. pc'["loop"] = "confirm_top"
        BY <2>5, <3>1, <3>3, GotoLemma, ProcsFacts
           DEF RetryStep, Labels, LoopLabels, LocalType
      <4>2. UNCHANGED <<iteration, layers, returnTo>>
        BY <2>5 DEF RetryStep
      <4>3. QED
        BY <3>1, <3>3, <4>1, <4>2
           DEF LocalType, BudgetInv, SettlingConfirmation
    <3>4. QED
      BY <2>5, <3>2, <3>3 DEF RetryStep
  <2>6. CASE LoopRaise
    BY <2>6, GotoLemma, ProcsFacts
       DEF LoopRaise, Labels, LoopLabels, ControlType, LocalType, BudgetInv,
         SettlingConfirmation
  <2>7. CASE LayerSuspend
    <3> DEFINE S == Confirms \ received
    <3>1. PICK q \in Orders(S) : queue' = q
      BY <2>7 DEF LayerSuspend
    <3>2. Cardinality(S) \in Nat
      BY FS_Difference, FS_CardinalityType, Zenon
    <3>3. \E n \in 1..Cardinality(S) : q \in [1..n -> S]
      BY <3>1, Zenon DEF Orders
    <3>4. PICK n \in 1..Cardinality(S) : q \in [1..n -> S]
      BY <3>3
    <3>5. n \in Nat \ {0}
      BY <3>2
    <3>6. q \in Seq(Confirms) /\ q # <<>>
      BY <3>4, <3>5
    <3>7. QED
      BY <2>7, <3>1, <3>6, GotoLemma, ProcsFacts, SMTT(60)
         DEF LayerSuspend, Labels, LoopLabels, ControlType, LocalType,
           BudgetInv, SettlingConfirmation
  <2>8. QED
    BY <1>2, <2>1, <2>2, <2>3, <2>4, <2>5, <2>6, <2>7 DEF LoopExternal
<1>3. CASE RunTask
  <2>1. CASE RunBegin
    <3>1. UNCHANGED locals /\ pc'["loop"] = "classify"
      BY <2>1, ProcsFacts DEF RunBegin, ControlType
    <3>2. pc["loop"] = "idle"
      BY <2>1 DEF RunBegin, RunInv
    <3>3. QED
      BY <3>1, <3>2 DEF LocalType, BudgetInv, SettlingConfirmation
  <2>2. CASE \E l \in RunLabels : Goto("run", l) /\ UNCHANGED locals
    BY <2>2, <1>u, GotoLemma, ProcsFacts DEF Labels
  <2>3. CASE ~RunBegin
    BY <1>3, <2>2, <2>3 DEF RunTask, StartRun, StartRunFails, RunObserve,
         RunFinally, FailCheck, FailAppend, FailSignal, AfterCall, RunLabels
  <2>4. QED
    BY <2>1, <2>3
<1>4. CASE RequestBegin
  <2>1. ASSUME NEW h \in Requests, NEW l \in Labels, Goto(h, l),
               UNCHANGED locals
        PROVE  LocalType' /\ BudgetInv'
    BY <2>1, <1>u, GotoLemma, ProcsFacts, Zenon
  <2>2. \E h \in Requests, l \in RequestLabels : Goto(h, l) /\ UNCHANGED locals
    BY <1>4, Zenon DEF RequestBegin, ControlBegin, ConfirmBegin, DeleteCancel,
                Requests, RequestLabels
  <2>3. QED
    BY <2>1, <2>2 DEF Labels
<1>5. ASSUME NEW h \in Requests, RequestStep(h)
      PROVE  LocalType' /\ BudgetInv'
  <2>1. ASSUME NEW l \in Labels, Goto(h, l),
               UNCHANGED locals
        PROVE  LocalType' /\ BudgetInv'
    BY <2>1, <1>u, GotoLemma, ProcsFacts, Zenon
  <2>2. \E l \in RequestLabels : Goto(h, l) /\ UNCHANGED locals
    BY <1>5 DEF RequestStep, PauseCheck, PauseAppend, ResumeCheck,
         ResumeAppend, ResumeWake, ConfirmReceive, DeleteAppend,
         RequestAppendRaises, RequestLabels
  <2>3. QED
    BY <2>1, <2>2, Zenon DEF Labels
<1>6. CASE Startup
  BY <1>6, <1>u
     DEF Startup, Restart, ScanOrphan, ScanFail
<1>7. CASE Watchdog
  BY <1>7, <1>s, ProcsFacts DEF Watchdog, ControlType
<1>8. CASE Crash
  BY <1>8, <1>s, ProcsFacts DEF Crash, ControlType
<1>9. CASE Quiescent \/ UNCHANGED vars
  BY <1>9, <1>u DEF Quiescent, vars
<1>10. QED
  BY <1>1, <1>2, <1>3, <1>4, <1>5, <1>6, <1>7, <1>8, <1>9
     DEF Next, UnwatchedNext

-----------------------------------------------------------------------------
ControlInv ==
  LockInv /\ CheckStillValid /\ RunInv /\ OverInv /\ DownInv /\ NoAbandonedRun

StreamInv == TerminalIsLast /\ ResumeAnswersPause

\* A step that appends nothing leaves status and stream properties alone.
LEMMA QuietStep ==
  ASSUME StreamInv, UNCHANGED log
  PROVE  StreamInv' /\ Status' = Status /\ (IsTerminal' <=> IsTerminal)
BY DEF StreamInv, TerminalIsLast, ResumeAnswersPause, Status, IsTerminal

\* The status after a step that appends to an open run.
LEMMA LoudStep ==
  ASSUME TypeOK, StreamInv, ~IsTerminal, NEW phase \in Phases, Write(phase),
         phase = "resumed" => Status = "PAUSED"
  PROVE  /\ StreamInv'
         /\ Status' = StatusAfter[phase]
         /\ IsTerminal' <=> phase \in TerminalPhases
<1>1. StreamInv'
  BY OpenWrite, ResumeWrite DEF StreamInv
<1>2. Status' = StatusAfter[phase]
  BY WriteLemma
<1>3. QED
  BY <1>1, <1>2, StatusFacts DEF IsTerminal, TerminalPhases, Phases

\* _resume_lock is taken and left with the critical labels.
LEMMA LockMove ==
  ASSUME ControlType, LockInv, NEW q \in Procs, NEW l \in Labels, Goto(q, l),
         \/ lock' = lock /\ (l \in Critical <=> pc[q] \in Critical)
         \/ lock = "free" /\ lock' = q /\ l \in Critical
         \/ lock = q /\ lock' = "free" /\ l \notin Critical
  PROVE  LockInv'
BY GotoLemma, ProcsFacts DEF LockInv

\* The loop task moves and appends nothing.
LEMMA LoopQuiet ==
  ASSUME TypeOK, ControlInv, StreamInv, ~LoopStopped,
         NEW l \in LoopLabels \ {"idle"}, Goto("loop", l),
         LockInv', UNCHANGED <<log, server, registered>>,
         l \in {"returned", "executed", "fail_signal"} => IsTerminal,
         l \in {"confirm_append", "complete_append", "fail_append"} => ~IsTerminal
  PROVE  ControlInv' /\ StreamInv'
<1>1. /\ StreamInv' /\ Status' = Status /\ (IsTerminal' <=> IsTerminal)
  BY QuietStep
<1>2. /\ pc'["loop"] = l
      /\ \A q \in Procs : q # "loop" => pc'[q] = pc[q]
      /\ pc'["run"] = pc["run"]
      /\ \A h \in Requests : pc'[h] = pc[h]
  BY GotoLemma, ProcsFacts DEF TypeOK, Labels
<1>3. pc["run"] = "await" /\ server = "serving"
  BY DEF ControlInv, RunInv
<1>4. CheckStillValid'
  BY <1>1, <1>2, <1>3, ProcsFacts
     DEF ControlInv, CheckStillValid, LoopLabels, Requests
<1>5. RunInv' /\ DownInv' /\ NoAbandonedRun'
  BY <1>1, <1>2, <1>3 DEF RunInv, DownInv, NoAbandonedRun
<1>6. OverInv'
  BY <1>1, <1>2, <1>3 DEF OverInv
<1>7. QED
  BY <1>1, <1>4, <1>5, <1>6 DEF ControlInv

\* The loop task appends an event it has checked to be allowed.
LEMMA LoopLoud ==
  ASSUME TypeOK, ControlInv, StreamInv, ~LoopStopped,
         NEW l \in {"confirm_enter", "confirm_check", "returned", "executed",
                    "fail_signal"},
         NEW phase \in Phases \ {"resumed"},
         Goto("loop", l), Write(phase), LockInv',
         UNCHANGED <<server, registered>>,
         l = "confirm_enter" => phase = "paused_confirm" /\ pc["loop"] = "confirm_append",
         l # "confirm_enter" => phase \in TerminalPhases /\ lock = "loop",
         ~IsTerminal
  PROVE  ControlInv' /\ StreamInv'
<1>1. /\ StreamInv' /\ Status' = StatusAfter[phase]
      /\ IsTerminal' <=> phase \in TerminalPhases
  BY LoudStep
<1>2. /\ pc'["loop"] = l
      /\ \A q \in Procs : q # "loop" => pc'[q] = pc[q]
      /\ pc'["run"] = pc["run"]
      /\ \A h \in Requests : pc'[h] = pc[h]
  BY GotoLemma, ProcsFacts DEF TypeOK, Labels, LoopLabels
<1>3. pc["run"] = "await" /\ server = "serving"
  BY DEF ControlInv, RunInv
<1>4. CheckStillValid'
  <2>1. CASE l = "confirm_enter"
    BY <1>1, <1>2, <1>3, <2>1, ProcsFacts, StatusFacts
       DEF CheckStillValid, TerminalPhases
  <2>2. CASE lock = "loop"
    <3>1. \A q \in Procs : q # "loop" => pc'[q] \notin Critical
      BY <1>2, <2>2 DEF ControlInv, LockInv
    <3>2. QED
      BY <1>2, <1>3, <3>1, ProcsFacts
         DEF CheckStillValid, Critical, Requests
  <2>3. QED
    BY <2>1, <2>2
<1>5. RunInv' /\ DownInv' /\ NoAbandonedRun'
  BY <1>2, <1>3 DEF RunInv, DownInv, NoAbandonedRun
<1>6. OverInv'
  BY <1>1, <1>2, <1>3 DEF OverInv
<1>7. QED
  BY <1>1, <1>4, <1>5, <1>6 DEF ControlInv

\* The loop task (_run_loop and what it calls) preserves the invariant.
LEMMA LoopStep ==
  ASSUME TypeOK, ControlInv, StreamInv, LoopInternal \/ LoopExternal
  PROVE  ControlInv' /\ StreamInv'
<1> USE DEF store, process
<1>m. ASSUME NEW l \in LoopLabels \ (Critical \cup {"idle"}), Goto("loop", l),
             pc["loop"] \notin Critical, ~LoopStopped,
             UNCHANGED <<log, server, registered, lock>>,
             l \in {"returned", "executed"} => IsTerminal,
             l = "confirm_append" => ~IsTerminal
      PROVE  ControlInv' /\ StreamInv'
  <2>1. LockInv'
    BY <1>m, LockMove, ProcsFacts DEF TypeOK, ControlInv, Labels
  <2>2. QED
    BY <1>m, <2>1, LoopQuiet DEF Critical
<1>1. CASE LoopTop
  BY <1>1, <1>m DEF LoopTop, Call, LoopLabels, Critical, LoopStopped
<1>2. CASE PauseEnter
  BY <1>2, <1>m DEF PauseEnter, LoopLabels, Critical, LoopStopped
<1>3. CASE PauseLeave
  BY <1>3, <1>m DEF PauseLeave, LoopLabels, Critical, LoopStopped
<1>4. CASE LayerTop
  BY <1>4, <1>m DEF LayerTop, Call, LoopLabels, Critical, LoopStopped
<1>5. CASE ConfirmTop
  BY <1>5, <1>m DEF ConfirmTop, Call, LoopLabels, Critical, LoopStopped
<1>6. CASE ConfirmEnter
  BY <1>6, <1>m DEF ConfirmEnter, LoopLabels, Critical, LoopStopped
<1>7. CASE ConfirmWoken
  BY <1>7, <1>m DEF ConfirmWoken, LoopLabels, Critical, LoopStopped
<1>8. CASE ConfirmTimeout
  BY <1>8, <1>m DEF ConfirmTimeout, Call, LoopLabels, Critical, LoopStopped
<1>9. CASE ConfirmCheck
  BY <1>9, <1>m DEF ConfirmCheck, Call, LoopLabels, Critical, LoopStopped
<1>10. CASE ClassifyIntent
  BY <1>10, <1>m DEF ClassifyIntent, Call, LoopLabels, Critical, LoopStopped
<1>11. CASE Plan
  BY <1>11, <1>m DEF Plan, Call, LoopLabels, Critical, LoopStopped
<1>12. CASE LayerNext
  BY <1>12, <1>m DEF LayerNext, LoopLabels, Critical, LoopStopped
<1>13. CASE LayerSettle
  BY <1>13, <1>m DEF LayerSettle, Call, LoopLabels, Critical, LoopStopped
<1>14. CASE LayerSuspend
  BY <1>14, <1>m DEF LayerSuspend, LoopLabels, Critical, LoopStopped
<1>15. CASE RetryStep
  BY <1>15, <1>m DEF RetryStep, LoopLabels, Critical, LoopStopped
<1>16. CASE LoopRaise
  BY <1>16, <1>m DEF LoopRaise, LoopLabels, Critical, LoopStopped
<1>17. CASE ConfirmAppend
  <2>1. LockInv'
    BY <1>17, LockMove, ProcsFacts
       DEF ConfirmAppend, TypeOK, ControlInv, Labels, LoopLabels, Critical
  <2>2. ~LoopStopped /\ ~IsTerminal
    BY <1>17 DEF ConfirmAppend, LoopStopped, ControlInv, CheckStillValid
  <2>3. QED
    BY <1>17, <2>1, <2>2, LoopLoud DEF ConfirmAppend, Phases
<1>18. CASE CompleteCheck
  <2>1. PICK l \in {"complete_append", "returned", "executed", "confirm_check"} :
          /\ Goto("loop", l)
          /\ l = "complete_append" <=> ~IsTerminal
          /\ lock = "free"
          /\ lock' = IF l = "complete_append" THEN "loop" ELSE lock
    BY <1>18 DEF CompleteCheck, TypeOK, LocalType
  <2>2. LockInv'
    BY <1>18, <2>1, LockMove, ProcsFacts
       DEF CompleteCheck, TypeOK, ControlInv, Labels, LoopLabels, Critical
  <2>3. QED
    BY <1>18, <2>1, <2>2, LoopQuiet DEF CompleteCheck, LoopLabels, LoopStopped
<1>19. CASE CompleteAppend
  <2>1. lock = "loop" /\ ~LoopStopped /\ ~IsTerminal
    BY <1>19, ProcsFacts DEF CompleteAppend, LoopStopped, ControlInv,
         LockInv, CheckStillValid, Critical
  <2>2. returnTo \in {"returned", "executed", "confirm_check"}
    BY DEF TypeOK, LocalType
  <2>3. LockInv'
    BY <1>19, <2>1, <2>2, LockMove, ProcsFacts
       DEF CompleteAppend, TypeOK, ControlInv, Labels, LoopLabels, Critical
  <2>4. QED
    BY <1>19, <2>1, <2>2, <2>3, LoopLoud
       DEF CompleteAppend, Phases, TerminalPhases
<1>20. CASE FailCheck("loop")
  <2>1. PICK l \in {"fail_append", "returned", "executed", "confirm_check"} :
          /\ Goto("loop", l)
          /\ l = "fail_append" <=> ~IsTerminal
          /\ lock = "free"
          /\ lock' = IF l = "fail_append" THEN "loop" ELSE lock
    BY <1>20 DEF FailCheck, AfterCall, TypeOK, LocalType
  <2>2. LockInv'
    BY <1>20, <2>1, LockMove, ProcsFacts
       DEF FailCheck, TypeOK, ControlInv, Labels, LoopLabels, Critical
  <2>3. QED
    BY <1>20, <2>1, <2>2, LoopQuiet DEF FailCheck, LoopLabels, LoopStopped
<1>21. CASE FailAppend("loop")
  <2>1. lock = "loop" /\ ~LoopStopped /\ ~IsTerminal
    BY <1>21, ProcsFacts DEF FailAppend, LoopStopped, ControlInv,
         LockInv, CheckStillValid, Critical
  <2>2. LockInv'
    BY <1>21, <2>1, LockMove, ProcsFacts
       DEF FailAppend, TypeOK, ControlInv, Labels, LoopLabels, Critical
  <2>3. QED
    BY <1>21, <2>1, <2>2, LoopLoud DEF FailAppend, Phases, TerminalPhases
<1>22. CASE FailSignal("loop")
  <2>1. PICK l \in {"returned", "executed", "confirm_check"} : Goto("loop", l)
    BY <1>22 DEF FailSignal, AfterCall, TypeOK, LocalType
  <2>2. lock = "loop" /\ IsTerminal /\ ~LoopStopped
    BY <1>22, ProcsFacts DEF FailSignal, ControlInv, LockInv, OverInv,
         Critical, LoopStopped
  <2>3. LockInv'
    BY <1>22, <2>1, <2>2, LockMove, ProcsFacts
       DEF FailSignal, TypeOK, ControlInv, Labels, LoopLabels, Critical
  <2>4. QED
    BY <1>22, <2>1, <2>2, <2>3, LoopQuiet DEF FailSignal, LoopLabels
<1>23. CASE Executed
  BY <1>23, <1>m DEF Executed, Call, LoopLabels, Critical, LoopStopped
<1>24. CASE LoopAppendRaises
  <2>1. lock = "loop" <=> pc["loop"] \in Critical
    BY ProcsFacts DEF ControlInv, LockInv
  <2>2. LockInv'
    BY <1>24, <2>1, LockMove, ProcsFacts
       DEF LoopAppendRaises, TypeOK, ControlInv, Labels, LoopLabels, Critical
  <2>3. QED
    BY <1>24, <2>2, LoopQuiet DEF LoopAppendRaises, LoopLabels, LoopStopped
<1>25. QED
  BY <1>1, <1>2, <1>3, <1>4, <1>5, <1>6, <1>7, <1>8, <1>9, <1>10, <1>11, <1>12,
     <1>13, <1>14, <1>15, <1>16, <1>17, <1>18, <1>19, <1>20, <1>21, <1>22,
     <1>23, <1>24
     DEF LoopInternal, LoopExternal

\* run() moves while the loop task is stopped and appends nothing.
LEMMA RunQuiet ==
  ASSUME TypeOK, ControlInv, StreamInv, LoopStopped, pc["run"] # "starting",
         NEW l \in {"fail", "fail_append", "final", "ended"}, Goto("run", l),
         pc["loop"] # "idle", LockInv', UNCHANGED <<log, server>>,
         server = "serving",
         l \in {"final", "ended"} => IsTerminal,
         l = "fail_append" => ~IsTerminal
  PROVE  ControlInv' /\ StreamInv'
<1>1. /\ StreamInv' /\ Status' = Status /\ (IsTerminal' <=> IsTerminal)
  BY QuietStep
<1>2. /\ pc'["run"] = l
      /\ \A q \in Procs : q # "run" => pc'[q] = pc[q]
      /\ pc'["loop"] = pc["loop"]
      /\ \A h \in Requests : pc'[h] = pc[h]
  BY GotoLemma, ProcsFacts DEF TypeOK, Labels, RunLabels
<1>3. CheckStillValid'
  BY <1>1, <1>2, ProcsFacts DEF ControlInv, CheckStillValid, Requests
<1>4. RunInv' /\ DownInv' /\ NoAbandonedRun' /\ OverInv'
  BY <1>1, <1>2 DEF ControlInv, RunInv, DownInv, NoAbandonedRun, OverInv,
       LoopStopped
<1>5. QED
  BY <1>1, <1>3, <1>4 DEF ControlInv

\* run() and start_run preserve the invariant.
LEMMA RunStep ==
  ASSUME TypeOK, ControlInv, StreamInv, RunTask
  PROVE  ControlInv' /\ StreamInv'
<1> USE DEF store, process
<1>1. CASE StartRun
  <2>1. /\ pc'["run"] = "spawned"
        /\ \A q \in Procs : q # "run" => pc'[q] = pc[q]
        /\ pc'["loop"] = pc["loop"]
        /\ \A h \in Requests : pc'[h] = pc[h]
    BY <1>1, GotoLemma, ProcsFacts DEF StartRun, TypeOK, Labels, RunLabels
  <2>2. /\ StreamInv' /\ Status' = Status /\ (IsTerminal' <=> IsTerminal)
    BY <1>1, QuietStep DEF StartRun
  <2>3. LockInv'
    BY <1>1, LockMove, ProcsFacts
       DEF StartRun, TypeOK, ControlInv, Labels, RunLabels, Critical
  <2>4. CheckStillValid'
    BY <1>1, <2>1, <2>2, ProcsFacts
       DEF StartRun, ControlInv, CheckStillValid, Requests
  <2>5. RunInv' /\ DownInv' /\ NoAbandonedRun' /\ OverInv'
    BY <1>1, <2>1, <2>2 DEF StartRun, ControlInv, RunInv, DownInv,
         NoAbandonedRun, OverInv, LoopStopped
  <2>6. QED
    BY <2>2, <2>3, <2>4, <2>5 DEF ControlInv
<1>2. CASE StartRunFails
  <2>1. /\ pc'["run"] = "ended"
        /\ \A q \in Procs : q # "run" => pc'[q] = pc[q]
        /\ pc'["loop"] = "idle"
        /\ \A h \in Requests : pc'[h] \in {"idle", "done"}
    BY <1>2, GotoLemma, ProcsFacts
       DEF StartRunFails, TypeOK, Labels, RunLabels, ControlInv, RunInv
  <2>2. ~IsTerminal
    <3>1. log = <<"started">>
      BY <1>2 DEF StartRunFails, ControlInv, RunInv
    <3>2. log[Len(log)] = "started"
      BY <3>1
    <3>3. QED
      BY <3>2, StatusFacts DEF IsTerminal, Status
  <2>3. StreamInv' /\ IsTerminal'
    BY <1>2, <2>2, LoudStep DEF StartRunFails, Phases, TerminalPhases
  <2>4. LockInv'
    BY <1>2, LockMove, ProcsFacts
       DEF StartRunFails, TypeOK, ControlInv, Labels, RunLabels, Critical
  <2>5. server = "serving" /\ server' = server
    BY <1>2 DEF StartRunFails, ControlInv, DownInv
  <2>6. CheckStillValid'
    BY <2>1, <2>5 DEF CheckStillValid, Procs, Tasks, Requests
  <2>7. RunInv' /\ DownInv' /\ NoAbandonedRun' /\ OverInv'
    BY <2>1, <2>3, <2>5 DEF RunInv, DownInv, NoAbandonedRun, OverInv,
         LoopStopped
  <2>8. QED
    BY <2>3, <2>4, <2>6, <2>7 DEF ControlInv
<1>3. CASE RunBegin
  <2>1. /\ pc'["run"] = "await" /\ pc'["loop"] = "classify"
        /\ \A q \in Procs : q \notin {"run", "loop"} => pc'[q] = pc[q]
        /\ \A h \in Requests : pc'[h] = pc[h]
        /\ pc["loop"] = "idle" /\ pc["run"] = "spawned"
    BY <1>3, ProcsFacts DEF RunBegin, TypeOK, ControlType, ControlInv, RunInv
  <2>2. /\ StreamInv' /\ Status' = Status /\ (IsTerminal' <=> IsTerminal)
    BY <1>3, QuietStep DEF RunBegin
  <2>3. LockInv'
    BY <1>3, <2>1, Zenon DEF RunBegin, ControlInv, LockInv, Critical
  <2>4. server = "serving" /\ server' = server
    BY <1>3 DEF RunBegin, ControlInv, DownInv
  <2>5. CheckStillValid'
    BY <2>1, <2>2, <2>4, ProcsFacts
       DEF ControlInv, CheckStillValid, Requests
  <2>6. RunInv' /\ DownInv' /\ NoAbandonedRun' /\ OverInv'
    BY <2>1, <2>4 DEF RunInv, DownInv, NoAbandonedRun, OverInv, LoopStopped
  <2>7. QED
    BY <2>2, <2>3, <2>5, <2>6 DEF ControlInv
<1>o. ASSUME pc["run"] \in {"await", "fail", "fail_append", "fail_signal", "final"},
             pc["run"] = "await" => LoopStopped
      PROVE  LoopStopped /\ pc["loop"] # "idle" /\ server = "serving"
  BY <1>o DEF ControlInv, RunInv, DownInv
<1>4. CASE RunObserve
  <2>1. LockInv'
    BY <1>4, LockMove, ProcsFacts
       DEF RunObserve, TypeOK, ControlInv, Labels, RunLabels, Critical
  <2>2. LoopStopped
    BY <1>4 DEF RunObserve, LoopStopped
  <2>3. pc["loop"] = "returned" => IsTerminal
    BY DEF ControlInv, OverInv
  <2>4. QED
    BY <1>4, <1>o, <2>1, <2>2, <2>3, RunQuiet DEF RunObserve
<1>5. CASE RunFinally
  <2>1. LockInv'
    BY <1>5, LockMove, ProcsFacts
       DEF RunFinally, TypeOK, ControlInv, Labels, RunLabels, Critical
  <2>2. IsTerminal
    BY <1>5 DEF RunFinally, ControlInv, OverInv
  <2>3. QED
    BY <1>5, <1>o, <2>1, <2>2, RunQuiet DEF RunFinally
<1>6. CASE FailCheck("run")
  <2>1. LockInv'
    BY <1>6, LockMove, ProcsFacts
       DEF FailCheck, AfterCall, TypeOK, ControlInv, Labels, RunLabels, Critical
  <2>2. QED
    BY <1>6, <1>o, <2>1, RunQuiet DEF FailCheck, AfterCall
<1>7. CASE FailAppend("run")
  <2>1. lock = "run" /\ ~IsTerminal
    BY <1>7, ProcsFacts
       DEF FailAppend, ControlInv, LockInv, CheckStillValid, Critical
  <2>2. LockInv'
    BY <1>7, LockMove, ProcsFacts
       DEF FailAppend, TypeOK, ControlInv, Labels, RunLabels, Critical
  <2>3. StreamInv' /\ IsTerminal'
    BY <1>7, <2>1, LoudStep DEF FailAppend, Phases, TerminalPhases
  <2>4. /\ pc'["run"] = "fail_signal"
        /\ \A q \in Procs : q # "run" => pc'[q] = pc[q]
        /\ pc'["loop"] = pc["loop"]
        /\ \A h \in Requests : pc'[h] = pc[h]
    BY <1>7, GotoLemma, ProcsFacts DEF FailAppend, TypeOK, Labels, RunLabels
  <2>5. LoopStopped /\ pc["loop"] # "idle" /\ server = "serving"
    BY <1>7, <1>o DEF FailAppend
  <2>6. \A q \in Procs : q # "run" => pc'[q] \notin Critical
    BY <2>1, <2>4 DEF ControlInv, LockInv
  <2>7. CheckStillValid'
    BY <1>7, <2>4, <2>5, <2>6, ProcsFacts, Zenon
       DEF FailAppend, CheckStillValid, Critical, Requests, LoopStopped
  <2>8. RunInv' /\ DownInv' /\ NoAbandonedRun' /\ OverInv'
    BY <1>7, <2>3, <2>4, <2>5 DEF FailAppend, RunInv, DownInv,
         NoAbandonedRun, OverInv, LoopStopped
  <2>9. QED
    BY <2>2, <2>3, <2>7, <2>8 DEF ControlInv
<1>8. CASE FailSignal("run")
  <2>1. lock = "run" /\ IsTerminal
    BY <1>8, ProcsFacts DEF FailSignal, ControlInv, LockInv, OverInv, Critical
  <2>2. LockInv'
    BY <1>8, <2>1, LockMove, ProcsFacts
       DEF FailSignal, AfterCall, TypeOK, ControlInv, Labels, RunLabels, Critical
  <2>3. QED
    BY <1>8, <1>o, <2>1, <2>2, RunQuiet DEF FailSignal, AfterCall
<1>9. QED
  BY <1>1, <1>2, <1>3, <1>4, <1>5, <1>6, <1>7, <1>8 DEF RunTask

\* The watchdog, which cancels the loop task anywhere, preserves it.
LEMMA WatchdogStep ==
  ASSUME TypeOK, ControlInv, StreamInv, Watchdog
  PROVE  ControlInv' /\ StreamInv'
<1> USE DEF store, process
<1>1. /\ pc'["run"] = "fail" /\ pc'["loop"] = "cancelled"
      /\ \A q \in Procs : q \notin {"run", "loop"} => pc'[q] = pc[q]
      /\ \A h \in Requests : pc'[h] = pc[h]
      /\ pc["run"] = "await" /\ ~LoopStopped
  BY ProcsFacts DEF Watchdog, TypeOK, ControlType
<1>2. /\ StreamInv' /\ Status' = Status /\ (IsTerminal' <=> IsTerminal)
  BY QuietStep DEF Watchdog
<1>3. LockInv'
  BY <1>1, ProcsFacts, Zenon
     DEF Watchdog, LockAfterCancel, ControlInv, LockInv, Critical
<1>4. server = "serving" /\ server' = server
  BY <1>1 DEF Watchdog, ControlInv, RunInv
<1>5. CheckStillValid'
  BY <1>1, <1>2, <1>4, ProcsFacts DEF ControlInv, CheckStillValid, Requests
<1>6. RunInv' /\ DownInv' /\ NoAbandonedRun' /\ OverInv'
  BY <1>1, <1>4 DEF RunInv, DownInv, NoAbandonedRun, OverInv, LoopStopped
<1>7. QED
  BY <1>2, <1>3, <1>5, <1>6 DEF ControlInv

\* A request moves; it may append what its check allows.
LEMMA RequestMove ==
  ASSUME TypeOK, ControlInv, NEW h \in Requests,
         NEW l \in RequestLabels, Goto(h, l), LockInv',
         UNCHANGED <<server, registered>>, server = "serving",
         pc["run"] = "starting" => l = "done" /\ UNCHANGED log,
         \/ UNCHANGED log
         \/ ~IsTerminal /\ ~IsTerminal' /\ lock = h,
         l = "append" => /\ ~IsTerminal'
                         /\ h \in Resumers \cup Confirmers => Status' = "PAUSED"
  PROVE  ControlInv'
<1>1. /\ pc'[h] = l
      /\ \A q \in Procs : q # h => pc'[q] = pc[q]
      /\ pc'["run"] = pc["run"]
      /\ pc'["loop"] = pc["loop"]
  BY GotoLemma, ProcsFacts, Zenon DEF TypeOK, Labels
<1>2. IsTerminal' <=> IsTerminal
  BY DEF IsTerminal, Status
<1>3. CheckStillValid'
  <2>1. \A q \in Procs : pc'[q] \in {"complete_append", "fail_append", "append"}
                           => ~IsTerminal'
    BY <1>1, <1>2 DEF ControlInv, CheckStillValid, RequestLabels
  <2>2. ASSUME NEW g \in Resumers \cup Confirmers, pc'[g] = "append"
        PROVE  Status' = "PAUSED"
    <3>1. CASE g = h
      BY <1>1, <2>2, <3>1, Zenon
    <3>2. CASE g # h
      <4>1. g \in Procs /\ pc[g] = "append"
        BY <1>1, <2>2, <3>2, ProcsFacts DEF Requests
      <4>2. lock = g /\ Status = "PAUSED"
        BY <4>1 DEF ControlInv, LockInv, CheckStillValid, Critical
      <4>3. UNCHANGED log
        BY <3>2, <4>2
      <4>4. QED
        BY <4>2, <4>3, Zenon DEF Status
    <3>3. QED
      BY <3>1, <3>2
  <2>3. QED
    BY <1>1, <1>2, <2>1, <2>2 DEF ControlInv, CheckStillValid
<1>4. RunInv'
  <2>1. pc'["run"] = "starting" => \A g \in Requests : pc'[g] \in {"idle", "done"}
    BY <1>1, ProcsFacts DEF ControlInv, RunInv
  <2>2. QED
    BY <1>1, <2>1 DEF ControlInv, RunInv, LoopStopped
<1>5. DownInv' /\ NoAbandonedRun' /\ OverInv'
  BY <1>1, <1>2, Zenon DEF ControlInv, DownInv, NoAbandonedRun, OverInv
<1>6. QED
  BY <1>3, <1>4, <1>5 DEF ControlInv

\* The request handlers preserve the invariant.
LEMMA RequestsStep ==
  ASSUME Deleters = {}, TypeOK, ControlInv, StreamInv,
         RequestBegin \/ \E h \in Requests : RequestStep(h)
  PROVE  ControlInv' /\ StreamInv'
<1> USE DEF store, process
<1>p. \A h \in Requests : pc[h] \notin {"idle", "done"}
                            => server = "serving" /\ pc["run"] # "starting"
  BY DEF ControlInv, DownInv, RunInv
<1>s. pc["run"] = "starting" => Status = "RUNNING" /\ ~registered
  <2>1. ASSUME log = <<"started">> PROVE Status = "RUNNING"
    <3>1. log[Len(log)] = "started"
      BY <2>1
    <3>2. QED
      BY <3>1, StatusFacts DEF Status
  <2>2. QED
    BY <2>1 DEF ControlInv, RunInv
<1>q. ASSUME NEW h \in Requests, NEW l \in RequestLabels \ Critical,
             Goto(h, l), pc[h] \notin Critical, server = "serving",
             UNCHANGED <<log, server, registered, lock>>,
             pc["run"] = "starting" => l = "done"
      PROVE  ControlInv' /\ StreamInv'
  <2>1. LockInv'
    BY <1>q, LockMove, ProcsFacts DEF TypeOK, ControlInv, Labels
  <2>2. QED
    BY <1>q, <2>1, QuietStep, RequestMove DEF Critical
<1>1. ASSUME NEW h \in Pausers \cup Resumers, ControlBegin(h)
      PROVE  ControlInv' /\ StreamInv'
  BY <1>1, <1>q, <1>s DEF ControlBegin, Requests, RequestLabels, Critical
<1>2. ASSUME NEW h \in Confirmers, ConfirmBegin(h)
      PROVE  ControlInv' /\ StreamInv'
  BY <1>2, <1>q, <1>s DEF ConfirmBegin, Requests, RequestLabels, Critical
<1>3. ASSUME NEW h \in Confirmers, ConfirmReceive(h)
      PROVE  ControlInv' /\ StreamInv'
  BY <1>3, <1>q, <1>p DEF ConfirmReceive, Requests, RequestLabels, Critical
<1>4. ASSUME NEW h \in Requests, PauseCheck(h), h \in Pausers
      PROVE  ControlInv' /\ StreamInv'
  <2>1. LockInv'
    BY <1>4, LockMove, ProcsFacts DEF PauseCheck, TypeOK, ControlInv,
         Labels, RequestLabels, Critical
  <2>2. Status = "RUNNING" => ~IsTerminal
    BY DEF IsTerminal
  <2>3. h \notin Resumers \cup Confirmers
    BY <1>4, RequestsAssumption
  <2>4. QED
    BY <1>4, <1>p, <2>1, <2>2, <2>3, QuietStep, RequestMove
       DEF PauseCheck, RequestLabels
<1>5. ASSUME NEW h \in Requests, PauseAppend(h)
      PROVE  ControlInv' /\ StreamInv'
  <2>1. lock = h /\ ~IsTerminal
    BY <1>5, ProcsFacts DEF PauseAppend, ControlInv, LockInv,
         CheckStillValid, Critical
  <2>2. LockInv'
    BY <1>5, <2>1, LockMove, ProcsFacts DEF PauseAppend, TypeOK, ControlInv,
         Labels, RequestLabels, Critical
  <2>3. StreamInv' /\ ~IsTerminal'
    BY <1>5, <2>1, LoudStep DEF PauseAppend, Phases, TerminalPhases
  <2>4. QED
    BY <1>5, <1>p, <2>1, <2>2, <2>3, RequestMove
       DEF PauseAppend, RequestLabels
<1>6. ASSUME NEW h \in Requests, ResumeCheck(h)
      PROVE  ControlInv' /\ StreamInv'
  <2>1. LockInv'
    BY <1>6, LockMove, ProcsFacts DEF ResumeCheck, TypeOK, ControlInv,
         Labels, RequestLabels, Critical
  <2>2. MayResume => ~IsTerminal /\ Status = "PAUSED"
    BY DEF IsTerminal, MayResume
  <2>3. QED
    BY <1>6, <1>p, <2>1, <2>2, QuietStep, RequestMove
       DEF ResumeCheck, RequestLabels
<1>7. ASSUME NEW h \in Resumers \cup Confirmers, ResumeAppend(h)
      PROVE  ControlInv' /\ StreamInv'
  <2>0. h \in Requests
    BY DEF Requests
  <2>1. lock = h /\ ~IsTerminal /\ Status = "PAUSED"
    BY <1>7, <2>0, ProcsFacts DEF ResumeAppend, ControlInv, LockInv,
         CheckStillValid, Critical
  <2>2. LockInv'
    BY <1>7, <2>0, <2>1, LockMove, ProcsFacts DEF ResumeAppend, TypeOK,
         ControlInv, Labels, RequestLabels, Critical
  <2>3. StreamInv' /\ ~IsTerminal'
    BY <1>7, <2>1, LoudStep DEF ResumeAppend, Phases, TerminalPhases
  <2>4. QED
    BY <1>7, <1>p, <2>0, <2>1, <2>2, <2>3, RequestMove
       DEF ResumeAppend, RequestLabels
<1>8. ASSUME NEW h \in Requests, ResumeWake(h)
      PROVE  ControlInv' /\ StreamInv'
  <2>1. lock = h
    BY <1>8, ProcsFacts DEF ResumeWake, ControlInv, LockInv, Critical
  <2>2. LockInv'
    BY <1>8, <2>1, LockMove, ProcsFacts DEF ResumeWake, TypeOK, ControlInv,
         Labels, RequestLabels, Critical
  <2>3. QED
    BY <1>8, <1>p, <2>2, QuietStep, RequestMove
       DEF ResumeWake, RequestLabels
<1>9. ASSUME NEW h \in Requests, RequestAppendRaises(h)
      PROVE  ControlInv' /\ StreamInv'
  <2>1. lock = h <=> pc[h] \in Critical
    BY ProcsFacts DEF ControlInv, LockInv
  <2>2. LockInv'
    BY <1>9, <2>1, LockMove, ProcsFacts DEF RequestAppendRaises, TypeOK,
         ControlInv, Labels, RequestLabels, Critical
  <2>3. QED
    BY <1>9, <1>p, <2>2, QuietStep, RequestMove
       DEF RequestAppendRaises, RequestLabels
<1>10. QED
  BY <1>1, <1>2, <1>3, <1>4, <1>5, <1>6, <1>7, <1>8, <1>9
     DEF RequestBegin, RequestStep, Requests

\* A crash preserves the invariant.
LEMMA CrashStep ==
  ASSUME TypeOK, ControlInv, StreamInv, Crash
  PROVE  ControlInv' /\ StreamInv'
<1> USE DEF store
<1>1. /\ pc'["run"] = "ended"
      /\ pc'["loop"] \in {"idle", "cancelled"}
      /\ \A h \in Requests : pc'[h] \in {"idle", "done"}
      /\ server' = "down" /\ lock' = "free"
  BY ProcsFacts DEF Crash, TypeOK, ControlType
<1>2. StreamInv'
  BY QuietStep DEF Crash
<1>3. \A q \in Procs : pc'[q] \in {"ended", "idle", "cancelled", "done"}
  BY <1>1 DEF Procs, Tasks
<1>4. LockInv'
  BY <1>1, <1>3, ProcsFacts DEF LockInv, Critical
<1>5. CheckStillValid'
  BY <1>1, <1>3, ProcsFacts DEF CheckStillValid, Requests
<1>6. RunInv' /\ DownInv' /\ NoAbandonedRun' /\ OverInv'
  BY <1>1 DEF RunInv, DownInv, NoAbandonedRun, OverInv, LoopStopped
<1>7. QED
  BY <1>2, <1>4, <1>5, <1>6 DEF ControlInv

\* The orphan scan of the next startup preserves the invariant.
LEMMA StartupStep ==
  ASSUME TypeOK, ControlInv, StreamInv, Startup
  PROVE  ControlInv' /\ StreamInv'
<1> USE DEF store
<1>1. /\ pc["run"] = "ended" /\ LoopStopped
      /\ \A h \in Requests : pc[h] \in {"idle", "done"}
      /\ UNCHANGED <<pc, lock, registered>>
  BY DEF Startup, Restart, ScanOrphan, ScanFail, ControlInv, DownInv, RunInv
<1>2. \A q \in Procs : pc[q] \notin {"complete_append", "fail_append", "append"}
  BY <1>1 DEF Procs, Tasks, LoopStopped
<1>3. LockInv'
  BY <1>1 DEF ControlInv, LockInv
<1>4. StreamInv' /\ (server' = "serving" => IsTerminal')
        /\ (server' = "scan_fail" => ~IsTerminal')
        /\ (IsTerminal => IsTerminal')
  <2>1. CASE Restart
    BY <2>1, QuietStep DEF Restart
  <2>2. CASE ScanOrphan
    BY <2>2, QuietStep DEF ScanOrphan
  <2>3. CASE ScanFail
    <3>1. ~IsTerminal
      BY <2>3 DEF ScanFail, ControlInv, CheckStillValid
    <3>2. QED
      BY <2>3, <3>1, LoudStep DEF ScanFail, Phases, TerminalPhases
  <2>4. QED
    BY <2>1, <2>2, <2>3 DEF Startup
<1>5. CheckStillValid'
  BY <1>1, <1>2, <1>4, ProcsFacts, Zenon DEF CheckStillValid, LoopStopped, Requests
<1>6. RunInv' /\ DownInv' /\ NoAbandonedRun' /\ OverInv'
  BY <1>1, <1>4 DEF ControlInv, RunInv, DownInv, NoAbandonedRun, OverInv,
       LoopStopped
<1>7. QED
  BY <1>3, <1>4, <1>5, <1>6 DEF ControlInv

\* Init establishes the invariant.
LEMMA InitInv == Init => IInv
<1> SUFFICES ASSUME Init PROVE IInv
  OBVIOUS
<1> USE DEF Init
<1>1. /\ pc["run"] = "starting" /\ pc["loop"] = "idle"
      /\ \A h \in Requests : pc[h] = "idle"
      /\ \A q \in Procs : pc[q] \in {"starting", "idle"}
  BY ProcsFacts
<1>2. log[Len(log)] = "started" /\ Len(log) = 1 /\ log \in Seq(Phases)
  BY DEF Phases
<1>3. ~IsTerminal
  BY <1>2, StatusFacts DEF IsTerminal, Status
<1>4. StoreType /\ SignalType
  BY <1>2, Zenon DEF StoreType, SignalType, EventStates
<1>r. registered \in BOOLEAN /\ ~registered
  BY Zenon
<1>5. ProcessType /\ LocalType
  <2>1. /\ server \in {"serving", "down", "scan", "scan_fail"}
        /\ crashes \in 0..MaxCrashes /\ target \in [Confirmers -> Confirms]
    BY ConstantsAssumption
  <2>2. LocalType
    BY ConstantsAssumption DEF LocalType
  <2>3. QED
    BY <2>1, <2>2, <1>r, Zenon DEF ProcessType
<1>6. ControlType
  BY ProcsFacts DEF ControlType, Labels, RunLabels, RequestLabels
<1>7. BudgetInv
  BY <1>1, ConstantsAssumption DEF BudgetInv, SettlingConfirmation
<1>8. LockInv
  BY <1>1, ProcsFacts DEF LockInv, Critical
<1>9. CheckStillValid /\ RunInv /\ OverInv /\ DownInv /\ NoAbandonedRun
  <2>1. CheckStillValid
    BY <1>1, <1>3 DEF CheckStillValid, Requests
  <2>2. RunInv
    <3>1. log = <<"started">> /\ server = "serving"
      OBVIOUS
    <3>2. QED
      BY <1>1, <1>r, <3>1, Zenon DEF RunInv, LoopStopped
  <2>3. OverInv /\ DownInv /\ NoAbandonedRun
    BY <1>1 DEF OverInv, DownInv, NoAbandonedRun
  <2>4. QED
    BY <2>1, <2>2, <2>3
<1>10. TerminalIsLast /\ ResumeAnswersPause
  BY <1>2 DEF TerminalIsLast, ResumeAnswersPause
<1>11. QED
  BY <1>4, <1>5, <1>6, <1>7, <1>8, <1>9, <1>10 DEF IInv, TypeOK

\* Every step keeps it, when no request deletes the run.
LEMMA NextInv ==
  ASSUME Deleters = {}, IInv, [Next]_vars
  PROVE  IInv'
<1> USE DEF IInv, ControlInv, StreamInv
<1>1. TypeOK'
  BY StoreStep, ProcessStep, SignalStep, ControlStep, LocalStep DEF TypeOK
<1>2. BudgetInv'
  BY LocalStep, Zenon
<1>3. ControlInv' /\ StreamInv'
  <2>1. CASE LoopInternal \/ LoopExternal
    BY <2>1, LoopStep
  <2>2. CASE RunTask
    BY <2>2, RunStep
  <2>3. CASE Watchdog
    BY <2>3, WatchdogStep
  <2>4. CASE RequestBegin \/ \E h \in Requests : RequestStep(h)
    BY <2>4, RequestsStep, Zenon
  <2>5. CASE Crash
    BY <2>5, CrashStep
  <2>6. CASE Startup
    BY <2>6, StartupStep
  <2>7. CASE Quiescent \/ UNCHANGED vars
    <3>1. /\ UNCHANGED <<log, pc, lock, server, registered>>
      BY <2>7 DEF Quiescent, vars, store, process
    <3>2. /\ StreamInv' /\ Status' = Status /\ (IsTerminal' <=> IsTerminal)
      BY <3>1, QuietStep
    <3>3. QED
      BY <3>1, <3>2 DEF LockInv, CheckStillValid, RunInv, OverInv, DownInv,
           NoAbandonedRun, LoopStopped
  <2>8. QED
    BY <2>1, <2>2, <2>3, <2>4, <2>5, <2>6, <2>7 DEF Next, UnwatchedNext
<1>4. QED
  BY <1>1, <1>2, <1>3
-----------------------------------------------------------------------------
\* The inductive invariant holds throughout a run that is not deleted.
THEOREM Invariance == ASSUME Deleters = {} PROVE Spec => []IInv
BY InitInv, NextInv, PTL DEF Spec

\* Type correctness (StoreType .. LocalType) of RunLifecycle.
THEOREM TypeCorrect == ASSUME Deleters = {} PROVE Spec => []TypeOK
<1>1. IInv => TypeOK
  BY DEF IInv
<1>2. QED
  BY <1>1, Invariance, PTL

\* A run has at most one terminal event and no RUN event after it: _complete,
\* _fail, the watchdog, pause, resume, confirm and the orphan scan.
THEOREM TerminalOnce == ASSUME Deleters = {} PROVE Spec => []TerminalIsLast
<1>1. IInv => TerminalIsLast
  BY DEF IInv
<1>2. QED
  BY <1>1, Invariance, PTL

\* RunResumed is only ever written onto a paused run.
THEOREM ResumeOnlyPaused ==
  ASSUME Deleters = {} PROVE Spec => []ResumeAnswersPause
<1>1. IInv => ResumeAnswersPause
  BY DEF IInv
<1>2. QED
  BY <1>1, Invariance, PTL

\* No run is left open when run() or the startup scan is over.
THEOREM NothingAbandoned ==
  ASSUME Deleters = {} PROVE Spec => []NoAbandonedRun
<1>1. IInv => NoAbandonedRun
  BY DEF IInv
<1>2. QED
  BY <1>1, Invariance, PTL
-----------------------------------------------------------------------------
\* A step of an undeleted run appends nothing, or one event to an open run.
LEMMA OneAppend ==
  ASSUME Deleters = {}, IInv, [Next]_vars
  PROVE  \/ UNCHANGED log
         \/ ~IsTerminal /\ \E phase \in Phases : Write(phase)
<1> USE DEF IInv, CheckStillValid, store, process, Phases
<1>1. CASE LoopInternal \/ LoopExternal
  <2>1. CASE CompleteAppend \/ ConfirmAppend \/ FailAppend("loop")
    BY <2>1, ProcsFacts, Zenon DEF CompleteAppend, ConfirmAppend, FailAppend
  <2>2. CASE ~(CompleteAppend \/ ConfirmAppend \/ FailAppend("loop"))
    BY <1>1, <2>2, Zenon DEF LoopInternal, LoopExternal, LoopTop, PauseEnter,
         PauseLeave, LayerTop, Executed, ConfirmTop, ConfirmEnter, ConfirmWoken,
         ConfirmTimeout, ConfirmCheck, CompleteCheck, FailCheck, FailSignal,
         ClassifyIntent, Plan, LayerNext, LayerSettle, LayerSuspend,
         RetryStep, LoopRaise, LoopAppendRaises
  <2>3. QED
    BY <2>1, <2>2
<1>2. CASE RunTask
  <2>1. CASE StartRunFails
    <3>1. log = <<"started">>
      BY <2>1 DEF StartRunFails, RunInv
    <3>2. log[Len(log)] = "started"
      BY <3>1
    <3>3. QED
      BY <2>1, <3>2, StatusFacts DEF StartRunFails, IsTerminal, Status
  <2>2. CASE FailAppend("run")
    BY <2>2, ProcsFacts, Zenon DEF FailAppend
  <2>3. CASE ~(StartRunFails \/ FailAppend("run"))
    BY <1>2, <2>3, Zenon DEF RunTask, StartRun, RunBegin, RunObserve, RunFinally,
         FailCheck, FailSignal
  <2>4. QED
    BY <2>1, <2>2, <2>3
<1>3. ASSUME NEW h \in Requests, RequestStep(h), PauseAppend(h) \/ ResumeAppend(h)
      PROVE  ~IsTerminal /\ \E phase \in Phases : Write(phase)
  BY <1>3, ProcsFacts, Zenon DEF PauseAppend, ResumeAppend
<1>4. ASSUME NEW h \in Requests, RequestStep(h),
             ~(PauseAppend(h) \/ ResumeAppend(h))
      PROVE  UNCHANGED log
  BY <1>4, Zenon DEF RequestStep, PauseCheck, ResumeCheck, ResumeWake, ConfirmReceive,
              RequestAppendRaises
<1>5. CASE RequestBegin
  BY <1>5, Zenon DEF RequestBegin, ControlBegin, ConfirmBegin
<1>6. CASE Startup
  BY <1>6 DEF Startup, Restart, ScanOrphan, ScanFail
<1>7. CASE Watchdog \/ Crash \/ Quiescent \/ UNCHANGED vars
  BY <1>7 DEF Watchdog, Crash, Quiescent, vars
<1>8. QED
  BY <1>1, <1>2, <1>3, <1>4, <1>5, <1>6, <1>7 DEF Next, UnwatchedNext

\* The status a client sees obeys RunContract: RUNNING and PAUSED alternate
\* until COMPLETED or FAILED, which is final.
THEOREM Refinement == ASSUME Deleters = {} PROVE Spec => ImplementsContract
<1>1. Init => Contract!Init
  <2> SUFFICES ASSUME Init PROVE Status = "RUNNING"
    BY DEF Contract!Init
  <2>1. log[Len(log)] = "started"
    BY DEF Init
  <2>2. QED
    BY <2>1, StatusFacts DEF Status
<1>2. IInv /\ [Next]_vars => [Contract!Next]_Status
  <2> SUFFICES ASSUME IInv, [Next]_vars
               PROVE  Contract!Next \/ Status' = Status
    OBVIOUS
  <2>1. CASE UNCHANGED log
    BY <2>1 DEF Status
  <2>2. ASSUME ~IsTerminal, NEW phase \in Phases, Write(phase)
        PROVE  Contract!Next \/ Status' = Status
    <3>1. Status' = StatusAfter[phase]
      BY <2>2, WriteLemma DEF IInv
    <3>2. log[Len(log)] \in Phases
      BY DEF IInv, TypeOK, StoreType
    <3>3. Status \in {"RUNNING", "PAUSED"}
      BY <2>2, <3>2, StatusFacts DEF IsTerminal, Status, Phases
    <3>4. Status' \in {"RUNNING", "PAUSED", "COMPLETED", "FAILED"}
      BY <2>2, <3>1, StatusFacts DEF Phases
    <3>5. CASE Status' \in {"COMPLETED", "FAILED"}
      BY <3>3, <3>5 DEF Contract!Next, Contract!Finish, Contract!Terminal
    <3>6. CASE Status' \in {"RUNNING", "PAUSED"}
      BY <3>3, <3>6 DEF Contract!Next, Contract!Pause, Contract!Resume
    <3>7. QED
      BY <3>4, <3>5, <3>6
  <2>3. QED
    BY <2>1, <2>2, OneAppend
<1>3. QED
  BY <1>1, <1>2, Invariance, PTL DEF Spec, ImplementsContract, Contract!Spec
=============================================================================
