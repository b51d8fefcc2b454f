----------------------------- MODULE EventStore -----------------------------
(***************************************************************************)
(* harness/storage/event_store.py: append_event and claim_client_request   *)
(* over the ONE aiosqlite connection that every run shares.                *)
(*                                                                         *)
(* A call is an asyncio task.  Each statement it sends is put into the     *)
(* FIFO queue of the connection's worker thread and then awaited.          *)
(* Cancelling the task abandons the await and leaves the statement in the  *)
(* queue; the worker still executes it.  Statements of calls that do not   *)
(* hold the write lock (the idempotency look-up) execute on the same       *)
(* connection, so they see the rows of the transaction that is open.       *)
(*                                                                         *)
(* Abstracted: the payload and the columns filled from the run caches (a   *)
(* row carries the call that wrote it), the event type (a key stands for   *)
(* the pair of type and idempotency key), SELECT and its fetchone as one   *)
(* statement, the notification of all callbacks as one step.  The other    *)
(* writers of the store run one INSERT or UPDATE under the same _write_txn *)
(* on tables the log does not mention.                                     *)
(***************************************************************************)
EXTENDS Naturals, FiniteSets, Sequences

CONSTANTS
  Appenders,   \* calls of append_event
  Claimers,    \* calls of claim_client_request
  Runs, Keys, NoKey,
  RunOf,       \* the run a call writes to
  KeyOf,       \* its idempotency key; for a claim, the client request
  MaxRetries,  \* _max_retries
  MaxCancels,  \* bound: task cancellations in a behaviour
  MaxFaults,   \* bound: statements that fail with an operational error
  Nobody

Calls == Appenders \union Claimers

ASSUME CallsAssumption ==
  /\ Appenders \intersect Claimers = {}
  /\ Nobody \notin Calls
  /\ NoKey \notin Keys
  /\ RunOf \in [Calls -> Runs]
  /\ KeyOf \in [Calls -> Keys \union {NoKey}]

\* send_message makes a fresh run id for every claim it tries.
ASSUME ClaimsAssumption ==
  \A c \in Claimers :
    /\ KeyOf[c] # NoKey
    /\ \A d \in Claimers \ {c} : RunOf[d] # RunOf[c]

ASSUME BoundsAssumption ==
  MaxRetries \in Nat /\ MaxCancels \in Nat /\ MaxFaults \in Nat

VARIABLES
  db,        \* what is committed: the two tables
  view,      \* the tables as the connection sees them
  open,      \* the connection has an open transaction
  queue,     \* statements waiting for the worker thread
  lock,      \* _db_write_lock: its holder
  pc, reply, \* per call: where it awaits, and the answer it got
  got,       \* per call: the rows a look-up found, or the rows written
  seq,       \* per call: assigned_seq
  cause,     \* per call: the exception _txn_immediate is cleaning up after
  attempts,  \* per call: attempt of the retry loop
  cancels, faults

tables == <<db, view, open>>
locals == <<got, seq, cause, attempts>>
vars == <<db, view, open, queue, lock, pc, reply, got, seq, cause, attempts, cancels, faults>>

Row == [run : Runs, seq : Nat, key : Keys \union {NoKey}, by : Calls]
ClaimRow == [request : Keys, run : Runs]
Tables == [events : SUBSET Row, claims : SUBSET ClaimRow]
Empty == [events |-> {}, claims |-> {}]

Statements == {"find", "begin", "max", "claim", "insert", "commit", "rollback"}
InTxn == {"begin", "recover", "begin_again", "max", "claim", "insert", "commit"}
Ended == {"created", "existing", "raised", "cancelled"}
Replies == {"pending", "ok", "error", "nested", "dup", "pk", "taken"}

Goto(c, label) == pc' = [pc EXCEPT ![c] = label]

\* Put a statement into the worker's queue and await it.
Await(c, label, statement) ==
  /\ Goto(c, label)
  /\ queue' = Append(queue, [call |-> c, stmt |-> statement, live |-> TRUE])
  /\ reply' = [reply EXCEPT ![c] = "pending"]

\* The await of call c at this label is over, with an answer in the set.
Woken(c, label, answers) == pc[c] = label /\ reply[c] \in answers

\* Mutant: the lock is kept when a call leaves.
ReleaseKept(c) == lock' = lock

Release(c) == lock' = IF lock = c THEN Nobody ELSE lock

Return(c, outcome) ==
  /\ Goto(c, outcome)
  /\ Release(c)
  /\ UNCHANGED <<queue, reply>>
-----------------------------------------------------------------------------
(* The worker thread and SQLite.                                           *)

Lookup(c, t) ==
  IF c \in Claimers
    THEN {k \in t.claims : k.request = KeyOf[c]}
    ELSE {e \in t.events : e.run = RunOf[c] /\ e.key = KeyOf[c]}

\* Mutant: one below the last number instead of one above.
NextSeqBelow(c, t) ==
  LET used == {0} \union {e.seq : e \in {f \in t.events : f.run = RunOf[c]}}
  IN  (CHOOSE n \in used : \A m \in used : m <= n) - 1

\* SELECT COALESCE(MAX(seq), 0) + 1
NextSeq(c, t) ==
  LET used == {0} \union {e.seq : e \in {f \in t.events : f.run = RunOf[c]}}
  IN  1 + CHOOSE n \in used : \A m \in used : m <= n

\* The row of the INSERT; a claim writes the RunStarted event as number 1.
NewRow(c) ==
  [run |-> RunOf[c], seq |-> IF c \in Claimers THEN 1 ELSE seq[c], key |-> KeyOf[c], by |-> c]

NewClaim(c) == [request |-> KeyOf[c], run |-> RunOf[c]]

Written(c) == {NewRow(c)} \union {NewClaim(k) : k \in {c} \intersect Claimers}

\* Mutant: no unique index on the idempotency key.
DuplicateKeyNever(row) == FALSE

DuplicateKey(row) ==
  row.key # NoKey /\ \E e \in view.events : e.run = row.run /\ e.key = row.key

TakenSeq(row) == \E e \in view.events : e.run = row.run /\ e.seq = row.seq

Serve(statement) ==
  /\ queue # <<>>
  /\ Head(queue).stmt = statement
  /\ queue' = Tail(queue)
  /\ UNCHANGED <<lock, pc, cause, attempts, cancels>>

\* An abandoned await hears nothing.
Answer(answer) ==
  reply' = IF Head(queue).live THEN [reply EXCEPT ![Head(queue).call] = answer] ELSE reply

ExecFind ==
  /\ Serve("find")
  /\ Answer("ok")
  /\ got' = IF Head(queue).live
              THEN [got EXCEPT ![Head(queue).call] = Lookup(Head(queue).call, view)] ELSE got
  /\ UNCHANGED <<db, view, open, seq, faults>>

ExecBegin ==
  /\ Serve("begin")
  /\ Answer(IF open THEN "nested" ELSE "ok")
  /\ open' = TRUE
  /\ UNCHANGED <<db, view, got, seq, faults>>

ExecMax ==
  /\ Serve("max")
  /\ Answer("ok")
  /\ seq' = [seq EXCEPT ![Head(queue).call] = NextSeq(Head(queue).call, view)]
  /\ UNCHANGED <<db, view, open, got, faults>>

\* Mutant: no primary key on the claims.
ExecClaimAgain ==
  /\ Serve("claim")
  /\ Answer("ok")
  /\ view' = [view EXCEPT !.claims = @ \union {NewClaim(Head(queue).call)}]
  /\ open' = TRUE
  /\ UNCHANGED <<db, got, seq, faults>>

ExecClaim ==
  LET claim == NewClaim(Head(queue).call)
      taken == \E c \in view.claims : c.request = claim.request
  IN  /\ Serve("claim")
      /\ Answer(IF taken THEN "taken" ELSE "ok")
      /\ view' = IF taken THEN view ELSE [view EXCEPT !.claims = @ \union {claim}]
      /\ open' = TRUE
      /\ UNCHANGED <<db, got, seq, faults>>

ExecInsert ==
  LET row == NewRow(Head(queue).call)
      bad == DuplicateKey(row) \/ TakenSeq(row)
  IN  /\ Serve("insert")
      /\ Answer(IF DuplicateKey(row) THEN "dup" ELSE IF TakenSeq(row) THEN "pk" ELSE "ok")
      /\ view' = IF bad THEN view ELSE [view EXCEPT !.events = @ \union {row}]
      /\ open' = TRUE
      /\ UNCHANGED <<db, got, seq, faults>>

ExecCommit ==
  /\ Serve("commit")
  /\ Answer("ok")
  /\ db' = view
  /\ open' = FALSE
  /\ UNCHANGED <<view, got, seq, faults>>

ExecRollback ==
  /\ Serve("rollback")
  /\ Answer("ok")
  /\ view' = db
  /\ open' = FALSE
  /\ UNCHANGED <<db, got, seq, faults>>

\* A statement fails without effect (disk full, I/O error).
ExecFault ==
  /\ faults < MaxFaults
  /\ faults' = faults + 1
  /\ \E statement \in Statements : Serve(statement)
  /\ Answer("error")
  /\ UNCHANGED <<tables, got, seq>>

Worker ==
  \/ ExecFind \/ ExecBegin \/ ExecMax \/ ExecClaim \/ ExecInsert \/ ExecCommit \/ ExecRollback
  \/ ExecFault
-----------------------------------------------------------------------------
(* The calls.                                                              *)

\* The look-up before the lock is taken; an append without a key has none.
Start(c) ==
  /\ pc[c] = "start"
  /\ IF KeyOf[c] = NoKey THEN Goto(c, "lock") /\ UNCHANGED <<queue, reply>>
                         ELSE Await(c, "find", "find")
  /\ UNCHANGED <<tables, lock, locals, cancels, faults>>

Found(c) ==
  /\ Woken(c, "find", {"ok", "error"})
  /\ Goto(c, IF reply[c] = "error" THEN "raised" ELSE IF got[c] # {} THEN "existing" ELSE "lock")
  /\ UNCHANGED <<tables, queue, lock, reply, locals, cancels, faults>>

\* Mutant: the transaction is begun without waiting for the lock.
LockFreeAlways(c) == TRUE

LockFree(c) == lock = Nobody

Acquire(c) ==
  /\ pc[c] = "lock"
  /\ LockFree(c)
  /\ lock' = c
  /\ Await(c, "begin", "begin")
  /\ UNCHANGED <<tables, locals, cancels, faults>>

\* Mutant: the orphaned transaction is carried on instead of rolled back.
RecoverIgnored(c) ==
  /\ Woken(c, "begin", {"nested"})
  /\ IF c \in Claimers THEN Await(c, "claim", "claim") ELSE Await(c, "max", "max")
  /\ UNCHANGED <<tables, lock, locals, cancels, faults>>

\* _begin_immediate_with_recovery: a BEGIN that meets an orphaned
\* transaction rolls it back and tries once more.
Recover(c) ==
  /\ \/ Woken(c, "begin", {"nested"}) /\ Await(c, "recover", "rollback")
     \/ Woken(c, "recover", {"ok"}) /\ Await(c, "begin_again", "begin")
  /\ UNCHANGED <<tables, lock, locals, cancels, faults>>

\* The statements of the transaction, in order.
Proceed(c) ==
  /\ \/ /\ Woken(c, "begin", {"ok"}) \/ Woken(c, "begin_again", {"ok"})
        /\ IF c \in Claimers THEN Await(c, "claim", "claim") ELSE Await(c, "max", "max")
     \/ /\ Woken(c, "max", {"ok"}) \/ Woken(c, "claim", {"ok"})
        /\ Await(c, "insert", "insert")
     \/ /\ Woken(c, "insert", {"ok"})
        /\ Await(c, "commit", "commit")
  /\ UNCHANGED <<tables, lock, locals, cancels, faults>>

Committed(c) ==
  /\ Woken(c, "commit", {"ok"})
  /\ got' = [got EXCEPT ![c] = Written(c)]
  /\ Return(c, "notify")
  /\ UNCHANGED <<tables, seq, cause, attempts, cancels, faults>>

\* The callbacks run after the lock is released; their errors are logged.
Notify(c) ==
  /\ pc[c] = "notify"
  /\ Goto(c, "created")
  /\ UNCHANGED <<tables, queue, lock, reply, locals, cancels, faults>>

\* except BaseException of _txn_immediate: queue a ROLLBACK whatever the
\* state of the transaction is, and await it.
Cleanup(c, why) ==
  /\ cause' = [cause EXCEPT ![c] = why]
  /\ Await(c, "cleanup", "rollback")

StatementFailed(c) ==
  /\ pc[c] \in InTxn
  /\ \/ reply[c] \in {"error", "taken", "dup", "pk"}
     \/ Woken(c, "begin_again", {"nested"})
  /\ Cleanup(c, IF reply[c] = "nested" THEN "error" ELSE reply[c])
  /\ UNCHANGED <<tables, lock, got, seq, attempts, cancels, faults>>

\* The ROLLBACK is over, its own error swallowed; the exception goes on.
CleanedUp(c) ==
  /\ Woken(c, "cleanup", {"ok", "error"})
  /\ \/ /\ cause[c] = "cancel"
        /\ Return(c, "cancelled")
        /\ UNCHANGED attempts
     \/ /\ \/ cause[c] = "error"
           \/ cause[c] = "pk" /\ c \in Appenders /\ attempts[c] = MaxRetries
        /\ Return(c, "raised")
        /\ UNCHANGED attempts
     \/ /\ cause[c] = "pk" /\ c \in Appenders /\ attempts[c] < MaxRetries
        /\ attempts' = [attempts EXCEPT ![c] = @ + 1]
        /\ Await(c, "begin", "begin")
        /\ UNCHANGED lock
     \/ /\ cause[c] = "dup" /\ c \in Appenders
        /\ Await(c, "refind", "find")
        /\ UNCHANGED <<lock, attempts>>
     \/ /\ cause[c] \in {"taken", "dup", "pk"} /\ c \in Claimers
        /\ Await(c, "refind", "find")
        /\ Release(c)
        /\ UNCHANGED attempts
  /\ UNCHANGED <<tables, got, seq, cause, cancels, faults>>

\* The second look-up; an append makes it with the lock held.
Refound(c) ==
  /\ Woken(c, "refind", {"ok", "error"})
  /\ Return(c, IF reply[c] = "ok" /\ got[c] # {} THEN "existing" ELSE "raised")
  /\ UNCHANGED <<tables, locals, cancels, faults>>
-----------------------------------------------------------------------------
(* Task cancellation, at any await (_cancel_and_reap, wait_for).           *)

Abandoned(c) ==
  [i \in DOMAIN queue |-> [queue[i] EXCEPT !.live = @ /\ queue[i].call # c]]

CancelOutside(c) ==
  /\ pc[c] \in {"find", "lock", "notify", "cleanup", "refind"}
  /\ Goto(c, "cancelled")
  /\ Release(c)
  /\ queue' = Abandoned(c)
  /\ UNCHANGED <<reply, cause>>

CancelInTxn(c) ==
  /\ pc[c] \in InTxn
  /\ Goto(c, "cleanup")
  /\ queue' = Append(Abandoned(c), [call |-> c, stmt |-> "rollback", live |-> TRUE])
  /\ reply' = [reply EXCEPT ![c] = "pending"]
  /\ cause' = [cause EXCEPT ![c] = "cancel"]
  /\ UNCHANGED lock

Cancel(c) ==
  /\ cancels < MaxCancels
  /\ cancels' = cancels + 1
  /\ CancelOutside(c) \/ CancelInTxn(c)
  /\ UNCHANGED <<tables, got, seq, attempts, faults>>
-----------------------------------------------------------------------------
Init ==
  /\ db = Empty /\ view = Empty /\ open = FALSE
  /\ queue = <<>> /\ lock = Nobody
  /\ pc = [c \in Calls |-> "start"]
  /\ reply = [c \in Calls |-> "pending"]
  /\ got = [c \in Calls |-> {}]
  /\ seq = [c \in Calls |-> 0]
  /\ cause = [c \in Calls |-> "none"]
  /\ attempts = [c \in Calls |-> 0]
  /\ cancels = 0 /\ faults = 0

Step(c) ==
  \/ Start(c) \/ Found(c) \/ Acquire(c) \/ Recover(c) \/ Proceed(c) \/ Committed(c) \/ Notify(c)
  \/ StatementFailed(c) \/ CleanedUp(c) \/ Refound(c)

Next == Worker \/ \E c \in Calls : Step(c) \/ Cancel(c)

Spec == Init /\ [][Next]_vars

\* The worker thread serves its queue and the event loop resumes a task
\* whose await is over; cancellations and faults are not owed.
Fairness ==
  /\ WF_vars(Worker)
  /\ \A c \in Calls : WF_vars(Step(c))

FairSpec == Spec /\ Fairness
-----------------------------------------------------------------------------
TypeOK ==
  /\ db \in Tables /\ view \in Tables /\ open \in BOOLEAN
  /\ queue \in Seq([call : Calls, stmt : Statements, live : BOOLEAN])
  /\ lock \in Calls \union {Nobody}
  /\ pc \in [Calls -> InTxn \union Ended \union {"start", "find", "lock", "cleanup", "refind", "notify"}]
  /\ reply \in [Calls -> Replies]
  /\ got \in [Calls -> SUBSET (Row \union ClaimRow)]
  /\ seq \in [Calls -> Nat]
  /\ cause \in [Calls -> {"none", "cancel", "error", "taken", "dup", "pk"}]
  /\ attempts \in [Calls -> 0..MaxRetries]
  /\ cancels \in 0..MaxCancels /\ faults \in 0..MaxFaults

\* A caller that is told its event was written finds it committed, whatever
\* cancellations, failed statements and left-over ROLLBACKs of other calls
\* meet on the shared connection (append_event returns after COMMIT).
CreatedIsStored ==
  \A c \in Calls : pc[c] \in {"notify", "created"} => Written(c) \subseteq db.events \union db.claims

\* A call that raised left nothing behind: _txn_immediate's ROLLBACK, or the
\* recovery of the next BEGIN when that ROLLBACK failed, keeps a later
\* COMMIT on the connection from storing the rows of the failed call.
RaisedLeavesNothing ==
  \A c \in Calls : pc[c] = "raised" => {e \in db.events : e.by = c} = {}

Log == INSTANCE EventLog WITH
  events <- db.events, claims <- db.claims, Writers <- Calls

\* The committed tables implement the append-only log: every COMMIT adds
\* exactly one event, numbered right after the run's last one, with an
\* unused key, and a claim appears together with its RunStarted event.
ImplementsLog == Log!Spec

\* Every append and every claim ends (returns, raises or is cancelled): no
\* cancellation or failed statement leaves the write lock held.
EveryCallEnds == \A c \in Calls : <>(pc[c] \in Ended)

\* "BEGIN IMMEDIATE -> MAX(seq)+1 -> INSERT -> COMMIT is atomic": what a call
\* returns as already written is committed, or still on its way to be.
ExistingIsStored ==
  \A c \in Calls : pc[c] = "existing" =>
    got[c] \subseteq db.events \union db.claims \union view.events \union view.claims
=============================================================================
