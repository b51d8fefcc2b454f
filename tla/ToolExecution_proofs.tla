------------------------ MODULE ToolExecution_proofs ------------------------
(***************************************************************************)
(* Proofs about ToolExecution, for any calls, tools, layers and limits.    *)
(***************************************************************************)
EXTENDS ToolExecution, FiniteSetTheorems, TLAPS

\* The retry budget is left while the tool runs, and only keys are looked up.
Attempts ==
  \A c \in Calls :
    /\ pc[c] # "settle" => attempt[c] <= MaxRetries
    /\ pc[c] = "lookup" => Keyed(c)

\* A tool with max_parallel = 1 is held by one call.
OneHolder ==
  \A c, d \in Calls :
    c # d /\ ToolOf[c] = ToolOf[d] /\ ToolLimit[ToolOf[c]] = 1 =>
      ~(HoldsTool(c) /\ HoldsTool(d))

\* A call with a final status is over.
Final == \A c \in Calls : status[c] \notin {"none", "waiting"} => pc[c] = "returned"

\* While a call is under way the lower layers are over.
Layered ==
  \A c, d \in Calls : LayerOf[d] < LayerOf[c] /\ pc[c] # "ready" =>
    status[d] \notin {"none", "waiting"}

\* A success is about to be stored, or its call has completed and an
\* execution with its key is stored, or the store has refused it.
Settling(c) == pc[c] = "settle" /\ result[c] = "success"

WonStored ==
  \A w \in wins :
    \/ Settling(Winner(w)) /\ w = <<This(Winner(w)), callId[Winner(w)]>>
    \/ /\ pc[Winner(w)] = "returned" /\ status[Winner(w)] = "completed"
       /\ Keyed(Winner(w)) => cached[Key(Winner(w))] # {}
    \/ pc[Winner(w)] = "returned" /\ Lost(w)

SettlingWon == \A c \in Calls : Settling(c) => <<This(c), callId[c]>> \in wins

\* What is stored under a key is a success of a call with that key, and settled.
CachedWon ==
  \A c \in Calls : Keyed(c) => \A i \in cached[Key(c)] :
    /\ i \in settled
    /\ \E w \in wins : SameKey(Winner(w), c) /\ w[2] = i

\* A call that has missed the look-up shares its key only with successes it
\* overlapped with, or which were not stored.
Missed(c) == pc[c] \in {"ask", "answer", "request", "call", "run", "settle"}

MissedOnly ==
  \A c \in Calls, w \in wins :
    Missed(c) /\ SameKey(Winner(w), c) /\ w # <<This(c), callId[c]>> =>
      Overlapping(Winner(w), c) \/ Lost(w)

Inv ==
  /\ TypeOK /\ Attempts /\ OneHolder /\ Final /\ Layered
  /\ WonStored /\ SettlingWon /\ CachedWon /\ MissedOnly
  /\ HitIsGenuine /\ RunsConfirmed /\ CallsSettled
-----------------------------------------------------------------------------
LEMMA KeyTypes ==
  ASSUME NEW c \in Calls
  PROVE  ConfirmKey(c) \in Keys /\ (Keyed(c) => Key(c) \in Keys)
BY Zenon DEF ConfirmKey, Keys

LEMMA SameTool ==
  ASSUME NEW c \in Calls, NEW d \in Calls, SameKey(c, d)
  PROVE  ToolOf[c] = ToolOf[d]
BY DEF SameKey, Key

\* A free tool with max_parallel = 1 is held by nobody.
LEMMA FreeTool ==
  ASSUME NEW c \in Calls, ToolLimit[ToolOf[c]] = 1, ToolFree(c)
  PROVE  \A d \in Calls : ToolOf[d] = ToolOf[c] => ~HoldsTool(d)
<1> DEFINE S == {d \in Calls : ToolOf[d] = ToolOf[c] /\ HoldsTool(d)}
<1>1. IsFiniteSet(S)
  BY FS_Subset, ToolAssumption
<1>2. Cardinality(S) = 0
  BY <1>1, FS_CardinalityType DEF ToolFree
<1> QED
  BY <1>1, <1>2, FS_EmptySet

\* Two calls that hold their tool at the same time overlap.
LEMMA HoldersOverlap ==
  ASSUME Final, Layered, OneHolder, NEW c \in Calls, NEW d \in Calls, c # d,
         HoldsTool(c), HoldsTool(d), SameKey(d, c)
  PROVE  Overlapping(d, c)
<1>1. ToolOf[c] = ToolOf[d]
  BY SameTool
<1>2. ToolLimit[ToolOf[d]] > 1
  <2>1. ToolLimit[ToolOf[d]] # 1
    BY <1>1 DEF OneHolder
  <2> QED
    BY <2>1, ToolAssumption
<1>3. ~(LayerOf[d] < LayerOf[c]) /\ ~(LayerOf[c] < LayerOf[d])
  BY DEF Layered, Final, HoldsTool
<1> QED
  BY <1>2, <1>3, ToolAssumption DEF Overlapping

\* Types and the retry budget.
LEMMA TypeInv == TypeOK /\ Attempts /\ [Next]_vars => (TypeOK /\ Attempts)'
<1> SUFFICES ASSUME TypeOK /\ Attempts, [Next]_vars PROVE (TypeOK /\ Attempts)'
  OBVIOUS
<1>1. ASSUME NEW c \in Calls, Enter(c) PROVE (TypeOK /\ Attempts)'
  BY <1>1 DEF Enter, Goto, locals, events, TypeOK, Ids, Pcs, Statuses, Attempts, This
<1>2. ASSUME NEW c \in Calls, EnterTool(c) PROVE (TypeOK /\ Attempts)'
  BY <1>2 DEF EnterTool, Goto, events, TypeOK, Ids, Pcs, Statuses, Attempts, This
<1>3. ASSUME NEW c \in Calls, GuardBlocks(c) PROVE (TypeOK /\ Attempts)'
  BY <1>3, KeyTypes, ToolAssumption DEF GuardBlocks, Return, Goto, events, TypeOK, Ids,
     Pcs, Statuses, Attempts, This
<1>4. ASSUME NEW c \in Calls, GuardPasses(c) PROVE (TypeOK /\ Attempts)'
  BY <1>4 DEF GuardPasses, Goto, locals, events, TypeOK, Ids, Pcs, Statuses, Attempts,
     This, AfterLookup
<1>5. ASSUME NEW c \in Calls, LookupHit(c) PROVE (TypeOK /\ Attempts)'
  BY <1>5, KeyTypes, ToolAssumption DEF LookupHit, Return, Goto, events, TypeOK, Ids,
     Pcs, Statuses, Attempts, This
<1>6. ASSUME NEW c \in Calls, LookupMiss(c) PROVE (TypeOK /\ Attempts)'
  BY <1>6 DEF LookupMiss, Goto, locals, events, TypeOK, Ids, Pcs, Statuses, Attempts,
     This, AfterLookup
<1>7. ASSUME NEW c \in Calls, Ask(c) PROVE (TypeOK /\ Attempts)'
  BY <1>7 DEF Ask, Goto, locals, events, TypeOK, Ids, Pcs, Statuses, Attempts, This
<1>8. ASSUME NEW c \in Calls, Request(c) PROVE (TypeOK /\ Attempts)'
  BY <1>8, KeyTypes, ToolAssumption DEF Request, Return, Goto, TypeOK, Ids, Pcs,
     Statuses, Attempts, This
<1>9. ASSUME NEW c \in Calls, Proceed(c) PROVE (TypeOK /\ Attempts)'
  BY <1>9, KeyTypes, ToolAssumption DEF Proceed, Goto, events, TypeOK, Ids, Pcs,
     Statuses, Attempts, This, Accepts
<1>10. ASSUME NEW c \in Calls, Declined(c) PROVE (TypeOK /\ Attempts)'
  BY <1>10, KeyTypes, ToolAssumption DEF Declined, Return, Goto, TypeOK, Ids, Pcs,
     Statuses, Attempts, This
<1>11. ASSUME NEW c \in Calls, Unanswered(c) PROVE (TypeOK /\ Attempts)'
  BY <1>11, KeyTypes, ToolAssumption DEF Unanswered, Return, Goto, events, TypeOK, Ids,
     Pcs, Statuses, Attempts, This
<1>12. ASSUME NEW c \in Calls, Call(c) PROVE (TypeOK /\ Attempts)'
  BY <1>12 DEF Call, Goto, locals, TypeOK, Ids, Pcs, Statuses, Attempts, This
<1>13. ASSUME NEW c \in Calls, NEW r \in Results, Invoke(c, r) PROVE (TypeOK /\ Attempts)'
  BY <1>13, KeyTypes, ToolAssumption DEF Invoke, Goto, events, TypeOK, Ids, Pcs,
     Statuses, Attempts, This, Exhausted, WantsRetry, Results, Raises, Returns
<1>14. ASSUME NEW c \in Calls, SettleSuccess(c) PROVE (TypeOK /\ Attempts)'
  BY <1>14, KeyTypes, ToolAssumption DEF SettleSuccess, Return, Goto, TypeOK, Ids, Pcs,
     Statuses, Attempts, This
<1>15. ASSUME NEW c \in Calls, SettleUnsuccessful(c) PROVE (TypeOK /\ Attempts)'
  BY <1>15, KeyTypes, ToolAssumption DEF SettleUnsuccessful, Return, Goto, TypeOK, Ids,
     Pcs, Statuses, Attempts, This
<1>16. ASSUME NEW c \in Calls, SettleFailed(c) PROVE (TypeOK /\ Attempts)'
  BY <1>16, KeyTypes, ToolAssumption DEF SettleFailed, Return, Goto, TypeOK, Ids, Pcs,
     Statuses, Attempts, This
<1>17. ASSUME NEW c \in Calls, SettleAsks(c) PROVE (TypeOK /\ Attempts)'
  BY <1>17, KeyTypes, ToolAssumption DEF SettleAsks, Return, Goto, events, TypeOK, Ids,
     Pcs, Statuses, Attempts, This
<1>18. ASSUME NEW c \in Calls, Rerun(c) PROVE (TypeOK /\ Attempts)'
  BY <1>18, KeyTypes, ToolAssumption DEF Rerun, Goto, events, TypeOK, Ids, Pcs, Statuses,
     Attempts, This
<1>19. ASSUME NEW i \in Ids, NEW v \in {"yes", "no"}, Confirm(i, v) PROVE (TypeOK /\ Attempts)'
  BY <1>19 DEF Confirm, locals, TypeOK, Ids, Pcs, Statuses, Attempts, This
<1>20. CASE UNCHANGED vars
  BY <1>20 DEF vars, TypeOK, Ids, Pcs, Statuses, Attempts, This
<1>21. ASSUME NEW c \in Calls, SettleLost(c) PROVE (TypeOK /\ Attempts)'
  BY <1>21, KeyTypes, ToolAssumption DEF SettleLost, Return, Goto, TypeOK, Ids, Pcs,
     Statuses, Attempts, This
<1>22. ASSUME NEW c \in Calls, StoreRaises(c) PROVE (TypeOK /\ Attempts)'
  BY <1>22, KeyTypes, ToolAssumption DEF StoreRaises, Return, Goto, events, TypeOK, Ids,
     Pcs, Statuses, Attempts, This
<1> QED
  BY <1>1, <1>2, <1>3, <1>4, <1>5, <1>6, <1>7, <1>8, <1>9, <1>10, <1>11, <1>12,
     <1>13, <1>14, <1>15, <1>16, <1>17, <1>18, <1>19, <1>20, <1>21, <1>22
  DEF Next, Step

\* A final status stays with a call that is over.
LEMMA FinalInv == TypeOK /\ Final /\ [Next]_vars => Final'
<1> SUFFICES ASSUME TypeOK /\ Final, [Next]_vars PROVE Final'
  OBVIOUS
<1>1. ASSUME NEW c \in Calls, Enter(c) PROVE Final'
  BY <1>1 DEF Enter, Goto, locals, events, TypeOK, Final
<1>2. ASSUME NEW c \in Calls, EnterTool(c) PROVE Final'
  BY <1>2 DEF EnterTool, Goto, events, TypeOK, Final
<1>3. ASSUME NEW c \in Calls, GuardBlocks(c) PROVE Final'
  BY <1>3 DEF GuardBlocks, Return, Goto, events, TypeOK, Final
<1>4. ASSUME NEW c \in Calls, GuardPasses(c) PROVE Final'
  BY <1>4 DEF GuardPasses, Goto, locals, events, TypeOK, Final
<1>5. ASSUME NEW c \in Calls, LookupHit(c) PROVE Final'
  BY <1>5 DEF LookupHit, Return, Goto, events, TypeOK, Final
<1>6. ASSUME NEW c \in Calls, LookupMiss(c) PROVE Final'
  BY <1>6 DEF LookupMiss, Goto, locals, events, TypeOK, Final
<1>7. ASSUME NEW c \in Calls, Ask(c) PROVE Final'
  BY <1>7 DEF Ask, Goto, locals, events, TypeOK, Final
<1>8. ASSUME NEW c \in Calls, Request(c) PROVE Final'
  BY <1>8 DEF Request, Return, Goto, TypeOK, Final
<1>9. ASSUME NEW c \in Calls, Proceed(c) PROVE Final'
  BY <1>9 DEF Proceed, Goto, events, TypeOK, Final
<1>10. ASSUME NEW c \in Calls, Declined(c) PROVE Final'
  BY <1>10 DEF Declined, Return, Goto, TypeOK, Final
<1>11. ASSUME NEW c \in Calls, Unanswered(c) PROVE Final'
  BY <1>11 DEF Unanswered, Return, Goto, events, TypeOK, Final
<1>12. ASSUME NEW c \in Calls, Call(c) PROVE Final'
  BY <1>12 DEF Call, Goto, locals, TypeOK, Final
<1>13. ASSUME NEW c \in Calls, NEW r \in Results, Invoke(c, r) PROVE Final'
  BY <1>13 DEF Invoke, Goto, events, TypeOK, Final
<1>14. ASSUME NEW c \in Calls, SettleSuccess(c) PROVE Final'
  BY <1>14 DEF SettleSuccess, Return, Goto, TypeOK, Final
<1>15. ASSUME NEW c \in Calls, SettleUnsuccessful(c) PROVE Final'
  BY <1>15 DEF SettleUnsuccessful, Return, Goto, TypeOK, Final
<1>16. ASSUME NEW c \in Calls, SettleFailed(c) PROVE Final'
  BY <1>16 DEF SettleFailed, Return, Goto, TypeOK, Final
<1>17. ASSUME NEW c \in Calls, SettleAsks(c) PROVE Final'
  BY <1>17 DEF SettleAsks, Return, Goto, events, TypeOK, Final
<1>18. ASSUME NEW c \in Calls, Rerun(c) PROVE Final'
  BY <1>18 DEF Rerun, Goto, events, TypeOK, Final
<1>19. ASSUME NEW i \in Ids, NEW v \in {"yes", "no"}, Confirm(i, v) PROVE Final'
  BY <1>19 DEF Confirm, locals, TypeOK, Final
<1>20. CASE UNCHANGED vars
  BY <1>20 DEF vars, TypeOK, Final
<1>21. ASSUME NEW c \in Calls, SettleLost(c) PROVE Final'
  BY <1>21 DEF SettleLost, Return, Goto, TypeOK, Final
<1>22. ASSUME NEW c \in Calls, StoreRaises(c) PROVE Final'
  BY <1>22 DEF StoreRaises, Return, Goto, events, TypeOK, Final
<1> QED
  BY <1>1, <1>2, <1>3, <1>4, <1>5, <1>6, <1>7, <1>8, <1>9, <1>10, <1>11, <1>12,
     <1>13, <1>14, <1>15, <1>16, <1>17, <1>18, <1>19, <1>20, <1>21, <1>22
  DEF Next, Step

\* Layers do not overlap.
LEMMA LayeredInv == TypeOK /\ Final /\ Layered /\ [Next]_vars => Layered'
<1> SUFFICES ASSUME TypeOK /\ Final /\ Layered, [Next]_vars PROVE Layered'
  OBVIOUS
<1>1. ASSUME NEW c \in Calls, Enter(c) PROVE Layered'
  BY <1>1 DEF Enter, Goto, locals, events, TypeOK, Layered, Final, LayerOpen
<1>2. ASSUME NEW c \in Calls, EnterTool(c) PROVE Layered'
  BY <1>2 DEF EnterTool, Goto, events, TypeOK, Layered, Final
<1>3. ASSUME NEW c \in Calls, GuardBlocks(c) PROVE Layered'
  BY <1>3 DEF GuardBlocks, Return, Goto, events, TypeOK, Layered, Final
<1>4. ASSUME NEW c \in Calls, GuardPasses(c) PROVE Layered'
  BY <1>4 DEF GuardPasses, Goto, locals, events, TypeOK, Layered, Final
<1>5. ASSUME NEW c \in Calls, LookupHit(c) PROVE Layered'
  BY <1>5 DEF LookupHit, Return, Goto, events, TypeOK, Layered, Final
<1>6. ASSUME NEW c \in Calls, LookupMiss(c) PROVE Layered'
  BY <1>6 DEF LookupMiss, Goto, locals, events, TypeOK, Layered, Final
<1>7. ASSUME NEW c \in Calls, Ask(c) PROVE Layered'
  BY <1>7 DEF Ask, Goto, locals, events, TypeOK, Layered, Final
<1>8. ASSUME NEW c \in Calls, Request(c) PROVE Layered'
  BY <1>8 DEF Request, Return, Goto, TypeOK, Layered, Final
<1>9. ASSUME NEW c \in Calls, Proceed(c) PROVE Layered'
  BY <1>9 DEF Proceed, Goto, events, TypeOK, Layered, Final
<1>10. ASSUME NEW c \in Calls, Declined(c) PROVE Layered'
  BY <1>10 DEF Declined, Return, Goto, TypeOK, Layered, Final
<1>11. ASSUME NEW c \in Calls, Unanswered(c) PROVE Layered'
  BY <1>11 DEF Unanswered, Return, Goto, events, TypeOK, Layered, Final
<1>12. ASSUME NEW c \in Calls, Call(c) PROVE Layered'
  BY <1>12 DEF Call, Goto, locals, TypeOK, Layered, Final
<1>13. ASSUME NEW c \in Calls, NEW r \in Results, Invoke(c, r) PROVE Layered'
  BY <1>13 DEF Invoke, Goto, events, TypeOK, Layered, Final
<1>14. ASSUME NEW c \in Calls, SettleSuccess(c) PROVE Layered'
  BY <1>14 DEF SettleSuccess, Return, Goto, TypeOK, Layered, Final
<1>15. ASSUME NEW c \in Calls, SettleUnsuccessful(c) PROVE Layered'
  BY <1>15 DEF SettleUnsuccessful, Return, Goto, TypeOK, Layered, Final
<1>16. ASSUME NEW c \in Calls, SettleFailed(c) PROVE Layered'
  BY <1>16 DEF SettleFailed, Return, Goto, TypeOK, Layered, Final
<1>17. ASSUME NEW c \in Calls, SettleAsks(c) PROVE Layered'
  BY <1>17 DEF SettleAsks, Return, Goto, events, TypeOK, Layered, Final
<1>18. ASSUME NEW c \in Calls, Rerun(c) PROVE Layered'
  BY <1>18 DEF Rerun, Goto, events, TypeOK, Layered, Final
<1>19. ASSUME NEW i \in Ids, NEW v \in {"yes", "no"}, Confirm(i, v) PROVE Layered'
  BY <1>19 DEF Confirm, locals, TypeOK, Layered, Final
<1>20. CASE UNCHANGED vars
  BY <1>20 DEF vars, TypeOK, Layered, Final
<1>21. ASSUME NEW c \in Calls, SettleLost(c) PROVE Layered'
  BY <1>21 DEF SettleLost, Return, Goto, TypeOK, Layered, Final
<1>22. ASSUME NEW c \in Calls, StoreRaises(c) PROVE Layered'
  BY <1>22, Zenon DEF StoreRaises, Return, Goto, events, TypeOK, Layered, Final
<1> QED
  BY <1>1, <1>2, <1>3, <1>4, <1>5, <1>6, <1>7, <1>8, <1>9, <1>10, <1>11, <1>12,
     <1>13, <1>14, <1>15, <1>16, <1>17, <1>18, <1>19, <1>20, <1>21, <1>22
  DEF Next, Step

\* max_parallel = 1 is mutual exclusion.
LEMMA HolderInv == TypeOK /\ OneHolder /\ [Next]_vars => OneHolder'
<1> SUFFICES ASSUME TypeOK /\ OneHolder, [Next]_vars PROVE OneHolder'
  OBVIOUS
<1>1. ASSUME NEW c \in Calls, Enter(c) PROVE OneHolder'
  BY <1>1 DEF Enter, Goto, locals, events, TypeOK, OneHolder, HoldsTool
<1>2. ASSUME NEW c \in Calls, EnterTool(c) PROVE OneHolder'
  <2> SUFFICES ASSUME NEW a \in Calls, NEW d \in Calls, a # d, ToolOf[a] = ToolOf[d],
                      ToolLimit[ToolOf[a]] = 1, HoldsTool(a)', HoldsTool(d)'
               PROVE  FALSE
    BY DEF OneHolder
  <2>1. ToolFree(c) /\ \A b \in Calls \ {c} : HoldsTool(b)' => HoldsTool(b)
    BY <1>2 DEF EnterTool, Goto, TypeOK, HoldsTool
  <2>2. CASE a = c
    BY <2>1, <2>2, FreeTool
  <2>3. CASE d = c
    BY <2>1, <2>3, FreeTool
  <2>4. CASE a # c /\ d # c
    BY <2>1, <2>4 DEF OneHolder
  <2> QED
    BY <2>2, <2>3, <2>4
<1>3. ASSUME NEW c \in Calls, GuardBlocks(c) PROVE OneHolder'
  BY <1>3 DEF GuardBlocks, Return, Goto, events, TypeOK, OneHolder, HoldsTool
<1>4. ASSUME NEW c \in Calls, GuardPasses(c) PROVE OneHolder'
  BY <1>4 DEF GuardPasses, Goto, locals, events, TypeOK, OneHolder, HoldsTool, AfterLookup
<1>5. ASSUME NEW c \in Calls, LookupHit(c) PROVE OneHolder'
  BY <1>5 DEF LookupHit, Return, Goto, events, TypeOK, OneHolder, HoldsTool
<1>6. ASSUME NEW c \in Calls, LookupMiss(c) PROVE OneHolder'
  BY <1>6 DEF LookupMiss, Goto, locals, events, TypeOK, OneHolder, HoldsTool, AfterLookup
<1>7. ASSUME NEW c \in Calls, Ask(c) PROVE OneHolder'
  BY <1>7 DEF Ask, Goto, locals, events, TypeOK, OneHolder, HoldsTool
<1>8. ASSUME NEW c \in Calls, Request(c) PROVE OneHolder'
  BY <1>8 DEF Request, Return, Goto, TypeOK, OneHolder, HoldsTool
<1>9. ASSUME NEW c \in Calls, Proceed(c) PROVE OneHolder'
  BY <1>9 DEF Proceed, Goto, events, TypeOK, OneHolder, HoldsTool
<1>10. ASSUME NEW c \in Calls, Declined(c) PROVE OneHolder'
  BY <1>10 DEF Declined, Return, Goto, TypeOK, OneHolder, HoldsTool
<1>11. ASSUME NEW c \in Calls, Unanswered(c) PROVE OneHolder'
  BY <1>11 DEF Unanswered, Return, Goto, events, TypeOK, OneHolder, HoldsTool
<1>12. ASSUME NEW c \in Calls, Call(c) PROVE OneHolder'
  BY <1>12 DEF Call, Goto, locals, TypeOK, OneHolder, HoldsTool
<1>13. ASSUME NEW c \in Calls, NEW r \in Results, Invoke(c, r) PROVE OneHolder'
  BY <1>13 DEF Invoke, Goto, events, TypeOK, OneHolder, HoldsTool
<1>14. ASSUME NEW c \in Calls, SettleSuccess(c) PROVE OneHolder'
  BY <1>14 DEF SettleSuccess, Return, Goto, TypeOK, OneHolder, HoldsTool
<1>15. ASSUME NEW c \in Calls, SettleUnsuccessful(c) PROVE OneHolder'
  BY <1>15 DEF SettleUnsuccessful, Return, Goto, TypeOK, OneHolder, HoldsTool
<1>16. ASSUME NEW c \in Calls, SettleFailed(c) PROVE OneHolder'
  BY <1>16 DEF SettleFailed, Return, Goto, TypeOK, OneHolder, HoldsTool
<1>17. ASSUME NEW c \in Calls, SettleAsks(c) PROVE OneHolder'
  BY <1>17 DEF SettleAsks, Return, Goto, events, TypeOK, OneHolder, HoldsTool
<1>18. ASSUME NEW c \in Calls, Rerun(c) PROVE OneHolder'
  BY <1>18 DEF Rerun, Goto, events, TypeOK, OneHolder, HoldsTool
<1>19. ASSUME NEW i \in Ids, NEW v \in {"yes", "no"}, Confirm(i, v) PROVE OneHolder'
  BY <1>19 DEF Confirm, locals, TypeOK, OneHolder, HoldsTool
<1>20. CASE UNCHANGED vars
  BY <1>20 DEF vars, TypeOK, OneHolder, HoldsTool
<1>21. ASSUME NEW c \in Calls, SettleLost(c) PROVE OneHolder'
  BY <1>21 DEF SettleLost, Return, Goto, TypeOK, OneHolder, HoldsTool
<1>22. ASSUME NEW c \in Calls, StoreRaises(c) PROVE OneHolder'
  BY <1>22 DEF StoreRaises, Return, Goto, events, TypeOK, OneHolder, HoldsTool
<1> QED
  BY <1>1, <1>2, <1>3, <1>4, <1>5, <1>6, <1>7, <1>8, <1>9, <1>10, <1>11, <1>12,
     <1>13, <1>14, <1>15, <1>16, <1>17, <1>18, <1>19, <1>20, <1>21, <1>22
  DEF Next, Step

\* Every success is stored or about to be.
LEMMA WonInv == TypeOK /\ Attempts /\ Final /\ WonStored /\ SettlingWon /\ [Next]_vars =>
  (WonStored /\ SettlingWon)'
<1> SUFFICES ASSUME TypeOK /\ Attempts /\ Final /\ WonStored /\ SettlingWon, [Next]_vars
             PROVE (WonStored /\ SettlingWon)'
  OBVIOUS
<1>1. ASSUME NEW c \in Calls, Enter(c) PROVE (WonStored /\ SettlingWon)'
  BY <1>1 DEF Enter, Goto, locals, events, TypeOK, WonStored, SettlingWon, Settling,
     Lost, Final, Attempts, Winner, This
<1>2. ASSUME NEW c \in Calls, EnterTool(c) PROVE (WonStored /\ SettlingWon)'
  BY SMTT(20), SMTT(30), <1>2
     DEF EnterTool, Goto, events, TypeOK, WonStored, SettlingWon, Settling, Lost, Final,
     Attempts, Winner, This
<1>3. ASSUME NEW c \in Calls, GuardBlocks(c) PROVE (WonStored /\ SettlingWon)'
  BY <1>3 DEF GuardBlocks, Return, Goto, events, TypeOK, WonStored, SettlingWon,
     Settling, Lost, Final, Attempts, Winner, This
<1>4. ASSUME NEW c \in Calls, GuardPasses(c) PROVE (WonStored /\ SettlingWon)'
  BY <1>4 DEF GuardPasses, Goto, locals, events, TypeOK, WonStored, SettlingWon,
     Settling, Lost, Final, Attempts, Winner, This, AfterLookup
<1>5. ASSUME NEW c \in Calls, LookupHit(c) PROVE (WonStored /\ SettlingWon)'
  BY <1>5 DEF LookupHit, Return, Goto, events, TypeOK, WonStored, SettlingWon, Settling,
     Lost, Final, Attempts, Winner, This
<1>6. ASSUME NEW c \in Calls, LookupMiss(c) PROVE (WonStored /\ SettlingWon)'
  BY SMTT(20), SMTT(30), <1>6
     DEF LookupMiss, Goto, locals, events, TypeOK, WonStored, SettlingWon, Settling,
     Lost, Final, Attempts, Winner, This, AfterLookup
<1>7. ASSUME NEW c \in Calls, Ask(c) PROVE (WonStored /\ SettlingWon)'
  BY <1>7 DEF Ask, Goto, locals, events, TypeOK, WonStored, SettlingWon, Settling, Lost, Final,
     Attempts, Winner, This
<1>8. ASSUME NEW c \in Calls, Request(c) PROVE (WonStored /\ SettlingWon)'
  BY <1>8 DEF Request, Return, Goto, TypeOK, WonStored, SettlingWon, Settling, Lost, Final,
     Attempts, Winner, This
<1>9. ASSUME NEW c \in Calls, Proceed(c) PROVE (WonStored /\ SettlingWon)'
  BY <1>9 DEF Proceed, Goto, events, TypeOK, WonStored, SettlingWon, Settling, Lost, Final,
     Attempts, Winner, This
<1>10. ASSUME NEW c \in Calls, Declined(c) PROVE (WonStored /\ SettlingWon)'
  BY <1>10 DEF Declined, Return, Goto, TypeOK, WonStored, SettlingWon, Settling, Lost, Final,
     Attempts, Winner, This
<1>11. ASSUME NEW c \in Calls, Unanswered(c) PROVE (WonStored /\ SettlingWon)'
  BY <1>11 DEF Unanswered, Return, Goto, events, TypeOK, WonStored, SettlingWon,
     Settling, Lost, Final, Attempts, Winner, This
<1>12. ASSUME NEW c \in Calls, Call(c) PROVE (WonStored /\ SettlingWon)'
  BY SMTT(20), SMTT(30), <1>12
     DEF Call, Goto, locals, TypeOK, WonStored, SettlingWon, Settling, Lost, Final,
     Attempts, Winner, This
<1>13. ASSUME NEW c \in Calls, NEW r \in Results, Invoke(c, r) PROVE (WonStored /\ SettlingWon)'
  BY <1>13, KeyTypes, ToolAssumption DEF Invoke, Goto, events, TypeOK, WonStored,
     SettlingWon, Settling, Lost, Final, Attempts, Winner, This, Exhausted, WantsRetry,
     Results, Raises, Returns
<1>14. ASSUME NEW c \in Calls, SettleSuccess(c) PROVE (WonStored /\ SettlingWon)'
  <2>1. /\ \A d \in Calls : Keyed(d) /\ cached[Key(d)] # {} => cached'[Key(d)] # {}
        /\ Keyed(c) => cached'[Key(c)] # {}
    BY <1>14, KeyTypes, Zenon DEF SettleSuccess, TypeOK
  <2>2. ASSUME NEW d \in Calls \ {c}
        PROVE  /\ pc'[d] = pc[d] /\ result'[d] = result[d] /\ status'[d] = status[d]
               /\ callId'[d] = callId[d] /\ round'[d] = round[d]
    BY <1>14, <2>2 DEF SettleSuccess, Return, Goto, TypeOK
  <2>3. pc'[c] = "returned" /\ status'[c] = "completed" /\ wins' = wins
    BY <1>14 DEF SettleSuccess, Return, Goto, TypeOK
  <2>4. \A w \in wins : Winner(w) \in Calls
    BY Zenon DEF TypeOK, Ids, Winner
  <2>5. WonStored'
    <3> SUFFICES ASSUME NEW w \in wins
                 PROVE  \/ Settling(Winner(w))' /\ w = <<This(Winner(w)), callId[Winner(w)]>>'
                        \/ /\ pc'[Winner(w)] = "returned" /\ status'[Winner(w)] = "completed"
                           /\ Keyed(Winner(w)) => cached'[Key(Winner(w))] # {}
                        \/ pc'[Winner(w)] = "returned" /\ Lost(w)'
      BY <2>3, Zenon DEF WonStored, Winner, Keyed, Key
    <3>1. CASE Winner(w) = c
      BY <2>1, <2>3, <3>1, Zenon
    <3>2. CASE Winner(w) # c
      BY <2>1, <2>2, <2>4, <3>2, Zenon DEF WonStored, Settling, This, Lost
    <3> QED
      BY <3>1, <3>2, Zenon
  <2>6. SettlingWon'
    BY <2>2, <2>3, Zenon DEF SettlingWon, Settling, This
  <2> QED
    BY <2>5, <2>6
<1>15. ASSUME NEW c \in Calls, SettleUnsuccessful(c) PROVE (WonStored /\ SettlingWon)'
  BY SMTT(20), SMTT(30), <1>15
     DEF SettleUnsuccessful, Return, Goto, TypeOK, WonStored, SettlingWon,
     Settling, Lost, Final, Attempts, Winner, This
<1>16. ASSUME NEW c \in Calls, SettleFailed(c) PROVE (WonStored /\ SettlingWon)'
  BY <1>16 DEF SettleFailed, Return, Goto, TypeOK, WonStored, SettlingWon, Settling,
     Lost, Final, Attempts, Winner, This
<1>17. ASSUME NEW c \in Calls, SettleAsks(c) PROVE (WonStored /\ SettlingWon)'
  BY <1>17 DEF SettleAsks, Return, Goto, events, TypeOK, WonStored, SettlingWon,
     Settling, Lost, Final, Attempts, Winner, This
<1>18. ASSUME NEW c \in Calls, Rerun(c) PROVE (WonStored /\ SettlingWon)'
  BY <1>18 DEF Rerun, Goto, events, TypeOK, WonStored, SettlingWon, Settling, Lost, Final,
     Attempts, Winner, This
<1>19. ASSUME NEW i \in Ids, NEW v \in {"yes", "no"}, Confirm(i, v) PROVE (WonStored /\ SettlingWon)'
  BY <1>19 DEF Confirm, locals, TypeOK, WonStored, SettlingWon, Settling, Lost, Final,
     Attempts, Winner, This
<1>20. CASE UNCHANGED vars
  BY <1>20, Zenon
     DEF vars, TypeOK, WonStored, SettlingWon, Settling, Lost, Final, Attempts, Winner,
     This
<1>21. ASSUME NEW c \in Calls, SettleLost(c) PROVE (WonStored /\ SettlingWon)'
  BY <1>21 DEF SettleLost, Return, Goto, TypeOK, WonStored, SettlingWon, Settling,
     Lost, Final, Attempts, Winner, This
<1>22. ASSUME NEW c \in Calls, StoreRaises(c) PROVE (WonStored /\ SettlingWon)'
  BY <1>22 DEF StoreRaises, Return, Goto, events, TypeOK, WonStored, SettlingWon,
     Settling, Lost, Final, Attempts, Winner, This
<1> QED
  BY <1>1, <1>2, <1>3, <1>4, <1>5, <1>6, <1>7, <1>8, <1>9, <1>10, <1>11, <1>12,
     <1>13, <1>14, <1>15, <1>16, <1>17, <1>18, <1>19, <1>20, <1>21, <1>22
  DEF Next, Step

\* Only successes are stored under a key.
LEMMA CachedInv == TypeOK /\ SettlingWon /\ CachedWon /\ [Next]_vars => CachedWon'
<1> SUFFICES ASSUME TypeOK /\ SettlingWon /\ CachedWon, [Next]_vars PROVE CachedWon'
  OBVIOUS
<1>1. ASSUME NEW c \in Calls, Enter(c) PROVE CachedWon'
  BY <1>1 DEF Enter, Goto, locals, events, TypeOK, CachedWon, SettlingWon, Settling,
     SameKey, Winner, This
<1>2. ASSUME NEW c \in Calls, EnterTool(c) PROVE CachedWon'
  BY <1>2 DEF EnterTool, Goto, events, TypeOK, CachedWon, SettlingWon, Settling, SameKey,
     Winner, This
<1>3. ASSUME NEW c \in Calls, GuardBlocks(c) PROVE CachedWon'
  BY <1>3 DEF GuardBlocks, Return, Goto, events, TypeOK, CachedWon, SettlingWon,
     Settling, SameKey, Winner, This
<1>4. ASSUME NEW c \in Calls, GuardPasses(c) PROVE CachedWon'
  BY <1>4 DEF GuardPasses, Goto, locals, events, TypeOK, CachedWon, SettlingWon,
     Settling, SameKey, Winner, This
<1>5. ASSUME NEW c \in Calls, LookupHit(c) PROVE CachedWon'
  BY <1>5 DEF LookupHit, Return, Goto, events, TypeOK, CachedWon, SettlingWon, Settling,
     SameKey, Winner, This
<1>6. ASSUME NEW c \in Calls, LookupMiss(c) PROVE CachedWon'
  BY <1>6 DEF LookupMiss, Goto, locals, events, TypeOK, CachedWon, SettlingWon, Settling,
     SameKey, Winner, This
<1>7. ASSUME NEW c \in Calls, Ask(c) PROVE CachedWon'
  BY <1>7 DEF Ask, Goto, locals, events, TypeOK, CachedWon, SettlingWon, Settling,
     SameKey, Winner, This
<1>8. ASSUME NEW c \in Calls, Request(c) PROVE CachedWon'
  BY <1>8 DEF Request, Return, Goto, TypeOK, CachedWon, SettlingWon, Settling, SameKey,
     Winner, This
<1>9. ASSUME NEW c \in Calls, Proceed(c) PROVE CachedWon'
  BY <1>9 DEF Proceed, Goto, events, TypeOK, CachedWon, SettlingWon, Settling, SameKey,
     Winner, This
<1>10. ASSUME NEW c \in Calls, Declined(c) PROVE CachedWon'
  BY <1>10 DEF Declined, Return, Goto, TypeOK, CachedWon, SettlingWon, Settling, SameKey,
     Winner, This
<1>11. ASSUME NEW c \in Calls, Unanswered(c) PROVE CachedWon'
  BY <1>11 DEF Unanswered, Return, Goto, events, TypeOK, CachedWon, SettlingWon,
     Settling, SameKey, Winner, This
<1>12. ASSUME NEW c \in Calls, Call(c) PROVE CachedWon'
  BY <1>12 DEF Call, Goto, locals, TypeOK, CachedWon, SettlingWon, Settling, SameKey,
     Winner, This
<1>13. ASSUME NEW c \in Calls, NEW r \in Results, Invoke(c, r) PROVE CachedWon'
  BY SMTT(20), SMTT(30), <1>13
     DEF Invoke, Goto, events, TypeOK, CachedWon, SettlingWon, Settling, SameKey,
     Winner, This
<1>14. ASSUME NEW c \in Calls, SettleSuccess(c) PROVE CachedWon'
  <2> SUFFICES ASSUME NEW d \in Calls, Keyed(d), NEW i \in cached'[Key(d)]
               PROVE  i \in settled' /\ \E w \in wins' : SameKey(Winner(w), d) /\ w[2] = i
    BY Zenon DEF CachedWon, SameKey, Winner, Keyed, Key
  <2>1. settled \subseteq settled' /\ wins' = wins
    BY <1>14 DEF SettleSuccess
  <2>2. CASE i \in cached[Key(d)]
    BY <2>1, <2>2 DEF CachedWon
  <2>3. CASE i \notin cached[Key(d)]
    <3>1. Keyed(c) /\ Key(d) = Key(c) /\ i = callId[c] /\ i \in settled'
      BY <1>14, <2>3, KeyTypes DEF SettleSuccess, TypeOK
    <3> DEFINE w == <<This(c), callId[c]>>
    <3>2. w \in wins /\ Winner(w) = c /\ w[2] = i
      BY <1>14, <3>1 DEF SettleSuccess, SettlingWon, Settling, Winner, This
    <3> QED
      BY <2>1, <3>1, <3>2 DEF SameKey
  <2> QED
    BY <2>2, <2>3, Zenon
<1>15. ASSUME NEW c \in Calls, SettleUnsuccessful(c) PROVE CachedWon'
  BY <1>15 DEF SettleUnsuccessful, Return, Goto, TypeOK, CachedWon, SettlingWon,
     Settling, SameKey, Winner, This
<1>16. ASSUME NEW c \in Calls, SettleFailed(c) PROVE CachedWon'
  BY <1>16 DEF SettleFailed, Return, Goto, TypeOK, CachedWon, SettlingWon, Settling,
     SameKey, Winner, This
<1>17. ASSUME NEW c \in Calls, SettleAsks(c) PROVE CachedWon'
  BY <1>17 DEF SettleAsks, Return, Goto, events, TypeOK, CachedWon, SettlingWon,
     Settling, SameKey, Winner, This
<1>18. ASSUME NEW c \in Calls, Rerun(c) PROVE CachedWon'
  BY <1>18 DEF Rerun, Goto, events, TypeOK, CachedWon, SettlingWon, Settling, SameKey,
     Winner, This
<1>19. ASSUME NEW i \in Ids, NEW v \in {"yes", "no"}, Confirm(i, v) PROVE CachedWon'
  BY <1>19 DEF Confirm, locals, TypeOK, CachedWon, SettlingWon, Settling, SameKey,
     Winner, This
<1>20. CASE UNCHANGED vars
  BY <1>20 DEF vars, TypeOK, CachedWon, SettlingWon, Settling, SameKey, Winner, This
<1>21. ASSUME NEW c \in Calls, SettleLost(c) PROVE CachedWon'
  BY <1>21 DEF SettleLost, Return, Goto, TypeOK, CachedWon, SettlingWon, Settling,
     SameKey, Winner, This
<1>22. ASSUME NEW c \in Calls, StoreRaises(c) PROVE CachedWon'
  BY <1>22 DEF StoreRaises, Return, Goto, events, TypeOK, CachedWon, SettlingWon,
     Settling, SameKey, Winner, This
<1> QED
  BY <1>1, <1>2, <1>3, <1>4, <1>5, <1>6, <1>7, <1>8, <1>9, <1>10, <1>11, <1>12,
     <1>13, <1>14, <1>15, <1>16, <1>17, <1>18, <1>19, <1>20, <1>21, <1>22
  DEF Next, Step

\* Hits stay genuine.
LEMMA HitInv == TypeOK /\ Attempts /\ Final /\ CachedWon /\ HitIsGenuine /\ [Next]_vars
  => HitIsGenuine'
<1> SUFFICES ASSUME TypeOK /\ Attempts /\ Final /\ CachedWon /\ HitIsGenuine, [Next]_vars
             PROVE HitIsGenuine'
  OBVIOUS
<1>1. ASSUME NEW c \in Calls, Enter(c) PROVE HitIsGenuine'
  BY <1>1 DEF Enter, Goto, locals, events, TypeOK, HitIsGenuine, CachedWon, Final,
     Attempts, SameKey, Winner
<1>2. ASSUME NEW c \in Calls, EnterTool(c) PROVE HitIsGenuine'
  BY <1>2 DEF EnterTool, Goto, events, TypeOK, HitIsGenuine, CachedWon, Final, Attempts,
     SameKey, Winner
<1>3. ASSUME NEW c \in Calls, GuardBlocks(c) PROVE HitIsGenuine'
  BY <1>3 DEF GuardBlocks, Return, Goto, events, TypeOK, HitIsGenuine, CachedWon, Final,
     Attempts, SameKey, Winner
<1>4. ASSUME NEW c \in Calls, GuardPasses(c) PROVE HitIsGenuine'
  BY <1>4 DEF GuardPasses, Goto, locals, events, TypeOK, HitIsGenuine, CachedWon, Final,
     Attempts, SameKey, Winner
<1>5. ASSUME NEW c \in Calls, LookupHit(c) PROVE HitIsGenuine'
  BY SMTT(20), SMTT(30), <1>5
     DEF LookupHit, Return, Goto, events, TypeOK, HitIsGenuine, CachedWon, Final,
     Attempts, SameKey, Winner
<1>6. ASSUME NEW c \in Calls, LookupMiss(c) PROVE HitIsGenuine'
  BY <1>6, Zenon DEF LookupMiss, Goto, locals, events, TypeOK, HitIsGenuine, CachedWon, Final,
     Attempts, SameKey, Winner
<1>7. ASSUME NEW c \in Calls, Ask(c) PROVE HitIsGenuine'
  BY <1>7, Zenon DEF Ask, Goto, locals, events, TypeOK, HitIsGenuine, CachedWon, Final,
     Attempts, SameKey, Winner
<1>8. ASSUME NEW c \in Calls, Request(c) PROVE HitIsGenuine'
  BY <1>8, Zenon DEF Request, Return, Goto, TypeOK, HitIsGenuine, CachedWon, Final, Attempts,
     SameKey, Winner
<1>9. ASSUME NEW c \in Calls, Proceed(c) PROVE HitIsGenuine'
  <2>1. status[c] # "hit" /\ status' = status /\ wins' = wins
    BY <1>9 DEF Proceed, Final
  <2>2. \A d \in Calls : d # c => callId'[d] = callId[d]
    BY <1>9 DEF Proceed, TypeOK
  <2>3. \A d \in Calls : status[d] = "hit" =>
          \E w \in wins : SameKey(Winner(w), d) /\ w[2] = callId'[d]
    BY <2>1, <2>2, Zenon DEF HitIsGenuine
  <2> QED
    BY <2>1, <2>3, Zenon DEF HitIsGenuine, SameKey, Winner, Keyed, Key
<1>10. ASSUME NEW c \in Calls, Declined(c) PROVE HitIsGenuine'
  BY <1>10 DEF Declined, Return, Goto, TypeOK, HitIsGenuine, CachedWon, Final, Attempts,
     SameKey, Winner
<1>11. ASSUME NEW c \in Calls, Unanswered(c) PROVE HitIsGenuine'
  BY <1>11 DEF Unanswered, Return, Goto, events, TypeOK, HitIsGenuine, CachedWon, Final,
     Attempts, SameKey, Winner
<1>12. ASSUME NEW c \in Calls, Call(c) PROVE HitIsGenuine'
  BY <1>12, Zenon DEF Call, Goto, locals, TypeOK, HitIsGenuine, CachedWon, Final, Attempts,
     SameKey, Winner
<1>13. ASSUME NEW c \in Calls, NEW r \in Results, Invoke(c, r) PROVE HitIsGenuine'
  BY <1>13, Zenon DEF Invoke, Goto, events, TypeOK, HitIsGenuine, CachedWon, Final, Attempts,
     SameKey, Winner
<1>14. ASSUME NEW c \in Calls, SettleSuccess(c) PROVE HitIsGenuine'
  BY <1>14 DEF SettleSuccess, Return, Goto, TypeOK, HitIsGenuine, CachedWon, Final,
     Attempts, SameKey, Winner
<1>15. ASSUME NEW c \in Calls, SettleUnsuccessful(c) PROVE HitIsGenuine'
  BY <1>15 DEF SettleUnsuccessful, Return, Goto, TypeOK, HitIsGenuine, CachedWon, Final,
     Attempts, SameKey, Winner
<1>16. ASSUME NEW c \in Calls, SettleFailed(c) PROVE HitIsGenuine'
  BY <1>16 DEF SettleFailed, Return, Goto, TypeOK, HitIsGenuine, CachedWon, Final,
     Attempts, SameKey, Winner
<1>17. ASSUME NEW c \in Calls, SettleAsks(c) PROVE HitIsGenuine'
  BY <1>17, Zenon DEF SettleAsks, Return, Goto, events, TypeOK, HitIsGenuine, CachedWon, Final,
     Attempts, SameKey, Winner
<1>18. ASSUME NEW c \in Calls, Rerun(c) PROVE HitIsGenuine'
  BY <1>18, Zenon DEF Rerun, Goto, events, TypeOK, HitIsGenuine, CachedWon, Final, Attempts,
     SameKey, Winner
<1>19. ASSUME NEW i \in Ids, NEW v \in {"yes", "no"}, Confirm(i, v) PROVE HitIsGenuine'
  BY <1>19 DEF Confirm, locals, TypeOK, HitIsGenuine, CachedWon, Final, Attempts,
     SameKey, Winner
<1>20. CASE UNCHANGED vars
  BY <1>20 DEF vars, TypeOK, HitIsGenuine, CachedWon, Final, Attempts, SameKey, Winner
<1>21. ASSUME NEW c \in Calls, SettleLost(c) PROVE HitIsGenuine'
  BY <1>21 DEF SettleLost, Return, Goto, TypeOK, HitIsGenuine, CachedWon, Final,
     Attempts, SameKey, Winner
<1>22. ASSUME NEW c \in Calls, StoreRaises(c) PROVE HitIsGenuine'
  BY <1>22 DEF StoreRaises, Return, Goto, events, TypeOK, HitIsGenuine, CachedWon, Final,
     Attempts, SameKey, Winner
<1> QED
  BY <1>1, <1>2, <1>3, <1>4, <1>5, <1>6, <1>7, <1>8, <1>9, <1>10, <1>11, <1>12,
     <1>13, <1>14, <1>15, <1>16, <1>17, <1>18, <1>19, <1>20, <1>21, <1>22
  DEF Next, Step

\* The operator's yes stays.
LEMMA ConfirmedInv == TypeOK /\ RunsConfirmed /\ [Next]_vars => RunsConfirmed'
<1> SUFFICES ASSUME TypeOK /\ RunsConfirmed, [Next]_vars PROVE RunsConfirmed'
  OBVIOUS
<1>1. ASSUME NEW c \in Calls, Enter(c) PROVE RunsConfirmed'
  BY <1>1 DEF Enter, Goto, locals, events, TypeOK, RunsConfirmed
<1>2. ASSUME NEW c \in Calls, EnterTool(c) PROVE RunsConfirmed'
  BY <1>2 DEF EnterTool, Goto, events, TypeOK, RunsConfirmed
<1>3. ASSUME NEW c \in Calls, GuardBlocks(c) PROVE RunsConfirmed'
  BY <1>3 DEF GuardBlocks, Return, Goto, events, TypeOK, RunsConfirmed
<1>4. ASSUME NEW c \in Calls, GuardPasses(c) PROVE RunsConfirmed'
  BY <1>4 DEF GuardPasses, Goto, locals, events, TypeOK, RunsConfirmed, AfterLookup
<1>5. ASSUME NEW c \in Calls, LookupHit(c) PROVE RunsConfirmed'
  BY <1>5 DEF LookupHit, Return, Goto, events, TypeOK, RunsConfirmed
<1>6. ASSUME NEW c \in Calls, LookupMiss(c) PROVE RunsConfirmed'
  BY <1>6 DEF LookupMiss, Goto, locals, events, TypeOK, RunsConfirmed, AfterLookup
<1>7. ASSUME NEW c \in Calls, Ask(c) PROVE RunsConfirmed'
  BY <1>7 DEF Ask, Goto, locals, events, TypeOK, RunsConfirmed
<1>8. ASSUME NEW c \in Calls, Request(c) PROVE RunsConfirmed'
  BY <1>8 DEF Request, Return, Goto, TypeOK, RunsConfirmed
<1>9. ASSUME NEW c \in Calls, Proceed(c) PROVE RunsConfirmed'
  BY <1>9 DEF Proceed, Goto, events, TypeOK, RunsConfirmed, Accepts
<1>10. ASSUME NEW c \in Calls, Declined(c) PROVE RunsConfirmed'
  BY <1>10 DEF Declined, Return, Goto, TypeOK, RunsConfirmed
<1>11. ASSUME NEW c \in Calls, Unanswered(c) PROVE RunsConfirmed'
  BY <1>11 DEF Unanswered, Return, Goto, events, TypeOK, RunsConfirmed
<1>12. ASSUME NEW c \in Calls, Call(c) PROVE RunsConfirmed'
  BY <1>12 DEF Call, Goto, locals, TypeOK, RunsConfirmed
<1>13. ASSUME NEW c \in Calls, NEW r \in Results, Invoke(c, r) PROVE RunsConfirmed'
  BY <1>13 DEF Invoke, Goto, events, TypeOK, RunsConfirmed
<1>14. ASSUME NEW c \in Calls, SettleSuccess(c) PROVE RunsConfirmed'
  BY <1>14 DEF SettleSuccess, Return, Goto, TypeOK, RunsConfirmed
<1>15. ASSUME NEW c \in Calls, SettleUnsuccessful(c) PROVE RunsConfirmed'
  BY <1>15 DEF SettleUnsuccessful, Return, Goto, TypeOK, RunsConfirmed
<1>16. ASSUME NEW c \in Calls, SettleFailed(c) PROVE RunsConfirmed'
  BY <1>16 DEF SettleFailed, Return, Goto, TypeOK, RunsConfirmed
<1>17. ASSUME NEW c \in Calls, SettleAsks(c) PROVE RunsConfirmed'
  BY <1>17 DEF SettleAsks, Return, Goto, events, TypeOK, RunsConfirmed
<1>18. ASSUME NEW c \in Calls, Rerun(c) PROVE RunsConfirmed'
  BY <1>18 DEF Rerun, Goto, events, TypeOK, RunsConfirmed
<1>19. ASSUME NEW i \in Ids, NEW v \in {"yes", "no"}, Confirm(i, v) PROVE RunsConfirmed'
  BY <1>19 DEF Confirm, locals, TypeOK, RunsConfirmed
<1>20. CASE UNCHANGED vars
  BY <1>20 DEF vars, TypeOK, RunsConfirmed
<1>21. ASSUME NEW c \in Calls, SettleLost(c) PROVE RunsConfirmed'
  BY <1>21 DEF SettleLost, Return, Goto, TypeOK, RunsConfirmed
<1>22. ASSUME NEW c \in Calls, StoreRaises(c) PROVE RunsConfirmed'
  BY <1>22 DEF StoreRaises, Return, Goto, events, TypeOK, RunsConfirmed
<1> QED
  BY <1>1, <1>2, <1>3, <1>4, <1>5, <1>6, <1>7, <1>8, <1>9, <1>10, <1>11, <1>12,
     <1>13, <1>14, <1>15, <1>16, <1>17, <1>18, <1>19, <1>20, <1>21, <1>22
  DEF Next, Step

\* Calls stay settled.
LEMMA SettledInv == TypeOK /\ CachedWon /\ Final /\ CallsSettled /\ [Next]_vars =>
  CallsSettled'
<1> SUFFICES ASSUME TypeOK /\ CachedWon /\ Final /\ CallsSettled, [Next]_vars PROVE
             CallsSettled'
  OBVIOUS
<1>1. ASSUME NEW c \in Calls, Enter(c) PROVE CallsSettled'
  BY <1>1 DEF Enter, Goto, locals, events, TypeOK, CallsSettled, CachedWon, Final
<1>2. ASSUME NEW c \in Calls, EnterTool(c) PROVE CallsSettled'
  BY <1>2, Zenon DEF EnterTool, Goto, events, TypeOK, CallsSettled, CachedWon, Final
<1>3. ASSUME NEW c \in Calls, GuardBlocks(c) PROVE CallsSettled'
  BY <1>3 DEF GuardBlocks, Return, Goto, events, TypeOK, CallsSettled, CachedWon, Final
<1>4. ASSUME NEW c \in Calls, GuardPasses(c) PROVE CallsSettled'
  BY <1>4 DEF GuardPasses, Goto, locals, events, TypeOK, CallsSettled, CachedWon, Final
<1>5. ASSUME NEW c \in Calls, LookupHit(c) PROVE CallsSettled'
  BY <1>5 DEF LookupHit, Return, Goto, events, TypeOK, CallsSettled, CachedWon, Final
<1>6. ASSUME NEW c \in Calls, LookupMiss(c) PROVE CallsSettled'
  BY <1>6 DEF LookupMiss, Goto, locals, events, TypeOK, CallsSettled, CachedWon, Final
<1>7. ASSUME NEW c \in Calls, Ask(c) PROVE CallsSettled'
  BY <1>7 DEF Ask, Goto, locals, events, TypeOK, CallsSettled, CachedWon, Final
<1>8. ASSUME NEW c \in Calls, Request(c) PROVE CallsSettled'
  BY <1>8 DEF Request, Return, Goto, TypeOK, CallsSettled, CachedWon, Final
<1>9. ASSUME NEW c \in Calls, Proceed(c) PROVE CallsSettled'
  BY <1>9 DEF Proceed, Goto, events, TypeOK, CallsSettled, CachedWon, Final
<1>10. ASSUME NEW c \in Calls, Declined(c) PROVE CallsSettled'
  BY <1>10 DEF Declined, Return, Goto, TypeOK, CallsSettled, CachedWon, Final
<1>11. ASSUME NEW c \in Calls, Unanswered(c) PROVE CallsSettled'
  BY <1>11 DEF Unanswered, Return, Goto, events, TypeOK, CallsSettled, CachedWon, Final
<1>12. ASSUME NEW c \in Calls, Call(c) PROVE CallsSettled'
  BY <1>12 DEF Call, Goto, locals, TypeOK, CallsSettled, CachedWon, Final
<1>13. ASSUME NEW c \in Calls, NEW r \in Results, Invoke(c, r) PROVE CallsSettled'
  BY <1>13, Zenon DEF Invoke, Goto, events, TypeOK, CallsSettled, CachedWon, Final
<1>14. ASSUME NEW c \in Calls, SettleSuccess(c) PROVE CallsSettled'
  BY <1>14 DEF SettleSuccess, Return, Goto, TypeOK, CallsSettled, CachedWon, Final
<1>15. ASSUME NEW c \in Calls, SettleUnsuccessful(c) PROVE CallsSettled'
  BY <1>15 DEF SettleUnsuccessful, Return, Goto, TypeOK, CallsSettled, CachedWon, Final
<1>16. ASSUME NEW c \in Calls, SettleFailed(c) PROVE CallsSettled'
  BY <1>16 DEF SettleFailed, Return, Goto, TypeOK, CallsSettled, CachedWon, Final
<1>17. ASSUME NEW c \in Calls, SettleAsks(c) PROVE CallsSettled'
  BY <1>17 DEF SettleAsks, Return, Goto, events, TypeOK, CallsSettled, CachedWon, Final
<1>18. ASSUME NEW c \in Calls, Rerun(c) PROVE CallsSettled'
  BY <1>18 DEF Rerun, Goto, events, TypeOK, CallsSettled, CachedWon, Final
<1>19. ASSUME NEW i \in Ids, NEW v \in {"yes", "no"}, Confirm(i, v) PROVE CallsSettled'
  BY <1>19 DEF Confirm, locals, TypeOK, CallsSettled, CachedWon, Final
<1>20. CASE UNCHANGED vars
  BY <1>20 DEF vars, TypeOK, CallsSettled, CachedWon, Final
<1>21. ASSUME NEW c \in Calls, SettleLost(c) PROVE CallsSettled'
  BY <1>21 DEF SettleLost, Return, Goto, TypeOK, CallsSettled, CachedWon, Final
<1>22. ASSUME NEW c \in Calls, StoreRaises(c) PROVE CallsSettled'
  BY <1>22 DEF StoreRaises, Return, Goto, events, TypeOK, CallsSettled, CachedWon, Final
<1> QED
  BY <1>1, <1>2, <1>3, <1>4, <1>5, <1>6, <1>7, <1>8, <1>9, <1>10, <1>11, <1>12,
     <1>13, <1>14, <1>15, <1>16, <1>17, <1>18, <1>19, <1>20, <1>21, <1>22
  DEF Next, Step

\* A call whose success was lost is over.
LEMMA LostStays == TypeOK /\ Final /\ [Next]_vars => \A w \in wins : Lost(w) => Lost(w)'
<1> SUFFICES ASSUME TypeOK, Final, [Next]_vars, NEW w \in wins, Lost(w) PROVE Lost(w)'
  OBVIOUS
<1> DEFINE d == Winner(w)
<1>1. d \in Calls /\ status[d] \in {"failed", "raised"} /\ pc[d] = "returned"
  BY Zenon DEF TypeOK, Ids, Winner, Lost, Final
<1> HIDE DEF d
<1>2. status'[d] = status[d]
  <2>1. ASSUME NEW c \in Calls, Enter(c) PROVE status'[d] = status[d]
    BY <1>1, <2>1 DEF Enter, Goto, locals, events, TypeOK
  <2>2. ASSUME NEW c \in Calls, EnterTool(c) PROVE status'[d] = status[d]
    BY <1>1, <2>2 DEF EnterTool, Goto, events, TypeOK
  <2>3. ASSUME NEW c \in Calls, GuardBlocks(c) PROVE status'[d] = status[d]
    BY <1>1, <2>3 DEF GuardBlocks, Return, Goto, events, TypeOK
  <2>4. ASSUME NEW c \in Calls, GuardPasses(c) PROVE status'[d] = status[d]
    BY <1>1, <2>4 DEF GuardPasses, Goto, locals, events, TypeOK
  <2>5. ASSUME NEW c \in Calls, LookupHit(c) PROVE status'[d] = status[d]
    BY <1>1, <2>5 DEF LookupHit, Return, Goto, events, TypeOK
  <2>6. ASSUME NEW c \in Calls, LookupMiss(c) PROVE status'[d] = status[d]
    BY <1>1, <2>6 DEF LookupMiss, Goto, locals, events, TypeOK
  <2>7. ASSUME NEW c \in Calls, Ask(c) PROVE status'[d] = status[d]
    BY <1>1, <2>7, Zenon DEF Ask, Goto, locals, events, TypeOK
  <2>8. ASSUME NEW c \in Calls, Request(c) PROVE status'[d] = status[d]
    BY <1>1, <2>8 DEF Request, Return, Goto, TypeOK
  <2>9. ASSUME NEW c \in Calls, Proceed(c) PROVE status'[d] = status[d]
    BY <1>1, <2>9 DEF Proceed, Goto, events, TypeOK
  <2>10. ASSUME NEW c \in Calls, Declined(c) PROVE status'[d] = status[d]
    BY <1>1, <2>10 DEF Declined, Return, Goto, TypeOK
  <2>11. ASSUME NEW c \in Calls, Unanswered(c) PROVE status'[d] = status[d]
    BY <1>1, <2>11 DEF Unanswered, Return, Goto, events, TypeOK
  <2>12. ASSUME NEW c \in Calls, Call(c) PROVE status'[d] = status[d]
    BY <1>1, <2>12 DEF Call, Goto, locals, TypeOK
  <2>13. ASSUME NEW c \in Calls, NEW r \in Results, Invoke(c, r) PROVE status'[d] = status[d]
    BY <1>1, <2>13 DEF Invoke, Goto, events, TypeOK
  <2>14. ASSUME NEW c \in Calls, SettleSuccess(c) PROVE status'[d] = status[d]
    BY <1>1, <2>14, Zenon DEF SettleSuccess, Return, Goto, TypeOK
  <2>15. ASSUME NEW c \in Calls, SettleUnsuccessful(c) PROVE status'[d] = status[d]
    BY <1>1, <2>15 DEF SettleUnsuccessful, Return, Goto, TypeOK
  <2>16. ASSUME NEW c \in Calls, SettleFailed(c) PROVE status'[d] = status[d]
    BY <1>1, <2>16 DEF SettleFailed, Return, Goto, TypeOK
  <2>17. ASSUME NEW c \in Calls, SettleAsks(c) PROVE status'[d] = status[d]
    BY <1>1, <2>17 DEF SettleAsks, Return, Goto, events, TypeOK
  <2>18. ASSUME NEW c \in Calls, Rerun(c) PROVE status'[d] = status[d]
    BY <1>1, <2>18 DEF Rerun, Goto, events, TypeOK
  <2>19. ASSUME NEW i \in Ids, NEW v \in {"yes", "no"}, Confirm(i, v) PROVE status'[d] = status[d]
    BY <1>1, <2>19 DEF Confirm, locals, TypeOK
  <2>20. CASE UNCHANGED vars
    BY <1>1, <2>20 DEF vars, TypeOK
  <2>21. ASSUME NEW c \in Calls, SettleLost(c) PROVE status'[d] = status[d]
    BY <1>1, <2>21 DEF SettleLost, Return, Goto, TypeOK
  <2>22. ASSUME NEW c \in Calls, StoreRaises(c) PROVE status'[d] = status[d]
    BY <1>1, <2>22, Zenon DEF StoreRaises, Return, Goto, events, TypeOK
  <2> QED
    BY Zenon, <2>1, <2>2, <2>3, <2>4, <2>5, <2>6, <2>7, <2>8, <2>9, <2>10, <2>11, <2>12,
       <2>13, <2>14, <2>15, <2>16, <2>17, <2>18, <2>19, <2>20, <2>21, <2>22
    DEF Next, Step
<1> QED
  BY <1>1, <1>2 DEF Lost, d

\* A call that missed the look-up.
LEMMA MissedInv == TypeOK /\ Attempts /\ OneHolder /\ Final /\ Layered /\ WonStored /\
  MissedOnly /\ [Next]_vars => MissedOnly'
<1> SUFFICES ASSUME TypeOK /\ Attempts /\ OneHolder /\ Final /\ Layered /\ WonStored /\
             MissedOnly, [Next]_vars PROVE MissedOnly'
  OBVIOUS
<1>0. \A w \in wins : Lost(w) => Lost(w)'
  BY LostStays
<1>k. ASSUME UNCHANGED wins,
             \A a \in Calls : Missed(a)' => Missed(a) /\ UNCHANGED <<round[a], callId[a]>>
      PROVE  MissedOnly'
  <2> SUFFICES ASSUME NEW a \in Calls, NEW w \in wins, Missed(a)',
                      SameKey(Winner(w), a), w # <<This(a)', callId'[a]>>
               PROVE  Overlapping(Winner(w), a) \/ Lost(w)'
    BY <1>k, Zenon DEF MissedOnly, SameKey, Overlapping, Winner, Keyed, Key
  <2>1. Missed(a) /\ w # <<This(a), callId[a]>>
    BY <1>k, Zenon DEF This
  <2>2. Overlapping(Winner(w), a) \/ Lost(w)
    BY <2>1, Zenon DEF MissedOnly
  <2> QED
    BY <1>0, <2>2, Zenon
<1>1. ASSUME NEW c \in Calls, Enter(c) PROVE MissedOnly'
  BY <1>k, <1>1 DEF Enter, Goto, locals, events, TypeOK, Missed
<1>2. ASSUME NEW c \in Calls, EnterTool(c) PROVE MissedOnly'
  BY <1>k, <1>2 DEF EnterTool, Goto, events, TypeOK, Missed
<1>3. ASSUME NEW c \in Calls, GuardBlocks(c) PROVE MissedOnly'
  BY <1>k, <1>3, Zenon DEF GuardBlocks, Return, Goto, events, TypeOK, Missed
<1>4. ASSUME NEW c \in Calls, GuardPasses(c) PROVE MissedOnly'
  <2> SUFFICES ASSUME NEW a \in Calls, NEW w \in wins, Missed(a)',
                      SameKey(Winner(w), a), w # <<This(a), callId[a]>>
               PROVE  Overlapping(Winner(w), a) \/ Lost(w)'
    BY <1>0, <1>4, Zenon
       DEF GuardPasses, MissedOnly, locals, SameKey, Overlapping, Winner, This, Keyed, Key
  <2>1. a # c
    BY <1>4 DEF GuardPasses, Goto, Missed, SameKey, TypeOK
  <2>2. Missed(a)
    BY <1>4, <2>1 DEF GuardPasses, Goto, Missed, TypeOK
  <2> QED
    BY <1>0, <2>2, Zenon DEF MissedOnly, Lost
<1>5. ASSUME NEW c \in Calls, LookupHit(c) PROVE MissedOnly'
  BY <1>k, <1>5 DEF LookupHit, Return, Goto, events, TypeOK, Missed
<1>6. ASSUME NEW c \in Calls, LookupMiss(c) PROVE MissedOnly'
  <2> SUFFICES ASSUME NEW a \in Calls, NEW w \in wins, Missed(a)',
                      SameKey(Winner(w), a), w # <<This(a), callId[a]>>
               PROVE  Overlapping(Winner(w), a) \/ Lost(w)'
    BY <1>0, <1>6, Zenon
       DEF LookupMiss, MissedOnly, locals, SameKey, Overlapping, Winner, This, Keyed, Key
  <2>1. CASE a = c
    <3>1. Winner(w) \in Calls
      BY Zenon DEF TypeOK, Ids, Winner
    <3>2. cached[Key(Winner(w))] = {} /\ Keyed(Winner(w))
      BY <1>6, <2>1, Zenon DEF LookupMiss, SameKey
    <3>3. (Settling(Winner(w)) \/ Lost(w)) /\ pc[c] = "lookup"
      BY <1>6, <3>2, Zenon DEF WonStored, LookupMiss
    <3>4. CASE Settling(Winner(w))
      BY <2>1, <3>1, <3>3, <3>4, HoldersOverlap, Zenon DEF HoldsTool, Settling
    <3> QED
      BY <1>0, <3>3, <3>4, Zenon DEF Lost
  <2>2. CASE a # c
    <3>1. Missed(a)
      BY <1>6, <2>2 DEF LookupMiss, Goto, Missed, TypeOK
    <3> QED
      BY <1>0, <3>1, Zenon DEF MissedOnly, Lost
  <2> QED
    BY <2>1, <2>2, Zenon
<1>7. ASSUME NEW c \in Calls, Ask(c) PROVE MissedOnly'
  BY <1>k, <1>7, Zenon DEF Ask, Goto, locals, events, TypeOK, Missed
<1>8. ASSUME NEW c \in Calls, Request(c) PROVE MissedOnly'
  BY <1>k, <1>8, Zenon DEF Request, Return, Goto, TypeOK, Missed
<1>9. ASSUME NEW c \in Calls, Proceed(c) PROVE MissedOnly'
  BY <1>0, <1>9 DEF Proceed, Goto, events, TypeOK, MissedOnly, Missed, WonStored, Settling,
     Lost, Winner, This
<1>10. ASSUME NEW c \in Calls, Declined(c) PROVE MissedOnly'
  BY <1>k, <1>10 DEF Declined, Return, Goto, TypeOK, Missed
<1>11. ASSUME NEW c \in Calls, Unanswered(c) PROVE MissedOnly'
  BY <1>k, <1>11 DEF Unanswered, Return, Goto, events, TypeOK, Missed
<1>12. ASSUME NEW c \in Calls, Call(c) PROVE MissedOnly'
  BY <1>k, <1>12 DEF Call, Goto, locals, TypeOK, Missed
<1>13. ASSUME NEW c \in Calls, NEW r \in Results, Invoke(c, r) PROVE MissedOnly'
  <2> SUFFICES ASSUME NEW a \in Calls, NEW w \in wins', Missed(a)',
                      SameKey(Winner(w), a), w # <<This(a), callId[a]>>
               PROVE  Overlapping(Winner(w), a) \/ Lost(w)'
    BY <1>0, <1>13, Zenon DEF Invoke, MissedOnly, SameKey, Overlapping, Winner, This, Keyed, Key
  <2>1. Missed(a) /\ pc[c] = "run"
    BY <1>13, Zenon DEF Invoke, Goto, Missed, TypeOK
  <2>2. CASE w \in wins
    BY <1>0, <2>1, <2>2, Zenon DEF MissedOnly, Lost
  <2>3. CASE w \notin wins
    <3>1. w = <<This(c), callId[c]>>
      BY <1>13, <2>3, Zenon DEF Invoke
    <3>2. Winner(w) = c /\ a # c
      BY <3>1 DEF Winner, This
    <3> QED
      BY <2>1, <3>2, HoldersOverlap, Zenon DEF HoldsTool, Missed
  <2> QED
    BY <2>2, <2>3, Zenon
<1>14. ASSUME NEW c \in Calls, SettleSuccess(c) PROVE MissedOnly'
  BY <1>k, <1>14 DEF SettleSuccess, Return, Goto, TypeOK, Missed
<1>15. ASSUME NEW c \in Calls, SettleUnsuccessful(c) PROVE MissedOnly'
  BY <1>k, <1>15 DEF SettleUnsuccessful, Return, Goto, TypeOK, Missed
<1>16. ASSUME NEW c \in Calls, SettleFailed(c) PROVE MissedOnly'
  BY <1>k, <1>16 DEF SettleFailed, Return, Goto, TypeOK, Missed
<1>17. ASSUME NEW c \in Calls, SettleAsks(c) PROVE MissedOnly'
  BY <1>k, <1>17 DEF SettleAsks, Return, Goto, events, TypeOK, Missed
<1>18. ASSUME NEW c \in Calls, Rerun(c) PROVE MissedOnly'
  BY <1>k, <1>18 DEF Rerun, Goto, events, TypeOK, Missed
<1>19. ASSUME NEW i \in Ids, NEW v \in {"yes", "no"}, Confirm(i, v) PROVE MissedOnly'
  BY <1>k, <1>19 DEF Confirm, locals, TypeOK, Missed
<1>20. CASE UNCHANGED vars
  BY <1>k, <1>20 DEF vars, TypeOK, Missed
<1>21. ASSUME NEW c \in Calls, SettleLost(c) PROVE MissedOnly'
  BY <1>k, <1>21 DEF SettleLost, Return, Goto, TypeOK, Missed
<1>22. ASSUME NEW c \in Calls, StoreRaises(c) PROVE MissedOnly'
  BY <1>k, <1>22, Zenon DEF StoreRaises, Return, Goto, events, TypeOK, Missed
<1> QED
  BY <1>1, <1>2, <1>3, <1>4, <1>5, <1>6, <1>7, <1>8, <1>9, <1>10, <1>11, <1>12,
     <1>13, <1>14, <1>15, <1>16, <1>17, <1>18, <1>19, <1>20, <1>21, <1>22
  DEF Next, Step

\* One success for a key.  A running call has not won yet, so that MissedOnly
\* speaks of the successes of other executions.
LEMMA OnceInv == WonStored /\ MissedOnly => SucceedsOnce
<1> SUFFICES ASSUME WonStored, MissedOnly, NEW c \in Calls, NEW w \in wins,
                    pc[c] = "run", SameKey(Winner(w), c)
             PROVE  Overlapping(Winner(w), c) \/ Lost(w)
  BY Zenon DEF SucceedsOnce
<1>1. Missed(c) /\ Winner(w) # c
  BY Zenon DEF Missed, WonStored, Settling
<1>2. w # <<This(c), callId[c]>>
  BY <1>1 DEF Winner, This
<1> QED
  BY <1>1, <1>2, Zenon DEF MissedOnly

LEMMA InitInv == Init => Inv
<1> SUFFICES ASSUME Init PROVE Inv
  OBVIOUS
<1>1. TypeOK
  BY SMTT(20), SMTT(30), ToolAssumption DEF Init, TypeOK, Ids, Pcs, Statuses
<1>2. Attempts /\ OneHolder /\ Final /\ Layered
  BY SMTT(20), SMTT(30), ToolAssumption DEF Init, Attempts, OneHolder, HoldsTool, Final, Layered
<1>3. WonStored /\ SettlingWon /\ MissedOnly
  BY Zenon DEF Init, WonStored, SettlingWon, Settling, MissedOnly, Missed
<1>4. HitIsGenuine /\ RunsConfirmed /\ CallsSettled
  BY ToolAssumption, Zenon DEF Init, HitIsGenuine, RunsConfirmed, CallsSettled
<1>5. CachedWon
  BY KeyTypes DEF Init, CachedWon
<1> QED
  BY <1>1, <1>2, <1>3, <1>4, <1>5 DEF Inv

\* Inv is inductive, for all constants that satisfy ToolAssumption.
THEOREM Invariance == Spec => []Inv
<1>1. Inv /\ [Next]_vars => Inv'
  BY TypeInv, FinalInv, LayeredInv, HolderInv, WonInv, CachedInv, HitInv, ConfirmedInv,
     SettledInv, MissedInv DEF Inv
<1> QED
  BY InitInv, <1>1, PTL DEF Spec

\* execute answers from the idempotency cache only with the tool_call_id of an
\* execution with the same key that succeeded.
THEOREM HitsAreSuccesses == Spec => []HitIsGenuine
<1>1. Inv => HitIsGenuine
  BY DEF Inv
<1> QED
  BY Invariance, <1>1, PTL

\* execute runs a tool that needs a confirmation only after the operator's yes
\* to the request under its key, whatever races, reruns and resumes there are.
THEOREM ConfirmedFirst == Spec => []RunsConfirmed
<1>1. Inv => RunsConfirmed
  BY DEF Inv
<1> QED
  BY Invariance, <1>1, PTL

\* execute does not run a tool under an idempotency key under which it has
\* succeeded, except in calls of one layer whose tool allows parallel calls and
\* after a success whose ToolCompleted the store refused.
THEOREM OneSuccess == Spec => []SucceedsOnce
<1>1. Inv => SucceedsOnce
  BY OnceInv DEF Inv
<1> QED
  BY Invariance, <1>1, PTL

\* execute settles every call it ends in the log, or another call's success
\* with the same key stands for it.
THEOREM CallsAreSettled == Spec => []CallsSettled
<1>1. Inv => CallsSettled
  BY DEF Inv
<1> QED
  BY Invariance, <1>1, PTL
=============================================================================
