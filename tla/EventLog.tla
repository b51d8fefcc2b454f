------------------------------ MODULE EventLog ------------------------------
(***************************************************************************)
(* What the Event Store promises its callers: an append-only log per run   *)
(* whose sequence numbers are 1, 2, 3, ... with no gap, in which no        *)
(* idempotency key is used twice, and claims of client requests that       *)
(* appear together with the first event of the claimed run.                *)
(***************************************************************************)
EXTENDS Naturals, FiniteSets

CONSTANTS Runs, Keys, NoKey, Writers

VARIABLES events, claims

vars == <<events, claims>>

EventsOf(run) == {e \in events : e.run = run}

Entry(run, key, writer) ==
  [run |-> run, seq |-> Cardinality(EventsOf(run)) + 1, key |-> key, by |-> writer]

Init == events = {} /\ claims = {}

Append(run, key, writer) ==
  /\ key = NoKey \/ \A e \in EventsOf(run) : e.key # key
  /\ events' = events \union {Entry(run, key, writer)}
  /\ UNCHANGED claims

Claim(request, run, writer) ==
  /\ EventsOf(run) = {}
  /\ \A c \in claims : c.request # request
  /\ events' = events \union {Entry(run, request, writer)}
  /\ claims' = claims \union {[request |-> request, run |-> run]}

Next ==
  \E run \in Runs, writer \in Writers :
    \/ \E key \in Keys \union {NoKey} : Append(run, key, writer)
    \/ \E request \in Keys : Claim(request, run, writer)

Spec == Init /\ [][Next]_vars
=============================================================================
