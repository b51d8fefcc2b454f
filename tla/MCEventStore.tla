---------------------------- MODULE MCEventStore ----------------------------
(* Instances of EventStore: appends to one run, two with the same key and  *)
(* one without, and claims of one client request, each with a fresh run.   *)
EXTENDS EventStore, TLC

CONSTANTS a1, a2, a3, c1, c2, r1, r2, r3, k1

MCRuns == {r1, r2, r3}
MCRunOf == [c \in Calls |-> CASE c = c1 -> r2 [] c = c2 -> r3 [] OTHER -> r1]
MCKeyOf == [c \in Calls |-> IF c = a3 THEN NoKey ELSE k1]
=============================================================================
