------------------------------ MODULE RunContract ------------------------------
(***************************************************************************)
(* What a client of the API may rely on about a run: the status it reads   *)
(* from GET /runs/{id} moves between RUNNING and PAUSED until it becomes   *)
(* COMPLETED or FAILED, once and for all.                                  *)
(***************************************************************************)
VARIABLE status

Terminal == {"COMPLETED", "FAILED"}

Init == status = "RUNNING"

Pause == status = "RUNNING" /\ status' = "PAUSED"

Resume == status = "PAUSED" /\ status' = "RUNNING"

Finish == status \notin Terminal /\ status' \in Terminal

Next == Pause \/ Resume \/ Finish

Spec == Init /\ [][Next]_status

\* No run stays open forever.
FairSpec == Spec /\ WF_status(Finish)
=============================================================================
