---------------------------- MODULE MCRunLifecycle ----------------------------
(***************************************************************************)
(* RunLifecycle for model checking.  Confirmation ids are interchangeable,  *)
(* and so are the requests of one kind: Init fixes no order among them.    *)
(***************************************************************************)
EXTENDS RunLifecycle, TLC

Symmetry == Permutations(Confirms) \cup Permutations(Confirmers)

\* pause_run "halts the scheduler loop": a run paused by the user does not
\* complete before it is resumed.
UserPauseHalts ==
  [][log[Len(log)] = "paused_user" => log'[Len(log')] # "completed"]_log
=============================================================================
