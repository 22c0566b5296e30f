----------------------------- MODULE MCLifecycle -----------------------------
(***************************************************************************)
(* Model values for Lifecycle: the builds before and after migration 2 of  *)
(* migrations.go and one with a third that adds a column as well, a pool   *)
(* with one worker and a queue of one, and three jobs, so that one may be  *)
(* refused.                                                                *)
(***************************************************************************)
EXTENDS Lifecycle

CONSTANTS j1, j2, j3, w1

MCJobs == {j1, j2, j3}
MCWorkers == {w1}
MCBuilds == {1, 2, 3}
MCOnce == {2, 3}

==============================================================================
