---------------------------- MODULE MCWorkerPool ----------------------------
(***************************************************************************)
(* Model values for WorkerPool: more jobs than queue and workers hold      *)
(* together, one of them stubborn, and two overlapping Shutdown calls.     *)
(***************************************************************************)
EXTENDS WorkerPool, TLC

CONSTANTS j1, j2, j3, j4, w1, w2, c1, c2

MCJobs == {j1, j2, j3, j4}
MCStubborn == {j1}
MCWorkers == {w1, w2}
MCClosers == {c1, c2}

=============================================================================
