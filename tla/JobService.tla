----------------------------- MODULE JobService -----------------------------
(***************************************************************************)
(* What the worker pool promises to the rest of the bot, without its       *)
(* locks, channel or goroutines: a bounded number of accepted jobs waits,  *)
(* a bounded number runs, an accepted job is never lost or run twice, and  *)
(* Shutdown returns only when nothing is waiting or running any more.      *)
(*                                                                         *)
(* WorkerPool implements this specification; AutoConvert is built on it.   *)
(***************************************************************************)
EXTENDS Naturals, FiniteSets

CONSTANTS
  Jobs,      \* one element per call of TrySubmit
  Workers,   \* the pool's goroutines
  QueueSize  \* capacity of the jobs channel

ASSUME ServiceAssumption ==
  /\ IsFiniteSet(Jobs)
  /\ IsFiniteSet(Workers) /\ Workers # {}
  /\ QueueSize \in Nat \ {0}

VARIABLES
  status,    \* where each job is
  phase,     \* "open", "closed" (Shutdown was called) or "returned"
  cancelled  \* the context every job receives has been cancelled

serviceVars == <<status, phase, cancelled>>

Status == {"new", "queued", "running", "ended", "refused"}

Queued  == {j \in Jobs : status[j] = "queued"}
Running == {j \in Jobs : status[j] = "running"}

ServiceTypeOK ==
  /\ status \in [Jobs -> Status]
  /\ phase \in {"open", "closed", "returned"}
  /\ cancelled \in BOOLEAN

ServiceInit ==
  /\ status = [j \in Jobs |-> "new"]
  /\ phase = "open"
  /\ cancelled = FALSE

QueueHasRoom == Cardinality(Queued) < QueueSize

Move(j, to) == status' = [status EXCEPT ![j] = to]

\* TrySubmit returns true.
Accept(j) ==
  /\ status[j] = "new"
  /\ phase = "open"
  /\ QueueHasRoom
  /\ Move(j, "queued")
  /\ UNCHANGED <<phase, cancelled>>

\* TrySubmit returns false: the queue is full or the pool is shut down.
Refuse(j) ==
  /\ status[j] = "new"
  /\ phase # "open" \/ ~QueueHasRoom
  /\ Move(j, "refused")
  /\ UNCHANGED <<phase, cancelled>>

\* A worker takes the job. Shutdown does not discard what is queued.
Start(j) ==
  /\ status[j] = "queued"
  /\ Cardinality(Running) < Cardinality(Workers)
  /\ Move(j, "running")
  /\ UNCHANGED <<phase, cancelled>>

\* The job returned or panicked.
End(j) ==
  /\ status[j] = "running"
  /\ Move(j, "ended")
  /\ UNCHANGED <<phase, cancelled>>

\* Shutdown stops accepting jobs.
Close ==
  /\ phase = "open"
  /\ phase' = "closed"
  /\ UNCHANGED <<status, cancelled>>

\* Shutdown's own context expired before the pool was drained.
Cancel ==
  /\ phase = "closed"
  /\ ~cancelled
  /\ cancelled' = TRUE
  /\ UNCHANGED <<status, phase>>

\* Shutdown returns.
Return ==
  /\ phase = "closed"
  /\ Queued = {} /\ Running = {}
  /\ phase' = "returned"
  /\ cancelled' = TRUE
  /\ UNCHANGED status

ServiceNext ==
  \/ \E j \in Jobs : Accept(j) \/ Refuse(j) \/ Start(j) \/ End(j)
  \/ Close \/ Cancel \/ Return

ServiceSpec == ServiceInit /\ [][ServiceNext]_serviceVars

=============================================================================
