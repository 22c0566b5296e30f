----------------------------- MODULE WorkerPool -----------------------------
(***************************************************************************)
(* internal/worker/pool.go: a bounded channel of jobs, a fixed number of   *)
(* worker goroutines, TrySubmit under the read lock and Shutdown under the *)
(* write lock. Every goroutine that meets the pool is a process here: the  *)
(* callers of TrySubmit (one per job), the workers, the callers of         *)
(* Shutdown. sync.RWMutex is modelled with its rule that a waiting writer  *)
(* holds new readers back.                                                 *)
(***************************************************************************)
EXTENDS Naturals, Sequences, FiniteSets

CONSTANTS
  Jobs,       \* one element per call of TrySubmit
  Stubborn,   \* the jobs that only end once their context is cancelled
  Workers,    \* the pool's goroutines
  Closers,    \* the goroutines that call Shutdown
  QueueSize,  \* capacity of the jobs channel
  NoJob       \* what a worker runs between two jobs

\* cmd/bot/env.go accepts WORKER_COUNT and WORK_QUEUE_SIZE from 1 upwards.
ASSUME PoolAssumption ==
  /\ IsFiniteSet(Jobs)
  /\ Stubborn \subseteq Jobs
  /\ IsFiniteSet(Workers) /\ Workers # {}
  /\ QueueSize \in Nat \ {0}
  /\ NoJob \notin Jobs

VARIABLES
  jobs,       \* the buffered channel
  chanClosed, \* close(p.jobs) has run
  closed,     \* p.closed
  cancelled,  \* p.ctx is cancelled
  submit,     \* submit[j]: where the TrySubmit call for j stands
  shutdown,   \* shutdown[c]: where c's Shutdown call stands
  current,    \* current[w]: the job w runs, or NoJob
  exited,     \* the workers whose range over the channel has ended
  outcome     \* outcome[j]: how j ended

vars == <<jobs, chanClosed, closed, cancelled, submit, shutdown, current,
          exited, outcome>>

SubmitState == {"idle", "checked", "accepted", "refused"}
ShutdownState == {"idle", "locking", "locked", "closing", "waiting",
                  "expired", "nil", "error"}
Outcome == {"none", "returned", "panicked"}

TypeOK ==
  /\ jobs \in Seq(Jobs) /\ Len(jobs) <= QueueSize
  /\ chanClosed \in BOOLEAN /\ closed \in BOOLEAN /\ cancelled \in BOOLEAN
  /\ submit \in [Jobs -> SubmitState]
  /\ shutdown \in [Closers -> ShutdownState]
  /\ current \in [Workers -> Jobs \cup {NoJob}]
  /\ exited \subseteq Workers
  /\ outcome \in [Jobs -> Outcome]

Init ==
  /\ jobs = <<>>
  /\ chanClosed = FALSE /\ closed = FALSE /\ cancelled = FALSE
  /\ submit = [j \in Jobs |-> "idle"]
  /\ shutdown = [c \in Closers |-> "idle"]
  /\ current = [w \in Workers |-> NoJob]
  /\ exited = {}
  /\ outcome = [j \in Jobs |-> "none"]

-----------------------------------------------------------------------------
(* p.mu *)

ReadLocked == \E j \in Jobs : submit[j] = "checked"
WriteLocked == \E c \in Closers : shutdown[c] \in {"locked", "closing"}
WriterWaits == \E c \in Closers : shutdown[c] = "locking"

(***************************************************************************)
(* TrySubmit: RLock, read closed; then the non-blocking send and RUnlock.  *)
(***************************************************************************)
CheckClosed(j) ==
  /\ submit[j] = "idle"
  /\ ~WriteLocked /\ ~WriterWaits
  /\ submit' = [submit EXCEPT ![j] = IF closed THEN "refused" ELSE "checked"]
  /\ UNCHANGED <<jobs, chanClosed, closed, cancelled, shutdown, current,
                 exited, outcome>>

\* Mutant: one job too many fits.
SendOffByOne(j) ==
  /\ submit[j] = "checked"
  /\ Len(jobs) <= QueueSize
  /\ jobs' = Append(jobs, j)
  /\ submit' = [submit EXCEPT ![j] = "accepted"]
  /\ UNCHANGED <<chanClosed, closed, cancelled, shutdown, current, exited,
                 outcome>>

Send(j) ==
  /\ submit[j] = "checked"
  /\ Len(jobs) < QueueSize
  /\ jobs' = Append(jobs, j)
  /\ submit' = [submit EXCEPT ![j] = "accepted"]
  /\ UNCHANGED <<chanClosed, closed, cancelled, shutdown, current, exited,
                 outcome>>

\* Mutant: the default branch of the select reports success.
QueueFullAccepted(j) ==
  /\ submit[j] = "checked"
  /\ Len(jobs) >= QueueSize
  /\ submit' = [submit EXCEPT ![j] = "accepted"]
  /\ UNCHANGED <<jobs, chanClosed, closed, cancelled, shutdown, current,
                 exited, outcome>>

QueueFull(j) ==
  /\ submit[j] = "checked"
  /\ Len(jobs) >= QueueSize
  /\ submit' = [submit EXCEPT ![j] = "refused"]
  /\ UNCHANGED <<jobs, chanClosed, closed, cancelled, shutdown, current,
                 exited, outcome>>

TrySubmit(j) == CheckClosed(j) \/ Send(j) \/ QueueFull(j)

(***************************************************************************)
(* run: receive until the channel is closed and drained; safeRun recovers  *)
(* from a job's panic, so the worker goes back to the channel either way.  *)
(***************************************************************************)
Receive(w) ==
  /\ w \notin exited /\ current[w] = NoJob
  /\ jobs # <<>>
  /\ current' = [current EXCEPT ![w] = Head(jobs)]
  /\ jobs' = Tail(jobs)
  /\ UNCHANGED <<chanClosed, closed, cancelled, submit, shutdown, exited,
                 outcome>>

\* Mutant: a worker stops when the channel is closed instead of drained.
ExitUndrained(w) ==
  /\ w \notin exited /\ current[w] = NoJob
  /\ chanClosed
  /\ exited' = exited \cup {w}
  /\ UNCHANGED <<jobs, chanClosed, closed, cancelled, submit, shutdown,
                 current, outcome>>

Exit(w) ==
  /\ w \notin exited /\ current[w] = NoJob
  /\ chanClosed /\ jobs = <<>>
  /\ exited' = exited \cup {w}
  /\ UNCHANGED <<jobs, chanClosed, closed, cancelled, submit, shutdown,
                 current, outcome>>

\* Mutant: no recover, a panic takes the worker with it.
RunWithoutRecover(w) ==
  /\ current[w] # NoJob
  /\ current[w] \in Stubborn => cancelled
  /\ \E how \in {"returned", "panicked"} :
       /\ outcome' = [outcome EXCEPT ![current[w]] = how]
       /\ exited' = IF how = "panicked" THEN exited \cup {w} ELSE exited
  /\ current' = [current EXCEPT ![w] = NoJob]
  /\ UNCHANGED <<jobs, chanClosed, closed, cancelled, submit, shutdown>>

safeRun(w) ==
  /\ current[w] # NoJob
  /\ current[w] \in Stubborn => cancelled
  /\ \E how \in {"returned", "panicked"} :
       outcome' = [outcome EXCEPT ![current[w]] = how]
  /\ current' = [current EXCEPT ![w] = NoJob]
  /\ UNCHANGED <<jobs, chanClosed, closed, cancelled, submit, shutdown,
                 exited>>

run(w) == Receive(w) \/ Exit(w) \/ safeRun(w)

(***************************************************************************)
(* Shutdown: close once under the write lock, then wait for the workers or *)
(* for the caller's context, whichever comes first; a select with both     *)
(* ready takes either branch.                                              *)
(***************************************************************************)
Goto(c, to) == shutdown' = [shutdown EXCEPT ![c] = to]

CallShutdown(c) ==
  /\ shutdown[c] = "idle"
  /\ Goto(c, "locking")
  /\ UNCHANGED <<jobs, chanClosed, closed, cancelled, submit, current, exited,
                 outcome>>

\* Mutant: Shutdown does not wait for the readers.
LockAtOnce(c) ==
  /\ shutdown[c] = "locking"
  /\ ~WriteLocked
  /\ Goto(c, "locked")
  /\ UNCHANGED <<jobs, chanClosed, closed, cancelled, submit, current, exited,
                 outcome>>

Lock(c) ==
  /\ shutdown[c] = "locking"
  /\ ~ReadLocked /\ ~WriteLocked
  /\ Goto(c, "locked")
  /\ UNCHANGED <<jobs, chanClosed, closed, cancelled, submit, current, exited,
                 outcome>>

MarkClosed(c) ==
  /\ shutdown[c] = "locked"
  /\ Goto(c, IF closed THEN "waiting" ELSE "closing")
  /\ closed' = TRUE
  /\ UNCHANGED <<jobs, chanClosed, cancelled, submit, current, exited, outcome>>

CloseChannel(c) ==
  /\ shutdown[c] = "closing"
  /\ chanClosed' = TRUE
  /\ Goto(c, "waiting")
  /\ UNCHANGED <<jobs, closed, cancelled, submit, current, exited, outcome>>

AllExited == exited = Workers

Drained(c) ==
  /\ shutdown[c] = "waiting"
  /\ AllExited
  /\ cancelled' = TRUE
  /\ Goto(c, "nil")
  /\ UNCHANGED <<jobs, chanClosed, closed, submit, current, exited, outcome>>

\* Mutant: the expired grace period does not cancel the jobs.
GraceExpiresQuietly(c) ==
  /\ shutdown[c] = "waiting"
  /\ Goto(c, "expired")
  /\ UNCHANGED <<jobs, chanClosed, closed, cancelled, submit, current, exited,
                 outcome>>

GraceExpires(c) ==
  /\ shutdown[c] = "waiting"
  /\ cancelled' = TRUE
  /\ Goto(c, "expired")
  /\ UNCHANGED <<jobs, chanClosed, closed, submit, current, exited, outcome>>

\* Mutant: after the grace period Shutdown returns without waiting.
ReturnUndrained(c) ==
  /\ shutdown[c] = "expired"
  /\ Goto(c, "error")
  /\ UNCHANGED <<jobs, chanClosed, closed, cancelled, submit, current, exited,
                 outcome>>

DrainedLate(c) ==
  /\ shutdown[c] = "expired"
  /\ AllExited
  /\ Goto(c, "error")
  /\ UNCHANGED <<jobs, chanClosed, closed, cancelled, submit, current, exited,
                 outcome>>

Shutdown(c) ==
  \/ Lock(c) \/ MarkClosed(c) \/ CloseChannel(c)
  \/ Drained(c) \/ GraceExpires(c) \/ DrainedLate(c)

\* Every call has returned: the only state the pool may rest in.
Terminated ==
  /\ \A j \in Jobs : submit[j] \in {"accepted", "refused"}
  /\ \A c \in Closers : shutdown[c] \in {"nil", "error"}
  /\ UNCHANGED vars

Next ==
  \/ \E j \in Jobs : TrySubmit(j)
  \/ \E w \in Workers : run(w)
  \/ \E c \in Closers : CallShutdown(c) \/ Shutdown(c)
  \/ Terminated

(***************************************************************************)
(* Goroutines that can run do run. Nobody has to call TrySubmit or         *)
(* Shutdown; a Shutdown's context has a deadline (cmd/bot/main.go), so its *)
(* wait ends; a mutex with a waiting writer admits it.                     *)
(***************************************************************************)
Fairness ==
  /\ \A j \in Jobs : WF_vars(Send(j) \/ QueueFull(j))
  /\ \A w \in Workers : WF_vars(run(w))
  /\ \A c \in Closers : WF_vars(Shutdown(c))

Spec == Init /\ [][Next]_vars

FairSpec == Spec /\ Fairness

-----------------------------------------------------------------------------
(***************************************************************************)
(* Safety                                                                  *)
(***************************************************************************)

Contents == {jobs[i] : i \in DOMAIN jobs}
InFlight == {current[w] : w \in Workers} \ {NoJob}
Ended == {j \in Jobs : outcome[j] # "none"}
Accepted == {j \in Jobs : submit[j] = "accepted"}

\* A send on a closed channel and a second close both panic in Go, and both
\* happen outside safeRun. TrySubmit is about to send only while the channel is
\* open, and Shutdown is about to close it only while nobody has.
ChannelNeverPanics ==
  /\ \A j \in Jobs : submit[j] = "checked" => ~chanClosed
  /\ \A c \in Closers : shutdown[c] = "closing" => ~chanClosed

\* A job for which TrySubmit returned true is waiting, running or over, in
\* exactly one of these places and there only once; any other job is nowhere.
\* A lost job leaves its message's reaction and its interaction pending
\* forever, a job run twice posts its result twice.
EveryJobInOnePlace ==
  /\ Contents \cup InFlight \cup Ended = Accepted
  /\ Contents \cap InFlight = {} /\ Contents \cap Ended = {}
  /\ InFlight \cap Ended = {}
  /\ \A i, k \in DOMAIN jobs : jobs[i] = jobs[k] => i = k
  /\ \A v, w \in Workers : current[v] = current[w] => v = w \/ current[v] = NoJob

\* When Shutdown returns, even late and with an error, every accepted job has
\* ended and none can start: main closes the REST client and the database next.
ShutdownReturnsDrained ==
  (\E c \in Closers : shutdown[c] \in {"nil", "error"}) =>
     /\ Accepted = Ended
     /\ cancelled
     /\ \A j \in Jobs : submit[j] # "checked"

(***************************************************************************)
(* Liveness                                                                *)
(***************************************************************************)

\* Shutdown returns although jobs may ignore everything but their context:
\* the expired grace period cancels the running jobs and those still queued.
ShutdownReturns ==
  \A c \in Closers : shutdown[c] = "locking" ~> shutdown[c] \in {"nil", "error"}

\* The queue moves on unless every worker is held by a job that waits for its
\* context: a job that panics does not take its worker with it.
QueueMoves ==
  \A j \in Jobs : j \in Contents ~>
     j \notin Contents \/ \A w \in Workers : current[w] \in Stubborn

(***************************************************************************)
(* Refinement: the abstract service this pool implements.                  *)
(***************************************************************************)

statusBar ==
  [j \in Jobs |->
     IF submit[j] = "refused" THEN "refused"
     ELSE IF submit[j] # "accepted" THEN "new"
     ELSE IF j \in Contents THEN "queued"
     ELSE IF j \in InFlight THEN "running" ELSE "ended"]

phaseBar ==
  IF \E c \in Closers : shutdown[c] \in {"nil", "error"} THEN "returned"
  ELSE IF closed THEN "closed" ELSE "open"

Service == INSTANCE JobService WITH status <- statusBar, phase <- phaseBar

\* Locks, channel and goroutines together behave like the bounded service of
\* JobService: TrySubmit, the worker loop and Shutdown each take effect at one
\* instant, and a refusal always has a full queue or a closed pool behind it.
ImplementsJobService == Service!ServiceSpec

=============================================================================
