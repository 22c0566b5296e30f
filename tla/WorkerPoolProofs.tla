-------------------------- MODULE WorkerPoolProofs --------------------------
(***************************************************************************)
(* Proofs of the safety properties of WorkerPool, for any number of jobs,  *)
(* workers and Shutdown calls and any capacity of the queue.               *)
(*                                                                         *)
(* The inductive invariant joins four parts: the types; what the RWMutex   *)
(* excludes; where each job is; and that a worker exits only when the      *)
(* channel is closed and empty for good.                                   *)
(***************************************************************************)
EXTENDS WorkerPool, FiniteSetTheorems, TLAPS

\* TrySubmit's critical section excludes Shutdown's, closed is set before the
\* channel is closed, and only one Shutdown call closes it.
LockInv ==
  /\ \A j \in Jobs : submit[j] = "checked" => ~closed /\ ~WriteLocked
  /\ \A c, d \in Closers :
       shutdown[c] \in {"locked", "closing"} /\ shutdown[d] \in {"locked", "closing"}
         => c = d
  /\ \A c \in Closers : shutdown[c] = "closing" => closed /\ ~chanClosed
  /\ \A c \in Closers :
       shutdown[c] \in {"waiting", "expired", "nil", "error"} => closed
  /\ chanClosed => closed

\* A worker exits from a closed and empty channel; Shutdown returns after all.
DrainInv ==
  /\ exited # {} => chanClosed /\ jobs = <<>>
  /\ \A w \in exited : current[w] = NoJob
  /\ \A c \in Closers :
       /\ shutdown[c] \in {"expired", "nil", "error"} => cancelled
       /\ shutdown[c] \in {"nil", "error"} => exited = Workers

IInv == TypeOK /\ LockInv /\ EveryJobInOnePlace /\ DrainInv

-----------------------------------------------------------------------------
(* The channel's contents under a send and a receive. *)

LEMMA AppendContents ==
  ASSUME NEW S, NEW s \in Seq(S), NEW x \in S,
         \A i, k \in DOMAIN s : s[i] = s[k] => i = k,
         x \notin {s[i] : i \in DOMAIN s}
  PROVE  LET t == Append(s, x)
         IN  /\ {t[i] : i \in DOMAIN t} = {s[i] : i \in DOMAIN s} \cup {x}
             /\ \A i, k \in DOMAIN t : t[i] = t[k] => i = k
<1> DEFINE t == Append(s, x)
<1>1. /\ DOMAIN s = 1 .. Len(s) /\ DOMAIN t = 1 .. (Len(s) + 1)
      /\ Len(s) \in Nat
      /\ \A i \in 1 .. Len(s) : t[i] = s[i]
      /\ t[Len(s) + 1] = x
  OBVIOUS
<1> HIDE DEF t
<1>2. ASSUME NEW i \in DOMAIN t
      PROVE  t[i] \in {s[k] : k \in DOMAIN s} \cup {x}
  BY <1>1
<1>3. ASSUME NEW i \in DOMAIN s
      PROVE  s[i] \in {t[k] : k \in DOMAIN t}
  BY <1>1
<1>4. x \in {t[k] : k \in DOMAIN t}
  BY <1>1
<1>5. ASSUME NEW i \in DOMAIN t, NEW k \in DOMAIN t, t[i] = t[k]
      PROVE  i = k
  BY <1>1, <1>5
<1> QED BY <1>2, <1>3, <1>4, <1>5 DEF t

LEMMA TailContents ==
  ASSUME NEW S, NEW s \in Seq(S), s # <<>>,
         \A i, k \in DOMAIN s : s[i] = s[k] => i = k
  PROVE  LET t == Tail(s)
         IN  /\ {t[i] : i \in DOMAIN t} = {s[i] : i \in DOMAIN s} \ {Head(s)}
             /\ \A i, k \in DOMAIN t : t[i] = t[k] => i = k
             /\ Head(s) \in {s[i] : i \in DOMAIN s}
             /\ Len(t) <= Len(s)
<1> DEFINE t == Tail(s)
<1>1. /\ DOMAIN s = 1 .. Len(s) /\ DOMAIN t = 1 .. (Len(s) - 1)
      /\ Len(s) \in Nat /\ Len(s) > 0
      /\ Len(t) = Len(s) - 1
      /\ \A i \in 1 .. (Len(s) - 1) : t[i] = s[i + 1]
      /\ Head(s) = s[1]
  OBVIOUS
<1> HIDE DEF t
<1>2. ASSUME NEW i \in DOMAIN t
      PROVE  t[i] \in {s[k] : k \in DOMAIN s} \ {Head(s)}
  BY <1>1
<1>3. ASSUME NEW i \in DOMAIN s, s[i] # Head(s)
      PROVE  s[i] \in {t[k] : k \in DOMAIN t}
  <2>1. i - 1 \in DOMAIN t /\ t[i - 1] = s[i]
    BY <1>1, <1>3
  <2> QED BY <2>1
<1>4. ASSUME NEW i \in DOMAIN t, NEW k \in DOMAIN t, t[i] = t[k]
      PROVE  i = k
  BY <1>1, <1>4
<1>5. Head(s) \in {s[i] : i \in DOMAIN s}
  BY <1>1
<1>6. Len(t) <= Len(s)
  BY <1>1
<1> QED BY <1>2, <1>3, <1>4, <1>5, <1>6 DEF t

-----------------------------------------------------------------------------
(* The inductive invariant. *)

LEMMA InitInv == Init => IInv
<1> SUFFICES ASSUME Init PROVE IInv
  OBVIOUS
<1> USE DEF Init
<1>1. TypeOK
  <2>1. jobs \in Seq(Jobs) /\ Len(jobs) <= QueueSize
    BY PoolAssumption
  <2>2. current \in [Workers -> Jobs \cup {NoJob}]
    OBVIOUS
  <2> QED BY <2>1, <2>2 DEF TypeOK, SubmitState, ShutdownState, Outcome
<1>2. LockInv
  BY DEF LockInv, WriteLocked
<1>3. EveryJobInOnePlace
  BY DEF EveryJobInOnePlace, Contents, InFlight, Ended, Accepted
<1>4. DrainInv
  BY DEF DrainInv
<1> QED BY <1>1, <1>2, <1>3, <1>4 DEF IInv

\* Types are preserved whatever else holds.
LEMMA StepType == TypeOK /\ [Next]_vars => TypeOK'
<1> SUFFICES ASSUME TypeOK, [Next]_vars PROVE TypeOK'
  OBVIOUS
<1> USE DEF TypeOK, SubmitState, ShutdownState, Outcome
<1>1. ASSUME NEW j \in Jobs, CheckClosed(j) PROVE TypeOK'
  BY <1>1 DEF CheckClosed
<1>2. ASSUME NEW j \in Jobs, Send(j) PROVE TypeOK'
  BY <1>2, PoolAssumption DEF Send
<1>3. ASSUME NEW j \in Jobs, QueueFull(j) PROVE TypeOK'
  BY <1>3 DEF QueueFull
<1>4. ASSUME NEW w \in Workers, Receive(w) PROVE TypeOK'
  BY <1>4, PoolAssumption DEF Receive
<1>5. ASSUME NEW w \in Workers, Exit(w) PROVE TypeOK'
  BY <1>5 DEF Exit
<1>6. ASSUME NEW w \in Workers, safeRun(w) PROVE TypeOK'
  BY <1>6 DEF safeRun
<1>7. ASSUME NEW c \in Closers, CallShutdown(c) \/ Shutdown(c) PROVE TypeOK'
  BY <1>7 DEF CallShutdown, Shutdown, Lock, MarkClosed, CloseChannel, Drained,
              GraceExpires, DrainedLate, Goto
<1>8. CASE UNCHANGED vars
  BY <1>8 DEF vars
<1> QED
  BY <1>1, <1>2, <1>3, <1>4, <1>5, <1>6, <1>7, <1>8 DEF Next, TrySubmit, run, Terminated

LEMMA StepLock == TypeOK /\ LockInv /\ [Next]_vars => LockInv'
<1> SUFFICES ASSUME TypeOK, LockInv, [Next]_vars PROVE LockInv'
  OBVIOUS
<1> USE DEF LockInv, WriteLocked, TypeOK, SubmitState, ShutdownState
<1>1. ASSUME NEW j \in Jobs, TrySubmit(j) PROVE LockInv'
  BY <1>1 DEF TrySubmit, CheckClosed, Send, QueueFull
<1>2. ASSUME NEW w \in Workers, run(w) PROVE LockInv'
  BY <1>2 DEF run, Receive, Exit, safeRun
<1>3. ASSUME NEW c \in Closers, CallShutdown(c) PROVE LockInv'
  BY <1>3 DEF CallShutdown, Goto
<1>4. ASSUME NEW c \in Closers, Lock(c) PROVE LockInv'
  BY <1>4 DEF Lock, ReadLocked, Goto
<1>5. ASSUME NEW c \in Closers, MarkClosed(c) PROVE LockInv'
  BY <1>5 DEF MarkClosed, Goto
<1>6. ASSUME NEW c \in Closers, CloseChannel(c) PROVE LockInv'
  BY <1>6 DEF CloseChannel, Goto
<1>7. ASSUME NEW c \in Closers, Drained(c) \/ GraceExpires(c) \/ DrainedLate(c)
      PROVE LockInv'
  BY <1>7 DEF Drained, GraceExpires, DrainedLate, Goto
<1>8. CASE UNCHANGED vars
  BY <1>8 DEF vars
<1> QED
  BY <1>1, <1>2, <1>3, <1>4, <1>5, <1>6, <1>7, <1>8 DEF Next, Shutdown, Terminated

\* A step that moves no job.
LEMMA SamePlaces ==
  EveryJobInOnePlace /\ UNCHANGED <<jobs, submit, current, outcome>>
    => EveryJobInOnePlace'
<1> SUFFICES ASSUME EveryJobInOnePlace, UNCHANGED <<jobs, submit, current, outcome>>
             PROVE  EveryJobInOnePlace'
  OBVIOUS
<1>1. Contents' = Contents /\ InFlight' = InFlight /\ Ended' = Ended /\ Accepted' = Accepted
  BY DEF Contents, InFlight, Ended, Accepted
<1> QED BY <1>1 DEF EveryJobInOnePlace

LEMMA StepPlace == TypeOK /\ EveryJobInOnePlace /\ [Next]_vars => EveryJobInOnePlace'
<1> SUFFICES ASSUME TypeOK, EveryJobInOnePlace, [Next]_vars
             PROVE  EveryJobInOnePlace'
  OBVIOUS
<1> USE PoolAssumption DEF TypeOK
<1>1. ASSUME NEW j \in Jobs, CheckClosed(j) \/ QueueFull(j)
      PROVE  EveryJobInOnePlace'
  <2>1. Accepted' = Accepted
    BY <1>1 DEF CheckClosed, QueueFull, Accepted, SubmitState
  <2>2. Contents' = Contents /\ InFlight' = InFlight /\ Ended' = Ended
    BY <1>1 DEF CheckClosed, QueueFull, Contents, InFlight, Ended
  <2> QED BY <1>1, <2>1, <2>2 DEF EveryJobInOnePlace, CheckClosed, QueueFull
<1>2. ASSUME NEW j \in Jobs, Send(j)
      PROVE  EveryJobInOnePlace'
  <2>1. Accepted' = Accepted \cup {j} /\ j \notin Accepted
    BY <1>2 DEF Send, Accepted, SubmitState
  <2>2. InFlight' = InFlight /\ Ended' = Ended
    BY <1>2 DEF Send, InFlight, Ended
  <2>3. j \notin Contents /\ j \notin InFlight /\ j \notin Ended
    BY <2>1 DEF EveryJobInOnePlace
  <2>4. /\ Contents' = Contents \cup {j}
        /\ \A i, k \in DOMAIN jobs' : jobs'[i] = jobs'[k] => i = k
    <3>1. jobs \in Seq(Jobs) /\ jobs' = Append(jobs, j)
      BY <1>2 DEF Send
    <3>2. /\ {Append(jobs, j)[i] : i \in DOMAIN Append(jobs, j)} = Contents \cup {j}
          /\ \A i, k \in DOMAIN Append(jobs, j) :
               Append(jobs, j)[i] = Append(jobs, j)[k] => i = k
      <4>1. /\ \A i, k \in DOMAIN jobs : jobs[i] = jobs[k] => i = k
            /\ j \notin {jobs[i] : i \in DOMAIN jobs}
        BY <2>3 DEF Contents, EveryJobInOnePlace
      <4>2. /\ {Append(jobs, j)[i] : i \in DOMAIN Append(jobs, j)}
                 = {jobs[i] : i \in DOMAIN jobs} \cup {j}
            /\ \A i, k \in DOMAIN Append(jobs, j) :
                 Append(jobs, j)[i] = Append(jobs, j)[k] => i = k
        BY <3>1, <4>1, AppendContents
      <4> QED BY <4>2 DEF Contents
    <3> QED BY <3>1, <3>2 DEF Contents
  <2>5. current' = current
    BY <1>2 DEF Send
  <2> QED BY <2>1, <2>2, <2>3, <2>4, <2>5 DEF EveryJobInOnePlace
<1>3. ASSUME NEW w \in Workers, Receive(w)
      PROVE  EveryJobInOnePlace'
  <2> DEFINE h == Head(jobs)
  <2>1. /\ Contents' = Contents \ {h} /\ h \in Contents
        /\ \A i, k \in DOMAIN jobs' : jobs'[i] = jobs'[k] => i = k
    <3>1. jobs \in Seq(Jobs) /\ jobs # <<>> /\ jobs' = Tail(jobs)
      BY <1>3 DEF Receive
    <3>2. /\ {Tail(jobs)[i] : i \in DOMAIN Tail(jobs)} = Contents \ {h} /\ h \in Contents
          /\ \A i, k \in DOMAIN Tail(jobs) : Tail(jobs)[i] = Tail(jobs)[k] => i = k
      BY <3>1, TailContents DEF Contents, EveryJobInOnePlace
    <3> QED BY <3>1, <3>2 DEF Contents
  <2>2. h \in Jobs /\ h # NoJob
    BY <2>1 DEF EveryJobInOnePlace, Accepted
  <2>3. current' = [current EXCEPT ![w] = h] /\ current[w] = NoJob
    BY <1>3 DEF Receive
  <2>4. InFlight' = InFlight \cup {h}
    BY <2>2, <2>3 DEF InFlight
  <2>5. Ended' = Ended /\ Accepted' = Accepted
    BY <1>3 DEF Receive, Ended, Accepted
  <2>6. h \notin InFlight /\ h \notin Ended
    BY <2>1 DEF EveryJobInOnePlace
  <2>7. \A u, v \in Workers : current'[u] = current'[v] => u = v \/ current'[u] = NoJob
    BY <2>3, <2>6, <2>2 DEF EveryJobInOnePlace, InFlight
  <2> QED BY <2>1, <2>4, <2>5, <2>6, <2>7 DEF EveryJobInOnePlace
<1>4. ASSUME NEW w \in Workers, Exit(w)
      PROVE  EveryJobInOnePlace'
  BY <1>4, SamePlaces DEF Exit
<1>5. ASSUME NEW w \in Workers, safeRun(w)
      PROVE  EveryJobInOnePlace'
  <2> DEFINE h == current[w]
  <2>1. h \in Jobs /\ h \in InFlight
    BY <1>5 DEF safeRun, InFlight
  <2>2. current' = [current EXCEPT ![w] = NoJob]
    BY <1>5 DEF safeRun
  <2>3. InFlight' = InFlight \ {h}
    BY <2>1, <2>2 DEF EveryJobInOnePlace, InFlight
  <2>4. PICK how \in {"returned", "panicked"} : outcome' = [outcome EXCEPT ![h] = how]
    BY <1>5 DEF safeRun
  <2>5. Ended' = Ended \cup {h}
    BY <2>1, <2>4 DEF Ended, Outcome
  <2>6. Contents' = Contents /\ Accepted' = Accepted /\ jobs' = jobs
    BY <1>5 DEF safeRun, Contents, Accepted
  <2>7. h \notin Contents /\ h \notin Ended
    BY <2>1 DEF EveryJobInOnePlace
  <2>8. \A u, v \in Workers : current'[u] = current'[v] => u = v \/ current'[u] = NoJob
    BY <2>2 DEF EveryJobInOnePlace
  <2> QED BY <2>1, <2>3, <2>5, <2>6, <2>7, <2>8 DEF EveryJobInOnePlace
<1>6. ASSUME NEW c \in Closers, CallShutdown(c) \/ Shutdown(c)
      PROVE  EveryJobInOnePlace'
  <2>1. UNCHANGED <<jobs, submit, current, outcome>>
    BY <1>6 DEF CallShutdown, Shutdown, Lock, MarkClosed, CloseChannel, Drained,
                GraceExpires, DrainedLate
  <2> QED BY <2>1, SamePlaces
<1>7. CASE UNCHANGED vars
  BY <1>7, SamePlaces DEF vars
<1> QED
  BY <1>1, <1>2, <1>3, <1>4, <1>5, <1>6, <1>7 DEF Next, TrySubmit, run, Terminated

LEMMA StepDrain == TypeOK /\ LockInv /\ DrainInv /\ [Next]_vars => DrainInv'
<1> SUFFICES ASSUME TypeOK, LockInv, DrainInv, [Next]_vars PROVE DrainInv'
  OBVIOUS
<1> USE DEF DrainInv, TypeOK
<1>1. ASSUME NEW j \in Jobs, CheckClosed(j) \/ QueueFull(j) PROVE DrainInv'
  BY <1>1 DEF CheckClosed, QueueFull
<1>2. ASSUME NEW j \in Jobs, Send(j) PROVE DrainInv'
  BY <1>2 DEF Send, LockInv
<1>3. ASSUME NEW w \in Workers, Receive(w) PROVE DrainInv'
  BY <1>3 DEF Receive
<1>4. ASSUME NEW w \in Workers, Exit(w) PROVE DrainInv'
  BY <1>4 DEF Exit
<1>5. ASSUME NEW w \in Workers, safeRun(w) PROVE DrainInv'
  BY <1>5 DEF safeRun
<1>6. ASSUME NEW c \in Closers, CallShutdown(c) \/ Lock(c) \/ MarkClosed(c) PROVE DrainInv'
  BY <1>6 DEF CallShutdown, Lock, MarkClosed, Goto, ShutdownState
<1>7. ASSUME NEW c \in Closers, CloseChannel(c) PROVE DrainInv'
  BY <1>7 DEF CloseChannel, Goto, ShutdownState
<1>8. ASSUME NEW c \in Closers, Drained(c) \/ GraceExpires(c) \/ DrainedLate(c)
      PROVE DrainInv'
  BY <1>8 DEF Drained, GraceExpires, DrainedLate, AllExited, Goto, ShutdownState
<1>9. CASE UNCHANGED vars
  BY <1>9 DEF vars
<1> QED
  BY <1>1, <1>2, <1>3, <1>4, <1>5, <1>6, <1>7, <1>8, <1>9
     DEF Next, TrySubmit, run, Shutdown, Terminated

LEMMA Invariance == Spec => []IInv
<1>1. IInv /\ [Next]_vars => IInv'
  BY StepType, StepLock, StepPlace, StepDrain DEF IInv
<1> QED BY InitInv, <1>1, PTL DEF Spec

-----------------------------------------------------------------------------
(* The results. *)

\* Every variable keeps its type; the channel never holds more than its
\* capacity.
THEOREM TypeCorrect == Spec => []TypeOK
<1>1. IInv => TypeOK
  BY DEF IInv
<1> QED BY Invariance, <1>1, PTL

\* No send on a closed channel and no second close, whatever the timing of
\* TrySubmit and Shutdown calls.
THEOREM NeverPanics == Spec => []ChannelNeverPanics
<1>1. IInv => ChannelNeverPanics
  BY DEF IInv, LockInv, ChannelNeverPanics
<1> QED BY Invariance, <1>1, PTL

\* No accepted job is lost, duplicated or run twice.
THEOREM NoJobLost == Spec => []EveryJobInOnePlace
<1>1. IInv => EveryJobInOnePlace
  BY DEF IInv
<1> QED BY Invariance, <1>1, PTL

\* Shutdown returns only when every accepted job has ended.
THEOREM ReturnsDrained == Spec => []ShutdownReturnsDrained
<1>1. ASSUME IInv, NEW c \in Closers, shutdown[c] \in {"nil", "error"}
      PROVE  /\ Accepted = Ended /\ cancelled
             /\ \A j \in Jobs : submit[j] # "checked"
  <2>1. exited = Workers /\ cancelled
    BY <1>1 DEF IInv, DrainInv
  <2>2. jobs = <<>> /\ \A w \in Workers : current[w] = NoJob
    BY <1>1, <2>1, PoolAssumption DEF IInv, DrainInv
  <2>3. Contents = {} /\ InFlight = {}
    BY <2>2 DEF Contents, InFlight
  <2>4. closed
    BY <1>1 DEF IInv, LockInv
  <2> QED BY <1>1, <2>1, <2>3, <2>4 DEF IInv, EveryJobInOnePlace, LockInv
<1>2. IInv => ShutdownReturnsDrained
  BY <1>1 DEF ShutdownReturnsDrained
<1> QED BY Invariance, <1>2, PTL

-----------------------------------------------------------------------------
(* The pool implements JobService. *)

\* A channel of distinct jobs holds as many as it is long.
LEMMA QueueLength ==
  ASSUME NEW S, NEW s \in Seq(S), \A i, k \in DOMAIN s : s[i] = s[k] => i = k
  PROVE  Cardinality({s[i] : i \in DOMAIN s}) = Len(s)
<1> DEFINE T == {s[i] : i \in DOMAIN s}
<1>1. Len(s) \in Nat /\ DOMAIN s = 1 .. Len(s)
  OBVIOUS
<1>2. s \in [1 .. Len(s) -> T]
  BY <1>1
<1>3. s \in Bijection(1 .. Len(s), T)
  BY <1>1, <1>2 DEF Bijection, Injection, IsInjective, Surjection
<1> QED BY <1>1, <1>3, FS_CountingElements DEF ExistsBijection

\* While a worker is free, fewer jobs run than there are workers.
LEMMA FreeWorker ==
  ASSUME TypeOK, NEW w \in Workers, current[w] = NoJob
  PROVE  Cardinality(InFlight) < Cardinality(Workers)
<1> DEFINE Busy == {v \in Workers : current[v] # NoJob}
           f == [v \in Busy |-> current[v]]
<1>1. f \in Surjection(Busy, InFlight)
  BY DEF Surjection, InFlight
<1>2. IsFiniteSet(Workers) /\ IsFiniteSet(Workers \ {w})
  BY PoolAssumption, FS_RemoveElement
<1>3. /\ Cardinality(Workers) \in Nat
      /\ Cardinality(Workers \ {w}) = Cardinality(Workers) - 1
  BY <1>2, FS_RemoveElement, FS_CardinalityType
<1>4. Busy \in SUBSET (Workers \ {w})
  OBVIOUS
<1>5. IsFiniteSet(Busy) /\ Cardinality(Busy) <= Cardinality(Workers) - 1
  BY <1>2, <1>3, <1>4, FS_Subset
<1>6. IsFiniteSet(InFlight) /\ Cardinality(InFlight) <= Cardinality(Busy)
  BY <1>1, <1>5, FS_Surjection
<1>7. Cardinality(Busy) \in Nat /\ Cardinality(InFlight) \in Nat
  BY <1>5, <1>6, FS_CardinalityType
<1> QED BY <1>3, <1>5, <1>6, <1>7

\* The service counts as the pool does.
LEMMA SameCount == \A S : Service!Cardinality(S) = Cardinality(S)
  BY DEF Service!Cardinality, Cardinality

\* What the mapping makes of the places a job can be in.
LEMMA StatusOf ==
  ASSUME IInv
  PROVE  /\ Service!Queued = Contents
         /\ Service!Running = InFlight
         /\ Cardinality(Contents) = Len(jobs)
<1>1. /\ Contents \subseteq Accepted /\ InFlight \subseteq Accepted
      /\ Contents \cap InFlight = {}
  BY DEF IInv, EveryJobInOnePlace
<1>2. \A j \in Jobs : /\ statusBar[j] = "queued" <=> j \in Contents
                      /\ statusBar[j] = "running" <=> j \in InFlight
  BY <1>1 DEF statusBar, Accepted
<1>3. Service!Queued = Contents /\ Service!Running = InFlight
  BY <1>1, <1>2 DEF Service!Queued, Service!Running, Accepted
<1>4. Cardinality(Contents) = Len(jobs)
  BY QueueLength DEF IInv, TypeOK, EveryJobInOnePlace, Contents
<1> QED BY <1>3, <1>4

\* The phase, read off the Shutdown calls and the flag.
LEMMA PhaseOf ==
  ASSUME IInv
  PROVE  /\ phaseBar = "open" <=> ~closed
         /\ phaseBar = "closed" <=>
              closed /\ \A c \in Closers : shutdown[c] \notin {"nil", "error"}
         /\ phaseBar \in {"open", "closed", "returned"}
         /\ phaseBar = "returned" => cancelled
  BY DEF IInv, LockInv, DrainInv, phaseBar

\* Nothing that the mapping reads has changed.
LEMMA SamePhase ==
  ASSUME UNCHANGED <<closed, shutdown>>
  PROVE  phaseBar' = phaseBar
  BY DEF phaseBar

LEMMA SameStatus ==
  ASSUME UNCHANGED <<submit, jobs, current>>
  PROVE  statusBar' = statusBar
<1>1. Contents' = Contents /\ InFlight' = InFlight
  BY DEF Contents, InFlight
<1> QED BY <1>1 DEF statusBar

LEMMA RefineInit == Init => Service!ServiceInit
<1> SUFFICES ASSUME Init PROVE Service!ServiceInit
  OBVIOUS
<1>1. statusBar = [j \in Jobs |-> "new"]
  BY DEF Init, statusBar
<1>2. phaseBar = "open" /\ cancelled = FALSE
  BY DEF Init, phaseBar
<1> QED BY <1>1, <1>2 DEF Service!ServiceInit

\* TrySubmit takes effect at its send, at its default branch, or where it
\* finds the pool closed.
LEMMA RefineTrySubmit ==
  ASSUME IInv, IInv', NEW j \in Jobs, TrySubmit(j)
  PROVE  Service!Accept(j) \/ Service!Refuse(j) \/ UNCHANGED Service!serviceVars
<1> USE DEF Service!serviceVars
<1>1. TypeOK /\ LockInv
  BY DEF IInv
<1>2. phaseBar' = phaseBar /\ cancelled' = cancelled
  BY SamePhase DEF TrySubmit, CheckClosed, Send, QueueFull
<1>3. CASE CheckClosed(j)
  <2>1. Contents' = Contents /\ InFlight' = InFlight
    BY <1>3 DEF CheckClosed, Contents, InFlight
  <2>2. statusBar[j] = "new"
    BY <1>3 DEF CheckClosed, statusBar
  <2>3. CASE closed
    <3>1. statusBar' = [statusBar EXCEPT ![j] = "refused"]
      BY <1>1, <1>3, <2>1, <2>3 DEF CheckClosed, statusBar, TypeOK
    <3> QED BY <1>2, <2>2, <2>3, <3>1, PhaseOf DEF Service!Refuse, Service!Move
  <2>4. CASE ~closed
    <3>1. statusBar' = statusBar
      BY <1>1, <1>3, <2>1, <2>4 DEF CheckClosed, statusBar, TypeOK
    <3> QED BY <1>2, <3>1
  <2> QED BY <2>3, <2>4
<1>4. CASE Send(j)
  <2>1. Contents' = Contents \cup {j} /\ InFlight' = InFlight
    <3>1. jobs \in Seq(Jobs) /\ jobs' = Append(jobs, j)
      BY <1>1, <1>4 DEF Send, TypeOK
    <3>2. \A i, k \in DOMAIN jobs : jobs[i] = jobs[k] => i = k
      BY DEF IInv, EveryJobInOnePlace
    <3>3. j \notin {jobs[i] : i \in DOMAIN jobs}
      BY <1>4 DEF Send, IInv, EveryJobInOnePlace, Contents, Accepted
    <3>4. {Append(jobs, j)[i] : i \in DOMAIN Append(jobs, j)}
            = {jobs[i] : i \in DOMAIN jobs} \cup {j}
      BY <3>1, <3>2, <3>3, AppendContents
    <3> QED BY <1>4, <3>1, <3>4 DEF Send, Contents, InFlight
  <2>2. statusBar[j] = "new" /\ ~closed
    BY <1>1, <1>4 DEF Send, statusBar, LockInv
  <2>3. statusBar' = [statusBar EXCEPT ![j] = "queued"]
    BY <1>1, <1>4, <2>1 DEF Send, statusBar, TypeOK
  <2>4. Service!QueueHasRoom
    BY <1>4, StatusOf, SameCount DEF Send, Service!QueueHasRoom
  <2> QED BY <1>2, <2>2, <2>3, <2>4, PhaseOf DEF Service!Accept, Service!Move
<1>5. CASE QueueFull(j)
  <2>1. Contents' = Contents /\ InFlight' = InFlight
    BY <1>5 DEF QueueFull, Contents, InFlight
  <2>2. statusBar[j] = "new"
    BY <1>5 DEF QueueFull, statusBar
  <2>3. statusBar' = [statusBar EXCEPT ![j] = "refused"]
    BY <1>1, <1>5, <2>1 DEF QueueFull, statusBar, TypeOK
  <2>4. ~Service!QueueHasRoom
    <3>1. Len(jobs) \in Nat /\ QueueSize \in Nat /\ Len(jobs) >= QueueSize
      BY <1>1, <1>5, PoolAssumption DEF QueueFull, TypeOK
    <3> QED BY <3>1, StatusOf, SameCount DEF Service!QueueHasRoom
  <2> QED BY <1>2, <2>2, <2>3, <2>4 DEF Service!Refuse, Service!Move
<1> QED BY <1>3, <1>4, <1>5 DEF TrySubmit

\* A receive starts the job, safeRun ends it.
LEMMA RefineRun ==
  ASSUME IInv, NEW w \in Workers, run(w)
  PROVE  \/ \E j \in Jobs : Service!Start(j) \/ Service!End(j)
         \/ UNCHANGED Service!serviceVars
<1> USE DEF Service!serviceVars
<1>1. TypeOK /\ EveryJobInOnePlace
  BY DEF IInv
<1>2. phaseBar' = phaseBar /\ cancelled' = cancelled /\ submit' = submit
  BY SamePhase DEF run, Receive, Exit, safeRun
<1>3. CASE Receive(w)
  <2> DEFINE h == Head(jobs)
  <2>1. Contents' = Contents \ {h} /\ h \in Contents
    <3>1. jobs \in Seq(Jobs) /\ jobs # <<>> /\ jobs' = Tail(jobs)
      BY <1>1, <1>3 DEF Receive, TypeOK
    <3>2. \A i, k \in DOMAIN jobs : jobs[i] = jobs[k] => i = k
      BY <1>1 DEF EveryJobInOnePlace
    <3>3. /\ {Tail(jobs)[i] : i \in DOMAIN Tail(jobs)} = {jobs[i] : i \in DOMAIN jobs} \ {h}
          /\ h \in {jobs[i] : i \in DOMAIN jobs}
      BY <3>1, <3>2, TailContents
    <3> QED BY <3>1, <3>3 DEF Contents
  <2>2. h \in Jobs /\ h # NoJob /\ submit[h] = "accepted"
    BY <1>1, <2>1, PoolAssumption DEF EveryJobInOnePlace, Accepted
  <2>3. current' = [current EXCEPT ![w] = h] /\ current[w] = NoJob
    BY <1>3 DEF Receive
  <2> HIDE DEF h
  <2>4. InFlight' = InFlight \cup {h}
    BY <1>1, <2>2, <2>3 DEF InFlight, TypeOK
  <2>5. statusBar' = [statusBar EXCEPT ![h] = "running"] /\ statusBar[h] = "queued"
    BY <1>2, <2>1, <2>2, <2>4 DEF statusBar
  <2>6. Cardinality(Service!Running) < Cardinality(Workers)
    BY <1>1, <2>3, FreeWorker, StatusOf
  <2> QED BY <1>2, <2>2, <2>5, <2>6, SameCount DEF Service!Start, Service!Move
<1>4. CASE Exit(w)
  BY <1>2, <1>4, SameStatus DEF Exit
<1>5. CASE safeRun(w)
  <2> DEFINE h == current[w]
  <2>1. h \in Jobs /\ h \in InFlight
    BY <1>1, <1>5 DEF safeRun, InFlight, TypeOK
  <2>2. h \notin Contents /\ submit[h] = "accepted"
    BY <1>1, <2>1 DEF EveryJobInOnePlace, Accepted
  <2>3. InFlight' = InFlight \ {h}
    <3>1. current' = [current EXCEPT ![w] = NoJob]
      BY <1>5 DEF safeRun
    <3> QED BY <1>1, <2>1, <3>1 DEF EveryJobInOnePlace, InFlight, TypeOK
  <2>4. Contents' = Contents
    BY <1>5 DEF safeRun, Contents
  <2> HIDE DEF h
  <2>5. statusBar' = [statusBar EXCEPT ![h] = "ended"] /\ statusBar[h] = "running"
    BY <1>2, <2>1, <2>2, <2>3, <2>4 DEF statusBar
  <2> QED BY <1>2, <2>1, <2>5 DEF Service!End, Service!Move
<1> QED BY <1>3, <1>4, <1>5 DEF run

\* The first Shutdown call closes the service where it sets closed, an expired
\* grace period cancels it, and the first one that returns ends it.
LEMMA RefineShutdown ==
  ASSUME IInv, IInv', NEW c \in Closers, CallShutdown(c) \/ Shutdown(c)
  PROVE  Service!Close \/ Service!Cancel \/ Service!Return
           \/ UNCHANGED Service!serviceVars
<1> USE DEF Service!serviceVars
<1>1. TypeOK /\ LockInv /\ DrainInv /\ TypeOK' /\ LockInv' /\ DrainInv'
  BY DEF IInv
<1>2. statusBar' = statusBar
  BY SameStatus
  DEF CallShutdown, Shutdown, Lock, MarkClosed, CloseChannel, Drained,
      GraceExpires, DrainedLate
<1>3. CASE CallShutdown(c) \/ Lock(c) \/ CloseChannel(c)
  <2>1. \A d \in Closers : shutdown'[d] \in {"nil", "error"}
                             <=> shutdown[d] \in {"nil", "error"}
    BY <1>1, <1>3 DEF CallShutdown, Lock, CloseChannel, Goto, TypeOK
  <2>2. closed' = closed /\ cancelled' = cancelled
    BY <1>3 DEF CallShutdown, Lock, CloseChannel
  <2> QED BY <1>2, <2>1, <2>2 DEF phaseBar
<1>4. CASE MarkClosed(c)
  <2>1. \A d \in Closers : shutdown'[d] \in {"nil", "error"}
                             <=> shutdown[d] \in {"nil", "error"}
    BY <1>1, <1>4 DEF MarkClosed, Goto, TypeOK
  <2>2. closed' = TRUE /\ cancelled' = cancelled
    BY <1>4 DEF MarkClosed
  <2>3. CASE closed
    BY <1>1, <1>2, <2>1, <2>2, <2>3 DEF phaseBar, TypeOK
  <2>4. CASE ~closed
    <3>1. \A d \in Closers : shutdown[d] \notin {"nil", "error"}
      BY <1>1, <2>4 DEF LockInv
    <3>2. phaseBar = "open" /\ phaseBar' = "closed"
      BY <2>1, <2>2, <2>4, <3>1 DEF phaseBar
    <3> QED BY <1>2, <2>2, <3>2 DEF Service!Close
  <2> QED BY <2>3, <2>4
<1>5. CASE GraceExpires(c)
  <2>1. \A d \in Closers : shutdown'[d] \in {"nil", "error"}
                             <=> shutdown[d] \in {"nil", "error"}
    BY <1>1, <1>5 DEF GraceExpires, Goto, TypeOK
  <2>2. closed' = closed /\ closed /\ cancelled' = TRUE
    BY <1>1, <1>5 DEF GraceExpires, LockInv
  <2>3. phaseBar' = phaseBar
    BY <2>1, <2>2 DEF phaseBar
  <2>4. CASE cancelled
    BY <1>1, <1>2, <2>2, <2>3, <2>4 DEF TypeOK
  <2>5. CASE ~cancelled
    <3>1. phaseBar = "closed"
      BY <2>2, <2>5, PhaseOf
    <3> QED BY <1>2, <2>2, <2>3, <2>5, <3>1 DEF Service!Cancel
  <2> QED BY <2>4, <2>5
<1>6. CASE Drained(c) \/ DrainedLate(c)
  <2>1. shutdown'[c] \in {"nil", "error"} /\ closed /\ cancelled' = TRUE
    BY <1>1, <1>6 DEF Drained, DrainedLate, Goto, TypeOK, LockInv, DrainInv
  <2>2. phaseBar' = "returned"
    BY <2>1 DEF phaseBar
  <2>3. Contents = {} /\ InFlight = {}
    <3>1. exited = Workers
      BY <1>6 DEF Drained, DrainedLate, AllExited
    <3>2. jobs = <<>> /\ \A w \in Workers : current[w] = NoJob
      BY <1>1, <3>1, PoolAssumption DEF DrainInv
    <3> QED BY <3>2 DEF Contents, InFlight
  <2>4. CASE phaseBar = "returned"
    BY <1>1, <1>2, <2>1, <2>2, <2>4, PhaseOf DEF TypeOK
  <2>5. CASE phaseBar # "returned"
    <3>1. phaseBar = "closed"
      BY <2>1, <2>5, PhaseOf
    <3> QED BY <1>2, <2>1, <2>2, <2>3, <3>1, StatusOf DEF Service!Return
  <2> QED BY <2>4, <2>5
<1> QED BY <1>3, <1>4, <1>5, <1>6 DEF Shutdown

LEMMA RefineStep ==
  IInv /\ IInv' /\ [Next]_vars => [Service!ServiceNext]_Service!serviceVars
<1> SUFFICES ASSUME IInv, IInv', [Next]_vars
             PROVE  [Service!ServiceNext]_Service!serviceVars
  OBVIOUS
<1>1. ASSUME NEW j \in Jobs, TrySubmit(j)
      PROVE  [Service!ServiceNext]_Service!serviceVars
  BY <1>1, RefineTrySubmit DEF Service!ServiceNext
<1>2. ASSUME NEW w \in Workers, run(w)
      PROVE  [Service!ServiceNext]_Service!serviceVars
  BY <1>2, RefineRun DEF Service!ServiceNext
<1>3. ASSUME NEW c \in Closers, CallShutdown(c) \/ Shutdown(c)
      PROVE  [Service!ServiceNext]_Service!serviceVars
  BY <1>3, RefineShutdown DEF Service!ServiceNext
<1>4. CASE UNCHANGED vars
  BY <1>4, SameStatus, SamePhase DEF vars, Service!serviceVars
<1> QED BY <1>1, <1>2, <1>3, <1>4 DEF Next, Terminated

\* Locks, channel and goroutines implement the abstract service, for any number
\* of each: what AutoConvert and Lifecycle assume of the pool is what pool.go
\* does.
THEOREM PoolImplementsService == Spec => ImplementsJobService
<1>1. Init => Service!ServiceInit
  BY RefineInit
<1> QED
  BY <1>1, RefineStep, Invariance, PTL
  DEF Spec, ImplementsJobService, Service!ServiceSpec

=============================================================================
