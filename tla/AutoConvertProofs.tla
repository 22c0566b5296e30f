-------------------------- MODULE AutoConvertProofs --------------------------
(***************************************************************************)
(* Proofs of the safety of automatic conversion, for any messages,         *)
(* attachments, queue, workers and failures.                               *)
(*                                                                         *)
(* Every step counts one attachment, discounts one, or leaves the counted  *)
(* ones alone; the three lemmas of the second section say what each does   *)
(* to TrackerCounts. The rest of the inductive invariant says where the    *)
(* handler and the pool stand, and what a batch remembers of its jobs.     *)
(***************************************************************************)
EXTENDS AutoConvert, FiniteSetTheorems, TLAPS

\* The handler's loop: the attachments it has not submitted are new.
HandlerInv ==
  /\ hpc = "idle" <=> handling = NoMessage
  /\ handling # NoMessage => handling \in received
  /\ \A m \in Messages \ received : \A a \in AttachmentsOf(m) : status[a] = "new"
  /\ hpc = "idle" => todo = {}
  /\ \A a \in todo : status[a] = "new" /\ MessageOf[a] = handling
  /\ hpc \in {"addQueued", "submit", "rollback"} =>
       /\ hjob \in AttachmentsOf(handling) \ todo
       /\ status[hjob] = IF hpc = "rollback" THEN "refused" ELSE "new"

\* Shutdown returned: nothing waits or runs. The process exits only then.
PoolInv ==
  /\ phase = "returned" => Queued = {} /\ Running = {}
  /\ proc = "exited" => phase = "returned" /\ hpc = "idle"

\* What became of the attachments of a batch: outstanding, converted and
\* posted, or remembered as failed.
BatchInv ==
  /\ succeeded \subseteq posted
  /\ \A m \in DOMAIN tracker :
       tracker[m].failed \/ batch[m] \subseteq Outstanding(m) \cup succeeded

IInv == TypeOK /\ HandlerInv /\ PoolInv /\ TrackerCounts /\ BatchInv

-----------------------------------------------------------------------------
(* Counting. *)

Uncounted == {"clearQueued", "clearProcessing", "delete", "over"}

Counts(a) ==
  \/ hjob = a /\ hpc \in {"addQueued", "submit", "rollback"}
  \/ status[a] = "queued"
  \/ status[a] = "running" /\ pc[a] \notin Uncounted

LEMMA OutstandingCounts ==
  ASSUME NEW m
  PROVE  /\ Outstanding(m) = {a \in Jobs : MessageOf[a] = m /\ Counts(a)}
         /\ Outstanding(m)' = {a \in Jobs : MessageOf[a] = m /\ Counts(a)'}
  BY DEF Outstanding, AttachmentsOf, Counts, Uncounted

LEMMA OutstandingFinite ==
  ASSUME NEW m
  PROVE  IsFiniteSet(Outstanding(m)) /\ Cardinality(Outstanding(m)) \in Nat
<1>1. Outstanding(m) \in SUBSET Jobs
  BY DEF Outstanding, AttachmentsOf
<1> QED BY <1>1, ServiceAssumption, FS_Subset, FS_CardinalityType

\* A step that counts the same attachments and keeps the counters.
LEMMA SameCount ==
  ASSUME TrackerCounts,
         \A a \in Jobs : Counts(a)' <=> Counts(a),
         DOMAIN tracker' = DOMAIN tracker,
         \A m \in DOMAIN tracker : tracker'[m].remaining = tracker[m].remaining
  PROVE  TrackerCounts' /\ \A m : Outstanding(m)' = Outstanding(m)
<1>1. \A m : Outstanding(m)' = Outstanding(m)
  BY OutstandingCounts
<1> QED BY <1>1 DEF TrackerCounts

\* markQueued: one attachment more.
LEMMA OneMore ==
  ASSUME TypeOK, TrackerCounts, NEW a \in Jobs, ~Counts(a), Counts(a)',
         \A b \in Jobs \ {a} : Counts(b)' <=> Counts(b),
         tracker' = Put(MessageOf[a], Counted(MessageOf[a]))
  PROVE  /\ TrackerCounts'
         /\ Outstanding(MessageOf[a])' = Outstanding(MessageOf[a]) \cup {a}
         /\ \A m : m # MessageOf[a] => Outstanding(m)' = Outstanding(m)
<1> DEFINE m == MessageOf[a]
<1>1. Outstanding(m)' = Outstanding(m) \cup {a} /\ a \notin Outstanding(m)
  BY OutstandingCounts
<1>2. ASSUME NEW n, n # m PROVE Outstanding(n)' = Outstanding(n)
  BY OutstandingCounts, <1>2
<1>3. Cardinality(Outstanding(m)') = Cardinality(Outstanding(m)) + 1
  BY <1>1, OutstandingFinite, FS_AddElement
<1>4. m \in DOMAIN tracker'
      /\ tracker'[m].remaining = Cardinality(Outstanding(m)')
  <2>1. CASE m \in DOMAIN tracker
    BY <2>1, <1>3 DEF TrackerCounts, TypeOK, Put, Counted, Entry
  <2>2. CASE m \notin DOMAIN tracker
    <3>1. Outstanding(m) = {}
      BY <2>2, AutoAssumption DEF TrackerCounts
    <3> QED BY <2>2, <3>1, <1>3, FS_EmptySet DEF Put, Counted, NewEntry
  <2> QED BY <2>1, <2>2
<1>5. \A n : n # m => /\ n \in DOMAIN tracker' <=> n \in DOMAIN tracker
                      /\ n \in DOMAIN tracker => tracker'[n] = tracker[n]
  BY DEF Put
<1>6. TrackerCounts'
  BY <1>1, <1>2, <1>4, <1>5 DEF TrackerCounts
<1> QED BY <1>1, <1>2, <1>6

\* markDone: one attachment less, and the entry goes with the last one.
LEMMA OneLess ==
  ASSUME TypeOK, TrackerCounts, NEW a \in Jobs, NEW ok \in BOOLEAN,
         Counts(a), ~Counts(a)',
         \A b \in Jobs \ {a} : Counts(b)' <=> Counts(b),
         MarkDone(MessageOf[a], ok)
  PROVE  /\ TrackerCounts'
         /\ MessageOf[a] \in DOMAIN tracker
         /\ Outstanding(MessageOf[a])' = Outstanding(MessageOf[a]) \ {a}
         /\ Last(MessageOf[a], ok) => Outstanding(MessageOf[a])' = {}
         /\ \A m : m # MessageOf[a] => Outstanding(m)' = Outstanding(m)
<1> DEFINE m == MessageOf[a]
<1>1. Outstanding(m)' = Outstanding(m) \ {a} /\ a \in Outstanding(m)
  BY OutstandingCounts
<1>2. ASSUME NEW n, n # m PROVE Outstanding(n)' = Outstanding(n)
  BY OutstandingCounts, <1>2
<1>3. Cardinality(Outstanding(m)') = Cardinality(Outstanding(m)) - 1
  BY <1>1, OutstandingFinite, FS_RemoveElement
<1>4. m \in DOMAIN tracker /\ tracker[m].remaining = Cardinality(Outstanding(m))
  BY <1>1, AutoAssumption DEF TrackerCounts
<1>5. Done(m, ok).remaining = Cardinality(Outstanding(m)')
  BY <1>3, <1>4 DEF Done, TypeOK, Entry
<1>6. IsFiniteSet(Outstanding(m)') /\ Cardinality(Outstanding(m)') \in Nat
  BY <1>1, OutstandingFinite, FS_RemoveElement, FS_CardinalityType
<1>7. Last(m, ok) <=> Outstanding(m)' = {}
  BY <1>4, <1>5, <1>6, FS_EmptySet DEF Last
<1>8. \A n : n # m => /\ n \in DOMAIN tracker' <=> n \in DOMAIN tracker
                      /\ n \in DOMAIN tracker => tracker'[n] = tracker[n]
  BY <1>4 DEF MarkDone, Put, Restrict
<1>9. /\ m \in DOMAIN tracker' <=> ~Last(m, ok)
      /\ m \in DOMAIN tracker' => tracker'[m] = Done(m, ok)
  BY <1>4 DEF MarkDone, Put, Restrict
<1>10. TrackerCounts'
  BY <1>2, <1>5, <1>7, <1>8, <1>9 DEF TrackerCounts
<1> QED BY <1>1, <1>2, <1>4, <1>7, <1>10

-----------------------------------------------------------------------------
(* The types. *)

TrackerType == DOMAIN tracker \subseteq Messages /\ tracker \in [DOMAIN tracker -> Entry]

LEMMA PutType ==
  ASSUME TrackerType, NEW m \in Messages, NEW st \in Entry
  PROVE  DOMAIN Put(m, st) \subseteq Messages /\ Put(m, st) \in [DOMAIN Put(m, st) -> Entry]
  BY DEF TrackerType, Put

\* An entry with another counter, and another flag, is an entry.
AnyEntry == [remaining : Nat, processing : BOOLEAN, failed : BOOLEAN]

LEMMA ExceptEntry ==
  ASSUME NEW e \in AnyEntry, NEW n \in Nat \ {0}, NEW f \in BOOLEAN
  PROVE  /\ [e EXCEPT !.remaining = n] \in Entry
         /\ [e EXCEPT !.remaining = n, !.failed = f] \in Entry
  BY DEF AnyEntry, Entry

LEMMA CountedType ==
  ASSUME TrackerType, NEW m \in Messages
  PROVE  Counted(m) \in Entry
<1> DEFINE st == IF m \in DOMAIN tracker THEN tracker[m] ELSE NewEntry
<1>1. st \in AnyEntry
  <2>1. NewEntry \in AnyEntry
    BY DEF NewEntry, AnyEntry
  <2>2. m \in DOMAIN tracker => tracker[m] \in AnyEntry
    BY DEF TrackerType, Entry, AnyEntry
  <2> QED BY <2>1, <2>2
<1>2. st.remaining + 1 \in Nat \ {0}
  BY <1>1 DEF AnyEntry
<1>3. [st EXCEPT !.remaining = st.remaining + 1] \in Entry
  <2> HIDE DEF st
  <2> QED BY <1>1, <1>2, ExceptEntry
<1> QED BY <1>3, Zenon DEF Counted

LEMMA MarkQueuedType ==
  ASSUME TypeOK, NEW a \in Jobs, NEW m \in Messages, MarkQueued(a, m)
  PROVE  TrackerType' /\ batch' \in [Messages -> SUBSET Jobs]
<1>1. TrackerType
  BY DEF TypeOK, TrackerType
<1>2. TrackerType'
  BY <1>1, CountedType, PutType DEF MarkQueued, TrackerType
<1> QED BY <1>2 DEF MarkQueued, TypeOK

LEMMA MarkProcessingType ==
  ASSUME TypeOK, NEW m \in Messages, MarkProcessing(m)
  PROVE  TrackerType' /\ DOMAIN tracker' = DOMAIN tracker
  BY DEF TypeOK, TrackerType, MarkProcessing, Swaps, Entry

LEMMA MarkDoneType ==
  ASSUME TypeOK, NEW m \in Messages, NEW ok \in BOOLEAN, MarkDone(m, ok)
  PROVE  TrackerType'
<1>1. TrackerType
  BY DEF TypeOK, TrackerType
<1>2. CASE Last(m, ok)
  BY <1>1, <1>2 DEF MarkDone, Restrict, TrackerType
<1>3. CASE ~Last(m, ok) /\ m \in DOMAIN tracker
  <2>1. Done(m, ok) \in Entry
    <3>1. tracker[m] \in AnyEntry
      BY <1>1, <1>3 DEF TrackerType, Entry, AnyEntry
    <3>2. tracker[m].remaining - 1 \in Nat \ {0}
      BY <1>3, <3>1 DEF Last, Done, AnyEntry
    <3>3. (tracker[m].failed \/ ~ok) \in BOOLEAN
      OBVIOUS
    <3> QED BY <3>1, <3>2, <3>3, ExceptEntry, Zenon DEF Done
  <2> QED BY <1>1, <1>3, <2>1, PutType DEF MarkDone, TrackerType
<1>4. CASE ~Last(m, ok) /\ m \notin DOMAIN tracker
  BY <1>1, <1>4 DEF MarkDone, TrackerType
<1> QED BY <1>2, <1>3, <1>4

LEMMA ReactionType ==
  ASSUME TypeOK, NEW m \in Messages, NEW e \in Emoji, NEW dead \in BOOLEAN,
         AddReaction(m, e, dead) \/ RemoveReaction(m, e, dead)
  PROVE  reactions' \in [Messages -> SUBSET Emoji] /\ missed' \subseteq Messages
<1>1. PICK new \in SUBSET Emoji : SetReactions(m, new, dead)
  BY DEF TypeOK, AddReaction, RemoveReaction
<1> QED BY <1>1 DEF SetReactions, TypeOK

\* The states the loop, the jobs and the tracker hand on.
LEMMA ClearStateType == \A m : ClearState(m) \in {"clearQueued", "clearProcessing"}
  BY DEF ClearState

LEMMA ClearedType == \A state : Cleared(state) \in Emoji
  BY DEF Cleared, Emoji

LEMMA InitInv == Init => IInv
<1> SUFFICES ASSUME Init PROVE IInv
  OBVIOUS
<1> USE AutoAssumption DEF Init, ServiceInit
<1>1. TypeOK
  BY DEF TypeOK, ServiceTypeOK, Status, HandlerState, JobState
<1>2. HandlerInv
  BY DEF HandlerInv, AttachmentsOf
<1>3. PoolInv
  BY DEF PoolInv
<1>4. \A m : Outstanding(m) = {}
  BY DEF Outstanding, AttachmentsOf
<1>5. TrackerCounts /\ BatchInv
  BY <1>4 DEF TrackerCounts, BatchInv
<1> QED BY <1>1, <1>2, <1>3, <1>5 DEF IInv

LEMMA HandlerType ==
  ASSUME TypeOK, HandlerInv, HandlerStep PROVE TypeOK'
<1> USE DEF HandlerState
<1>0. hpc # "idle" => handling \in Messages
  BY DEF TypeOK, HandlerInv
<1>1. ASSUME NEW a \in Jobs, NextAttachment(a) PROVE TypeOK'
  BY <1>0, <1>1, MarkQueuedType DEF NextAttachment, TypeOK, TrackerType, ServiceTypeOK,
     serviceVars, jobVars, reactionVars, resultVars, messageVars
<1>2. CASE AddQueued
  <2>1. "queued" \in Emoji
    BY DEF Emoji
  <2> QED BY <1>0, <1>2, <2>1, ReactionType DEF AddQueued, TypeOK, ServiceTypeOK,
     serviceVars, trackerVars, jobVars, resultVars, messageVars
<1>3. CASE Submit
  <2>1. ServiceTypeOK'
    BY <1>3 DEF Submit, Accept, Refuse, Move, TypeOK, ServiceTypeOK, Status
  <2> QED BY <1>3, <2>1 DEF Submit, TypeOK, trackerVars, jobVars, reactionVars,
     resultVars, messageVars
<1>4. CASE Rollback
  BY <1>0, <1>4, MarkDoneType, ClearStateType DEF Rollback, TypeOK, TrackerType, ServiceTypeOK,
     serviceVars, jobVars, reactionVars, resultVars, messageVars
<1>5. CASE ClearRolledBack
  BY <1>0, <1>5, ReactionType, ClearedType DEF ClearRolledBack, TypeOK, ServiceTypeOK,
     serviceVars, trackerVars, jobVars, resultVars, messageVars
<1>6. CASE FinishMessage
  BY <1>0, <1>6 DEF FinishMessage, TypeOK, ServiceTypeOK,
     serviceVars, trackerVars, jobVars, reactionVars, resultVars, messageVars
<1> QED BY <1>1, <1>2, <1>3, <1>4, <1>5, <1>6 DEF HandlerStep

LEMMA JobType ==
  ASSUME TypeOK, NEW a \in Jobs, runAutoJob(a) PROVE TypeOK'
<1> USE DEF JobState
<1>0. MessageOf[a] \in Messages /\ Dead(a) \in BOOLEAN /\ "queued" \in Emoji
      /\ "processing" \in Emoji
  BY AutoAssumption DEF TypeOK, ServiceTypeOK, Dead, Emoji
<1>1. CASE BeginProcessing(a)
  BY <1>0, <1>1, MarkProcessingType DEF BeginProcessing, At, Goto, TypeOK, TrackerType,
     ServiceTypeOK, serviceVars, handlerVars, reactionVars, resultVars, messageVars
<1>2. CASE AddProcessing(a) \/ RemoveQueued(a)
  BY <1>0, <1>2, ReactionType DEF AddProcessing, RemoveQueued, At, Goto, TypeOK,
     ServiceTypeOK, serviceVars, trackerVars, handlerVars, resultVars, messageVars
<1>3. CASE LoadConfig(a) \/ Convert(a) \/ Finalize(a)
  BY <1>3 DEF LoadConfig, Convert, Finalize, At, Goto, TypeOK, ServiceTypeOK,
     serviceVars, trackerVars, handlerVars, reactionVars, resultVars, messageVars
<1>4. CASE Upload(a) \/ Report(a)
  BY <1>4 DEF Upload, Report, At, Goto, TypeOK, ServiceTypeOK,
     serviceVars, trackerVars, handlerVars, reactionVars, messageVars
<1>5. CASE FinishJob(a)
  <2>1. TrackerType'
    <3>1. MarkDone(MessageOf[a], a \in succeeded)
      BY <1>5 DEF FinishJob
    <3>2. (a \in succeeded) \in BOOLEAN
      OBVIOUS
    <3> QED BY <1>0, <3>1, <3>2, MarkDoneType, Zenon
  <2> QED BY <1>5, <2>1, ClearStateType DEF FinishJob, At, Goto, TypeOK, TrackerType,
     ServiceTypeOK, serviceVars, handlerVars, reactionVars, resultVars, messageVars
<1>6. CASE ClearFinished(a)
  BY <1>0, <1>6, ReactionType, ClearedType DEF ClearFinished, Goto, TypeOK,
     ServiceTypeOK, serviceVars, trackerVars, handlerVars, resultVars, messageVars
<1>7. CASE DeleteOriginal(a)
  BY <1>0, <1>7 DEF DeleteOriginal, At, Goto, TypeOK, ServiceTypeOK,
     serviceVars, trackerVars, handlerVars, resultVars
<1>8. CASE EndJob(a)
  BY <1>8 DEF EndJob, End, Move, At, Goto, TypeOK, ServiceTypeOK, Status,
     trackerVars, handlerVars, reactionVars, resultVars, messageVars
<1> QED BY <1>1, <1>2, <1>3, <1>4, <1>5, <1>6, <1>7, <1>8 DEF runAutoJob

LEMMA StepType == TypeOK /\ HandlerInv /\ [Next]_vars => TypeOK'
<1> SUFFICES ASSUME TypeOK, HandlerInv, [Next]_vars PROVE TypeOK'
  OBVIOUS
<1> USE DEF serviceVars, trackerVars, handlerVars, jobVars, reactionVars, resultVars,
            messageVars
<1>1. ASSUME NEW m \in Messages, Ignore(m) \/ HandleMessage(m) PROVE TypeOK'
  BY <1>1 DEF Ignore, HandleMessage, AttachmentsOf, HandlerState, TypeOK, ServiceTypeOK
<1>2. CASE HandlerStep
  BY <1>2, HandlerType
<1>3. ASSUME NEW m \in Messages, ReplyQueueFull(m) \/ UserDeletes(m) PROVE TypeOK'
  BY <1>3 DEF ReplyQueueFull, UserDeletes, AttachmentsOf, TypeOK, ServiceTypeOK
<1>4. ASSUME NEW a \in Jobs, StartJob(a) \/ JobTimeout(a) PROVE TypeOK'
  BY <1>4 DEF StartJob, JobTimeout, Start, Move, Goto, TypeOK, ServiceTypeOK, Status, JobState
<1>5. ASSUME NEW a \in Jobs, runAutoJob(a) PROVE TypeOK'
  BY <1>5, JobType
<1>6. CASE CloseGateway \/ ShutdownPool
  BY <1>6 DEF CloseGateway, ShutdownPool, Close, Cancel, Return, TypeOK, ServiceTypeOK
<1>7. CASE ExitProcess
  BY <1>7 DEF ExitProcess, HandlerState, TypeOK, ServiceTypeOK
<1>8. CASE UNCHANGED vars
  BY <1>8 DEF vars, TypeOK, ServiceTypeOK
<1> QED
  BY <1>1, <1>2, <1>3, <1>4, <1>5, <1>6, <1>7, <1>8 DEF Next, handleMessage, Terminated

-----------------------------------------------------------------------------
(* The handler and the pool. *)

LEMMA StepHandler == TypeOK /\ HandlerInv /\ [Next]_vars => HandlerInv'
<1> SUFFICES ASSUME TypeOK, HandlerInv, [Next]_vars PROVE HandlerInv'
  OBVIOUS
<1> USE AutoAssumption DEF HandlerInv, AttachmentsOf
<1> USE DEF serviceVars, trackerVars, handlerVars, jobVars, reactionVars, resultVars,
            messageVars
<1>1. ASSUME NEW m \in Messages, Ignore(m) PROVE HandlerInv'
  BY <1>1 DEF Ignore
<1>2. ASSUME NEW m \in Messages, HandleMessage(m) PROVE HandlerInv'
  BY <1>2 DEF HandleMessage
<1>3. ASSUME NEW a \in Jobs, NextAttachment(a) PROVE HandlerInv'
  BY <1>3 DEF NextAttachment
<1>4. CASE AddQueued
  BY <1>4 DEF AddQueued
<1>5. CASE Submit
  BY <1>5 DEF Submit, Accept, Refuse, Move, TypeOK, ServiceTypeOK
<1>6. CASE Rollback
  BY <1>6, ClearStateType DEF Rollback
<1>7. CASE ClearRolledBack
  BY <1>7 DEF ClearRolledBack
<1>8. CASE FinishMessage
  BY <1>8 DEF FinishMessage
<1>9. ASSUME NEW m \in Messages, ReplyQueueFull(m) \/ UserDeletes(m) PROVE HandlerInv'
  BY <1>9 DEF ReplyQueueFull, UserDeletes
<1>10. ASSUME NEW a \in Jobs, StartJob(a) \/ EndJob(a) PROVE HandlerInv'
  <2>1. /\ UNCHANGED <<handlerVars, received>>
        /\ status[a] \in {"queued", "running"}
        /\ \A b \in Jobs : b # a => status'[b] = status[b]
    BY <1>10 DEF StartJob, EndJob, Start, End, Move, At, TypeOK, ServiceTypeOK
  <2> QED BY <2>1 DEF TypeOK
<1>11. ASSUME NEW a \in Jobs, JobTimeout(a) \/ (runAutoJob(a) /\ ~EndJob(a)) PROVE HandlerInv'
  <2>1. UNCHANGED <<handlerVars, received, status>>
    BY <1>11 DEF JobTimeout, runAutoJob, BeginProcessing, AddProcessing, RemoveQueued,
       LoadConfig, Convert, Upload, Finalize, Report, FinishJob, ClearFinished,
       DeleteOriginal
  <2> QED BY <2>1
<1>12. CASE CloseGateway \/ ShutdownPool
  BY <1>12 DEF CloseGateway, ShutdownPool, Close, Cancel, Return
<1>13. CASE ExitProcess
  BY <1>13 DEF ExitProcess
<1>14. CASE UNCHANGED vars
  BY <1>14 DEF vars
<1> QED
  BY <1>1, <1>2, <1>3, <1>4, <1>5, <1>6, <1>7, <1>8, <1>9, <1>10, <1>11, <1>12, <1>13,
     <1>14
     DEF Next, handleMessage, HandlerStep, Terminated

LEMMA StepPool == TypeOK /\ PoolInv /\ [Next]_vars => PoolInv'
<1> SUFFICES ASSUME TypeOK, PoolInv, [Next]_vars PROVE PoolInv'
  OBVIOUS
<1> USE DEF PoolInv, Queued, Running
<1> USE DEF serviceVars, trackerVars, handlerVars, jobVars, reactionVars, resultVars,
            messageVars
<1>1. ASSUME NEW m \in Messages,
             Ignore(m) \/ HandleMessage(m) \/ ReplyQueueFull(m) \/ UserDeletes(m)
      PROVE  PoolInv'
  BY <1>1 DEF Ignore, HandleMessage, ReplyQueueFull, UserDeletes
<1>2. CASE HandlerStep /\ ~Submit
  BY <1>2 DEF HandlerStep, NextAttachment, AddQueued, Rollback, ClearRolledBack,
     FinishMessage
<1>3. CASE Submit
  BY <1>3 DEF Submit, Accept, Refuse, Move, TypeOK, ServiceTypeOK
<1>4. ASSUME NEW a \in Jobs, StartJob(a) \/ EndJob(a) PROVE PoolInv'
  <2>1. UNCHANGED <<phase, proc, hpc>> /\ phase # "returned"
    BY <1>4 DEF StartJob, EndJob, Start, End, At
  <2> QED BY <2>1
<1>5. ASSUME NEW a \in Jobs, JobTimeout(a) \/ (runAutoJob(a) /\ ~EndJob(a)) PROVE PoolInv'
  <2>1. UNCHANGED <<phase, proc, hpc, status>>
    BY <1>5 DEF JobTimeout, runAutoJob, BeginProcessing, AddProcessing, RemoveQueued,
       LoadConfig, Convert, Upload, Finalize, Report, FinishJob, ClearFinished,
       DeleteOriginal
  <2> QED BY <2>1
<1>6. CASE CloseGateway \/ ShutdownPool \/ ExitProcess
  BY <1>6 DEF CloseGateway, ShutdownPool, ExitProcess, Close, Cancel, Return
<1>7. CASE UNCHANGED vars
  BY <1>7 DEF vars
<1> QED
  BY <1>1, <1>2, <1>3, <1>4, <1>5, <1>6, <1>7 DEF Next, handleMessage, Terminated

-----------------------------------------------------------------------------
(* The counters and the batches. *)

\* A step that neither counts nor discounts: nothing changes for the tracker
\* but the processing flag, and results only grow.
LEMMA Quiet ==
  ASSUME TrackerCounts, BatchInv,
         \A a \in Jobs : Counts(a)' <=> Counts(a),
         DOMAIN tracker' = DOMAIN tracker,
         \A m \in DOMAIN tracker : /\ tracker'[m].remaining = tracker[m].remaining
                                   /\ tracker'[m].failed = tracker[m].failed,
         batch' = batch,
         succeeded \subseteq succeeded', posted \subseteq posted',
         succeeded' \ succeeded \subseteq posted'
  PROVE  TrackerCounts' /\ BatchInv'
<1>1. TrackerCounts' /\ \A m : Outstanding(m)' = Outstanding(m)
  BY SameCount
<1> QED BY <1>1 DEF BatchInv

LEMMA CountOne ==
  ASSUME TypeOK, HandlerInv, TrackerCounts, BatchInv, NEW a \in Jobs, NextAttachment(a)
  PROVE  TrackerCounts' /\ BatchInv'
<1> DEFINE m == MessageOf[a]
<1>1. m = handling /\ m \in Messages /\ status[a] = "new" /\ status' = status /\ pc' = pc
  BY AutoAssumption DEF NextAttachment, HandlerInv, serviceVars, jobVars
<1>2. ~Counts(a) /\ Counts(a)' /\ \A b \in Jobs \ {a} : Counts(b)' <=> Counts(b)
  BY <1>1 DEF NextAttachment, Counts
<1>3. tracker' = Put(m, Counted(m))
  BY <1>1 DEF NextAttachment, MarkQueued
<1>4. /\ TrackerCounts'
      /\ Outstanding(m)' = Outstanding(m) \cup {a}
      /\ \A n : n # m => Outstanding(n)' = Outstanding(n)
  BY <1>2, <1>3, OneMore
<1>5. UNCHANGED <<succeeded, posted>>
  BY DEF NextAttachment, jobVars, resultVars
<1>6. ASSUME NEW n \in DOMAIN tracker'
      PROVE  tracker'[n].failed \/ batch'[n] \subseteq Outstanding(n)' \cup succeeded
  <2>1. CASE n # m
    <3>1. n \in DOMAIN tracker /\ tracker'[n] = tracker[n]
      BY <1>3, <1>6, <2>1 DEF Put
    <3>2. batch'[n] = batch[n]
      BY <1>1, <2>1, <3>1 DEF NextAttachment, MarkQueued, TypeOK
    <3> QED BY <1>4, <2>1, <3>1, <3>2 DEF BatchInv
  <2>2. CASE n = m /\ m \in DOMAIN tracker
    <3>1. tracker'[m].failed = tracker[m].failed
      BY <1>3, <2>2 DEF Put, Counted, TypeOK, Entry
    <3>2. batch'[m] = batch[m] \cup {a}
      BY <1>1, <2>2 DEF NextAttachment, MarkQueued, TypeOK
    <3> QED BY <1>4, <2>2, <3>1, <3>2 DEF BatchInv
  <2>3. CASE n = m /\ m \notin DOMAIN tracker
    <3>1. batch'[m] = {a}
      BY <1>1, <2>3 DEF NextAttachment, MarkQueued, TypeOK
    <3> QED BY <1>4, <2>3, <3>1
  <2> QED BY <2>1, <2>2, <2>3
<1> QED BY <1>4, <1>5, <1>6 DEF BatchInv

\* A markDone that reports the outcome it discounts keeps the batch's memory.
LEMMA DiscountOne ==
  ASSUME TypeOK, TrackerCounts, BatchInv, NEW a \in Jobs, NEW ok \in BOOLEAN,
         Counts(a), ~Counts(a)',
         \A b \in Jobs \ {a} : Counts(b)' <=> Counts(b),
         MarkDone(MessageOf[a], ok), ok => a \in succeeded,
         UNCHANGED <<batch, succeeded, posted>>
  PROVE  TrackerCounts' /\ BatchInv'
<1> DEFINE m == MessageOf[a]
<1>1. /\ TrackerCounts' /\ m \in DOMAIN tracker
      /\ Outstanding(m)' = Outstanding(m) \ {a}
      /\ \A n : n # m => Outstanding(n)' = Outstanding(n)
  BY OneLess
<1>2. ASSUME NEW n \in DOMAIN tracker'
      PROVE  tracker'[n].failed \/ batch[n] \subseteq Outstanding(n)' \cup succeeded
  <2>1. CASE n # m
    <3>1. n \in DOMAIN tracker /\ tracker'[n] = tracker[n]
      BY <1>1, <1>2, <2>1 DEF MarkDone, Put, Restrict
    <3> QED BY <1>1, <2>1, <3>1 DEF BatchInv
  <2>2. CASE n = m
    <3>1. tracker'[m] = Done(m, ok)
      BY <1>1, <1>2, <2>2 DEF MarkDone, Put, Restrict
    <3>2. Done(m, ok).failed <=> tracker[m].failed \/ ~ok
      BY <1>1 DEF Done, TypeOK, Entry
    <3> QED BY <1>1, <2>2, <3>1, <3>2 DEF BatchInv
  <2> QED BY <2>1, <2>2
<1> QED BY <1>1, <1>2 DEF BatchInv

LEMMA StepCount ==
  TypeOK /\ HandlerInv /\ PoolInv /\ TrackerCounts /\ BatchInv /\ [Next]_vars
    => TrackerCounts' /\ BatchInv'
<1> SUFFICES ASSUME TypeOK, HandlerInv, PoolInv, TrackerCounts, BatchInv, [Next]_vars
             PROVE  TrackerCounts' /\ BatchInv'
  OBVIOUS
<1> USE DEF serviceVars, trackerVars, handlerVars, jobVars, reactionVars, resultVars,
            messageVars
<1>1. ASSUME NEW m \in Messages,
             Ignore(m) \/ HandleMessage(m) \/ ReplyQueueFull(m) \/ UserDeletes(m)
      PROVE  TrackerCounts' /\ BatchInv'
  BY <1>1, Quiet DEF Ignore, HandleMessage, ReplyQueueFull, UserDeletes, Counts
<1>2. ASSUME NEW a \in Jobs, NextAttachment(a) PROVE TrackerCounts' /\ BatchInv'
  BY <1>2, CountOne
<1>3. CASE AddQueued \/ ClearRolledBack \/ FinishMessage
  BY <1>3, Quiet DEF AddQueued, ClearRolledBack, FinishMessage, Counts
<1>4. CASE Submit
  \* From the loop's hands into the queue, or on to the roll-back.
  <2>1. hjob \in Jobs
    BY <1>4 DEF Submit, HandlerInv, AttachmentsOf
  <2>2. \A a \in Jobs : Counts(a)' <=> Counts(a)
    BY <1>4, <2>1 DEF Submit, Accept, Refuse, Move, Counts, TypeOK, ServiceTypeOK
  <2> QED BY <1>4, <2>2, Quiet DEF Submit
<1>5. CASE Rollback
  <2>0. PICK a \in Jobs : a = hjob
    BY <1>5 DEF Rollback, HandlerInv, AttachmentsOf
  <2>1. MessageOf[a] = handling /\ status[a] = "refused"
    BY <1>5, <2>0 DEF Rollback, HandlerInv, AttachmentsOf
  <2>2. Counts(a) /\ ~Counts(a)' /\ \A b \in Jobs \ {a} : Counts(b)' <=> Counts(b)
    BY <1>5, <2>0, <2>1, ClearStateType DEF Rollback, Counts
  <2>3. MarkDone(MessageOf[a], FALSE) /\ UNCHANGED <<batch, succeeded, posted>>
    BY <1>5, <2>1 DEF Rollback
  <2> QED BY <2>1, <2>2, <2>3, DiscountOne
<1>6. ASSUME NEW a \in Jobs, StartJob(a) \/ EndJob(a) PROVE TrackerCounts' /\ BatchInv'
  <2>1. \A b \in Jobs : Counts(b)' <=> Counts(b)
    BY <1>6 DEF StartJob, EndJob, Start, End, Move, At, Goto, Counts, Uncounted, TypeOK,
       ServiceTypeOK
  <2> QED BY <1>6, <2>1, Quiet DEF StartJob, EndJob
<1>7. ASSUME NEW a \in Jobs, BeginProcessing(a) PROVE TrackerCounts' /\ BatchInv'
  <2>1. \A b \in Jobs : Counts(b)' <=> Counts(b)
    BY <1>7 DEF BeginProcessing, At, Goto, Counts, Uncounted, TypeOK
  <2>2. /\ DOMAIN tracker' = DOMAIN tracker
        /\ \A m \in DOMAIN tracker : /\ tracker'[m].remaining = tracker[m].remaining
                                     /\ tracker'[m].failed = tracker[m].failed
    BY <1>7 DEF BeginProcessing, MarkProcessing, Swaps, TypeOK, Entry
  <2> QED BY <1>7, <2>1, <2>2, Quiet DEF BeginProcessing
<1>8. ASSUME NEW a \in Jobs,
             AddProcessing(a) \/ RemoveQueued(a) \/ LoadConfig(a) \/ Convert(a) \/ Upload(a)
               \/ Finalize(a) \/ Report(a) \/ ClearFinished(a) \/ DeleteOriginal(a)
               \/ JobTimeout(a)
      PROVE  TrackerCounts' /\ BatchInv'
  <2>1. \A b \in Jobs : Counts(b)' <=> Counts(b)
    BY <1>8 DEF AddProcessing, RemoveQueued, LoadConfig, Convert, Upload, Finalize, Report,
       ClearFinished, DeleteOriginal, JobTimeout, At, Goto, Counts, Uncounted, TypeOK
  <2>2. /\ UNCHANGED <<tracker, batch>>
        /\ succeeded \subseteq succeeded' /\ posted \subseteq posted'
        /\ succeeded' \ succeeded \subseteq posted'
    BY <1>8 DEF AddProcessing, RemoveQueued, LoadConfig, Convert, Upload, Finalize, Report,
       ClearFinished, DeleteOriginal, JobTimeout
  <2> QED BY <2>1, <2>2, Quiet
<1>9. ASSUME NEW a \in Jobs, FinishJob(a) PROVE TrackerCounts' /\ BatchInv'
  <2>1. Counts(a) /\ ~Counts(a)' /\ \A b \in Jobs \ {a} : Counts(b)' <=> Counts(b)
    <3>1. hjob = a => hpc \notin {"addQueued", "submit", "rollback"}
      BY <1>9 DEF FinishJob, At, HandlerInv
    <3> QED BY <1>9, <3>1, ClearStateType
            DEF FinishJob, At, Goto, Counts, Uncounted, TypeOK
  <2>2. PICK ok \in BOOLEAN : ok = (a \in succeeded)
    <3>1. (a \in succeeded) \in BOOLEAN
      OBVIOUS
    <3> QED BY <3>1, Zenon
  <2>3. MarkDone(MessageOf[a], ok) /\ UNCHANGED <<batch, succeeded, posted>>
    BY <1>9, <2>2 DEF FinishJob
  <2> QED BY <2>1, <2>2, <2>3, DiscountOne
<1>10. CASE CloseGateway \/ ShutdownPool
  BY <1>10, Quiet DEF CloseGateway, ShutdownPool, Close, Cancel, Return, Counts
<1>11. CASE ExitProcess
  \* Nothing waits or runs, so the forgotten counters were zero.
  <2>1. \A a \in Jobs : ~Counts(a)'
    BY <1>11 DEF ExitProcess, PoolInv, Queued, Running, Counts
  <2>2. DOMAIN tracker' = {} /\ UNCHANGED <<succeeded, posted>>
    BY <1>11 DEF ExitProcess
  <2>3. \A m : Outstanding(m)' = {}
    BY <2>1, OutstandingCounts
  <2> QED BY <2>2, <2>3 DEF TrackerCounts, BatchInv
<1>12. CASE UNCHANGED vars
  BY <1>12, Quiet DEF vars, Counts
<1> QED
  BY <1>1, <1>2, <1>3, <1>4, <1>5, <1>6, <1>7, <1>8, <1>9, <1>10, <1>11, <1>12
     DEF Next, handleMessage, HandlerStep, runAutoJob, Terminated

LEMMA Invariance == Spec => []IInv
<1>1. IInv /\ [Next]_vars => IInv'
  BY StepType, StepHandler, StepPool, StepCount DEF IInv
<1> QED BY InitInv, <1>1, PTL DEF Spec

-----------------------------------------------------------------------------
(***************************************************************************)
(* The reactions. Each one the bot has on a message is somebody's to       *)
(* remove: the entry's, as long as there is one, or a goroutine's that is  *)
(* on its way to remove it.                                                *)
(***************************************************************************)

Unswapped(m) == m \in DOMAIN tracker /\ ~tracker[m].processing

Swapped(m) == m \in DOMAIN tracker /\ tracker[m].processing

\* The handler or a job of the message stands at a state.
Pending(m, state) ==
  \/ handling = m /\ hpc = state
  \/ \E a \in AttachmentsOf(m) : At(a, state)

RemovesQueued == {"clearQueued", "addProcessing", "removeQueued"}

QueuedOwned(m) == Unswapped(m) \/ \E state \in RemovesQueued : Pending(m, state)

ProcessingOwned(m) == Swapped(m) \/ Pending(m, "clearProcessing")

\* The states of a job after markProcessing and before markDone.
Begun(a) ==
  /\ status[a] = "running"
  /\ pc[a] \in {"addProcessing", "removeQueued", "load", "convert", "upload", "finalize",
                "report", "markDone"}

\* A job past markProcessing finds its message swapped; the handler adds the
\* queued reaction while no other job of the message is outstanding, so none
\* can swap it before.
SwapInv ==
  /\ \A a \in Jobs : Begun(a) => Swapped(MessageOf[a])
  /\ hpc = "addQueued" =>
       /\ Unswapped(handling)
       /\ \A b \in AttachmentsOf(handling) : Counts(b) => b = hjob

Owned(m) ==
  /\ "queued" \in reactions[m] => QueuedOwned(m)
  /\ "processing" \in reactions[m] => ProcessingOwned(m)

ReactionInv ==
  /\ \A m \in Messages \ exists : reactions[m] = {}
  /\ proc # "exited" => \A m \in Messages \ missed : Owned(m)

RInv == SwapInv /\ ReactionInv

LEMMA EntryOfCounted ==
  ASSUME TypeOK, TrackerCounts, NEW a \in Jobs, Counts(a)
  PROVE  MessageOf[a] \in DOMAIN tracker
<1>1. a \in Outstanding(MessageOf[a])
  BY OutstandingCounts
<1> QED BY <1>1, AutoAssumption DEF TrackerCounts

LEMMA BegunCounts == \A a : Begun(a) => Counts(a)
  BY DEF Begun, Counts, Uncounted

\* What the tracker's critical sections do to the processing flags.
LEMMA MarkQueuedKeeps ==
  ASSUME TypeOK, NEW a \in Jobs, NEW m \in Messages, MarkQueued(a, m)
  PROVE  /\ \A n : Swapped(n) => Swapped(n)'
         /\ \A n : Unswapped(n) => Unswapped(n)'
         /\ First(m) => m \notin DOMAIN tracker /\ Unswapped(m)'
<1>1. \A n \in DOMAIN tracker : n \in DOMAIN tracker'
                                /\ tracker'[n].processing = tracker[n].processing
  BY DEF MarkQueued, Put, Counted, TypeOK, Entry
<1>2. First(m) => m \notin DOMAIN tracker
  BY DEF First, Counted, TypeOK, Entry
<1>3. m \notin DOMAIN tracker => Unswapped(m)'
  BY DEF MarkQueued, Put, Counted, NewEntry, Unswapped
<1> QED BY <1>1, <1>2, <1>3 DEF Swapped, Unswapped

LEMMA MarkDoneKeeps ==
  ASSUME TypeOK, NEW m \in Messages, NEW ok \in BOOLEAN, MarkDone(m, ok)
  PROVE  /\ \A n : Swapped(n) => Swapped(n)' \/ (n = m /\ Last(m, ok))
         /\ \A n : Unswapped(n) => Unswapped(n)' \/ (n = m /\ Last(m, ok))
<1>1. CASE Last(m, ok)
  BY <1>1 DEF MarkDone, Restrict, Swapped, Unswapped
<1>2. CASE ~Last(m, ok)
  BY <1>2 DEF MarkDone, Put, Done, Swapped, Unswapped, TypeOK, Entry
<1> QED BY <1>1, <1>2

LEMMA MarkProcessingKeeps ==
  ASSUME TypeOK, NEW m \in Messages, MarkProcessing(m), m \in DOMAIN tracker
  PROVE  /\ \A n : Swapped(n) => Swapped(n)'
         /\ \A n : n # m => (Unswapped(n) <=> Unswapped(n)')
         /\ Swapped(m)'
  BY DEF MarkProcessing, Swaps, Swapped, Unswapped, TypeOK, Entry

\* The flag is set by markProcessing only and stays while the entry is there.
LEMMA SwapLasts ==
  ASSUME TypeOK, HandlerInv, [Next]_vars, NEW n \in Messages, n \in DOMAIN tracker'
  PROVE  /\ Swapped(n) => Swapped(n)'
         /\ Unswapped(n) => Unswapped(n)' \/ \E b \in AttachmentsOf(n) : BeginProcessing(b)
<1> DEFINE Kept == /\ Swapped(n) => Swapped(n)'
                   /\ Unswapped(n) => Unswapped(n)'
<1> USE DEF serviceVars, trackerVars, handlerVars, jobVars, reactionVars, resultVars,
            messageVars
<1>0. hpc # "idle" => handling \in Messages
  BY DEF TypeOK, HandlerInv
<1>1. ASSUME NEW a \in Jobs, NextAttachment(a) PROVE Kept
  BY <1>0, <1>1, MarkQueuedKeeps DEF NextAttachment
<1>2. CASE Rollback
  <2>1. MarkDone(handling, FALSE) /\ handling \in Messages
    BY <1>0, <1>2 DEF Rollback
  <2>2. Last(handling, FALSE) => handling \notin DOMAIN tracker'
    BY <2>1 DEF MarkDone, Restrict
  <2> QED BY <2>1, <2>2, MarkDoneKeeps
<1>3. ASSUME NEW a \in Jobs, BeginProcessing(a)
      PROVE  /\ Swapped(n) => Swapped(n)'
             /\ Unswapped(n) => Unswapped(n)' \/ n = MessageOf[a]
  BY <1>3, AutoAssumption
     DEF BeginProcessing, MarkProcessing, Swaps, Swapped, Unswapped, TypeOK, Entry
<1>4. ASSUME NEW a \in Jobs, FinishJob(a) PROVE Kept
  <2> DEFINE m == MessageOf[a]
             ok == a \in succeeded
  <2>1. MarkDone(m, ok) /\ m \in Messages /\ ok \in BOOLEAN
    BY <1>4, AutoAssumption DEF FinishJob
  <2>2. Last(m, ok) => m \notin DOMAIN tracker'
    BY <2>1 DEF MarkDone, Restrict
  <2> HIDE DEF ok
  <2> QED BY <2>1, <2>2, MarkDoneKeeps
<1>5. CASE ExitProcess
  BY <1>5 DEF ExitProcess
<1>6. CASE UNCHANGED tracker
  BY <1>6 DEF Swapped, Unswapped
<1> QED
  BY <1>1, <1>2, <1>3, <1>4, <1>5, <1>6
     DEF Next, handleMessage, Ignore, HandleMessage, HandlerStep, AddQueued, Submit,
     ClearRolledBack, FinishMessage, ReplyQueueFull, UserDeletes, StartJob, runAutoJob,
     AddProcessing, RemoveQueued, LoadConfig, Convert, Upload, Finalize, Report,
     ClearFinished, DeleteOriginal, EndJob, JobTimeout, CloseGateway, ShutdownPool,
     Terminated, vars, AttachmentsOf

\* Only BeginProcessing takes a job past markProcessing.
LEMMA BegunStep ==
  ASSUME TypeOK, [Next]_vars, NEW a \in Jobs, Begun(a)'
  PROVE  Begun(a) \/ BeginProcessing(a)
<1> USE DEF serviceVars, trackerVars, handlerVars, jobVars, reactionVars, resultVars,
            messageVars, Begun
<1>1. CASE UNCHANGED <<status, pc>>
  BY <1>1
<1>2. CASE Submit
  BY <1>2 DEF Submit, Accept, Refuse, Move, TypeOK, ServiceTypeOK
<1>3. ASSUME NEW b \in Jobs, StartJob(b) \/ EndJob(b) PROVE Begun(a)
  BY <1>3 DEF StartJob, EndJob, Start, End, Move, At, Goto, TypeOK, ServiceTypeOK
<1>4. ASSUME NEW b \in Jobs, runAutoJob(b), ~EndJob(b) PROVE Begun(a) \/ BeginProcessing(a)
  <2>1. status' = status /\ \A c \in Jobs \ {b} : pc'[c] = pc[c]
    BY <1>4 DEF runAutoJob, BeginProcessing, AddProcessing, RemoveQueued, LoadConfig, Convert,
       Upload, Finalize, Report, FinishJob, ClearFinished, DeleteOriginal, Goto, TypeOK
  <2>2. CASE a # b
    BY <2>1, <2>2
  <2>3. CASE a = b
    BY <1>4, <2>3, ClearStateType
       DEF runAutoJob, BeginProcessing, AddProcessing, RemoveQueued, LoadConfig, Convert,
       Upload, Finalize, Report, FinishJob, ClearFinished, DeleteOriginal, At, Goto, TypeOK
  <2> QED BY <2>2, <2>3
<1> QED
  BY <1>1, <1>2, <1>3, <1>4
     DEF Next, handleMessage, Ignore, HandleMessage, HandlerStep, NextAttachment, AddQueued,
     Rollback, ClearRolledBack, FinishMessage, ReplyQueueFull, UserDeletes, JobTimeout,
     CloseGateway, ShutdownPool, Close, Cancel, Return, ExitProcess, Terminated, vars

\* Only markQueued counts an attachment.
LEMMA CountsStep ==
  ASSUME TypeOK, HandlerInv, [Next]_vars, NEW a \in Jobs, Counts(a)'
  PROVE  Counts(a) \/ NextAttachment(a)
<1> USE DEF serviceVars, trackerVars, handlerVars, jobVars, reactionVars, resultVars,
            messageVars, Counts, Uncounted
<1>1. CASE UNCHANGED <<status, pc, hpc, hjob>>
  BY <1>1
<1>2. ASSUME NEW b \in Jobs, NextAttachment(b) PROVE Counts(a) \/ NextAttachment(a)
  BY <1>2 DEF NextAttachment
<1>3. CASE AddQueued \/ Rollback \/ ClearRolledBack \/ FinishMessage
  BY <1>3, ClearStateType DEF AddQueued, Rollback, ClearRolledBack, FinishMessage
<1>4. CASE Submit
  BY <1>4 DEF Submit, Accept, Refuse, Move, TypeOK, ServiceTypeOK
<1>5. ASSUME NEW b \in Jobs, StartJob(b) \/ EndJob(b) PROVE Counts(a)
  BY <1>5 DEF StartJob, EndJob, Start, End, Move, At, Goto, TypeOK, ServiceTypeOK
<1>6. ASSUME NEW b \in Jobs, runAutoJob(b), ~EndJob(b) PROVE Counts(a)
  <2>1. UNCHANGED <<status, hpc, hjob>> /\ \A c \in Jobs \ {b} : pc'[c] = pc[c]
    BY <1>6 DEF runAutoJob, BeginProcessing, AddProcessing, RemoveQueued, LoadConfig, Convert,
       Upload, Finalize, Report, FinishJob, ClearFinished, DeleteOriginal, Goto, TypeOK
  <2>2. CASE a # b
    BY <2>1, <2>2
  <2>3. CASE a = b
    BY <1>6, <2>1, <2>3
       DEF runAutoJob, BeginProcessing, AddProcessing, RemoveQueued, LoadConfig, Convert,
       Upload, Finalize, Report, FinishJob, ClearFinished, DeleteOriginal, At, Goto, TypeOK
  <2> QED BY <2>2, <2>3
<1>7. ASSUME NEW m \in Messages, HandleMessage(m) PROVE Counts(a)
  BY <1>7 DEF HandleMessage
<1>8. CASE ExitProcess
  BY <1>8 DEF ExitProcess
<1> QED
  BY <1>1, <1>2, <1>3, <1>4, <1>5, <1>6, <1>7, <1>8
     DEF Next, handleMessage, Ignore, HandlerStep, ReplyQueueFull, UserDeletes, JobTimeout,
     CloseGateway, ShutdownPool, Close, Cancel, Return, Terminated, vars

LEMMA SwapFirst ==
  ASSUME IInv, IInv', SwapInv, [Next]_vars, NEW a \in Jobs, Begun(a)'
  PROVE  Swapped(MessageOf[a])'
<1> DEFINE m == MessageOf[a]
<1>0. m \in Messages
  BY AutoAssumption
<1>1. m \in DOMAIN tracker'
  <2>1. Counts(a)'
    BY BegunCounts DEF Begun, Counts, Uncounted
  <2>2. a \in Outstanding(m)'
    BY <2>1, OutstandingCounts
  <2> QED BY <1>0, <2>2 DEF IInv, TrackerCounts
<1>2. CASE Begun(a)
  BY <1>0, <1>1, <1>2, SwapLasts DEF IInv, SwapInv
<1>3. CASE BeginProcessing(a)
  <2>1. MarkProcessing(m) /\ Counts(a)
    BY <1>3 DEF BeginProcessing, At, Counts, Uncounted
  <2>2. m \in DOMAIN tracker
    BY <2>1, EntryOfCounted DEF IInv
  <2> QED BY <1>0, <2>1, <2>2, MarkProcessingKeeps DEF IInv
<1> QED BY <1>2, <1>3, BegunStep DEF IInv

\* While the handler adds the queued reaction nothing but markProcessing could
\* touch the entry, and there is no other job to call it.
LEMMA QueuedFirst ==
  ASSUME IInv, IInv', SwapInv, [Next]_vars, hpc' = "addQueued"
  PROVE  /\ Unswapped(handling)'
         /\ \A b \in AttachmentsOf(handling') : Counts(b)' => b = hjob'
<1> USE DEF serviceVars, trackerVars, handlerVars, jobVars, reactionVars, resultVars,
            messageVars
<1>0. TypeOK /\ HandlerInv /\ TrackerCounts
  BY DEF IInv
<1>1. ASSUME NEW a \in Jobs, NextAttachment(a)
      PROVE  /\ Unswapped(handling)'
             /\ \A b \in AttachmentsOf(handling') : Counts(b)' => b = hjob'
  <2>1. /\ handling \in Messages /\ handling' = handling /\ hjob' = a
        /\ MarkQueued(a, handling) /\ First(handling)
        /\ UNCHANGED <<status, pc>>
    BY <1>0, <1>1 DEF NextAttachment, HandlerInv, TypeOK
  <2>2. handling \notin DOMAIN tracker /\ Unswapped(handling)'
    BY <1>0, <2>1, MarkQueuedKeeps DEF Unswapped
  <2>3. \A b \in AttachmentsOf(handling) : ~Counts(b)
    BY <1>0, <2>2, EntryOfCounted DEF AttachmentsOf
  <2> QED BY <2>1, <2>2, <2>3 DEF Counts
<1>2. CASE hpc = "addQueued" /\ UNCHANGED <<handling, hjob>>
  <2>0. PICK m \in Messages : m = handling
    BY <1>0, <1>2 DEF HandlerInv, TypeOK
  <2>1. /\ Unswapped(m)
        /\ \A b \in AttachmentsOf(m) : Counts(b) => b = hjob
        /\ hjob \in AttachmentsOf(m) /\ status[hjob] = "new"
    BY <1>0, <1>2, <2>0 DEF SwapInv, HandlerInv
  <2>2. m \in DOMAIN tracker'
    <3>1. PICK a \in Jobs : a = hjob /\ MessageOf[a] = m
      BY <2>1 DEF AttachmentsOf
    <3>2. Counts(a)'
      BY <1>2, <3>1 DEF Counts
    <3>3. a \in Outstanding(m)'
      BY <3>1, <3>2, OutstandingCounts
    <3> QED BY <2>0, <3>3 DEF IInv, TrackerCounts
  <2>3. ASSUME NEW b \in AttachmentsOf(m), Counts(b)' PROVE Counts(b)
    <3>1. ~NextAttachment(b)
      BY <1>2 DEF NextAttachment
    <3> QED BY <1>0, <2>3, <3>1, CountsStep DEF AttachmentsOf
  <2>4. ASSUME NEW b \in AttachmentsOf(m), BeginProcessing(b) PROVE FALSE
    <3>1. status[b] = "running" /\ Counts(b)
      BY <2>4 DEF BeginProcessing, At, Counts, Uncounted
    <3> QED BY <2>1, <3>1
  <2>5. Unswapped(m)'
    BY <1>0, <2>1, <2>2, <2>4, SwapLasts
  <2> QED BY <1>2, <2>0, <2>1, <2>3, <2>5 DEF Unswapped
<1>3. ASSUME NEW m \in Messages, HandleMessage(m) PROVE FALSE
  BY <1>3 DEF HandleMessage
<1>4. CASE (HandlerStep /\ \A a \in Jobs : ~NextAttachment(a)) \/ ExitProcess
  BY <1>4, ClearStateType DEF HandlerStep, AddQueued, Submit, Rollback, ClearRolledBack,
     FinishMessage, ExitProcess
<1>5. CASE UNCHANGED <<hpc, handling, hjob>>
  BY <1>2, <1>5
<1> QED
  BY <1>1, <1>3, <1>4, <1>5
     DEF Next, handleMessage, Ignore, HandlerStep, ReplyQueueFull, UserDeletes, StartJob,
     runAutoJob, BeginProcessing, AddProcessing, RemoveQueued, LoadConfig, Convert, Upload,
     Finalize, Report, FinishJob, ClearFinished, DeleteOriginal, EndJob, JobTimeout,
     CloseGateway, ShutdownPool, Terminated, vars

LEMMA StepSwap == IInv /\ IInv' /\ SwapInv /\ [Next]_vars => SwapInv'
  BY SwapFirst, QueuedFirst DEF SwapInv

\* A step that adds no reaction and under which nobody drops what is owned.
LEMMA NothingDropped ==
  ASSUME ReactionInv, proc' # "exited" => proc # "exited",
         \A m \in Messages : reactions'[m] \subseteq reactions[m],
         missed \subseteq missed',
         \A m \in Messages \ exists' : m \in exists => reactions'[m] = {},
         \A m \in Messages \ missed' :
           /\ "queued" \in reactions'[m] => (QueuedOwned(m) => QueuedOwned(m)')
           /\ "processing" \in reactions'[m] => (ProcessingOwned(m) => ProcessingOwned(m)')
  PROVE  ReactionInv'
<1>1. \A m \in Messages \ exists' : reactions'[m] = {}
  BY DEF ReactionInv
<1>2. ASSUME proc' # "exited", NEW m \in Messages \ missed' PROVE Owned(m)'
  <2>1. Owned(m) /\ m \notin missed'
    BY <1>2 DEF ReactionInv
  <2> QED BY <1>2, <2>1 DEF Owned
<1> QED BY <1>1, <1>2 DEF ReactionInv

\* Where the goroutines of a message stand does not change, or not for long.
Stays(m) ==
  \A state \in RemovesQueued \cup {"clearProcessing"} : Pending(m, state) => Pending(m, state)'

LEMMA StayOwned ==
  ASSUME NEW m, Stays(m), Swapped(m) => Swapped(m)', Unswapped(m) => Unswapped(m)'
  PROVE  /\ QueuedOwned(m) => QueuedOwned(m)'
         /\ ProcessingOwned(m) => ProcessingOwned(m)'
  BY DEF Stays, QueuedOwned, ProcessingOwned

\* The steps that touch neither a reaction call nor the tracker's flags.
LEMMA CalmStep ==
  ASSUME TypeOK, HandlerInv, RInv,
         \/ \E m \in Messages : Ignore(m) \/ HandleMessage(m) \/ ReplyQueueFull(m)
                                  \/ UserDeletes(m)
         \/ \E a \in Jobs : NextAttachment(a)
         \/ Submit \/ FinishMessage
         \/ \E a \in Jobs : StartJob(a) \/ JobTimeout(a) \/ LoadConfig(a) \/ Convert(a)
                              \/ Upload(a) \/ Finalize(a) \/ Report(a) \/ DeleteOriginal(a)
                              \/ EndJob(a)
         \/ CloseGateway \/ ShutdownPool
         \/ UNCHANGED vars
  PROVE  ReactionInv'
<1> USE DEF serviceVars, trackerVars, handlerVars, jobVars, reactionVars, resultVars,
            messageVars
<1>1. \A m : Stays(m)
  <2> SUFFICES ASSUME NEW m, NEW state \in RemovesQueued \cup {"clearProcessing"},
                      Pending(m, state)
               PROVE  Pending(m, state)'
    BY DEF Stays
  <2>1. CASE handling = m /\ hpc = state
    <3>1. UNCHANGED <<handling, hpc>>
      BY <2>1 DEF RemovesQueued, HandleMessage, Ignore, ReplyQueueFull, UserDeletes,
         NextAttachment, Submit, FinishMessage, StartJob, JobTimeout, LoadConfig, Convert,
         Upload, Finalize, Report, DeleteOriginal, EndJob, CloseGateway, ShutdownPool, vars
    <3> QED BY <2>1, <3>1 DEF Pending
  <2>2. ASSUME NEW b \in AttachmentsOf(m), At(b, state) PROVE At(b, state)'
    <3>1. ASSUME NEW a \in Jobs,
                 StartJob(a) \/ LoadConfig(a) \/ Convert(a) \/ Upload(a) \/ Finalize(a)
                   \/ Report(a) \/ DeleteOriginal(a) \/ EndJob(a)
          PROVE  At(b, state)'
      <4>1. a # b
        BY <2>2, <3>1 DEF RemovesQueued, At, StartJob, Start, LoadConfig, Convert,
           Upload, Finalize, Report, DeleteOriginal, EndJob
      <4> QED BY <2>2, <3>1, <4>1 DEF At, StartJob, Start, Move, LoadConfig, Convert, Upload,
           Finalize, Report, DeleteOriginal, EndJob, End, Goto, TypeOK, ServiceTypeOK,
           AttachmentsOf
    <3>2. CASE Submit
      BY <2>2, <3>2 DEF At, Submit, Accept, Refuse, Move, TypeOK, ServiceTypeOK, AttachmentsOf
    <3>3. CASE UNCHANGED <<status, pc>>
      BY <2>2, <3>3 DEF At
    <3> QED BY <3>1, <3>2, <3>3 DEF HandleMessage, Ignore, ReplyQueueFull, UserDeletes,
         NextAttachment, FinishMessage, JobTimeout, CloseGateway, ShutdownPool, Close, Cancel,
         Return, vars
  <2> QED BY <2>1, <2>2 DEF Pending
<1>2. \A m \in Messages : /\ Swapped(m) => Swapped(m)'
                          /\ Unswapped(m) => Unswapped(m)'
  <2>1. ASSUME NEW a \in Jobs, NextAttachment(a)
        PROVE  \A m \in Messages : /\ Swapped(m) => Swapped(m)'
                                   /\ Unswapped(m) => Unswapped(m)'
    <3>1. MarkQueued(a, handling) /\ handling \in Messages
      BY <2>1 DEF NextAttachment, HandlerInv, TypeOK
    <3> QED BY <3>1, MarkQueuedKeeps
  <2>2. CASE UNCHANGED tracker
    BY <2>2 DEF Swapped, Unswapped
  <2> QED BY <2>1, <2>2 DEF HandleMessage, Ignore, ReplyQueueFull, UserDeletes,
         Submit, FinishMessage, StartJob, JobTimeout, LoadConfig, Convert,
         Upload, Finalize, Report, DeleteOriginal, EndJob, CloseGateway, ShutdownPool, vars
<1>3. /\ proc' # "exited" => proc # "exited"
      /\ missed \subseteq missed'
      /\ \A m \in Messages : reactions'[m] \subseteq reactions[m]
      /\ \A m \in Messages \ exists' : m \in exists => reactions'[m] = {}
  <2>1. ASSUME NEW m \in Messages, exists' = exists \ {m},
               reactions' = [reactions EXCEPT ![m] = {}], UNCHANGED <<proc, missed>>
        PROVE  <1>3!:
    BY <2>1 DEF TypeOK
  <2>2. CASE UNCHANGED <<reactions, missed, exists>> /\ (proc' # "exited" => proc # "exited")
    BY <2>2
  <2>3. ASSUME NEW a \in Jobs, DeleteOriginal(a) PROVE <1>3!:
    <3>1. MessageOf[a] \in Messages
      BY AutoAssumption
    <3> QED BY <2>1, <2>2, <2>3, <3>1 DEF DeleteOriginal
  <2>4. ASSUME NEW m \in Messages, UserDeletes(m) PROVE <1>3!:
    BY <2>1, <2>4 DEF UserDeletes
  <2> QED BY <2>2, <2>3, <2>4 DEF HandleMessage, Ignore, ReplyQueueFull, NextAttachment,
         Submit, FinishMessage, StartJob, JobTimeout, LoadConfig, Convert,
         Upload, Finalize, Report, EndJob, CloseGateway, ShutdownPool, vars
<1> QED BY <1>1, <1>2, <1>3, StayOwned, NothingDropped DEF RInv

\* A reaction is added while somebody is there to remove it.
LEMMA Adds ==
  ASSUME TypeOK, ReactionInv, NEW m \in Messages, NEW e \in Emoji, NEW dead \in BOOLEAN,
         AddReaction(m, e, dead), UNCHANGED <<proc, exists>>,
         \A n \in Messages : /\ QueuedOwned(n) => QueuedOwned(n)'
                             /\ ProcessingOwned(n) => ProcessingOwned(n)',
         e = "queued" => QueuedOwned(m)',
         e = "processing" => ProcessingOwned(m)'
  PROVE  ReactionInv'
<1>1. /\ missed \subseteq missed'
      /\ \A n \in Messages : reactions'[n] \subseteq
           IF n = m /\ m \in exists THEN reactions[n] \cup {e} ELSE reactions[n]
  BY DEF AddReaction, SetReactions, TypeOK
<1>2. \A n \in Messages \ exists' : reactions'[n] = {}
  BY <1>1 DEF ReactionInv
<1>3. ASSUME proc' # "exited", NEW n \in Messages \ missed' PROVE Owned(n)'
  <2>1. Owned(n)
    BY <1>1, <1>3 DEF ReactionInv
  <2>2. \/ reactions'[n] \subseteq reactions[n]
        \/ n = m /\ reactions'[n] \subseteq reactions[n] \cup {e}
    BY <1>1, <1>3
  <2>3. "queued" \in reactions'[n] => QueuedOwned(n)'
    BY <2>1, <2>2 DEF Owned
  <2>4. "processing" \in reactions'[n] => ProcessingOwned(n)'
    BY <2>1, <2>2 DEF Owned
  <2> QED BY <2>3, <2>4 DEF Owned
<1> QED BY <1>2, <1>3 DEF ReactionInv

\* A reaction is removed, or the call is remembered as missed.
LEMMA Removes ==
  ASSUME TypeOK, ReactionInv, NEW m \in Messages, NEW e \in Emoji, NEW dead \in BOOLEAN,
         RemoveReaction(m, e, dead), UNCHANGED <<proc, exists>>,
         \A n \in Messages :
           /\ QueuedOwned(n) => QueuedOwned(n)' \/ (n = m /\ e = "queued")
           /\ ProcessingOwned(n) => ProcessingOwned(n)' \/ (n = m /\ e = "processing")
  PROVE  ReactionInv'
<1>1. /\ missed \subseteq missed'
      /\ \A n \in Messages : reactions'[n] \subseteq reactions[n]
      /\ m \notin missed' => e \notin reactions'[m]
  BY DEF RemoveReaction, SetReactions, TypeOK, ReactionInv
<1> QED BY <1>1, NothingDropped, Zenon

\* The last markDone of a message hands the reaction on to whoever called it.
LEMMA HandsOn ==
  ASSUME TypeOK, NEW m \in Messages, NEW ok \in BOOLEAN, MarkDone(m, ok),
         \A n : Stays(n),
         NEW state, state = ClearState(m), Last(m, ok) => Pending(m, state)'
  PROVE  \A n \in Messages : /\ QueuedOwned(n) => QueuedOwned(n)'
                             /\ ProcessingOwned(n) => ProcessingOwned(n)'
<1> TAKE n \in Messages
<1>1. CASE n # m \/ ~Last(m, ok)
  BY <1>1, MarkDoneKeeps, StayOwned
<1>2. CASE n = m /\ Last(m, ok)
  <2>1. Unswapped(m) => Pending(m, "clearQueued")'
    BY <1>2 DEF Unswapped, ClearState
  <2>2. Swapped(m) => Pending(m, "clearProcessing")'
    BY <1>2 DEF Swapped, ClearState
  <2>3. QueuedOwned(m) => QueuedOwned(m)'
    BY <2>1 DEF QueuedOwned, RemovesQueued, Stays
  <2>4. ProcessingOwned(m) => ProcessingOwned(m)'
    BY <2>2 DEF ProcessingOwned, Stays
  <2> QED BY <1>2, <2>3, <2>4
<1> QED BY <1>1, <1>2

\* A step of one job moves no other goroutine.
LEMMA JobStays ==
  ASSUME TypeOK, NEW a \in Jobs, status' = status, NEW to, Goto(a, to),
         UNCHANGED <<hpc, handling>>
  PROVE  /\ \A n, state : Pending(n, state) =>
              Pending(n, state)' \/ (n = MessageOf[a] /\ At(a, state))
         /\ status[a] = "running" => Pending(MessageOf[a], to)'
<1>1. \A state : \A b \in Jobs : At(b, state) => At(b, state)' \/ (b = a /\ At(a, state))
  BY DEF At, Goto, TypeOK
<1>2. status[a] = "running" => At(a, to)'
  BY DEF At, Goto, TypeOK
<1> QED BY <1>1, <1>2 DEF Pending, AttachmentsOf, At

LEMMA HandlerReaction ==
  ASSUME TypeOK, HandlerInv, RInv, AddQueued \/ Rollback \/ ClearRolledBack
  PROVE  ReactionInv'
<1> USE DEF serviceVars, trackerVars, jobVars, reactionVars, resultVars, messageVars
<1>0. PICK m \in Messages : m = handling
  BY DEF TypeOK, HandlerInv, AddQueued, Rollback, ClearRolledBack
<1>1. UNCHANGED <<status, pc, handling, proc, exists>>
  BY DEF AddQueued, Rollback, ClearRolledBack
<1>2. \A n, state : Pending(n, state) => Pending(n, state)' \/ (n = m /\ hpc = state)
  BY <1>0, <1>1 DEF Pending, At
<1>3. CASE AddQueued
  <2>1. \A n : Stays(n)
    BY <1>2, <1>3 DEF AddQueued, Stays, RemovesQueued
  <2>2. \A n : /\ Swapped(n) => Swapped(n)'
               /\ Unswapped(n) => Unswapped(n)'
    BY <1>3 DEF AddQueued, Swapped, Unswapped
  <2>3. QueuedOwned(m)'
    BY <1>0, <1>3, <2>2 DEF AddQueued, RInv, SwapInv, QueuedOwned
  <2>4. AddReaction(m, "queued", FALSE) /\ "queued" \in Emoji
    BY <1>0, <1>3 DEF AddQueued, Emoji
  <2> QED BY <1>1, <2>1, <2>2, <2>3, <2>4, StayOwned, Adds DEF RInv
<1>4. CASE Rollback
  <2>1. \A n : Stays(n)
    BY <1>2, <1>4 DEF Rollback, Stays, RemovesQueued
  <2>2. MarkDone(m, FALSE)
    BY <1>0, <1>4 DEF Rollback
  <2>3. PICK state \in {"clearQueued", "clearProcessing"} : state = ClearState(m)
    BY ClearStateType
  <2>4. Last(m, FALSE) => Pending(m, state)'
    BY <1>0, <1>1, <1>4, <2>3 DEF Rollback, Pending
  <2>5. \A n \in Messages : /\ QueuedOwned(n) => QueuedOwned(n)'
                            /\ ProcessingOwned(n) => ProcessingOwned(n)'
    BY <2>1, <2>2, <2>3, <2>4, HandsOn
  <2>6. UNCHANGED <<reactions, missed>>
    BY <1>4 DEF Rollback
  <2> QED BY <1>1, <2>5, <2>6, NothingDropped DEF RInv
<1>5. CASE ClearRolledBack
  <2>1. RemoveReaction(m, Cleared(hpc), FALSE) /\ Cleared(hpc) \in Emoji
    BY <1>0, <1>5, ClearedType DEF ClearRolledBack
  <2>2. PICK e \in Emoji : e = Cleared(hpc)
    BY <2>1
  <2>3. ASSUME NEW n \in Messages
        PROVE  /\ QueuedOwned(n) => QueuedOwned(n)' \/ (n = m /\ e = "queued")
               /\ ProcessingOwned(n) => ProcessingOwned(n)' \/ (n = m /\ e = "processing")
    <3>1. UNCHANGED tracker
      BY <1>5 DEF ClearRolledBack
    <3>2. \A state \in RemovesQueued :
            Pending(n, state) => Pending(n, state)' \/ (n = m /\ e = "queued")
      BY <1>2, <1>5, <2>2 DEF ClearRolledBack, Cleared, RemovesQueued
    <3>3. Pending(n, "clearProcessing") =>
            Pending(n, "clearProcessing")' \/ (n = m /\ e = "processing")
      BY <1>2, <1>5, <2>2 DEF ClearRolledBack, Cleared
    <3> QED BY <3>1, <3>2, <3>3 DEF QueuedOwned, ProcessingOwned, Swapped, Unswapped
  <2> QED BY <1>1, <2>1, <2>2, <2>3, Removes DEF RInv
<1> QED BY <1>3, <1>4, <1>5

LEMMA JobReaction ==
  ASSUME IInv, RInv, NEW a \in Jobs,
         BeginProcessing(a) \/ AddProcessing(a) \/ RemoveQueued(a) \/ FinishJob(a)
           \/ ClearFinished(a)
  PROVE  ReactionInv'
<1> USE DEF serviceVars, trackerVars, handlerVars, reactionVars, resultVars, messageVars
<1> DEFINE m == MessageOf[a]
<1>0. TypeOK /\ TrackerCounts /\ SwapInv /\ ReactionInv /\ m \in Messages /\ Dead(a) \in BOOLEAN
  BY AutoAssumption DEF IInv, RInv, TypeOK, ServiceTypeOK, Dead
<1>1. UNCHANGED <<status, hpc, handling, proc, exists>> /\ status[a] = "running"
  BY DEF BeginProcessing, AddProcessing, RemoveQueued, FinishJob, ClearFinished, At
<1>2. CASE BeginProcessing(a)
  <2>1. /\ At(a, "begin") /\ MarkProcessing(m) /\ UNCHANGED <<reactions, missed>>
        /\ Goto(a, IF Swaps(m) THEN "addProcessing" ELSE "load")
    BY <1>2 DEF BeginProcessing
  <2>2. m \in DOMAIN tracker
    BY <1>0, <2>1, EntryOfCounted DEF At, Counts, Uncounted
  <2>3. \A n : Stays(n)
    BY <1>0, <1>1, <2>1, JobStays DEF Stays, At, RemovesQueued
  <2>4. \A n : /\ Swapped(n) => Swapped(n)'
               /\ n # m /\ Unswapped(n) => Unswapped(n)'
    BY <1>0, <2>1, <2>2, MarkProcessingKeeps
  <2>5. Unswapped(m) => Pending(m, "addProcessing")'
    <3>1. Unswapped(m) => Goto(a, "addProcessing")
      BY <2>1 DEF Unswapped, Swaps
    <3> QED BY <1>0, <1>1, <3>1, JobStays
  <2>6. ASSUME NEW n \in Messages
        PROVE  /\ QueuedOwned(n) => QueuedOwned(n)'
               /\ ProcessingOwned(n) => ProcessingOwned(n)'
    <3>1. CASE n # m
      BY <2>3, <2>4, <3>1, StayOwned
    <3>2. CASE n = m
      BY <2>3, <2>4, <2>5, <3>2 DEF QueuedOwned, ProcessingOwned, Stays, RemovesQueued
    <3> QED BY <3>1, <3>2
  <2> QED BY <1>0, <1>1, <2>1, <2>6, NothingDropped
<1>3. CASE AddProcessing(a)
  <2>1. /\ At(a, "addProcessing") /\ Goto(a, "removeQueued") /\ UNCHANGED tracker
        /\ AddReaction(m, "processing", Dead(a)) /\ "processing" \in Emoji
    BY <1>3 DEF AddProcessing, Emoji
  <2>2. Swapped(m)'
    BY <1>0, <2>1 DEF SwapInv, Begun, At, Swapped
  <2>3. Pending(m, "removeQueued")'
    BY <1>0, <1>1, <2>1, JobStays
  <2>4. \A n, state : Pending(n, state) =>
          Pending(n, state)' \/ (n = m /\ state = "addProcessing")
    <3>1. \A state : At(a, state) => state = "addProcessing"
      BY <2>1 DEF At
    <3> QED BY <1>0, <1>1, <2>1, <3>1, JobStays
  <2>5. ASSUME NEW n \in Messages
        PROVE  /\ QueuedOwned(n) => QueuedOwned(n)'
               /\ ProcessingOwned(n) => ProcessingOwned(n)'
    <3>1. QueuedOwned(n) => QueuedOwned(n)'
      BY <2>1, <2>3, <2>4 DEF QueuedOwned, Unswapped, RemovesQueued
    <3>2. ProcessingOwned(n) => ProcessingOwned(n)'
      BY <2>1, <2>4 DEF ProcessingOwned, Swapped
    <3> QED BY <3>1, <3>2
  <2> QED BY <1>0, <1>1, <2>1, <2>2, <2>5, Adds DEF ProcessingOwned
<1>4. CASE RemoveQueued(a)
  <2>1. /\ At(a, "removeQueued") /\ Goto(a, "load") /\ UNCHANGED tracker
        /\ RemoveReaction(m, "queued", Dead(a)) /\ "queued" \in Emoji
    BY <1>4 DEF RemoveQueued, Emoji
  <2>2. \A n, state : Pending(n, state) =>
          Pending(n, state)' \/ (n = m /\ state = "removeQueued")
    <3>1. \A state : At(a, state) => state = "removeQueued"
      BY <2>1 DEF At
    <3> QED BY <1>0, <1>1, <2>1, <3>1, JobStays
  <2>3. \A n \in Messages :
          /\ QueuedOwned(n) => QueuedOwned(n)' \/ n = m
          /\ ProcessingOwned(n) => ProcessingOwned(n)'
    BY <2>1, <2>2 DEF QueuedOwned, ProcessingOwned, Swapped, Unswapped
  <2> QED BY <1>0, <1>1, <2>1, <2>3, Removes
<1>5. CASE FinishJob(a)
  <2> DEFINE ok == a \in succeeded
  <2>1. /\ At(a, "markDone") /\ MarkDone(m, ok) /\ ok \in BOOLEAN
        /\ Goto(a, IF Last(m, ok) THEN ClearState(m) ELSE "over")
        /\ UNCHANGED <<reactions, missed>>
    BY <1>5 DEF FinishJob
  <2> HIDE DEF ok
  <2>2. PICK state : state = ClearState(m)
    OBVIOUS
  <2>3. Last(m, ok) => Pending(m, state)'
    <3>1. Last(m, ok) => Goto(a, state)
      BY <2>1, <2>2
    <3> QED BY <1>0, <1>1, <3>1, JobStays
  <2>4. \A n : Stays(n)
    BY <1>0, <1>1, <2>1, JobStays DEF Stays, At, RemovesQueued
  <2>5. \A n \in Messages : /\ QueuedOwned(n) => QueuedOwned(n)'
                            /\ ProcessingOwned(n) => ProcessingOwned(n)'
    BY <1>0, <2>1, <2>2, <2>3, <2>4, HandsOn
  <2> QED BY <1>0, <1>1, <2>1, <2>5, NothingDropped
<1>6. CASE ClearFinished(a)
  <2>1. PICK state \in {"clearQueued", "clearProcessing"} : state = pc[a]
    BY <1>6 DEF ClearFinished
  <2>2. PICK e \in Emoji : e = Cleared(state)
    BY ClearedType
  <2>3. /\ Goto(a, IF a \in doomed THEN "delete" ELSE "over") /\ UNCHANGED tracker
        /\ RemoveReaction(m, e, FALSE)
    BY <1>6, <2>1, <2>2 DEF ClearFinished
  <2>4. \A n, s : Pending(n, s) => Pending(n, s)' \/ (n = m /\ s = state)
    <3>1. \A s : At(a, s) => s = state
      BY <2>1 DEF At
    <3> QED BY <1>0, <1>1, <2>3, <3>1, JobStays
  <2>5. \A n \in Messages :
          /\ QueuedOwned(n) => QueuedOwned(n)' \/ (n = m /\ e = "queued")
          /\ ProcessingOwned(n) => ProcessingOwned(n)' \/ (n = m /\ e = "processing")
    BY <2>2, <2>3, <2>4
       DEF QueuedOwned, ProcessingOwned, Swapped, Unswapped, Cleared, RemovesQueued
  <2> QED BY <1>0, <1>1, <2>3, <2>5, Removes
<1> QED BY <1>2, <1>3, <1>4, <1>5, <1>6

LEMMA StepReaction == IInv /\ RInv /\ [Next]_vars => ReactionInv'
<1> SUFFICES ASSUME IInv, RInv, [Next]_vars PROVE ReactionInv'
  OBVIOUS
<1>1. CASE ExitProcess
  BY <1>1 DEF ExitProcess, RInv, ReactionInv, reactionVars, messageVars
<1>2. CASE AddQueued \/ Rollback \/ ClearRolledBack
  BY <1>2, HandlerReaction DEF IInv
<1>3. ASSUME NEW a \in Jobs,
             BeginProcessing(a) \/ AddProcessing(a) \/ RemoveQueued(a) \/ FinishJob(a)
               \/ ClearFinished(a)
      PROVE  ReactionInv'
  BY <1>3, JobReaction
<1> QED
  BY <1>1, <1>2, <1>3, CalmStep
     DEF IInv, Next, handleMessage, HandlerStep, runAutoJob, Terminated

LEMMA ReactionInvariance == Spec => [](IInv /\ RInv)
<1>1. Init => RInv
  BY AutoAssumption
     DEF Init, ServiceInit, RInv, SwapInv, ReactionInv, Owned, Begun
<1>2. IInv /\ IInv' /\ RInv /\ [Next]_vars => RInv'
  BY StepSwap, StepReaction DEF RInv
<1> QED BY Invariance, <1>1, <1>2, PTL DEF Spec

-----------------------------------------------------------------------------
(* The results. *)

\* Every variable keeps its type; no tracker entry outlives its counter.
THEOREM TypeCorrect == Spec => []TypeOK
<1>1. IInv => TypeOK
  BY DEF IInv
<1> QED BY Invariance, <1>1, PTL

\* The reaction tracker counts the outstanding attachments of every message,
\* whatever the handler and the workers interleave and whatever fails.
THEOREM CountsExactly == Spec => []TrackerCounts
<1>1. IInv => TrackerCounts
  BY DEF IInv
<1> QED BY Invariance, <1>1, PTL

\* A message nobody works on keeps no reaction of the bot, unless a reaction
\* call on it had no effect: the tracker hands every reaction on to a goroutine
\* that removes it, in whatever order the swaps and the clean-ups run.
THEOREM ReactionsGo == Spec => []ReactionsCleared
<1>1. IInv /\ RInv => ReactionsCleared
  <2> SUFFICES ASSUME IInv, RInv, NEW m \in Messages \ missed, proc # "exited", Settled(m)
               PROVE  reactions[m] = {}
    BY DEF ReactionsCleared
  <2>1. m \notin DOMAIN tracker
    BY DEF IInv, TrackerCounts, Settled
  <2>2. \A state : ~Pending(m, state)
    BY DEF Pending, Settled, At
  <2>3. "queued" \notin reactions[m] /\ "processing" \notin reactions[m]
    BY <2>1, <2>2
       DEF RInv, ReactionInv, Owned, QueuedOwned, ProcessingOwned, Swapped, Unswapped
  <2>4. reactions[m] \subseteq {"queued", "processing"}
    BY DEF IInv, TypeOK, Emoji
  <2> QED BY <2>3, <2>4
<1> QED BY ReactionInvariance, <1>1, PTL

\* Only the job that ends a batch whose attachments were all converted and
\* posted is told to delete the original.
THEOREM OnlyCleanBatchDeletes == Spec => DeletesOnlyCleanBatch
<1> DEFINE Clean(a) ==
      a \in doomed' \ doomed =>
        LET m == MessageOf[a]
        IN  /\ batch[m] \subseteq succeeded \cap posted
            /\ Outstanding(m)' = {}
<1>1. IInv /\ [Next]_vars => [\A a \in Jobs : Clean(a)]_vars
  <2> SUFFICES ASSUME IInv, Next, NEW a \in Jobs, a \in doomed', a \notin doomed
               PROVE  /\ batch[MessageOf[a]] \subseteq succeeded \cap posted
                      /\ Outstanding(MessageOf[a])' = {}
    OBVIOUS
  <2> DEFINE m == MessageOf[a]
  <2>0. TypeOK /\ HandlerInv /\ TrackerCounts /\ BatchInv
    BY DEF IInv
  <2>1. FinishJob(a) /\ Last(m, a \in succeeded) /\ AllOK(m, a \in succeeded)
    BY DEF Next, handleMessage, Ignore, HandleMessage, HandlerStep, NextAttachment, AddQueued,
       Submit, Rollback, ClearRolledBack, FinishMessage, ReplyQueueFull, UserDeletes,
       StartJob, runAutoJob, BeginProcessing, AddProcessing, RemoveQueued, LoadConfig,
       Convert, Upload, Finalize, Report, FinishJob, ClearFinished, DeleteOriginal, EndJob,
       JobTimeout, CloseGateway, ShutdownPool, ExitProcess, Terminated, vars, jobVars
  <2>2. Counts(a) /\ ~Counts(a)' /\ \A b \in Jobs \ {a} : Counts(b)' <=> Counts(b)
    <3>1. hjob = a => hpc \notin {"addQueued", "submit", "rollback"}
      BY <2>0, <2>1 DEF FinishJob, At, HandlerInv
    <3> QED BY <2>0, <2>1, <3>1, ClearStateType
            DEF FinishJob, At, Goto, Counts, Uncounted, TypeOK, serviceVars, handlerVars
  <2>3. PICK ok \in BOOLEAN : ok = (a \in succeeded)
    <3>1. (a \in succeeded) \in BOOLEAN
      OBVIOUS
    <3> QED BY <3>1, Zenon
  <2>4. /\ m \in DOMAIN tracker
        /\ Outstanding(m)' = Outstanding(m) \ {a}
        /\ Outstanding(m)' = {}
    <3>1. MarkDone(m, ok) /\ Last(m, ok)
      BY <2>1, <2>3 DEF FinishJob
    <3> QED BY <2>0, <2>2, <3>1, OneLess
  <2>5. ~tracker[m].failed /\ a \in succeeded
    BY <2>0, <2>1, <2>4 DEF AllOK, Done, TypeOK, Entry
  <2> QED BY <2>0, <2>4, <2>5 DEF BatchInv
<1> QED BY Invariance, <1>1, PTL DEF Spec, DeletesOnlyCleanBatch

LEMMA StepService == IInv /\ [Next]_vars => [ServiceNext]_serviceVars
<1> SUFFICES ASSUME IInv, [Next]_vars PROVE [ServiceNext]_serviceVars
  OBVIOUS
<1>1. ASSUME Submit PROVE ServiceNext
  <2>1. hjob \in Jobs
    BY <1>1 DEF IInv, HandlerInv, Submit, AttachmentsOf
  <2> QED BY <1>1, <2>1 DEF Submit, ServiceNext
<1>2. ASSUME NEW a \in Jobs, StartJob(a) \/ EndJob(a) PROVE ServiceNext
  BY <1>2 DEF StartJob, EndJob, ServiceNext
<1>3. ASSUME ShutdownPool PROVE ServiceNext
  BY <1>3 DEF ShutdownPool, ServiceNext
<1>4. ASSUME HandlerStep, ~Submit PROVE UNCHANGED serviceVars
  BY <1>4 DEF HandlerStep, NextAttachment, AddQueued, Rollback, ClearRolledBack, FinishMessage
<1>5. ASSUME NEW m \in Messages,
             Ignore(m) \/ HandleMessage(m) \/ ReplyQueueFull(m) \/ UserDeletes(m)
      PROVE  UNCHANGED serviceVars
  BY <1>5 DEF Ignore, HandleMessage, ReplyQueueFull, UserDeletes
<1>6. ASSUME NEW a \in Jobs, runAutoJob(a) \/ JobTimeout(a), ~EndJob(a)
      PROVE  UNCHANGED serviceVars
  BY <1>6 DEF runAutoJob, BeginProcessing, AddProcessing, RemoveQueued, LoadConfig, Convert,
              Upload, Finalize, Report, FinishJob, ClearFinished, DeleteOriginal, JobTimeout
<1>7. ASSUME CloseGateway \/ ExitProcess \/ UNCHANGED vars PROVE UNCHANGED serviceVars
  BY <1>7 DEF CloseGateway, ExitProcess, vars
<1> QED
  BY <1>1, <1>2, <1>3, <1>4, <1>5, <1>6, <1>7 DEF Next, handleMessage, Terminated

\* What is said here of automatic conversion, reactions and shutdown rests only
\* on what JobService promises, and WorkerPool implements that promise
\* (messages.go calls TrySubmit, main.go calls Shutdown, and nothing else).
THEOREM AutoImplementsService == Spec => ServiceSpec
<1>1. Init => ServiceInit
  BY DEF Init
<1> QED BY <1>1, StepService, Invariance, PTL DEF Spec, ServiceSpec

==============================================================================
