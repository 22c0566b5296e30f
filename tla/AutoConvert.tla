----------------------------- MODULE AutoConvert -----------------------------
(***************************************************************************)
(* Automatic conversion (internal/bot/messages.go and reactions.go): the   *)
(* gateway goroutine turns the image attachments of a message into jobs,   *)
(* the workers of the pool run them, and the reaction tracker counts, per  *)
(* message, the jobs that are not done, so that the last one clears the    *)
(* reaction and, when the guild asked for it, deletes the original.        *)
(*                                                                         *)
(* The pool is the JobService that WorkerPool implements; a job is one     *)
(* image attachment (isImageCandidate drops the others before anything     *)
(* happens). disgo calls the listeners one event at a time, so there is    *)
(* one gateway process. Each critical section of reactions.mu and each     *)
(* REST call is a step of its own; goroutines interleave between them.     *)
(*                                                                         *)
(* The guild's configuration is owned by ConfigService: between two reads  *)
(* an administrator may have changed it, so a read returns any value.      *)
(***************************************************************************)
EXTENDS JobService, Integers, Functions

CONSTANTS
  Messages,   \* guild messages posted by users
  MessageOf,  \* the message an attachment belongs to
  Faults,     \* whether REST calls and configuration loads fail by themselves
  NoMessage,  \* what the gateway handles between two events
  NoJob       \* the attachment at hand when there is none

ASSUME AutoAssumption ==
  /\ MessageOf \in [Jobs -> Messages]
  /\ Faults \in BOOLEAN
  /\ NoMessage \notin Messages
  /\ NoJob \notin Jobs

VARIABLES
  (* the bot's memory *)
  tracker,      \* reactionTracker.state: a map from messages to reactionState
  hpc,          \* where handleMessage stands
  handling,     \* the message it handles
  todo,         \* the attachments its loop has not reached
  hjob,         \* the attachment its loop is at
  queueFull,    \* its local variable
  replying,     \* messages with a "queue full" reply goroutine
  pc,           \* pc[a]: where runAutoJob stands for attachment a
  succeeded,    \* jobs whose local succeeded is set
  wantsDelete,  \* jobs whose local deleteOriginal is set
  doomed,       \* jobs whose markDone told them to delete the original
  expired,      \* jobs whose own context reached JobTimeout
  proc,         \* "up", "closing" (gateway closed) or "exited"
  (* Discord *)
  exists,       \* originals that have not been deleted
  received,     \* messages whose event was dispatched
  reactions,    \* the bot's reactions on each message
  posted,       \* attachments whose converted image was posted
  told,         \* attachments whose failure was reported in a reply
  deletedByBot, \* originals the bot deleted
  (* history *)
  batch,        \* jobs counted since the message's tracker entry was created
  missed        \* messages on which a reaction call had no effect

trackerVars == <<tracker, batch>>
handlerVars == <<hpc, handling, todo, hjob, queueFull, replying>>
jobVars == <<pc, succeeded, wantsDelete, doomed, expired>>
reactionVars == <<reactions, missed>>
resultVars == <<posted, told>>
messageVars == <<exists, received, deletedByBot>>
vars == <<serviceVars, trackerVars, handlerVars, jobVars, proc, reactionVars,
          resultVars, messageVars>>

Emoji == {"queued", "processing"}

HandlerState == {"idle", "next", "addQueued", "submit", "rollback",
                 "clearQueued", "clearProcessing"}

JobState == {"none", "begin", "addProcessing", "removeQueued", "load",
             "convert", "upload", "finalize", "report", "markDone",
             "clearQueued", "clearProcessing", "delete", "over"}

Entry == [remaining : Nat \ {0}, processing : BOOLEAN, failed : BOOLEAN]

TypeOK ==
  /\ ServiceTypeOK
  /\ DOMAIN tracker \subseteq Messages
  /\ tracker \in [DOMAIN tracker -> Entry]
  /\ hpc \in HandlerState
  /\ handling \in Messages \cup {NoMessage}
  /\ todo \subseteq Jobs /\ hjob \in Jobs \cup {NoJob}
  /\ queueFull \in BOOLEAN /\ replying \subseteq Messages
  /\ pc \in [Jobs -> JobState]
  /\ succeeded \subseteq Jobs /\ wantsDelete \subseteq Jobs
  /\ doomed \subseteq Jobs /\ expired \subseteq Jobs
  /\ proc \in {"up", "closing", "exited"}
  /\ exists \subseteq Messages /\ received \subseteq Messages
  /\ reactions \in [Messages -> SUBSET Emoji]
  /\ posted \subseteq Jobs /\ told \subseteq Jobs
  /\ deletedByBot \subseteq Messages
  /\ batch \in [Messages -> SUBSET Jobs] /\ missed \subseteq Messages

Init ==
  /\ ServiceInit
  /\ tracker = [m \in {} |-> 0]
  /\ hpc = "idle" /\ handling = NoMessage /\ todo = {} /\ hjob = NoJob
  /\ queueFull = FALSE /\ replying = {}
  /\ pc = [a \in Jobs |-> "none"]
  /\ succeeded = {} /\ wantsDelete = {} /\ doomed = {} /\ expired = {}
  /\ proc = "up"
  /\ exists = Messages /\ received = {}
  /\ reactions = [m \in Messages |-> {}]
  /\ posted = {} /\ told = {} /\ deletedByBot = {}
  /\ batch = [m \in Messages |-> {}] /\ missed = {}

-----------------------------------------------------------------------------
(***************************************************************************)
(* reactionTracker: the critical sections of reactions.go.                 *)
(***************************************************************************)

NewEntry == [remaining |-> 0, processing |-> FALSE, failed |-> FALSE]

Put(m, st) ==
  [x \in DOMAIN tracker \cup {m} |-> IF x = m THEN st ELSE tracker[x]]

\* markQueued: one more job; the entry is created on demand.
Counted(m) ==
  LET st == IF m \in DOMAIN tracker THEN tracker[m] ELSE NewEntry
  IN  [st EXCEPT !.remaining = @ + 1]

MarkQueued(a, m) ==
  /\ tracker' = Put(m, Counted(m))
  /\ batch' = [batch EXCEPT ![m] = IF m \in DOMAIN tracker THEN @ \cup {a} ELSE {a}]

First(m) == Counted(m).remaining = 1

\* markProcessing: only the first job of a message to start swaps the reaction.
Swaps(m) == m \in DOMAIN tracker /\ ~tracker[m].processing

MarkProcessing(m) ==
  tracker' = IF Swaps(m) THEN [tracker EXCEPT ![m].processing = TRUE] ELSE tracker

\* Mutant: the last job's outcome decides for all.
DoneLastWins(m, ok) ==
  [tracker[m] EXCEPT !.remaining = @ - 1, !.failed = ~ok]

\* markDone: one job less; the last one removes the entry.
Done(m, ok) ==
  [tracker[m] EXCEPT !.remaining = @ - 1, !.failed = @ \/ ~ok]

\* Mutant: the entry outlives its last job by one markDone.
LastOffByOne(m, ok) == m \in DOMAIN tracker /\ Done(m, ok).remaining < 0

Last(m, ok) == m \in DOMAIN tracker /\ Done(m, ok).remaining <= 0

AllOK(m, ok) == ~Done(m, ok).failed

MarkDone(m, ok) ==
  tracker' = IF Last(m, ok) THEN Restrict(tracker, DOMAIN tracker \ {m})
             ELSE IF m \in DOMAIN tracker THEN Put(m, Done(m, ok))
             ELSE tracker

\* Mutant: whatever was swapped, the queued reaction is removed.
ClearQueuedOnly(m) == "clearQueued"

\* The reaction the last markDone goes on to remove.
ClearState(m) ==
  IF tracker[m].processing THEN "clearProcessing" ELSE "clearQueued"

Cleared(state) == IF state = "clearProcessing" THEN "processing" ELSE "queued"

(***************************************************************************)
(* Discord's REST API. A call whose context is dead fails; any other fails *)
(* only where Faults allows it. Calls about a deleted message change       *)
(* nothing.                                                                *)
(***************************************************************************)
Dead(a) == cancelled \/ a \in expired

CallResults(dead) == (IF dead THEN {} ELSE {TRUE}) \cup (IF dead \/ Faults THEN {FALSE} ELSE {})

SetReactions(m, new, dead) ==
  \E ok \in CallResults(dead) :
    /\ reactions' = [reactions EXCEPT ![m] = IF ok /\ m \in exists THEN new ELSE @]
    /\ missed' = IF ok THEN missed ELSE missed \cup {m}

AddReaction(m, e, dead) == SetReactions(m, reactions[m] \cup {e}, dead)

RemoveReaction(m, e, dead) == SetReactions(m, reactions[m] \ {e}, dead)

-----------------------------------------------------------------------------
(***************************************************************************)
(* handleMessage                                                           *)
(***************************************************************************)

AttachmentsOf(m) == {a \in Jobs : MessageOf[a] = m}

\* Posted by a bot, by a webhook or without attachments, a configuration that
\* cannot be loaded, or a channel that is not on the allowlist.
Ignore(m) ==
  /\ proc = "up" /\ hpc = "idle" /\ m \notin received
  /\ received' = received \cup {m}
  /\ UNCHANGED <<serviceVars, trackerVars, handlerVars, jobVars, proc,
                 reactionVars, resultVars, exists, deletedByBot>>

HandleMessage(m) ==
  /\ proc = "up" /\ hpc = "idle" /\ m \notin received
  /\ received' = received \cup {m}
  /\ hpc' = "next"
  /\ handling' = m
  /\ todo' = AttachmentsOf(m)
  /\ queueFull' = FALSE
  /\ UNCHANGED <<serviceVars, trackerVars, hjob, replying, jobVars, proc,
                 reactionVars, resultVars, exists, deletedByBot>>

NextAttachment(a) ==
  /\ hpc = "next" /\ a \in todo
  /\ todo' = todo \ {a}
  /\ hjob' = a
  /\ MarkQueued(a, handling)
  /\ hpc' = IF First(handling) THEN "addQueued" ELSE "submit"
  /\ UNCHANGED <<serviceVars, handling, queueFull, replying, jobVars, proc,
                 reactionVars, resultVars, messageVars>>

AddQueued ==
  /\ hpc = "addQueued"
  /\ AddReaction(handling, "queued", FALSE)
  /\ hpc' = "submit"
  /\ UNCHANGED <<serviceVars, trackerVars, handling, todo, hjob, queueFull,
                 replying, jobVars, proc, resultVars, messageVars>>

Submit ==
  /\ hpc = "submit"
  /\ \/ Accept(hjob) /\ hpc' = "next" /\ UNCHANGED queueFull
     \/ Refuse(hjob) /\ hpc' = "rollback" /\ queueFull' = TRUE
  /\ UNCHANGED <<trackerVars, handling, todo, hjob, replying, jobVars, proc,
                 reactionVars, resultVars, messageVars>>

\* Mutant: an attachment the pool refused is not discounted.
RollbackForgotten ==
  /\ hpc = "rollback"
  /\ hpc' = "next"
  /\ UNCHANGED <<serviceVars, trackerVars, handling, todo, hjob, queueFull,
                 replying, jobVars, proc, reactionVars, resultVars, messageVars>>

\* The handler does not look at what this markDone returns.
Rollback ==
  /\ hpc = "rollback"
  /\ MarkDone(handling, FALSE)
  /\ hpc' = IF Last(handling, FALSE) THEN ClearState(handling) ELSE "next"
  /\ UNCHANGED <<serviceVars, batch, handling, todo, hjob, queueFull, replying,
                 jobVars, proc, reactionVars, resultVars, messageVars>>

ClearRolledBack ==
  /\ hpc \in {"clearQueued", "clearProcessing"}
  /\ RemoveReaction(handling, Cleared(hpc), FALSE)
  /\ hpc' = "next"
  /\ UNCHANGED <<serviceVars, trackerVars, handling, todo, hjob, queueFull,
                 replying, jobVars, proc, resultVars, messageVars>>

FinishMessage ==
  /\ hpc = "next" /\ todo = {}
  /\ replying' = IF queueFull THEN replying \cup {handling} ELSE replying
  /\ hpc' = "idle" /\ handling' = NoMessage /\ hjob' = NoJob /\ queueFull' = FALSE
  /\ UNCHANGED <<serviceVars, trackerVars, todo, jobVars, proc, reactionVars,
                 resultVars, messageVars>>

\* The goroutine that tells the user the queue was full.
ReplyQueueFull(m) ==
  /\ m \in replying
  /\ replying' = replying \ {m}
  /\ \E ok \in CallResults(FALSE) :
       told' = IF ok THEN told \cup {a \in AttachmentsOf(m) : status[a] = "refused"}
               ELSE told
  /\ UNCHANGED <<serviceVars, trackerVars, hpc, handling, todo, hjob, queueFull,
                 jobVars, proc, reactionVars, posted, messageVars>>

HandlerStep ==
  \/ \E a \in Jobs : NextAttachment(a)
  \/ AddQueued \/ Submit \/ Rollback \/ ClearRolledBack \/ FinishMessage

handleMessage ==
  \/ \E m \in Messages : Ignore(m) \/ HandleMessage(m)
  \/ HandlerStep

-----------------------------------------------------------------------------
(***************************************************************************)
(* runAutoJob                                                              *)
(***************************************************************************)

At(a, state) == status[a] = "running" /\ pc[a] = state

Goto(a, state) == pc' = [pc EXCEPT ![a] = state]

StartJob(a) ==
  /\ Start(a)
  /\ Goto(a, "begin")
  /\ UNCHANGED <<trackerVars, handlerVars, succeeded, wantsDelete, doomed,
                 expired, proc, reactionVars, resultVars, messageVars>>

BeginProcessing(a) ==
  /\ At(a, "begin")
  /\ MarkProcessing(MessageOf[a])
  /\ Goto(a, IF Swaps(MessageOf[a]) THEN "addProcessing" ELSE "load")
  /\ UNCHANGED <<serviceVars, batch, handlerVars, succeeded, wantsDelete,
                 doomed, expired, proc, reactionVars, resultVars, messageVars>>

\* The swap of markProcessing: two REST calls with the job's own context.
AddProcessing(a) ==
  /\ At(a, "addProcessing")
  /\ AddReaction(MessageOf[a], "processing", Dead(a))
  /\ Goto(a, "removeQueued")
  /\ UNCHANGED <<serviceVars, trackerVars, handlerVars, succeeded, wantsDelete,
                 doomed, expired, proc, resultVars, messageVars>>

RemoveQueued(a) ==
  /\ At(a, "removeQueued")
  /\ RemoveReaction(MessageOf[a], "queued", Dead(a))
  /\ Goto(a, "load")
  /\ UNCHANGED <<serviceVars, trackerVars, handlerVars, succeeded, wantsDelete,
                 doomed, expired, proc, resultVars, messageVars>>

\* configs.Get; an error leaves through the deferred cleanup, without a reply.
LoadConfig(a) ==
  /\ At(a, "load")
  /\ \/ /\ \E delete \in BOOLEAN :
             wantsDelete' = IF delete THEN wantsDelete \cup {a} ELSE wantsDelete
        /\ Goto(a, "convert")
     \/ Faults /\ Goto(a, "markDone") /\ UNCHANGED wantsDelete
  /\ UNCHANGED <<serviceVars, trackerVars, handlerVars, succeeded, doomed,
                 expired, proc, reactionVars, resultVars, messageVars>>

\* Mutant: the cleanup is not deferred, so that a panic leaves it out.
ConvertUncleaned(a) ==
  /\ At(a, "convert")
  /\ \/ ~Dead(a) /\ Goto(a, "upload")
     \/ Goto(a, "report")
     \/ Faults /\ Goto(a, "over")
  /\ UNCHANGED <<serviceVars, trackerVars, handlerVars, succeeded, wantsDelete,
                 doomed, expired, proc, reactionVars, resultVars, messageVars>>

\* convertAttachment: converted, an error, or a panic that safeRun recovers
\* after the deferred cleanup. Nothing converts under a dead context.
Convert(a) ==
  /\ At(a, "convert")
  /\ \/ ~Dead(a) /\ Goto(a, "upload")
     \/ Goto(a, "report")
     \/ Faults /\ Goto(a, "markDone")
  /\ UNCHANGED <<serviceVars, trackerVars, handlerVars, succeeded, wantsDelete,
                 doomed, expired, proc, reactionVars, resultVars, messageVars>>

\* CreateMessage with the converted image. A fault may hit the request or only
\* its response: then the image is there and the job reports a failed upload.
Upload(a) ==
  /\ At(a, "upload")
  /\ \E ok \in CallResults(Dead(a)), delivered \in BOOLEAN :
       /\ ok => delivered
       /\ delivered => ~Dead(a)
       /\ posted' = IF delivered THEN posted \cup {a} ELSE posted
       /\ succeeded' = IF ok THEN succeeded \cup {a} ELSE succeeded
       /\ Goto(a, IF ok THEN "finalize" ELSE "report")
  /\ UNCHANGED <<serviceVars, trackerVars, handlerVars, wantsDelete, doomed,
                 expired, proc, reactionVars, told, messageVars>>

\* finalizeResult edits the result message; whatever comes of its attempts, the
\* job goes on to its cleanup.
Finalize(a) ==
  /\ At(a, "finalize")
  /\ Goto(a, "markDone")
  /\ UNCHANGED <<serviceVars, trackerVars, handlerVars, succeeded, wantsDelete,
                 doomed, expired, proc, reactionVars, resultVars, messageVars>>

\* Mutant: the error reply waits for a live context.
ReportBlocked(a) ==
  /\ At(a, "report")
  /\ ~Dead(a)
  /\ told' = told \cup {a}
  /\ Goto(a, "markDone")
  /\ UNCHANGED <<serviceVars, trackerVars, handlerVars, succeeded, wantsDelete,
                 doomed, expired, proc, reactionVars, posted, messageVars>>

\* The error reply, with the job's own context.
Report(a) ==
  /\ At(a, "report")
  /\ \E ok \in CallResults(Dead(a)) :
       told' = IF ok THEN told \cup {a} ELSE told
  /\ Goto(a, "markDone")
  /\ UNCHANGED <<serviceVars, trackerVars, handlerVars, succeeded, wantsDelete,
                 doomed, expired, proc, reactionVars, posted, messageVars>>

\* The deferred cleanup: markDone, and the decision to delete the original.
FinishJob(a) ==
  LET m == MessageOf[a]
      ok == a \in succeeded
  IN  /\ At(a, "markDone")
      /\ MarkDone(m, ok)
      /\ doomed' = IF Last(m, ok) /\ AllOK(m, ok) /\ a \in wantsDelete
                   THEN doomed \cup {a} ELSE doomed
      /\ wantsDelete' = wantsDelete \ {a}
      /\ Goto(a, IF Last(m, ok) THEN ClearState(m) ELSE "over")
      /\ UNCHANGED <<serviceVars, batch, handlerVars, succeeded, expired, proc,
                     reactionVars, resultVars, messageVars>>

\* The cleanup's REST calls use a context of their own.
ClearFinished(a) ==
  /\ pc[a] \in {"clearQueued", "clearProcessing"} /\ status[a] = "running"
  /\ RemoveReaction(MessageOf[a], Cleared(pc[a]), FALSE)
  /\ Goto(a, IF a \in doomed THEN "delete" ELSE "over")
  /\ UNCHANGED <<serviceVars, trackerVars, handlerVars, succeeded, wantsDelete,
                 doomed, expired, proc, resultVars, messageVars>>

DeleteOriginal(a) ==
  LET m == MessageOf[a]
  IN  /\ At(a, "delete")
      /\ \E ok \in CallResults(FALSE) :
           IF ok /\ m \in exists
           THEN /\ exists' = exists \ {m}
                /\ deletedByBot' = deletedByBot \cup {m}
                /\ reactions' = [reactions EXCEPT ![m] = {}]
           ELSE UNCHANGED <<exists, deletedByBot, reactions>>
      /\ Goto(a, "over")
      /\ UNCHANGED <<serviceVars, trackerVars, handlerVars, succeeded,
                     wantsDelete, doomed, expired, proc, missed, resultVars,
                     received>>

EndJob(a) ==
  /\ At(a, "over")
  /\ End(a)
  /\ Goto(a, "none")
  /\ doomed' = doomed \ {a} /\ expired' = expired \ {a}
  /\ UNCHANGED <<trackerVars, handlerVars, succeeded, wantsDelete, proc,
                 reactionVars, resultVars, messageVars>>

runAutoJob(a) ==
  \/ BeginProcessing(a) \/ AddProcessing(a) \/ RemoveQueued(a)
  \/ LoadConfig(a) \/ Convert(a) \/ Upload(a) \/ Finalize(a) \/ Report(a)
  \/ FinishJob(a) \/ ClearFinished(a) \/ DeleteOriginal(a) \/ EndJob(a)

\* The job's own deadline, JobTimeout, passes.
JobTimeout(a) ==
  /\ status[a] = "running" /\ a \notin expired
  /\ expired' = expired \cup {a}
  /\ UNCHANGED <<serviceVars, trackerVars, handlerVars, pc, succeeded,
                 wantsDelete, doomed, proc, reactionVars, resultVars,
                 messageVars>>

-----------------------------------------------------------------------------
(***************************************************************************)
(* The surroundings: users delete messages, and run() in cmd/bot/main.go   *)
(* closes the gateway, shuts the pool down and exits.                      *)
(***************************************************************************)

UserDeletes(m) ==
  /\ m \in exists /\ m \in received
  /\ exists' = exists \ {m}
  /\ reactions' = [reactions EXCEPT ![m] = {}]
  /\ UNCHANGED <<serviceVars, trackerVars, handlerVars, jobVars, proc, missed,
                 resultVars, received, deletedByBot>>

CloseGateway ==
  /\ proc = "up"
  /\ proc' = "closing"
  /\ UNCHANGED <<serviceVars, trackerVars, handlerVars, jobVars, reactionVars,
                 resultVars, messageVars>>

\* pool.Shutdown: close, perhaps cancel when the grace period is over, return.
ShutdownPool ==
  /\ proc = "closing"
  /\ Close \/ Cancel \/ Return
  /\ UNCHANGED <<trackerVars, handlerVars, jobVars, proc, reactionVars,
                 resultVars, messageVars>>

\* The process ends; the memory of a handler still at work and of the reply
\* goroutines goes with it.
ExitProcess ==
  /\ proc = "closing" /\ phase = "returned"
  /\ proc' = "exited"
  /\ tracker' = [m \in {} |-> NewEntry]
  /\ hpc' = "idle" /\ handling' = NoMessage /\ todo' = {} /\ hjob' = NoJob
  /\ queueFull' = FALSE /\ replying' = {}
  /\ UNCHANGED <<serviceVars, batch, jobVars, reactionVars, resultVars,
                 messageVars>>

Terminated == proc = "exited" /\ UNCHANGED vars

Next ==
  \/ handleMessage
  \/ \E m \in Messages : ReplyQueueFull(m) \/ UserDeletes(m)
  \/ \E a \in Jobs : StartJob(a) \/ runAutoJob(a) \/ JobTimeout(a)
  \/ CloseGateway \/ ShutdownPool \/ ExitProcess
  \/ Terminated

Spec == Init /\ [][Next]_vars

(***************************************************************************)
(* Goroutines keep running; conversions and REST calls end because their   *)
(* contexts have deadlines. Nothing forces users to post or delete, or the *)
(* process to be stopped.                                                  *)
(***************************************************************************)
Fairness ==
  /\ WF_vars(HandlerStep)
  /\ \A a \in Jobs : WF_vars(StartJob(a)) /\ WF_vars(runAutoJob(a))
  /\ WF_vars(ShutdownPool) /\ WF_vars(ExitProcess)

FairSpec == Spec /\ Fairness

-----------------------------------------------------------------------------
(***************************************************************************)
(* Safety                                                                  *)
(***************************************************************************)

\* The attachments markQueued has counted and no markDone has discounted.
Outstanding(m) ==
  {a \in AttachmentsOf(m) :
     \/ hjob = a /\ hpc \in {"addQueued", "submit", "rollback"}
     \/ status[a] = "queued"
     \/ status[a] = "running" /\ pc[a] \notin {"clearQueued", "clearProcessing",
                                              "delete", "over"}}

\* The tracker has an entry for a message exactly while some of its attachments
\* are outstanding, and remaining is their number: every markQueued meets one
\* markDone, from the handler's roll-back or from the job's deferred cleanup,
\* however the two goroutines interleave. Otherwise a reaction stays forever,
\* or is cleared (and the original deleted) under a running job.
TrackerCounts ==
  \A m \in Messages :
    /\ m \in DOMAIN tracker <=> Outstanding(m) # {}
    /\ m \in DOMAIN tracker => tracker[m].remaining = Cardinality(Outstanding(m))

\* A job is told to delete the original only when every attachment counted in
\* the same tracker entry has been converted and posted and none is
\* outstanding: allOK stands for the whole batch, whichever job ends last.
DeletesOnlyCleanBatch ==
  [][\A a \in Jobs : a \in doomed' \ doomed =>
       LET m == MessageOf[a]
       IN  /\ batch[m] \subseteq succeeded \cap posted
           /\ Outstanding(m)' = {}]_vars

\* Nobody is at work on m: no attachment outstanding, no cleanup under way.
Settled(m) ==
  /\ Outstanding(m) = {}
  /\ \A a \in AttachmentsOf(m) : status[a] # "running"
  /\ handling # m

\* A message nobody works on keeps no reaction, unless one of the reaction
\* calls on it had no effect: neither the swap, which runs outside the lock,
\* nor a second batch of the same message puts a reaction back for good.
ReactionsCleared ==
  \A m \in Messages \ missed :
    proc # "exited" /\ Settled(m) => reactions[m] = {}

(***************************************************************************)
(* Liveness                                                                *)
(***************************************************************************)

\* An accepted attachment's job ends, shutdown or not, whatever call fails and
\* whether it panics, and with it the worker is free for the next job: no
\* step of runAutoJob or of its cleanup waits for another (messages.go:85).
EveryJobEnds ==
  \A a \in Jobs : status[a] = "queued" ~> status[a] = "ended"

\* The tracker forgets every message. No entry is leaked by a refused
\* attachment, a configuration that cannot be loaded, a conversion that panics,
\* a failed or late REST call, or a deleted original, in whatever order the
\* jobs of the message end (messages.go:70, 90).
TrackerDrains ==
  \A m \in Messages : m \in DOMAIN tracker ~> m \notin DOMAIN tracker

(***************************************************************************)
(* What the comments say and the code does not do                          *)
(***************************************************************************)

\* internal/config/model.go: the original is deleted once every attachment on
\* it is converted. So an attachment of a deleted message whose job is over has
\* its converted image.
DeletesOnlyConverted ==
  \A m \in deletedByBot : \A a \in AttachmentsOf(m) :
    status[a] = "ended" => a \in posted

\* reactions.go: the reactions are cleared once every attachment job for the
\* message has finished.
ClearedWhenFinished ==
  \A m \in Messages : proc # "exited" /\ Settled(m) => reactions[m] = {}

\* SPEC.md: a failure path must return an error instead of failing silently.
NoSilentFailure ==
  \A a \in Jobs : status[a] = "ended" => a \in posted \cup told

==============================================================================
