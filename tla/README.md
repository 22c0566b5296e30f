# Formal verification of image-converter-bot

A Discord bot in Go converts images: users post them in enabled channels or hand
them to `/convert`, a bounded worker pool downloads, resizes and re-encodes them
with libvips, and the result is posted with a signed URL that a *Refresh URL*
button renews. This directory holds TLA+ models of its concurrent core, of the
conversion of one image and of the life of the process, TLC configurations that
check them on small instances, and TLAPS proofs of safety properties for every
size of the instances.

- [1 The system](#1-the-system)
- [2 The modules](#2-the-modules)
- [3 Modelling decisions](#3-modelling-decisions)
- [4 What TLC checks](#4-what-tlc-checks)
- [5 What is proved](#5-what-is-proved)
- [6 Findings](#6-findings)
- [7 Not modelled, and the plan](#7-not-modelled-and-the-plan)

Run a check with `tlc -config AutoConvert.cfg MCAutoConvert.tla`, the proofs of a
component with `tlapm AutoConvertProofs.tla`. `PROJECT.json` maps each definition
to the lines it translates and lists the runs, the hazards and, for each
property, a mutant of the model that violates it.

## 1 The system

| Component | State | Operations |
| --- | --- | --- |
| Worker pool (`internal/worker`) | buffered channel, `closed`, a context, N goroutines | `TrySubmit`, the worker loop with `safeRun`, `Shutdown` |
| Automatic conversion (`internal/bot/messages.go`) | locals of the gateway goroutine and of each job | `handleMessage`, `runAutoJob`, replies, deletion of the original |
| Reaction tracker (`internal/bot/reactions.go`) | a map from message to `{remaining, processing, failed}` behind a mutex; the reactions on Discord | `markQueued`, `markProcessing`, `markDone` |
| `/convert` (`internal/bot/interactions.go`) | the deferred response | `onConvert`, `runConvertJob`, `editResponseText` |
| Result message and Refresh URL (`convert.go`, `interactions.go`, `internal/discordurl`) | none in the bot; the message itself | `finalizeResult`, `onRefresh`, `refreshURL` |
| Guild configuration (`internal/config`) | two SQLite tables, a cache behind an RWMutex | `Get`, `Update`, `AddChannel`, `RemoveChannel`, `Reset` |
| `/config` (`internal/bot/commands.go`) | none | permission checks, calls of the service, a reset confirmed by buttons |
| Download (`internal/bot/convert.go`, `download.go`) | none | `convertAttachment`, `download` with its size limits |
| Image pipeline (`internal/imageproc`) | the image of one job | decode, fit within bounds, quality search, shrink loop, cancellation |
| Database (`internal/database`) | schema version, tables | `Open`, `Migrate` |
| Startup and shutdown (`cmd/bot`) | process, signal context | `run` |

How they meet:

- disgo calls the listeners one event after another, on one gateway goroutine.
  It makes the attachments of a message into jobs and hands them to the pool.
- The jobs run on the pool's workers. They share the reaction tracker with the
  gateway goroutine and the configuration service with everybody.
- Goroutines outside the pool send the *queue full* replies and do the refreshes.
- Discord is reached by REST calls that fail, time out, or take effect although
  their answer is lost. Nobody holds a lock during a REST call, so other
  goroutines come between any two of them. Database calls, in contrast, run under the
  configuration service's mutex.
- Each job has a deadline (`JobTimeout`) below the pool's context, each call one
  (`APITimeout`) below that. Shutdown closes the gateway, drains the pool with a
  grace period, cancels the pool's context when it is over, and exits.

What makes it hard, and which property each component has to keep:

- *Pool*: no send on a closed channel, no lost or repeated job, `Shutdown` returns
  and only when everything has ended.
- *Tracker*: `remaining` is the number of unfinished attachments although the
  gateway counts them while workers finish others; the reaction disappears at the end.
- *Deletion of originals*: the one destructive operation; never with a failed
  attachment, whichever job comes last.
- *Configuration*: the cache agrees with the database; two administrators do
  not undo each other's settings; nothing invalid is stored, crashes included.
- *Conversion*: the search and the shrink loop stop whatever the encodes return, the result
  is as the guild configured it, and an error names its real cause.
- *`/config`*: an answer says what happened; only a manager changes a configuration, also
  through a prompt that is confirmed later.
- *Process*: a schema that matches its record after any crash, no job without database,
  libvips and REST client, an end to every shutdown.
- *Response to a command*: every path replaces "thinking", nobody writes over a result,
  the button always stands on a message that can be refreshed.

The hazards, each at its line, are in `PROJECT.json`.

## 2 The modules

| Module | Content |
| --- | --- |
| `JobService` | abstract specification: what the pool promises |
| `WorkerPool` | pool.go in detail; implements `JobService` |
| `WorkerPoolProofs` | its safety and the refinement, proved |
| `AutoConvert` | messages.go and reactions.go, on top of `JobService` |
| `AutoConvertProofs` | tracker, deletion, reactions and use of the pool, proved |
| `ConfigModel` | model.go: configurations and the operations on them |
| `ConfigStore` | abstract specification: what the configuration service promises |
| `ConfigService` | service.go with database, cache and mutex; implements `ConfigStore` |
| `ConfigServiceProofs` | its safety and the refinement, proved |
| `ConfigCommand` | commands.go: `/config` and its reset prompt; extends `ConfigService` |
| `ConfigCommandProofs` | who may change a configuration, and that answers are true, proved |
| `ImagePipeline` | one attachment: convert.go, download.go and `internal/imageproc` |
| `ImagePipelineProofs` | file, sides, format, quality and answer, proved |
| `Lifecycle` | main.go and `internal/database` from start to exit; extends `JobService` |
| `LifecycleProofs` | schema, readiness and use of the pool, proved |
| `ResultMessage` | `/convert`, `finalizeResult` and Refresh URL on one message |
| `ResultMessageProofs` | its safety, proved |
| `MC*` | model values for TLC |

**`JobService`** keeps a status for each job (`new`, `queued`, `running`, `ended`,
`refused`), the phase of the pool and whether its context is cancelled. `Accept` and
`Refuse` are the two answers of `TrySubmit`.

**`WorkerPool`** has a process for every goroutine that meets the pool: a
`TrySubmit` call per job, the workers, the callers of `Shutdown`. `submit[j] =
"checked"` is a `TrySubmit` that holds the read lock and has seen `closed = false`;
`Send` and `QueueFull` are the two branches of its select. `Shutdown` is split at
the lock, at `closed = true`, at `close(p.jobs)` and at the select between drained
workers and expired context. `sync.RWMutex` is represented by its rule: a waiting
writer holds back new readers. The refinement mapping (`statusBar`, `phaseBar`)
reads a job's status off the place where it is.

**`AutoConvert`** makes each critical section of `reactions.mu` and each REST call
a step. `hpc` is the program counter of `handleMessage`: `NextAttachment` is
`markQueued`'s critical section, `AddQueued` its REST call, `Submit` the call of
the pool, `Rollback` and `ClearRolledBack` the `markDone` of a refused attachment.
`pc[a]` is that of `runAutoJob`: the two calls of the reaction swap, the
configuration, conversion, upload, final edit, error reply, then the deferred
cleanup `FinishJob` (`markDone`), `ClearFinished`, `DeleteOriginal`. Two history
variables are used by properties only: `batch[m]` (the jobs counted since the tracker
entry was created) and `missed` (messages on which a reaction call failed).

**`ConfigStore`** has no tables, cache or mutex: a call is `asked`, takes effect in one step on
the configuration of its guild, and is answered. It may be answered with an error after it
took effect; the guild is then `stale`, and the next update of it may bring back settings it had
before (finding 4). This is all that the callers may notice of failures. The value that a
read returns is not part of it: it is the cache entry, and `CacheCurrentOnceRead` says when that is current.

**`ConfigService`** has callers that want the mutex and one row, channel set and
cache entry per guild. `pc[c]` moves through `load` (cache lookup or default
insert), `firstReload`, `write`, `lastReload`, each of them a database call that
may fail; `Restart` is a crash at any point. History: `unread`, the guilds written
since a load of them succeeded. It implements `ConfigStore`: a guild without a row has the defaults
(`configBar`), a call is effective while it reads back what it wrote (`callBar`), and a guild is
stale when its last write was not read back and nobody is at it (`staleBar`).

**`ResultMessage`** is one response: `message` is what it shows (nothing, "thinking",
an error, the bare summary, the result), the URL as the number of its signature,
and whether file and button are there. `onConvert`, `runConvertJob` with
`finalizeResult`'s attempts and pauses, and the goroutine of each button press all
edit it. A call result has three parts: `ok` (the bot knows it worked), `done` (it took
effect), `late` (it used up its timeout). `left[r]` counts the timeouts a
refresh's 30 s context still allows.

**`ConfigCommand`** adds the handler to `ConfigService`. The gateway goroutine takes one
interaction at a time (`handler`), asks the service for `asked` and answers (`reply`);
the other callers are conversion jobs, which only `Get`. `manager` is the permission
of whoever sent this interaction. `prompts` are the reset prompts on screen: they outlive the
command, a restart, and a press whose answer was lost. History: `before`, the configuration when the
interaction came in, and `fresh`, whether its last write had been read back then.

**`ImagePipeline`** follows one attachment through `CheckReported`, `Request`, `ReadBody`,
`Decode`, `Normalise` and the loop `Resize`, `StartExport`, `Export...`. A file is its
length, an image its sides, kind, alpha and whether libvips can read its pixels. The
bytes of an encode are whether they fit the limit, chosen anew each time: JPEG sizes need not
grow with the quality, nor PNG sizes with the sides. `search` holds the state of
`exportJPEGWithin`, with `over`, the qualities that were too big, as history. `Rounded` is any integer
`math.Round` can give for the exact quotient. `Shrunk` is `scaleDims` with every real factor between
`minShrink` and `maxShrink` at once: two sides go together when some factor rounds to both.
`ctx` may end at every step and is looked at where the code looks at it.

**`Lifecycle`** has one step per line of `run()` that calls something, and those of
`Migrate` between them. A transaction is a copy of the stored schema and record that
replaces both at the commit. `Die` is what every end of the process has in common; `Boot` is the
container's restart, `Deploy` an operator's, with any build. A build is the number of
migrations it knows. The gateway's event handler is `handling`, the job that it is about to
submit: closing the gateway does not wait for it.

## 3 Modelling decisions

- *A job is one image attachment.* `isImageCandidate` drops others before anything
  happens, so they are not in the model. The order of a message's attachments is left
  open; the code's order is one of those checked.
- *The pool in `AutoConvert`* is `JobService`, whose refinement by `WorkerPool`
  the run `pool` checks. Panics of jobs are a choice at the conversion step.
- *The configuration in `AutoConvert` and `ResultMessage`* is a choice per read:
  an administrator may have changed it in between. `ConfigService` covers what a read returns.
- *Settings.* A row has one ranged setting and one flag. `Update` treats all columns
  alike (it writes every one from the cached configuration), so one of each kind
  shows what happens to them. One guild suffices: an operation touches one key
  of the cache and rows of one guild, and the mutex is shared.
- *Failing writes.* A failed database write has no effect. One that is committed
  although the call reports an error looks like one whose reload fails, which is modelled.
- *REST calls* under a dead context fail without effect. Others fail only where
  `Faults` is TRUE, so a run with `Faults = FALSE` shows what happens while Discord works.
  Calls about a deleted message change nothing.
- *Contexts* do not count time: a deadline may pass at any step of its job. Only
  the refresh's context counts calls that used their whole timeout, because 30 s
  and 15 s are related.
- *Crashes.* Jobs and tracker are in memory and die with the process; the messages
  on Discord keep what they have. So a crash matters where state survives it: the
  database (`ConfigService`, `Lifecycle`), the reset prompt (`ConfigCommand`) and the response
  with its button (`ResultMessage`).
- *libvips* evaluates lazily: opening, counting pixels and colour conversion may work on an
  image whose pixels cannot be read, and the export finds out. Out of memory and
  encoder failures on readable pixels are left out; the code would report them as `ErrDecode`.
- *Which shrink factor* the code computes depends on the bytes of the last encode. The
  model takes every real one between 1/2 and 9/10 (`Shrunk`), the same for both sides, so each size the
  code can go on with is a step. `AnyFactor` proves that these are the sizes `scaleDims`
  has for the factors n / d of any denominator; 240 may become 121, which no whole percentage gives.
- *Start of the process.* Reading the environment and the capability check of libvips are
  steps that work or fail. A build is deployed while the container is stopped.
- *Data.* Images, texts, names and logs are left out. Content is abstracted to what
  the properties tell apart.

## 4 What TLC checks

Passing runs:

| Run | Instance | Distinct states | Shows |
| --- | --- | --- | --- |
| `pool` | 4 jobs (one waits for its context), 2 workers, queue of 2, 2 overlapping `Shutdown` calls | 70 452 | types, no panic on the channel, jobs in exactly one place, `Shutdown` returns drained; it implements `JobService`; `Shutdown` returns; the queue moves |
| `auto_safety` | 1 message with 3 attachments, 2 workers, queue of 1, faults | 4.9 million | tracker counts exactly, only clean batches delete, settled messages keep no reaction |
| `auto_liveness` | 1 message with 2 attachments, 1 worker, queue of 1, faults and panics | 137 352 | accepted jobs end, the tracker drains |
| `config` | 2 callers, 1 guild, 3 widths (one invalid), 1 channel, faults, crashes | 42 725 | only valid settings stored, cache current once read back, success is visible, other settings kept, calls return; it implements `ConfigStore` (its types are checked in `config_command`) |
| `result` | 1 command, 2 presses, 3 attempts, faults, crashes, deletion | 147 737 | the button stands on a result, a refresh shows a newer URL, every path answers the command, everything ends |
| `pipeline` | 4 images, 2 bounds, 4 qualities around the floor of 40, every shrink factor, 12 attempts, side 32 | 1.9 million | only whole files are decoded; sides, alpha, format and quality as configured; the user is told the real cause; the search and the loop stop |
| `config_command` | the gateway and a job, 1 guild, 1 channel, 3 widths (one invalid), faults, crashes | 72 293 | answers are true and commands all or nothing; only managers change a configuration; every command is answered |
| `lifecycle` | builds of 1, 2 and 3 migrations, 3 jobs, 1 worker, queue of 1, 4 signals, crashes or failures | 14 247 | the schema is what is recorded; jobs only with everything up; a signal stops the process; it starts again |

The instances are the smallest in which the interesting cases happen. In the pool,
four jobs are more than queue and workers hold minus one, so a refusal, a full
queue and an idle worker all occur, and two Shutdown calls meet at every point. Three
attachments give a message one, two or three batches in its tracker, with
the refused one first, in the middle or last. Two callers are all that the
configuration's mutex can interleave pairwise; every operation pair meets, and more of
them only repeat. Two presses overlap each other and the retries. Symmetry is used
only in `auto_safety`, over attachments, with no liveness property.

In `auto_liveness` two jobs and the handler share a tracker entry, and the second job waits for the worker
of the first; any configuration load and REST call may fail, the conversion panic, a
submission be refused, and a context end.

In `pipeline` the attempts and the floor of the quality are those of limits.go; the images are at half scale
and so is the smallest side (32 for 64), because with every shrink factor the sizes are many. The
images need all twelve attempts, or reach the smallest side, or round to a side of one. The five pixels are
not idle: there are attempts that are off by more than two, and the bound is passed when each side may have
a factor of its own. The qualities are one below the floor, the floor,
one above it (an empty interval to search) and one with four qualities in between. `config_command` needs only one writer, as there is only one gateway goroutine. In
`lifecycle` three builds give an upgrade by one and by two migrations and a
downgrade, and four troubles allow, say, a stop, a crash within a migration, a failed
call of the next start and another stop.

Bounds: the sets above; `MaxTrouble` cuts off signals, crashes and failures, after which the
process has to recover; `Attempts = 3` is the code's number, `Timeouts = 2` is 30 s
over 15 s. Signatures of URLs and history variables are bounded by the finite number of
presses and attempts; nothing else is cut off. Deadlock is checked in each run: a
finished system takes the step `Terminated`, and any other stop is an error.

Fairness. Weak fairness of a goroutine's own next step: Go schedules runnable
goroutines, and every conversion and call it makes has a deadline. `Start` is weakly fair
because a free worker blocks only on the channel. `ConfigService` has strong
fairness for taking the mutex, because a waiting writer of `sync.RWMutex` is
admitted in turn. In `ImagePipeline` every step is weakly fair: the HTTP client has a timeout and
an export ends or is killed. In `Lifecycle` the lines of `run()` are, its failing calls once the
signal context is done, and the restart of the container; a job is only sure to end when
its context is cancelled. No fairness for users, failures, timeouts, crashes or signals; the
only exception is the wait of `Shutdown`, whose context has a deadline.

Each property has a mutant in the modules (a definition marked "Mutant", unused by
`Next`) that TLC refutes, so none holds by the shape of the model.

## 5 What is proved

By TLAPS, for any numbers of jobs, workers, messages, guilds, callers, builds and images, from the
named assumptions on the constants and nothing else:

| Module | Theorem | Statement |
| --- | --- | --- |
| `WorkerPoolProofs` | `TypeCorrect` | types; the queue within its capacity |
| | `NeverPanics` | no send on the closed channel, no second close |
| | `NoJobLost` | every accepted job is in one place, once |
| | `ReturnsDrained` | after `Shutdown` every accepted job has ended |
| | `PoolImplementsService` | the pool implements `JobService` |
| `AutoConvertProofs` | `TypeCorrect` | types |
| | `CountsExactly` | the tracker's entry equals the outstanding attachments |
| | `OnlyCleanBatchDeletes` | an original is deleted only for a batch without failure |
| | `ReactionsGo` | a settled message keeps no reaction (`ReactionsCleared`) |
| | `AutoImplementsService` | gateway and jobs use the pool as `JobService` allows |
| `ConfigServiceProofs` | `TypeCorrect` | types |
| | `MutualExclusion` | the holder of the mutex, and only it, is inside (`OneInside`) |
| | `OnlyValidStored` | validated settings only, channels only beside a row |
| | `CacheCoherent` | the cache equals the database once read back |
| | `NoSettingUndone` | an update leaves other settings alone |
| | `SuccessVisible` | what succeeded is in the database and in the cache |
| | `ServiceImplementsStore` | the service implements `ConfigStore` |
| `ConfigCommandProofs` | `CommandImplementsService` | `/config` only takes steps `ConfigService` allows, so the theorems above hold of it |
| | `CommandTypeCorrect` | types; the gateway is in the service only for its command |
| | `OnlyManagers` | a configuration changes only for a user with the permission |
| | `AnswersTrue` | what the command answers is what happened |
| `LifecycleProofs` | `LifecycleTypeCorrect` | types |
| | `SchemaIsRecorded` | the schema is what is recorded, after any crash |
| | `NeverWorksUnready` | jobs only with database, schema, libvips and REST client |
| | `LifecycleUsesService` | one new pool per process, used as `JobService` allows |
| `ImagePipelineProofs` | `PipelineTypeCorrect` | types; at most `MaxAttempts` attempts |
| | `DecodesWholeFiles` | no file that was cut off is converted |
| | `AnyFactor` | `Shrunk` is `scaleDims` with any factor n / d from 1/2 to 9/10 |
| | `SidesInBounds` | sides within the bounds and close to the proportions |
| | `BestQualityInBounds` | alpha, format and quality as configured |
| | `BlamesTruthfully` | a failure is told as what it was |
| `ResultMessageProofs` | `TypeCorrect` | types |
| | `ButtonBringsResult` | the button stands on a complete result |
| | `CommandGetsAnswer` | no path leaves the response at "thinking" |
| | `RefreshIsNew` | a refresh that succeeds shows a URL newer than its press |

*Pool.* No property is inductive alone. `LockInv` states what the RWMutex excludes:
a `TrySubmit` that saw `closed = false` holds back every closer, so the channel is
still open when it sends. `DrainInv` says that a worker exits only from a closed and
empty channel, which stays empty as nobody can be about to send.
`EveryJobInOnePlace` then needs two lemmas on `Append` and `Tail` of a
sequence without repetitions. The refinement (`PoolImplementsService`) maps a `TrySubmit` to its send,
its default branch or the place where it finds the pool closed, and a job's status to the place
where it is. `AutoImplementsService` and `LifecycleUsesService` show that the two modules above the pool stay
within `JobService`, so the abstract pool may stand in both for the real one.

*Automatic conversion.* `TrackerCounts` compares a counter with the cardinality of
a set that the gateway and the workers both change. The proof classifies steps: one counts
an attachment (`OneMore`), one discounts one (`OneLess`), every other one leaves the counted
set alone (`SameCount`, `Quiet`). For the first two one has to know where the
attachment was before: `HandlerInv` (attachments not yet submitted are new, the one
being submitted is new or refused) and `PoolInv` (a returned pool is empty, so an exit loses no
counted job). `BatchInv`, that a tracker entry without failure has only outstanding
or succeeded jobs in its batch and that what succeeded was posted, gives
`OnlyCleanBatchDeletes`: the last `markDone` leaves no outstanding one.

`ReactionsCleared` speaks of settled messages only; the invariant (`ReactionInv`) names for every reaction
that is on a message who will still take it away: a tracker entry not yet swapped (its next job swaps it),
the handler, or the job that is about to. As reactions are changed after the mutex was released, it has to exclude that an owner
finds the message swapped by somebody else (`SwapInv`): the handler adds the queued reaction
only for the first attachment of a tracker entry, while no other job of the message can run.

*Configuration.* `WriterHasConfig` is the strengthening: a caller about to update
found a configuration in the cache, and mutual exclusion keeps it there. With
`CacheCurrentOnceRead` it follows that an update writes the stored values of all
columns it was not asked to change. `SuccessVisible` adds `WrittenBeforeReload`: between a write and
its reload the caller keeps the mutex, so the reload reads what this operation asked for.

`ServiceImplementsStore` is the refinement. Its invariant (`RInv`) adds that a cached guild has a row and
valid settings (`CachedRow`: so only the value asked for can be a reason to reject an update), and what a
reload can find (`ReloadFinds`: no row only after the removal of a channel). Each
write is `TakeEffect`; what comes before it is hidden; `staleBar` loses a guild with the first write or
read after the failed reload. The mutex enters once: while a caller is inside, no other one
is about to read back (`Alone`).

*`/config`.* `CommandImplementsService` maps each step of the handler to one of the service
or a stutter, so the invariants of the service need no second proof. `OnlyManagers` needs two facts
more: the gateway is the only caller that writes, and it is in the service only for a command
whose sender has the permission. Inserting the default row does not count as a
change, because a guild without a row has the defaults already. `AnswersTrue` follows the gateway's
operation through the service (`TruthInv`): until its write the configuration is the one of the
interaction's beginning, after it the one the operation turns that into (`WriteTurns`), and
`RowsAffected` tells the two apart; the jobs beside it only read (`JobKeeps`).

*Lifecycle.* `SchemaInv` follows `Migrate`: the record is an interval from 1, what the code takes for
the version is its end, and an open transaction is ahead by the same version in both
tables, or not yet ahead, when it commits. `ReadyInv` lists on which lines of `run()` each resource is
up; the event handler that closing the gateway leaves behind finds the pool closed.

*Pipeline.* `SearchInv` is the invariant of the binary search: `lo - 1` is the best quality so far,
`hi + 1` was too big, and nothing too big lies at `hi` or below. It assumes nothing about how
sizes grow with the quality: a result below the configured quality fitted, and one more did not. `LoopInv` carries through the
shrink loop what format and alpha channel owe to the input and the guild. `SizeInv` does the
same for the sides. `AnyFactor` gives each
shrink a factor n / d: where the factors that round the two sides to the new ones overlap, the lower end of the
overlap is one of them. The shrink loop rounds what it rounded before, and yet the proportions drift by a
bounded amount: each attempt scales the error by n / d, at most 9/10, and adds at most
half a pixel, and five pixels are the fixed point of that. So the bound holds for any number of attempts.

*Result message.* Four actors edit one message. `CommandInv` orders the command's own: the job starts
when the handler is done with the message, and the button appears by its final edit only.
`RefreshInv` is about the presses: none without the button, which nobody takes away, and
what a refresh has fetched carries a URL newer than its press.

Every invariant, action property and refinement of the passing runs is proved. Only model-checked is
liveness under fairness, which TLAPS cannot do: `ShutdownReturns`, `QueueMoves`, `EveryJobEnds`, `TrackerDrains`,
`CallsReturn`, `CommandSettles`, `EveryPressEnds`, `Terminates`, `EveryCommandAnswered`, `SignalStops` and
`StartsAgain`; and the absence of deadlocks.

## 6 Findings

Each of these is a run with a counterexample. The first three happen while Discord works;
`config_cache` needs one failing database call.

1. `auto_delete`: the original is deleted although an attachment failed. The loop of
   `handleMessage` counts and submits one attachment at a time; a first job that fails
   early empties the tracker entry (`reactions.go:96`) and takes the failure with it. What the
   code does guarantee is `DeletesOnlyCleanBatch`.
2. `auto_reactions`: the queued reaction stays forever when the job's context ends during
   the swap (`reactions.go:70-74`): the swap counts as done, and the cleanup
   removes only the other reaction.
3. `auto_silent`: a job that ran into its deadline reports the failure under the
   expired context (`messages.go:107`, likewise `interactions.go:107`), so nobody is told.
4. `config_cache`: a committed write whose reload fails leaves the old configuration in
   the cache (`service.go:89`); later updates of other settings write it back.

Seen in the same models or while reading, without a run of their own:

- `markDone` removes the reaction after it has released the mutex (`reactions.go:99-105`) and may
  hit the reaction of the next batch, while that one converts.
- A refresh whose two reads time out has used up its 30 s, which the follow-up that reports the failure
  shares (`interactions.go:158`), so the user is told nothing (`outcome[r] = "silent"` in
  `ResultMessage`), although `SPEC.md:1216` wants an ephemeral response to each failed refresh.
- `/config channel remove` in a guild without a row is answered as a failed update
  (`service.go:130`, `196-198`) instead of "Channel is not enabled."
- A `/config` command answered with "Failed to update" may have been stored: the write
  was committed and its reload failed. `AnswerTruthful` says only that it took effect as a whole or not at all.
- The comment at `reactions.go:39-41` has `markQueued` called after a successful submit, while
  `messages.go:65-67` calls it before (which is what the tracker needs).
- The gateway goroutine makes REST calls for the queued reaction and its roll-back
  (`messages.go:65`, `70`), while the queue-full reply has a goroutine of its own so as not to hold it up.
- A configuration change between two jobs of one message may post a reply to an original that is
  deleted afterwards (`messages.go:119`).
- Of two overlapping refreshes the older URL may be written last, though both are newer
  than the presses that asked for them (`interactions.go:211`).
- The shrink loop rounds sides that were rounded before (`encoder.go:48`), not those of
  the original, so the proportions of a small result drift by up to five pixels; `SizeAsConfigured`
  states that bound.
- A deadline during the download is told as "Failed to download the image" (`convert.go:44`), as
  `userMessage` looks for `errDownload` before the deadline.
- Shutdown waits for the pool only: not for refreshes, not for queue-full replies, and not for
  an event handler in progress, which may find the database closed.
- The kill flag set by `context.AfterFunc` (`encoder.go:126`) is not waited for: `stop()`
  returns while the function may still run, and the image is closed next.
- The two seconds of a `/config` interaction (`interactions.go:38`) bound its database calls,
  not its wait for the mutex of the service.
- A crash leaves the response of a queued `/convert` at "thinking": `CommandAnswered` excuses it by
  the history variable `missed`, as it does an answer under the job's ended context (finding 3).

## 7 Not modelled, and the plan

Left out: pixels, colours and metadata (libvips), container and redirect policy of downloads (an
outcome of the request), texts and formatting, the names of commands, the health endpoint and
`-selfcheck` (they report and change nothing), the fixture generator, container and CI files. Goroutines
outside the pool are modelled where they have an effect (`ResultMessage`, the queue-full reply),
but not what an exiting process does to them. Time is not counted, so neither are the three seconds of an
interaction. Bits and widths of integers matter nowhere: sizes stay far below 2^63.

Abstract specifications: the pool has `JobService`, the configuration service `ConfigStore`. Another one
worth stating is a tracker that knows the whole message at once, which `AutoConvert` implements for
messages with one attachment only (finding 1).

Next: this tracker, with the configuration of a message's jobs read from `ConfigStore` instead of
chosen, which would state the hazard at `messages.go:119` as a property.
