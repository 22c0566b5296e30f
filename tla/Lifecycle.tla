------------------------------ MODULE Lifecycle ------------------------------
(***************************************************************************)
(* cmd/bot/main.go: the life of the process, from run() with the database  *)
(* migrations (internal/database) to the shutdown, over and over in its    *)
(* container: it may crash between any two steps, be stopped by a signal,  *)
(* and be started again as the same build or as one that knows more or     *)
(* fewer migrations.                                                       *)
(*                                                                         *)
(* The worker pool is JobService; an event of the gateway is the           *)
(* submission of a job.  SQLite keeps what was committed: a transaction is *)
(* a copy that replaces the stored state when it commits.                  *)
(***************************************************************************)
EXTENDS JobService

CONSTANTS
  Builds,      \* a build is the number of migrations it knows
  Once,        \* migrations that fail when their change is there already:
               \* ALTER TABLE ADD COLUMN, but not CREATE ... IF NOT EXISTS
  MaxTrouble,  \* bound on signals, crashes and failing calls together
  NoTx, NoJob

Versions == UNION {1..b : b \in Builds}

ASSUME LifecycleAssumption ==
  /\ Builds \subseteq Nat \ {0} /\ Builds # {}
  /\ Once \subseteq Nat
  /\ MaxTrouble \in Nat
  /\ NoJob \notin Jobs
  /\ NoTx \notin [schema : SUBSET Versions, recorded : SUBSET Versions]

VARIABLES
  schema,   \* stored: the changes made to the schema
  recorded, \* stored: the versions in schema_migrations
  image,    \* the build that is deployed
  stopped,  \* the container was stopped by its operator
  trouble,  \* how many signals, crashes and failures there were
  pc,       \* where run() stands
  build,    \* the build that runs
  version,  \* Migrate: the migrations it knows to be applied
  tx,       \* the open transaction
  ctx,      \* "live", or "done" after a signal
  vips, db, client, gateway, \* what is up
  handling  \* the job that the gateway's event handler is about to submit

disk == <<schema, recorded>>
operator == <<image, stopped, trouble>>
resources == <<vips, db, client, gateway>>
lifeVars == <<disk, operator, pc, build, version, tx, ctx, resources, handling,
              serviceVars>>

\* The lines of run() where a call can fail: those of Open and Migrate with
\* the database open, those that take ctx, all of them.
Migrating == {"version", "migrate", "exec", "record", "commit"}
WithCtx == Migrating \cup {"open", "gateway"}
Startup == WithCtx \cup {"config", "imaging", "client", "commands"}

Point == Startup \cup {"down", "running", "closeGateway", "shutdownPool",
                      "drain", "closeClient", "exit", "shutdownVips"}

Stored == [schema |-> schema, recorded |-> recorded]

LifecycleTypeOK ==
  /\ ServiceTypeOK
  /\ schema \subseteq Versions /\ recorded \subseteq Versions
  /\ image \in Builds /\ build \in Builds
  /\ version \in 0..build
  /\ tx \in [schema : SUBSET Versions, recorded : SUBSET Versions] \cup {NoTx}
  /\ tx # NoTx <=> pc \in {"exec", "record", "commit"}
  /\ stopped \in BOOLEAN /\ trouble \in 0..MaxTrouble
  /\ pc \in Point
  /\ ctx \in {"live", "done"}
  /\ {vips, db, client, gateway} \subseteq BOOLEAN
  /\ handling \in Jobs \cup {NoJob}

LifecycleInit ==
  /\ schema = {} /\ recorded = {}
  /\ image \in Builds /\ build = image
  /\ stopped = FALSE /\ trouble = 0
  /\ pc = "down" /\ version = 0 /\ tx = NoTx /\ ctx = "live"
  /\ vips = FALSE /\ db = FALSE /\ client = FALSE /\ gateway = FALSE
  /\ handling = NoJob
  /\ ServiceInit

-----------------------------------------------------------------------------
(* Around the process *)

\* The container runs the deployed build; restart: unless-stopped.
Boot ==
  /\ pc = "down" /\ ~stopped
  /\ pc' = "config" /\ build' = image
  /\ UNCHANGED <<disk, operator, version, tx, ctx, resources, handling,
                 serviceVars>>

\* The operator starts a stopped container, with whatever build.
Deploy(b) ==
  /\ pc = "down" /\ stopped
  /\ image' = b /\ stopped' = FALSE
  /\ UNCHANGED <<disk, trouble, pc, build, version, tx, ctx, resources,
                 handling, serviceVars>>

Trouble == trouble < MaxTrouble /\ trouble' = trouble + 1

\* The process is gone, and with it all that was not committed.
Die ==
  /\ pc' = "down" /\ version' = 0 /\ tx' = NoTx /\ ctx' = "live"
  /\ vips' = FALSE /\ db' = FALSE /\ client' = FALSE /\ gateway' = FALSE
  /\ handling' = NoJob
  /\ status' = [j \in Jobs |-> "new"] /\ phase' = "open" /\ cancelled' = FALSE
  /\ UNCHANGED <<disk, image, build>>

Crash == pc # "down" /\ Trouble /\ Die /\ UNCHANGED stopped

\* SIGTERM: before signal.NotifyContext it kills, then it ends ctx.
Signal ==
  /\ pc # "down" /\ Trouble
  /\ stopped' = TRUE
  /\ IF pc \in {"config", "imaging"} THEN Die
     ELSE /\ ctx' = "done"
          /\ UNCHANGED <<disk, image, pc, build, version, tx, resources,
                         handling, serviceVars>>

-----------------------------------------------------------------------------
(* run(): startup *)

\* On to the next line.
Goto(next) == pc' = next /\ UNCHANGED operator

\* A call of the startup returns an error, one with ctx for sure once ctx is
\* done. The transaction is rolled back, Open closes its database, and the
\* deferred calls run.
CallFails ==
  /\ pc \in Startup
  /\ Trouble \/ (ctx = "done" /\ pc \in WithCtx /\ UNCHANGED trouble)
  /\ pc' = "exit" /\ tx' = NoTx
  /\ db' = (db /\ pc \notin Migrating)
  /\ UNCHANGED <<disk, image, stopped, build, version, ctx, vips, client,
                 gateway, handling, serviceVars>>

LoadRuntimeConfig ==
  /\ pc = "config" /\ Goto("imaging")
  /\ UNCHANGED <<disk, build, version, tx, ctx, resources, handling,
                 serviceVars>>

\* imageproc.Startup and CheckCapabilities; then signal.NotifyContext.
CheckImaging ==
  /\ pc = "imaging" /\ Goto("open")
  /\ vips' = TRUE
  /\ UNCHANGED <<disk, build, version, tx, ctx, db, client, gateway, handling,
                 serviceVars>>

\* database.Open up to Migrate, and its CREATE TABLE IF NOT EXISTS.
OpenDatabase ==
  /\ pc = "open" /\ ctx = "live" /\ Goto("version")
  /\ db' = TRUE
  /\ UNCHANGED <<disk, build, version, tx, ctx, vips, client, gateway,
                 handling, serviceVars>>

\* SELECT COALESCE(MAX(version), 0).
Latest == CHOOSE v \in recorded \cup {0} : \A w \in recorded : w <= v

\* Migrate returns an error of its own.
MigrateGivesUp == Goto("exit") /\ tx' = NoTx /\ db' = FALSE

\* Mutant: a schema newer than the build is taken for its own.
ReadVersionUnchecked ==
  /\ pc = "version" /\ ctx = "live" /\ Goto("migrate")
  /\ version' = IF Latest > build THEN build ELSE Latest
  /\ UNCHANGED <<disk, build, tx, ctx, resources, handling, serviceVars>>

ReadVersion ==
  /\ pc = "version" /\ ctx = "live"
  /\ Latest <= build
  /\ Goto("migrate") /\ version' = Latest
  /\ UNCHANGED <<disk, build, tx, ctx, resources, handling, serviceVars>>

\* Mutant: >= for >.
NewerOrEqualSchema ==
  /\ pc = "version" /\ ctx = "live"
  /\ Latest >= build
  /\ MigrateGivesUp
  /\ UNCHANGED <<disk, build, version, ctx, vips, client, gateway, handling,
                 serviceVars>>

\* The schema is newer than this build supports.
NewerSchema ==
  /\ pc = "version" /\ ctx = "live"
  /\ Latest > build
  /\ MigrateGivesUp
  /\ UNCHANGED <<disk, build, version, ctx, vips, client, gateway, handling,
                 serviceVars>>

\* Mutant: the loop runs to len(migrations) included.
BeginOnePast ==
  /\ pc = "migrate" /\ ctx = "live"
  /\ version <= build
  /\ Goto("exec") /\ tx' = Stored
  /\ UNCHANGED <<disk, build, version, ctx, resources, handling, serviceVars>>

\* applyMigration, for the version after the last.
BeginTx ==
  /\ pc = "migrate" /\ ctx = "live"
  /\ version < build
  /\ Goto("exec") /\ tx' = Stored
  /\ UNCHANGED <<disk, build, version, ctx, resources, handling, serviceVars>>

Migrated ==
  /\ pc = "migrate" /\ version = build
  /\ Goto("client")
  /\ UNCHANGED <<disk, build, version, tx, ctx, resources, handling,
                 serviceVars>>

NextVersion == version + 1

\* Mutant: the statement runs on db, outside of the transaction.
ExecMigrationOutside ==
  /\ pc = "exec" /\ ctx = "live"
  /\ IF NextVersion \in Once \cap tx.schema
     THEN MigrateGivesUp /\ UNCHANGED schema
     ELSE /\ Goto("record")
          /\ tx' = [tx EXCEPT !.schema = @ \cup {NextVersion}]
          /\ schema' = schema \cup {NextVersion}
          /\ UNCHANGED db
  /\ UNCHANGED <<recorded, build, version, ctx, vips, client, gateway,
                 handling, serviceVars>>

\* The statement of the migration: a column cannot be added twice.
ExecMigration ==
  /\ pc = "exec" /\ ctx = "live"
  /\ IF NextVersion \in Once \cap tx.schema
     THEN MigrateGivesUp
     ELSE Goto("record") /\ tx' = [tx EXCEPT !.schema = @ \cup {NextVersion}] /\ UNCHANGED db
  /\ UNCHANGED <<disk, build, version, ctx, vips, client, gateway, handling,
                 serviceVars>>

\* INSERT INTO schema_migrations, whose primary key is the version.
RecordVersion ==
  /\ pc = "record" /\ ctx = "live"
  /\ IF NextVersion \in tx.recorded
     THEN MigrateGivesUp
     ELSE Goto("commit") /\ tx' = [tx EXCEPT !.recorded = @ \cup {NextVersion}] /\ UNCHANGED db
  /\ UNCHANGED <<disk, build, version, ctx, vips, client, gateway, handling,
                 serviceVars>>

Store == schema' = tx.schema /\ recorded' = tx.recorded /\ tx' = NoTx

Commit ==
  /\ pc = "commit" /\ ctx = "live"
  /\ Goto("migrate")
  /\ Store /\ version' = NextVersion
  /\ UNCHANGED <<build, ctx, resources, handling, serviceVars>>

\* The transaction is committed, but Commit reports an error.
CommitUnknown ==
  /\ pc = "commit"
  /\ Trouble /\ UNCHANGED <<image, stopped>>
  /\ pc' = "exit" /\ db' = FALSE
  /\ Store
  /\ UNCHANGED <<build, version, ctx, vips, client, gateway, handling,
                 serviceVars>>

\* disgo.New and bot.New.
CreateClient ==
  /\ pc = "client" /\ Goto("commands")
  /\ client' = TRUE
  /\ UNCHANGED <<disk, build, version, tx, ctx, vips, db, gateway, handling,
                 serviceVars>>

\* syncCommands: for one guild or for all.
SyncCommands ==
  /\ pc = "commands" /\ Goto("gateway")
  /\ UNCHANGED <<disk, build, version, tx, ctx, resources, handling,
                 serviceVars>>

OpenGateway ==
  /\ pc = "gateway" /\ ctx = "live" /\ Goto("running")
  /\ gateway' = TRUE
  /\ UNCHANGED <<disk, build, version, tx, ctx, vips, db, client, handling,
                 serviceVars>>

-----------------------------------------------------------------------------
(* run(): service and shutdown *)

lineVars == <<disk, operator, pc, build, version, tx, ctx, resources>>

\* An event arrives; its handler is called.
Dispatch(j) ==
  /\ gateway /\ handling = NoJob /\ status[j] = "new"
  /\ handling' = j
  /\ UNCHANGED <<lineVars, serviceVars>>

\* The handler calls TrySubmit. Closing the gateway does not wait for it.
Submit(j) ==
  /\ handling = j /\ handling' = NoJob
  /\ Accept(j) \/ Refuse(j)
  /\ UNCHANGED lineVars

Work(j) == (Start(j) \/ End(j)) /\ UNCHANGED <<lineVars, handling>>

Line(from, to) == pc = from /\ Goto(to)

AwaitSignal ==
  /\ Line("running", "closeGateway") /\ ctx = "done"
  /\ UNCHANGED <<disk, build, version, tx, ctx, resources, handling,
                 serviceVars>>

CloseGateway ==
  /\ Line("closeGateway", "shutdownPool")
  /\ gateway' = FALSE
  /\ UNCHANGED <<disk, build, version, tx, ctx, vips, db, client, handling,
                 serviceVars>>

\* pool.Shutdown: it stops accepting jobs,
ShutdownPool ==
  /\ Line("shutdownPool", "drain") /\ Close
  /\ UNCHANGED <<disk, build, version, tx, ctx, resources, handling>>

\* Mutant: Shutdown's context has no deadline.
GraceNeverExpires == FALSE /\ UNCHANGED lifeVars

\* cancels the jobs when shutdownGrace has passed,
GraceExpires ==
  /\ pc = "drain" /\ Cancel
  /\ UNCHANGED <<lineVars, handling>>

\* and returns when no job is left.
Drained ==
  /\ Line("drain", "closeClient") /\ Return
  /\ UNCHANGED <<disk, build, version, tx, ctx, resources, handling>>

CloseClient ==
  /\ Line("closeClient", "exit")
  /\ client' = FALSE
  /\ UNCHANGED <<disk, build, version, tx, ctx, vips, db, gateway, handling,
                 serviceVars>>

\* The deferred calls, last one first: the database, libvips, the process.
CloseDatabase ==
  /\ Line("exit", "shutdownVips")
  /\ db' = FALSE
  /\ UNCHANGED <<disk, build, version, tx, ctx, vips, client, gateway,
                 handling, serviceVars>>

Exit == pc = "shutdownVips" /\ Die /\ UNCHANGED <<stopped, trouble>>

-----------------------------------------------------------------------------

StartupStep ==
  \/ LoadRuntimeConfig \/ CheckImaging \/ OpenDatabase
  \/ ReadVersion \/ NewerSchema
  \/ BeginTx \/ ExecMigration \/ RecordVersion \/ Commit
  \/ Migrated \/ CreateClient \/ SyncCommands \/ OpenGateway

ShutdownStep ==
  \/ AwaitSignal \/ CloseGateway \/ ShutdownPool \/ Drained \/ CloseClient
  \/ CloseDatabase \/ Exit

\* run() waits for a signal, the gateway for events.
Waits == pc = "running" /\ ctx = "live" /\ UNCHANGED lifeVars

LifecycleNext ==
  \/ Boot \/ StartupStep \/ CallFails \/ CommitUnknown
  \/ ShutdownStep \/ GraceExpires
  \/ \E j \in Jobs : Dispatch(j) \/ Submit(j) \/ Work(j)
  \/ \E b \in Builds : Deploy(b)
  \/ Signal \/ Crash \/ Waits

LifecycleSpec == LifecycleInit /\ [][LifecycleNext]_lifeVars

(***************************************************************************)
(* The container starts what was not stopped; run() goes from line to      *)
(* line, and with ctx done its calls with ctx fail; the grace period       *)
(* passes; a worker takes a queued job. A job is only sure to end once its *)
(* context is cancelled.                                                   *)
(***************************************************************************)
LifecycleFairness ==
  /\ WF_lifeVars(Boot)
  /\ WF_lifeVars(StartupStep \/ ShutdownStep \/ (ctx = "done" /\ CallFails))
  /\ WF_lifeVars(GraceExpires)
  /\ \A j \in Jobs :
       /\ WF_lifeVars(Submit(j))
       /\ WF_lifeVars(Start(j) /\ UNCHANGED <<lineVars, handling>>)
       /\ WF_lifeVars(cancelled /\ End(j) /\ UNCHANGED <<lineVars, handling>>)

FairLifecycleSpec == LifecycleSpec /\ LifecycleFairness

-----------------------------------------------------------------------------
(* Properties *)

\* Whenever the process dies, and whatever builds ran before, the database
\* has exactly the changes it has recorded, and those without a gap: the next
\* start neither repeats an ALTER TABLE nor skips one (migrations.go:62).
SchemaMatchesRecord ==
  /\ schema = recorded
  /\ recorded = 1..Cardinality(recorded)

\* The bot listens to Discord, and jobs wait or run, only with the very schema
\* of its build, and with the database, libvips and the REST client up: this
\* holds from the first event to the last job of the shutdown (main.go:81 and
\* main.go:137).
WorksOnlyReady ==
  gateway \/ Queued # {} \/ Running # {}
    => /\ schema = 1..build
       /\ db /\ vips /\ client

\* A signal ends the process, wherever run() is and whatever its jobs do.
SignalStops == ctx = "done" ~> pc = "down"

\* After the last fault the bot listens again, unless it was stopped or an
\* older build was deployed on a newer schema: no crash, failure or
\* interrupted migration leaves a database that cannot be started on.
StartsAgain ==
  (trouble = MaxTrouble /\ ~stopped /\ Latest <= image) ~> gateway

=============================================================================
