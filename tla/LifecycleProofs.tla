--------------------------- MODULE LifecycleProofs ---------------------------
(***************************************************************************)
(* Proofs about Lifecycle for any builds, jobs and workers, and any number *)
(* of crashes, signals and failures.                                       *)
(*                                                                         *)
(* SchemaInv follows the stored schema and the open transaction through    *)
(* Migrate: the record is always an interval from 1, what Migrate takes    *)
(* for the version is its end, and a transaction is one version ahead in   *)
(* both tables or neither when it commits. Past Migrate the interval ends  *)
(* at the build. ReadyInv says on which lines of run() each resource is up *)
(* and that jobs exist only between opening the gateway and the return of  *)
(* pool.Shutdown; the handler that closing the gateway leaves behind finds *)
(* the pool closed.                                                        *)
(***************************************************************************)
EXTENDS Lifecycle, FiniteSetTheorems, TLAPS

\* The lines of run() after database.Open and before the REST client is closed.
Serving == {"running", "closeGateway", "shutdownPool", "drain"}
PastOpen == Serving \cup {"client", "commands", "gateway", "closeClient"}

TypesInv ==
  /\ LifecycleTypeOK
  /\ pc = "down" => version = 0

SchemaInv ==
  /\ schema = recorded
  /\ \E n \in Nat : recorded = 1..n
  /\ pc \in {"migrate", "exec", "record", "commit"} => recorded = 1..version
  /\ pc \in {"exec", "record", "commit"} => version < build
  /\ pc = "exec" => tx = Stored
  /\ pc = "record" => tx = [schema |-> 1..version + 1, recorded |-> 1..version]
  /\ pc = "commit" =>
       tx = [schema |-> 1..version + 1, recorded |-> 1..version + 1]
  /\ pc \in PastOpen => recorded = 1..build

ReadyInv ==
  /\ pc \in Migrating \cup PastOpen => db
  /\ pc \notin {"down", "config", "imaging", "exit", "shutdownVips"} => vips
  /\ pc \in Serving \cup {"commands", "gateway"} => client
  /\ gateway => pc \in {"running", "closeGateway"}
  /\ handling # NoJob =>
       pc \in {"running", "closeGateway", "shutdownPool"} \/ phase # "open"
  /\ pc \notin Serving => Queued = {} /\ Running = {}

LifeInv == TypesInv /\ SchemaInv /\ ReadyInv

-----------------------------------------------------------------------------
(* Intervals. *)

\* MAX(version) of a record without gaps is its end, 0 of an empty one.
LEMMA LatestOfInterval ==
  ASSUME NEW n \in Nat, recorded = 1..n
  PROVE  Latest = n
<1>1. n \in recorded \cup {0} /\ \A w \in recorded : w <= n
  OBVIOUS
<1>2. ASSUME NEW v \in recorded \cup {0}, \A w \in recorded : w <= v
      PROVE  v = n
  BY <1>2
<1> QED BY <1>1, <1>2 DEF Latest

LEMMA NextInterval ==
  ASSUME NEW n \in Nat
  PROVE  1..n \cup {n + 1} = 1..n + 1
  OBVIOUS

LEMMA VersionsInBuild ==
  ASSUME NEW b \in Builds, NEW n \in 0..b
  PROVE  n \in Nat /\ 1..n \subseteq Versions
  BY LifecycleAssumption DEF Versions

-----------------------------------------------------------------------------
(* Types. *)

\* The end of the process leaves everything but the disk as at the start.
LEMMA DieTypes ==
  ASSUME LifecycleTypeOK, Die, stopped' \in BOOLEAN, trouble' \in 0..MaxTrouble
  PROVE  TypesInv'
<1>1. /\ image' \in Builds /\ build' \in Builds /\ version' \in 0..build'
      /\ schema' \subseteq Versions /\ recorded' \subseteq Versions
  BY LifecycleAssumption DEF LifecycleTypeOK, Die, disk
<1>2. /\ pc' = "down" /\ version' = 0 /\ tx' = NoTx /\ ctx' = "live"
      /\ handling' = NoJob
      /\ vips' = FALSE /\ db' = FALSE /\ client' = FALSE /\ gateway' = FALSE
  BY DEF Die
<1>3. ServiceTypeOK'
  BY DEF Die, ServiceTypeOK, Status
<1> QED BY <1>1, <1>2, <1>3 DEF TypesInv, LifecycleTypeOK, Point

LEMMA ServiceTypes ==
  ASSUME ServiceTypeOK, NEW j \in Jobs,
         \/ Accept(j) \/ Refuse(j) \/ Start(j) \/ End(j)
         \/ Close \/ Cancel \/ Return
  PROVE  ServiceTypeOK'
  BY DEF ServiceTypeOK, Status, Accept, Refuse, Start, End, Move, Close, Cancel, Return

LEMMA TroubleType ==
  ASSUME LifecycleTypeOK, Trouble
  PROVE  trouble' \in 0..MaxTrouble
  BY LifecycleAssumption DEF LifecycleTypeOK, Trouble

-----------------------------------------------------------------------------

LEMMA TypesInit == LifecycleInit => TypesInv
<1> SUFFICES ASSUME LifecycleInit PROVE TypesInv
  OBVIOUS
<1>1. /\ image \in Builds /\ build \in Builds /\ version \in 0..build
      /\ trouble \in 0..MaxTrouble
  BY LifecycleAssumption DEF LifecycleInit
<1>2. ServiceTypeOK
  BY DEF LifecycleInit, ServiceInit, ServiceTypeOK, Status
<1> QED BY <1>1, <1>2 DEF LifecycleInit, TypesInv, LifecycleTypeOK, Point

\* A transaction and its commit keep to the versions that the build knows.
LEMMA TxTypes ==
  ASSUME LifecycleTypeOK, version < build
  PROVE  /\ NextVersion \in 0..build /\ NextVersion \in Versions
         /\ Stored \in [schema : SUBSET Versions, recorded : SUBSET Versions]
         /\ Stored # NoTx
         /\ tx # NoTx =>
              /\ [tx EXCEPT !.schema = @ \cup {NextVersion}] \in
                   [schema : SUBSET Versions, recorded : SUBSET Versions] \ {NoTx}
              /\ [tx EXCEPT !.recorded = @ \cup {NextVersion}] \in
                   [schema : SUBSET Versions, recorded : SUBSET Versions] \ {NoTx}
              /\ tx.schema \subseteq Versions /\ tx.recorded \subseteq Versions
<1>1. build \in Builds /\ build \in Nat /\ version \in Nat
  <2>1. build \in Builds /\ version \in 0..build
    BY DEF LifecycleTypeOK
  <2>2. build \in Nat
    BY <2>1, LifecycleAssumption
  <2> QED BY <2>1, <2>2
<1>2. NextVersion \in 0..build /\ NextVersion \in Versions
  BY <1>1 DEF NextVersion, Versions
<1>3. Stored \in [schema : SUBSET Versions, recorded : SUBSET Versions] /\ Stored # NoTx
  BY LifecycleAssumption DEF Stored, LifecycleTypeOK
<1>4. ASSUME tx # NoTx
      PROVE  /\ [tx EXCEPT !.schema = @ \cup {NextVersion}] \in
                  [schema : SUBSET Versions, recorded : SUBSET Versions]
             /\ [tx EXCEPT !.recorded = @ \cup {NextVersion}] \in
                  [schema : SUBSET Versions, recorded : SUBSET Versions]
             /\ tx.schema \subseteq Versions /\ tx.recorded \subseteq Versions
  BY <1>2, <1>4 DEF LifecycleTypeOK
<1> QED BY <1>2, <1>3, <1>4, LifecycleAssumption

LEMMA StepTypes == TypesInv /\ SchemaInv /\ [LifecycleNext]_lifeVars => TypesInv'
<1> SUFFICES ASSUME TypesInv, SchemaInv, [LifecycleNext]_lifeVars PROVE TypesInv'
  OBVIOUS
<1>0. LifecycleTypeOK /\ build \in Nat /\ version \in 0..build
  BY LifecycleAssumption DEF TypesInv, LifecycleTypeOK
<1> USE DEF Point, Startup, WithCtx, Migrating
<1>1. CASE Crash \/ Exit \/ (Signal /\ pc \in {"config", "imaging"})
  BY <1>0, <1>1, DieTypes, TroubleType DEF Crash, Signal, Exit, LifecycleTypeOK
<1>2. CASE Signal /\ pc \notin {"config", "imaging"}
  BY <1>0, <1>2, TroubleType
  DEF Signal, TypesInv, LifecycleTypeOK, ServiceTypeOK, disk, resources, serviceVars
<1>3. CASE Boot
  BY <1>0, <1>3, LifecycleAssumption
  DEF Boot, TypesInv, LifecycleTypeOK, ServiceTypeOK, disk, operator, resources, serviceVars
<1>4. ASSUME NEW b \in Builds, Deploy(b) PROVE TypesInv'
  BY <1>0, <1>4
  DEF Deploy, TypesInv, LifecycleTypeOK, ServiceTypeOK, disk, resources, serviceVars
<1>5. CASE LoadRuntimeConfig \/ CheckImaging \/ OpenDatabase \/ Migrated
           \/ CreateClient \/ SyncCommands \/ OpenGateway
  BY <1>0, <1>5
  DEF LoadRuntimeConfig, CheckImaging, OpenDatabase, Migrated, CreateClient,
      SyncCommands, OpenGateway, Goto, TypesInv, LifecycleTypeOK, ServiceTypeOK,
      disk, operator, resources, serviceVars
<1>6. CASE ReadVersion
  <2>1. PICK n \in Nat : recorded = 1..n
    BY DEF SchemaInv
  <2>2. Latest \in 0..build
    BY <1>0, <1>6, <2>1, LatestOfInterval DEF ReadVersion
  <2> QED BY <1>0, <1>6, <2>2
          DEF ReadVersion, Goto, TypesInv, LifecycleTypeOK, ServiceTypeOK, disk,
              operator, resources, serviceVars
<1>7. CASE NewerSchema
  BY <1>0, <1>7
  DEF NewerSchema, MigrateGivesUp, Goto, TypesInv, LifecycleTypeOK, ServiceTypeOK,
      disk, operator, serviceVars
<1>8. CASE BeginTx
  BY <1>0, <1>8, TxTypes
  DEF BeginTx, Goto, TypesInv, LifecycleTypeOK, ServiceTypeOK, disk, operator,
      resources, serviceVars
<1>9. CASE ExecMigration
  <2>1. version < build /\ tx # NoTx
    BY <1>0, <1>9 DEF ExecMigration, SchemaInv, LifecycleTypeOK
  <2> QED BY <1>0, <1>9, <2>1, TxTypes
          DEF ExecMigration, MigrateGivesUp, Goto, TypesInv, LifecycleTypeOK,
              ServiceTypeOK, disk, operator, serviceVars
<1>10. CASE RecordVersion
  <2>1. version < build /\ tx # NoTx
    BY <1>0, <1>10 DEF RecordVersion, SchemaInv, LifecycleTypeOK
  <2> QED BY <1>0, <1>10, <2>1, TxTypes
          DEF RecordVersion, MigrateGivesUp, Goto, TypesInv, LifecycleTypeOK,
              ServiceTypeOK, disk, operator, serviceVars
<1>11. CASE Commit
  <2>1. version < build /\ tx # NoTx
    BY <1>0, <1>11 DEF Commit, SchemaInv, LifecycleTypeOK
  <2> QED BY <1>0, <1>11, <2>1, TxTypes
          DEF Commit, Store, Goto, TypesInv, LifecycleTypeOK, ServiceTypeOK,
              operator, resources, serviceVars
<1>12. CASE CommitUnknown
  <2>1. version < build /\ tx # NoTx
    BY <1>0, <1>12 DEF CommitUnknown, SchemaInv, LifecycleTypeOK
  <2> QED BY <1>0, <1>12, <2>1, TxTypes, TroubleType
          DEF CommitUnknown, Store, TypesInv, LifecycleTypeOK, ServiceTypeOK, serviceVars
<1>13. CASE CallFails
  BY <1>0, <1>13, TroubleType
  DEF CallFails, TypesInv, LifecycleTypeOK, ServiceTypeOK, disk, serviceVars
<1>14. CASE AwaitSignal \/ CloseGateway \/ CloseClient \/ CloseDatabase
  BY <1>0, <1>14
  DEF AwaitSignal, CloseGateway, CloseClient, CloseDatabase, Line, Goto, TypesInv,
      LifecycleTypeOK, ServiceTypeOK, disk, operator, resources, serviceVars
<1>15. CASE ShutdownPool \/ Drained \/ GraceExpires
  BY <1>0, <1>15, ServiceTypes
  DEF ShutdownPool, Drained, GraceExpires, Line, Goto, TypesInv, LifecycleTypeOK,
      Close, Return, Cancel, ServiceTypeOK, disk, operator, resources, lineVars
<1>16. ASSUME NEW j \in Jobs, Dispatch(j) PROVE TypesInv'
  BY <1>0, <1>16
  DEF Dispatch, TypesInv, LifecycleTypeOK, ServiceTypeOK, lineVars, disk, operator,
      resources, serviceVars
<1>17. ASSUME NEW j \in Jobs, Submit(j) \/ Work(j) PROVE TypesInv'
  <2>1. ServiceTypeOK'
    BY <1>0, <1>17, ServiceTypes DEF Submit, Work, LifecycleTypeOK
  <2> QED BY <1>0, <1>17, <2>1
          DEF Submit, Work, TypesInv, LifecycleTypeOK, lineVars, disk, operator, resources
<1>18. CASE Waits \/ UNCHANGED lifeVars
  BY <1>0, <1>18
  DEF Waits, lifeVars, TypesInv, LifecycleTypeOK, ServiceTypeOK, disk, operator,
      resources, serviceVars
<1> QED BY <1>1, <1>2, <1>3, <1>4, <1>5, <1>6, <1>7, <1>8, <1>9, <1>10, <1>11, <1>12,
           <1>13, <1>14, <1>15, <1>16, <1>17, <1>18
        DEF LifecycleNext, StartupStep, ShutdownStep

-----------------------------------------------------------------------------
(* The schema and its record. *)

LEMMA StepSchema == TypesInv /\ SchemaInv /\ [LifecycleNext]_lifeVars => SchemaInv'
<1> SUFFICES ASSUME TypesInv, SchemaInv, [LifecycleNext]_lifeVars PROVE SchemaInv'
  OBVIOUS
<1>0. /\ build \in Nat /\ version \in Nat /\ version <= build
      /\ NextVersion = version + 1
      /\ 1..version \cup {version + 1} = 1..version + 1
  BY LifecycleAssumption, NextInterval DEF TypesInv, LifecycleTypeOK, NextVersion
<1> USE DEF SchemaInv, PastOpen, Serving
<1>1. CASE Crash \/ Signal \/ Exit \/ Boot \/ (\E b \in Builds : Deploy(b))
  BY <1>1 DEF Crash, Signal, Exit, Die, Boot, Deploy, disk, Stored
<1>2. CASE LoadRuntimeConfig \/ CheckImaging \/ OpenDatabase \/ CreateClient
           \/ SyncCommands \/ OpenGateway
  BY <1>2
  DEF LoadRuntimeConfig, CheckImaging, OpenDatabase, CreateClient, SyncCommands,
      OpenGateway, Goto, disk
<1>3. CASE ReadVersion
  <2>1. PICK n \in Nat : recorded = 1..n
    OBVIOUS
  <2>2. version' = n
    BY <1>3, <2>1, LatestOfInterval DEF ReadVersion
  <2> QED BY <1>3, <2>1, <2>2 DEF ReadVersion, Goto, disk
<1>4. CASE NewerSchema \/ CallFails
  BY <1>4 DEF NewerSchema, MigrateGivesUp, CallFails, Goto, disk
<1>5. CASE BeginTx
  BY <1>0, <1>5 DEF BeginTx, Goto, disk, Stored
<1>6. CASE Migrated
  BY <1>6 DEF Migrated, Goto, disk
<1>7. CASE ExecMigration
  <2>1. UNCHANGED <<schema, recorded, version, build>>
    BY <1>7 DEF ExecMigration, disk
  <2>2. CASE pc' = "exit"
    BY <2>1, <2>2
  <2>3. CASE pc' = "record"
    <3>1. tx' = [tx EXCEPT !.schema = @ \cup {NextVersion}]
      BY <1>7, <2>3 DEF ExecMigration, MigrateGivesUp, Goto
    <3>2. tx = [schema |-> 1..version, recorded |-> 1..version]
      BY <1>7 DEF ExecMigration, Stored
    <3>3. tx' = [schema |-> 1..version + 1, recorded |-> 1..version]
      BY <1>0, <3>1, <3>2
    <3> QED BY <1>7, <2>1, <2>3, <3>3 DEF ExecMigration
  <2> QED BY <1>7, <2>2, <2>3 DEF ExecMigration, MigrateGivesUp, Goto
<1>8. CASE RecordVersion
  <2>1. UNCHANGED <<schema, recorded, version, build>>
    BY <1>8 DEF RecordVersion, disk
  <2>2. CASE pc' = "exit"
    BY <2>1, <2>2
  <2>3. CASE pc' = "commit"
    <3>1. tx' = [tx EXCEPT !.recorded = @ \cup {NextVersion}]
      BY <1>8, <2>3 DEF RecordVersion, MigrateGivesUp, Goto
    <3>2. tx = [schema |-> 1..version + 1, recorded |-> 1..version]
      BY <1>8 DEF RecordVersion
    <3>3. tx' = [schema |-> 1..version + 1, recorded |-> 1..version + 1]
      BY <1>0, <3>1, <3>2
    <3> QED BY <1>8, <2>1, <2>3, <3>3 DEF RecordVersion
  <2> QED BY <1>8, <2>2, <2>3 DEF RecordVersion, MigrateGivesUp, Goto
<1>9. CASE Commit \/ CommitUnknown
  <2>1. schema' = 1..version + 1 /\ recorded' = 1..version + 1
    BY <1>9 DEF Commit, CommitUnknown, Store
  <2>2. version + 1 \in Nat
    BY <1>0
  <2> QED BY <1>0, <1>9, <2>1, <2>2 DEF Commit, CommitUnknown, Goto
<1>10. CASE AwaitSignal \/ CloseGateway \/ ShutdownPool \/ Drained \/ CloseClient
            \/ CloseDatabase
  BY <1>10
  DEF AwaitSignal, CloseGateway, ShutdownPool, Drained, CloseClient, CloseDatabase,
      Line, Goto, disk
<1>11. CASE UNCHANGED lineVars
  BY <1>11 DEF lineVars, disk, Stored
<1>12. CASE GraceExpires \/ Waits \/ UNCHANGED lifeVars
            \/ \E j \in Jobs : Dispatch(j) \/ Submit(j) \/ Work(j)
  BY <1>11, <1>12
  DEF GraceExpires, Waits, lifeVars, lineVars, Dispatch, Submit, Work
<1> QED BY <1>1, <1>2, <1>3, <1>4, <1>5, <1>6, <1>7, <1>8, <1>9, <1>10, <1>12
        DEF LifecycleNext, StartupStep, ShutdownStep

-----------------------------------------------------------------------------
(* What is up. *)

LEMMA StepReady == TypesInv /\ ReadyInv /\ [LifecycleNext]_lifeVars => ReadyInv'
<1> SUFFICES ASSUME TypesInv, ReadyInv, [LifecycleNext]_lifeVars PROVE ReadyInv'
  OBVIOUS
<1>0. status \in [Jobs -> Status]
  BY DEF TypesInv, LifecycleTypeOK, ServiceTypeOK
<1> USE DEF ReadyInv, PastOpen, Serving, Migrating
<1>1. CASE Crash \/ Exit \/ (Signal /\ pc \in {"config", "imaging"})
  BY <1>1 DEF Crash, Exit, Signal, Die, Queued, Running
<1>2. CASE (Signal /\ pc \notin {"config", "imaging"}) \/ Boot
            \/ (\E b \in Builds : Deploy(b))
  BY <1>2 DEF Signal, Boot, Deploy, resources, serviceVars, Queued, Running
<1>3. CASE LoadRuntimeConfig \/ CheckImaging \/ OpenDatabase \/ ReadVersion \/ NewerSchema
  BY <1>3
  DEF LoadRuntimeConfig, CheckImaging, OpenDatabase, ReadVersion, NewerSchema,
      MigrateGivesUp, Goto, resources, serviceVars, Queued, Running
<1>4. CASE BeginTx \/ ExecMigration \/ RecordVersion \/ Commit \/ CommitUnknown
  BY <1>4
  DEF BeginTx, ExecMigration, RecordVersion, Commit, CommitUnknown,
      MigrateGivesUp, Goto, resources, serviceVars, Queued, Running
<1>5. CASE Migrated \/ CreateClient \/ SyncCommands \/ OpenGateway
  BY <1>5
  DEF Migrated, CreateClient, SyncCommands, OpenGateway, Goto, resources,
      serviceVars, Queued, Running
<1>6. CASE CallFails
  BY <1>6
  DEF CallFails, Startup, WithCtx, serviceVars, Queued, Running
<1>7. CASE AwaitSignal \/ CloseGateway \/ CloseClient \/ CloseDatabase
  BY <1>7
  DEF AwaitSignal, CloseGateway, CloseClient, CloseDatabase, Line, Goto, resources,
      serviceVars, Queued, Running
<1>8. CASE ShutdownPool \/ Drained \/ GraceExpires
  BY <1>8
  DEF ShutdownPool, Drained, GraceExpires, Line, Goto, Close, Cancel, Return,
      resources, lineVars, Queued, Running
<1>9. ASSUME NEW j \in Jobs, Dispatch(j) PROVE ReadyInv'
  BY <1>9 DEF Dispatch, lineVars, resources, serviceVars, Queued, Running
\* Only Submit makes a job wait, and only in an open pool.
<1>10. ASSUME NEW j \in Jobs, Submit(j) PROVE ReadyInv'
  <2>1. UNCHANGED <<pc, db, vips, client, gateway, phase>> /\ handling' = NoJob
    BY <1>10 DEF Submit, Accept, Refuse, lineVars, resources
  <2>2. CASE pc \in Serving
    BY <2>1, <2>2
  <2>3. CASE pc \notin Serving
    <3>1. phase # "open"
      BY <1>10, <2>3, LifecycleAssumption DEF Submit
    <3>2. status' = [status EXCEPT ![j] = "refused"]
      BY <1>10, <3>1 DEF Submit, Accept, Refuse, Move
    <3>3. Queued' = {} /\ Running' = {}
      BY <1>0, <2>3, <3>2 DEF Queued, Running
    <3> QED BY <2>1, <3>3
  <2> QED BY <2>2, <2>3
<1>11. ASSUME NEW j \in Jobs, Work(j) PROVE ReadyInv'
  <2>1. pc \in Serving
    BY <1>11 DEF Work, Start, End, Queued, Running
  <2> QED BY <1>11, <2>1 DEF Work, Start, End, lineVars, resources
<1>12. CASE Waits \/ UNCHANGED lifeVars
  BY <1>12 DEF Waits, lifeVars, resources, serviceVars, Queued, Running
<1> QED BY <1>1, <1>2, <1>3, <1>4, <1>5, <1>6, <1>7, <1>8, <1>9, <1>10, <1>11, <1>12
        DEF LifecycleNext, StartupStep, ShutdownStep

-----------------------------------------------------------------------------

LEMMA LifeInit == LifecycleInit => LifeInv
<1> SUFFICES ASSUME LifecycleInit PROVE LifeInv
  OBVIOUS
<1>1. SchemaInv
  <2>1. recorded = 1..0
    BY DEF LifecycleInit
  <2> QED BY <2>1 DEF LifecycleInit, SchemaInv, PastOpen, Serving
<1>2. ReadyInv
  BY DEF LifecycleInit, ServiceInit, ReadyInv, PastOpen, Serving, Migrating, Queued, Running
<1> QED BY <1>1, <1>2, TypesInit DEF LifeInv

LEMMA LifeInvariance == LifecycleSpec => []LifeInv
<1>1. LifeInv /\ [LifecycleNext]_lifeVars => LifeInv'
  BY StepTypes, StepSchema, StepReady DEF LifeInv
<1> QED BY LifeInit, <1>1, PTL DEF LifecycleSpec

\* Types; a transaction is open exactly on the lines of applyMigration.
THEOREM LifecycleTypeCorrect == LifecycleSpec => []LifecycleTypeOK
<1>1. LifeInv => LifecycleTypeOK
  BY DEF LifeInv, TypesInv
<1> QED BY LifeInvariance, <1>1, PTL

\* For any sequence of builds, however often the process dies and in the middle
\* of whatever statement: the database has exactly the changes it has recorded
\* (migrations.go:62).
THEOREM SchemaIsRecorded == LifecycleSpec => []SchemaMatchesRecord
<1>1. LifeInv => SchemaMatchesRecord
  <2> SUFFICES ASSUME LifeInv PROVE SchemaMatchesRecord
    OBVIOUS
  <2>1. PICK n \in Nat : recorded = 1..n
    BY DEF LifeInv, SchemaInv
  <2>2. Cardinality(1..n) = n
    BY <2>1, FS_Interval
  <2> QED BY <2>1, <2>2 DEF LifeInv, SchemaInv, SchemaMatchesRecord
<1> QED BY LifeInvariance, <1>1, PTL

\* Events are received, and jobs wait or run, only on the schema of the build
\* and while database, libvips and REST client are up, from OpenGateway to the
\* return of pool.Shutdown (main.go:81, main.go:137).
THEOREM NeverWorksUnready == LifecycleSpec => []WorksOnlyReady
<1>1. LifeInv => WorksOnlyReady
  BY DEF LifeInv, SchemaInv, ReadyInv, WorksOnlyReady, PastOpen, Serving
<1> QED BY LifeInvariance, <1>1, PTL

\* Besides the steps of the service there is only the end of the process, after
\* which the next one finds a pool of its own.
OnePoolPerProcess ==
  [][ServiceNext \/ (pc' = "down" /\ ServiceInit')]_serviceVars

\* run() and the event handler use the pool only as JobService allows, and no
\* process uses the pool of an earlier one (main.go).
THEOREM LifecycleUsesService == LifecycleSpec => ServiceInit /\ OnePoolPerProcess
<1> DEFINE Used == ServiceNext \/ (pc' = "down" /\ ServiceInit')
<1>1. LifecycleInit => ServiceInit
  BY DEF LifecycleInit
<1>2. [LifecycleNext]_lifeVars => [Used]_serviceVars
  <2> SUFFICES ASSUME [LifecycleNext]_lifeVars PROVE [Used]_serviceVars
    OBVIOUS
  <2>1. ASSUME Die PROVE Used
    BY <2>1 DEF Die, ServiceInit
  <2>2. ASSUME ShutdownPool \/ GraceExpires \/ Drained PROVE Used
    BY <2>2 DEF ShutdownPool, GraceExpires, Drained, ServiceNext
  <2>3. ASSUME NEW j \in Jobs, Submit(j) \/ Work(j) PROVE Used
    BY <2>3 DEF Submit, Work, ServiceNext
  <2>4. ASSUME Boot \/ StartupStep \/ CallFails \/ CommitUnknown PROVE UNCHANGED serviceVars
    BY <2>4 DEF Boot, StartupStep, CallFails, CommitUnknown, LoadRuntimeConfig, CheckImaging,
                OpenDatabase, ReadVersion, NewerSchema, BeginTx, ExecMigration, RecordVersion,
                Commit, Migrated, CreateClient, SyncCommands, OpenGateway
  <2>5. ASSUME AwaitSignal \/ CloseGateway \/ CloseClient \/ CloseDatabase
        PROVE  UNCHANGED serviceVars
    BY <2>5 DEF AwaitSignal, CloseGateway, CloseClient, CloseDatabase
  <2>6. ASSUME (\E j \in Jobs : Dispatch(j)) \/ (\E b \in Builds : Deploy(b)) \/ Waits
                 \/ UNCHANGED lifeVars
        PROVE  UNCHANGED serviceVars
    BY <2>6 DEF Dispatch, Deploy, Waits, lifeVars
  <2>7. ASSUME Signal \/ Crash \/ Exit PROVE Die \/ UNCHANGED serviceVars
    BY <2>7 DEF Signal, Crash, Exit
  <2> QED
    BY <2>1, <2>2, <2>3, <2>4, <2>5, <2>6, <2>7 DEF LifecycleNext, ShutdownStep
<1> QED BY <1>1, <1>2, PTL DEF LifecycleSpec, OnePoolPerProcess

==============================================================================
