---------------------------- MODULE ConfigService ----------------------------
(***************************************************************************)
(* internal/config/service.go: the configuration of every guild, stored in *)
(* SQLite and cached in memory behind one RWMutex. Callers are the gateway *)
(* goroutine, the conversion jobs and the /config commands. Every database *)
(* call may fail, the caller's context included, and the process may crash *)
(* between any two of them and start again with an empty cache.            *)
(*                                                                         *)
(* ConfigStore is the specification of this service without any of that.   *)
(***************************************************************************)
EXTENDS ConfigModel

CONSTANTS
  NoRow,     \* no row for the guild in guild_configs
  NoConfig,  \* no cache entry
  Nobody     \* the mutex is not write-locked

Row == [width : Widths, deleteOriginal : BOOLEAN]

ASSUME NoConfusion ==
  /\ NoRow \notin Row
  /\ NoConfig \notin Config
  /\ Nobody \notin Callers

VARIABLES
  rows,      \* table guild_configs
  channels,  \* table allowed_channels
  cache,     \* Service.cache
  lock,      \* who holds mu for writing
  pc,        \* where each caller stands
  op,        \* the operation it performs
  result,    \* what its last operation returned
  unread     \* history: guilds written since a load of them succeeded

vars == <<rows, channels, cache, lock, pc, op, result, unread>>

CallState == {"idle", "locking", "load", "firstReload", "write", "lastReload"}
Result == {"none", "ok", "invalid", "error"}

TypeOK ==
  /\ rows \in [Guilds -> Row \cup {NoRow}]
  /\ channels \in [Guilds -> SUBSET Channels]
  /\ cache \in [Guilds -> Config \cup {NoConfig}]
  /\ lock \in Callers \cup {Nobody}
  /\ pc \in [Callers -> CallState]
  /\ op \in [Callers -> Ops \cup {NoOp}]
  /\ \A c \in Callers : pc[c] = "idle" <=> op[c] = NoOp
  /\ result \in [Callers -> Result]
  /\ unread \subseteq Guilds

Init ==
  /\ rows = [g \in Guilds |-> NoRow]
  /\ channels = [g \in Guilds |-> {}]
  /\ cache = [g \in Guilds |-> NoConfig]
  /\ lock = Nobody
  /\ pc = [c \in Callers |-> "idle"]
  /\ op = [c \in Callers |-> NoOp]
  /\ result = [c \in Callers |-> "none"]
  /\ unread = {}

DefaultRow == [width |-> DefaultWidth, deleteOriginal |-> FALSE]

\* What reloadLocked reads for a guild that has a row.
Stored(g) ==
  [width |-> rows[g].width, deleteOriginal |-> rows[g].deleteOriginal,
   channels |-> channels[g]]

\* What a guild's configuration is: without a row, the defaults.
Effective(g) == IF rows[g] = NoRow THEN DefaultConfig ELSE Stored(g)

-----------------------------------------------------------------------------

Goto(c, state) == pc' = [pc EXCEPT ![c] = state]

\* Leave the call, releasing the mutex.
Return(c, r) ==
  /\ result' = [result EXCEPT ![c] = r]
  /\ pc' = [pc EXCEPT ![c] = "idle"]
  /\ op' = [op EXCEPT ![c] = NoOp]
  /\ lock' = Nobody

\* Go on inside the critical section.
Proceed(c, state) == Goto(c, state) /\ UNCHANGED <<lock, op, result>>

(***************************************************************************)
(* Get looks at the cache under the read lock first; a miss, and every     *)
(* other operation, goes for the write lock.                               *)
(***************************************************************************)
Call(c, o) ==
  /\ pc[c] = "idle"
  /\ o.kind = "get" => lock = Nobody /\ cache[o.guild] = NoConfig
  /\ Goto(c, "locking")
  /\ op' = [op EXCEPT ![c] = o]
  /\ result' = [result EXCEPT ![c] = "none"]
  /\ UNCHANGED <<rows, channels, cache, lock, unread>>

GetCached(c, g) ==
  /\ pc[c] = "idle"
  /\ lock = Nobody
  /\ cache[g] # NoConfig
  /\ result' = [result EXCEPT ![c] = "ok"]
  /\ UNCHANGED <<rows, channels, cache, lock, pc, op, unread>>

Lock(c) ==
  /\ pc[c] = "locking"
  /\ lock = Nobody
  /\ lock' = c
  /\ Goto(c, IF op[c].kind \in {"remove", "reset"} THEN "write" ELSE "load")
  /\ UNCHANGED <<rows, channels, cache, op, result, unread>>

\* With the configuration at hand, Get returns and the others write.
Loaded(c) ==
  IF op[c].kind = "get" THEN Return(c, "ok") ELSE Proceed(c, "write")

\* loadOrCreateLocked; Get's second look at the cache is the same test.
LoadCached(c) ==
  /\ pc[c] = "load"
  /\ cache[op[c].guild] # NoConfig
  /\ Loaded(c)
  /\ UNCHANGED <<rows, channels, cache, unread>>

\* Mutant: INSERT OR REPLACE for INSERT OR IGNORE.
InsertOrReplace(c) ==
  LET g == op[c].guild
  IN  /\ pc[c] = "load"
      /\ cache[g] = NoConfig
      /\ rows' = [rows EXCEPT ![g] = DefaultRow]
      /\ Proceed(c, "firstReload")
      /\ UNCHANGED <<channels, cache, unread>>

InsertDefault(c) ==
  LET g == op[c].guild
  IN  /\ pc[c] = "load"
      /\ cache[g] = NoConfig
      /\ rows' = [rows EXCEPT ![g] = IF @ = NoRow THEN DefaultRow ELSE @]
      /\ Proceed(c, "firstReload")
      /\ UNCHANGED <<channels, cache, unread>>

\* Mutant: an existing cache entry is not replaced.
ReloadKeepsEntry(c) ==
  LET g == op[c].guild
      found == rows[g] # NoRow
  IN  /\ pc[c] \in {"firstReload", "lastReload"}
      /\ cache' = [cache EXCEPT ![g] =
                     IF ~found THEN NoConfig ELSE IF @ # NoConfig THEN @ ELSE Stored(g)]
      /\ unread' = unread \ {g}
      /\ IF ~found THEN Return(c, "error")
         ELSE IF pc[c] = "firstReload" THEN Loaded(c) ELSE Return(c, "ok")
      /\ UNCHANGED <<rows, channels>>

\* reloadLocked: found, or not found (the entry is dropped).
Reload(c) ==
  LET g == op[c].guild
      found == rows[g] # NoRow
  IN  /\ pc[c] \in {"firstReload", "lastReload"}
      /\ cache' = [cache EXCEPT ![g] = IF found THEN Stored(g) ELSE NoConfig]
      /\ unread' = unread \ {g}
      /\ IF ~found THEN Return(c, "error")
         ELSE IF pc[c] = "firstReload" THEN Loaded(c) ELSE Return(c, "ok")
      /\ UNCHANGED <<rows, channels>>

\* Mutant: the write is not followed by a reload.
WroteOnly(c) ==
  /\ Return(c, "ok")
  /\ UNCHANGED <<cache, unread>>

(***************************************************************************)
(* The writes. Update writes every column, from the configuration it found *)
(* in the cache. allowed_channels references guild_configs, so an insert   *)
(* without a row fails; deleting the row would cascade.                    *)
(***************************************************************************)
Wrote(c) ==
  /\ Proceed(c, "lastReload")
  /\ unread' = unread \cup {op[c].guild}
  /\ UNCHANGED cache

Mutated(c) ==
  LET cfg == cache[op[c].guild]
  IN  IF op[c].kind = "setWidth" THEN [cfg EXCEPT !.width = op[c].width]
      ELSE [cfg EXCEPT !.deleteOriginal = op[c].flag]

IsUpdate(c) == op[c].kind \in {"setWidth", "setDelete"}

\* Mutant: settings are stored before they are validated.
UpdateUnchecked(c) ==
  LET g == op[c].guild
      cfg == Mutated(c)
  IN  /\ pc[c] = "write" /\ IsUpdate(c)
      /\ rows' = [rows EXCEPT ![g] =
                    IF @ = NoRow THEN NoRow
                    ELSE [width |-> cfg.width, deleteOriginal |-> cfg.deleteOriginal]]
      /\ Wrote(c)
      /\ UNCHANGED channels

Update(c) ==
  LET g == op[c].guild
      cfg == Mutated(c)
  IN  /\ pc[c] = "write" /\ IsUpdate(c)
      /\ Validate(cfg)
      /\ rows' = [rows EXCEPT ![g] =
                    IF @ = NoRow THEN NoRow
                    ELSE [width |-> cfg.width, deleteOriginal |-> cfg.deleteOriginal]]
      /\ Wrote(c)
      /\ UNCHANGED channels

\* Mutant: this early return keeps the mutex.
RejectWithoutUnlock(c) ==
  /\ pc[c] = "write" /\ IsUpdate(c)
  /\ ~Validate(Mutated(c))
  /\ result' = [result EXCEPT ![c] = "invalid"]
  /\ Goto(c, "idle")
  /\ op' = [op EXCEPT ![c] = NoOp]
  /\ UNCHANGED <<rows, channels, cache, lock, unread>>

RejectInvalid(c) ==
  /\ pc[c] = "write" /\ IsUpdate(c)
  /\ ~Validate(Mutated(c))
  /\ Return(c, "invalid")
  /\ UNCHANGED <<rows, channels, cache, unread>>

AddChannel(c) ==
  LET g == op[c].guild
  IN  /\ pc[c] = "write" /\ op[c].kind = "add"
      /\ rows[g] # NoRow
      /\ channels' = [channels EXCEPT ![g] = @ \cup {op[c].channel}]
      /\ Wrote(c)
      /\ UNCHANGED rows

RemoveChannel(c) ==
  /\ pc[c] = "write" /\ op[c].kind = "remove"
  /\ channels' = [channels EXCEPT ![op[c].guild] = @ \ {op[c].channel}]
  /\ Wrote(c)
  /\ UNCHANGED rows

\* One transaction: delete the row (and its channels), insert the defaults.
Reset(c) ==
  LET g == op[c].guild
  IN  /\ pc[c] = "write" /\ op[c].kind = "reset"
      /\ rows' = [rows EXCEPT ![g] = DefaultRow]
      /\ channels' = [channels EXCEPT ![g] = {}]
      /\ Wrote(c)

\* Any database call fails: the operation returns the error at once. (A write
\* that is committed although the call reports an error ends like one whose
\* reload fails.)
Fail(c) ==
  /\ Faults
  /\ pc[c] \in {"load", "firstReload", "write", "lastReload"}
  /\ pc[c] = "load" => cache[op[c].guild] = NoConfig
  /\ pc[c] = "write" => ~(IsUpdate(c) /\ ~Validate(Mutated(c)))
  /\ Return(c, "error")
  /\ UNCHANGED <<rows, channels, cache, unread>>

Step(c) ==
  \/ LoadCached(c) \/ InsertDefault(c) \/ Reload(c)
  \/ Update(c) \/ RejectInvalid(c) \/ AddChannel(c) \/ RemoveChannel(c) \/ Reset(c)
  \/ Fail(c)

\* The process dies and starts again. SQLite keeps what was committed.
Restart ==
  /\ cache' = [g \in Guilds |-> NoConfig]
  /\ lock' = Nobody
  /\ pc' = [c \in Callers |-> "idle"]
  /\ op' = [c \in Callers |-> NoOp]
  /\ result' = [c \in Callers |-> "none"]
  /\ unread' = {}
  /\ UNCHANGED <<rows, channels>>

Next ==
  \/ \E c \in Callers :
       \/ \E o \in Ops : Call(c, o)
       \/ \E g \in Guilds : GetCached(c, g)
       \/ Lock(c) \/ Step(c)
  \/ Restart

Spec == Init /\ [][Next]_vars

(***************************************************************************)
(* A goroutine in the critical section goes on: database calls end, since  *)
(* their contexts have deadlines. A caller that keeps waiting for the      *)
(* mutex gets it: sync.RWMutex does not starve a waiter.                   *)
(***************************************************************************)
Fairness == \A c \in Callers : WF_vars(Step(c)) /\ SF_vars(Lock(c))

FairSpec == Spec /\ Fairness

-----------------------------------------------------------------------------
(***************************************************************************)
(* Safety                                                                  *)
(***************************************************************************)

\* Whatever the interleaving, failures and crashes, the database holds only
\* validated settings (imageproc computes with them unchecked), and a guild
\* has channels only next to a row.
StoredConfigValid ==
  \A g \in Guilds :
    /\ rows[g] # NoRow => Validate(rows[g])
    /\ channels[g] # {} => rows[g] # NoRow

\* Only the caller that holds the mutex is inside a critical section: with
\* every early return unlocking, two operations never mix their reads and
\* writes of one guild.
OneInside ==
  \A c \in Callers : pc[c] \in {"load", "firstReload", "write", "lastReload"} <=> lock = c

\* A cache entry is what the database stores, unless the guild's last write was
\* not read back: it still has to be, or the reload after it failed.
CacheCurrentOnceRead ==
  \A g \in Guilds \ unread :
    cache[g] # NoConfig => rows[g] # NoRow /\ cache[g] = Stored(g)

\* An operation that succeeds has done what it was asked for, in the database
\* and in the cache that the next caller reads.
Done(o) ==
  LET cfg == cache[o.guild]
  IN  /\ cfg # NoConfig /\ rows[o.guild] # NoRow /\ cfg = Stored(o.guild)
      /\ o.kind = "setWidth" => cfg.width = o.width
      /\ o.kind = "setDelete" => cfg.deleteOriginal = o.flag
      /\ o.kind = "add" => o.channel \in cfg.channels
      /\ o.kind = "remove" => o.channel \notin cfg.channels
      /\ o.kind = "reset" => cfg = DefaultConfig

SuccessIsVisible ==
  [][\A c \in Callers : lock = c /\ lock' = Nobody /\ result'[c] = "ok" =>
       \A o \in {op[c]} : o.kind # "get" => Done(o)']_vars

\* An update leaves the settings it was not asked to change as they are stored,
\* although it writes every column from the cache: two administrators, or one
\* whose previous command failed half-way, do not undo each other's settings.
\* The exception is again a guild whose last write was never read back.
UpdateKeepsOtherSettings ==
  [][\A c \in Callers :
       pc[c] = "write" /\ pc'[c] = "lastReload" /\ op[c].guild \notin unread =>
         LET g == op[c].guild
         IN  /\ op[c].kind = "setWidth" =>
                  rows'[g].deleteOriginal = rows[g].deleteOriginal
             /\ op[c].kind = "setDelete" => rows'[g].width = rows[g].width]_vars

(***************************************************************************)
(* Refinement: from its call to its write an operation has had no effect,  *)
(* and a guild is stale unless its last write is just being read back.     *)
(***************************************************************************)

configBar == [g \in Guilds |-> Effective(g)]

callBar ==
  [c \in Callers |-> IF pc[c] = "idle" THEN "idle"
                     ELSE IF pc[c] = "lastReload" THEN "effective" ELSE "asked"]

staleBar == unread \ {op[c].guild : c \in {d \in Callers : pc[d] = "lastReload"}}

Store == INSTANCE ConfigStore
  WITH config <- configBar, stale <- staleBar, call <- callBar, asked <- op, answer <- result

\* However the calls of several goroutines, failing database calls and restarts
\* interleave, each operation is one step of ConfigStore on one guild: the write
\* lock is held from the load of a configuration to the reload after its write.
ImplementsConfigStore == Store!StoreSpec

(***************************************************************************)
(* Liveness                                                                *)
(***************************************************************************)

\* Every call returns: the mutex is released on every path.
CallsReturn == \A c \in Callers : pc[c] = "locking" ~> pc[c] = "idle"

(***************************************************************************)
(* What the comments say and the code does not do                          *)
(***************************************************************************)

\* service.go: SQLite is the source of truth; the cache is refreshed under the
\* same lock as every write, so updates apply immediately.
UpdatesApplyImmediately ==
  lock = Nobody =>
    \A g \in Guilds : cache[g] # NoConfig => rows[g] # NoRow /\ cache[g] = Stored(g)

==============================================================================
