------------------------- MODULE ConfigServiceProofs -------------------------
(***************************************************************************)
(* Proofs about ConfigService for any guilds, channels, callers, widths    *)
(* and any failures of the database.                                       *)
(*                                                                         *)
(* The inductive invariant adds to the types and to the three safety       *)
(* properties that a caller about to write settings has a configuration in *)
(* the cache to write them from: it loaded it while it held the mutex, and *)
(* nobody else is inside to drop it. A second invariant says that a caller *)
(* about to read back finds in the database what its operation asked for,  *)
(* a third one what the cache and a reload can hold: with it the service   *)
(* implements ConfigStore.                                                 *)
(***************************************************************************)
EXTENDS ConfigService, TLAPS

Inside == {"load", "firstReload", "write", "lastReload"}

WriterHasConfig ==
  \A c \in Callers :
    pc[c] = "write" => /\ op[c].kind # "get"
                       /\ IsUpdate(c) => cache[op[c].guild] # NoConfig

IInv == TypeOK /\ OneInside /\ WriterHasConfig /\ StoredConfigValid /\ CacheCurrentOnceRead

\* The fields an operation has.
LEMMA OpFields ==
  ASSUME NEW o \in Ops
  PROVE  /\ o.guild \in Guilds
         /\ o.kind \in {"add", "remove"} => o.channel \in Channels
         /\ o.kind = "setWidth" => o.width \in Widths
         /\ o.kind = "setDelete" => o.flag \in BOOLEAN
         /\ o.kind \in {"get", "reset", "add", "remove", "setWidth", "setDelete"}
         /\ o # NoOp
  BY ConfigAssumption DEF Ops

\* A caller in a call performs one of the operations.
LEMMA Busy ==
  ASSUME TypeOK, NEW c \in Callers, pc[c] # "idle"
  PROVE  op[c] \in Ops
  BY DEF TypeOK

LEMMA InitInv == Init => IInv
<1> SUFFICES ASSUME Init PROVE IInv
  OBVIOUS
<1> USE DEF Init
<1>1. TypeOK
  BY ConfigAssumption DEF TypeOK, CallState, Result
<1>2. OneInside /\ WriterHasConfig
  BY NoConfusion DEF OneInside, WriterHasConfig
<1>3. StoredConfigValid /\ CacheCurrentOnceRead
  BY DEF StoredConfigValid, CacheCurrentOnceRead
<1> QED BY <1>1, <1>2, <1>3 DEF IInv

-----------------------------------------------------------------------------
(* The types. *)

\* The row written and the entry cached have the fields of their tables.
LEMMA StoredType ==
  ASSUME TypeOK, NEW g \in Guilds, rows[g] # NoRow
  PROVE  Stored(g) \in Config
  BY DEF TypeOK, Stored, Row, Config

LEMMA MutatedType ==
  ASSUME TypeOK, WriterHasConfig, NEW c \in Callers, pc[c] = "write", IsUpdate(c)
  PROVE  Mutated(c) \in Config
<1>1. op[c] \in Ops /\ op[c].guild \in Guilds
  BY Busy, OpFields
<1>2. cache[op[c].guild] \in Config
  BY <1>1 DEF TypeOK, WriterHasConfig
<1> QED BY <1>1, <1>2, OpFields DEF Mutated, Config, IsUpdate

LEMMA DefaultType == DefaultRow \in Row
  BY ConfigAssumption DEF DefaultRow, Row

\* Leaving the call and going on inside it keep the callers' types.
LEMMA ReturnType ==
  ASSUME TypeOK, NEW c \in Callers, NEW r \in Result, Return(c, r)
  PROVE  /\ lock' \in Callers \cup {Nobody}
         /\ pc' \in [Callers -> CallState]
         /\ op' \in [Callers -> Ops \cup {NoOp}]
         /\ \A d \in Callers : pc'[d] = "idle" <=> op'[d] = NoOp
         /\ result' \in [Callers -> Result]
  BY DEF TypeOK, Return, CallState

LEMMA ProceedType ==
  ASSUME TypeOK, NEW c \in Callers, pc[c] # "idle",
         NEW s \in CallState \ {"idle"}, Proceed(c, s)
  PROVE  /\ lock' \in Callers \cup {Nobody}
         /\ pc' \in [Callers -> CallState]
         /\ op' \in [Callers -> Ops \cup {NoOp}]
         /\ \A d \in Callers : pc'[d] = "idle" <=> op'[d] = NoOp
         /\ result' \in [Callers -> Result]
  BY DEF TypeOK, Proceed, Goto, CallState

LEMMA StepType == IInv /\ [Next]_vars => TypeOK'
<1> SUFFICES ASSUME IInv, [Next]_vars PROVE TypeOK'
  OBVIOUS
<1>0. TypeOK /\ WriterHasConfig
  BY DEF IInv
<1> USE DEF CallState, Result
<1>1. ASSUME NEW c \in Callers, NEW o \in Ops, Call(c, o) PROVE TypeOK'
  BY <1>0, <1>1, OpFields DEF Call, Goto, TypeOK
<1>2. ASSUME NEW c \in Callers, NEW g \in Guilds, GetCached(c, g) PROVE TypeOK'
  BY <1>0, <1>2 DEF GetCached, TypeOK
<1>3. ASSUME NEW c \in Callers, Lock(c) PROVE TypeOK'
  BY <1>0, <1>3 DEF Lock, Goto, TypeOK
<1>4. ASSUME NEW c \in Callers, LoadCached(c) PROVE TypeOK'
  BY <1>0, <1>4, ReturnType, ProceedType DEF LoadCached, Loaded, TypeOK
<1>5. ASSUME NEW c \in Callers, InsertDefault(c) PROVE TypeOK'
  BY <1>0, <1>5, ProceedType, DefaultType, Busy, OpFields DEF InsertDefault, TypeOK
<1>6. ASSUME NEW c \in Callers, Reload(c) PROVE TypeOK'
  <2> DEFINE g == op[c].guild
  <2>1. g \in Guilds /\ pc[c] # "idle"
    BY <1>0, <1>6, Busy, OpFields DEF Reload
  <2>2. cache' \in [Guilds -> Config \cup {NoConfig}]
    BY <1>0, <1>6, <2>1, StoredType DEF Reload, TypeOK
  <2>3. \/ Return(c, "error") \/ Return(c, "ok") \/ Proceed(c, "write")
    BY <1>6 DEF Reload, Loaded
  <2>4. unread' \subseteq Guilds /\ UNCHANGED <<rows, channels>>
    BY <1>0, <1>6 DEF Reload, TypeOK
  <2> QED BY <1>0, <2>1, <2>2, <2>3, <2>4, ReturnType, ProceedType DEF TypeOK
<1>7. ASSUME NEW c \in Callers, Update(c) PROVE TypeOK'
  <2>1. Mutated(c) \in Config /\ op[c].guild \in Guilds /\ pc[c] # "idle"
    BY <1>0, <1>7, MutatedType, Busy, OpFields DEF Update
  <2>2. rows' \in [Guilds -> Row \cup {NoRow}]
    BY <1>0, <1>7, <2>1 DEF Update, TypeOK, Config, Row
  <2>3. Proceed(c, "lastReload") /\ UNCHANGED <<cache, channels>>
        /\ unread' = unread \cup {op[c].guild}
    BY <1>7 DEF Update, Wrote
  <2> QED BY <1>0, <2>1, <2>2, <2>3, ProceedType DEF TypeOK
<1>8. ASSUME NEW c \in Callers, RejectInvalid(c) \/ Fail(c) PROVE TypeOK'
  BY <1>0, <1>8, ReturnType DEF RejectInvalid, Fail, TypeOK
<1>9. ASSUME NEW c \in Callers, AddChannel(c) \/ RemoveChannel(c) \/ Reset(c) PROVE TypeOK'
  <2>1. op[c].guild \in Guilds /\ pc[c] # "idle"
    BY <1>0, <1>9, Busy, OpFields DEF AddChannel, RemoveChannel, Reset
  <2>2. rows' \in [Guilds -> Row \cup {NoRow}]
    BY <1>0, <1>9, <2>1, DefaultType DEF AddChannel, RemoveChannel, Reset, TypeOK
  <2>3. channels' \in [Guilds -> SUBSET Channels]
    <3>1. op[c].kind = "add" => op[c].channel \in Channels
      BY <1>0, <2>1, Busy, OpFields
    <3> QED BY <1>0, <1>9, <2>1, <3>1 DEF AddChannel, RemoveChannel, Reset, TypeOK
  <2>4. Proceed(c, "lastReload") /\ UNCHANGED cache /\ unread' = unread \cup {op[c].guild}
    BY <1>9 DEF AddChannel, RemoveChannel, Reset, Wrote
  <2> QED BY <1>0, <2>1, <2>2, <2>3, <2>4, ProceedType DEF TypeOK
<1>10. CASE Restart
  BY <1>0, <1>10 DEF Restart, TypeOK
<1>11. CASE UNCHANGED vars
  BY <1>0, <1>11 DEF vars, TypeOK
<1> QED
  BY <1>1, <1>2, <1>3, <1>4, <1>5, <1>6, <1>7, <1>8, <1>9, <1>10, <1>11 DEF Next, Step

-----------------------------------------------------------------------------
(* The mutex. *)

LEMMA StepInside == TypeOK /\ OneInside /\ [Next]_vars => OneInside'
<1> SUFFICES ASSUME TypeOK, OneInside, [Next]_vars PROVE OneInside'
  OBVIOUS
<1> USE NoConfusion DEF OneInside, TypeOK, CallState
<1>1. ASSUME NEW c \in Callers, NEW o \in Ops, Call(c, o) PROVE OneInside'
  BY <1>1 DEF Call, Goto
<1>2. ASSUME NEW c \in Callers, NEW g \in Guilds, GetCached(c, g) PROVE OneInside'
  BY <1>2 DEF GetCached
<1>3. ASSUME NEW c \in Callers, Lock(c) PROVE OneInside'
  BY <1>3 DEF Lock, Goto
<1>4. ASSUME NEW c \in Callers, Step(c) PROVE OneInside'
  <2>1. /\ pc[c] \in Inside
        /\ \/ \E r \in Result : Return(c, r)
           \/ \E s \in Inside : Proceed(c, s)
    BY <1>4 DEF Step, LoadCached, InsertDefault, Reload, Loaded, Update, RejectInvalid,
                AddChannel, RemoveChannel, Reset, Wrote, Fail, Inside, Result
  <2> QED BY <2>1 DEF Return, Proceed, Goto, Inside
<1>5. CASE Restart
  BY <1>5 DEF Restart
<1>6. CASE UNCHANGED vars
  BY <1>6 DEF vars
<1> QED BY <1>1, <1>2, <1>3, <1>4, <1>5, <1>6 DEF Next

LEMMA StepWriter == TypeOK /\ OneInside /\ WriterHasConfig /\ [Next]_vars => WriterHasConfig'
<1> SUFFICES ASSUME TypeOK, OneInside, WriterHasConfig, [Next]_vars,
                    NEW d \in Callers, pc'[d] = "write"
             PROVE  /\ op'[d].kind # "get"
                    /\ IsUpdate(d)' => cache'[op'[d].guild] # NoConfig
  BY DEF WriterHasConfig
<1> USE DEF WriterHasConfig, OneInside, TypeOK, CallState, IsUpdate
<1>1. ASSUME NEW c \in Callers, NEW o \in Ops, Call(c, o)
      PROVE  /\ op'[d].kind # "get"
             /\ IsUpdate(d)' => cache'[op'[d].guild] # NoConfig
  BY <1>1 DEF Call, Goto
<1>2. ASSUME NEW c \in Callers, NEW g \in Guilds, GetCached(c, g)
      PROVE  /\ op'[d].kind # "get"
             /\ IsUpdate(d)' => cache'[op'[d].guild] # NoConfig
  BY <1>2 DEF GetCached
<1>3. ASSUME NEW c \in Callers, Lock(c)
      PROVE  /\ op'[d].kind # "get"
             /\ IsUpdate(d)' => cache'[op'[d].guild] # NoConfig
  BY <1>3 DEF Lock, Goto
<1>4. ASSUME NEW c \in Callers, Step(c), c # d
      PROVE  FALSE
  <2>1. pc[c] \in Inside /\ pc'[d] = pc[d]
    BY <1>4 DEF Step, LoadCached, InsertDefault, Reload, Loaded, Update, RejectInvalid,
                AddChannel, RemoveChannel, Reset, Wrote, Fail, Inside, Return, Proceed, Goto
  <2>2. lock = c /\ lock = d
    BY <2>1 DEF Inside
  <2> QED BY <1>4, <2>2
<1>5. ASSUME LoadCached(d)
      PROVE  /\ op'[d].kind # "get"
             /\ IsUpdate(d)' => cache'[op'[d].guild] # NoConfig
  BY <1>5 DEF LoadCached, Loaded, Return, Proceed, Goto
<1>6. ASSUME Reload(d)
      PROVE  /\ op'[d].kind # "get"
             /\ IsUpdate(d)' => cache'[op'[d].guild] # NoConfig
  <2>1. op[d].guild \in Guilds
    BY <1>6, Busy, OpFields DEF Reload
  <2>2. op'[d] = op[d] /\ op[d].kind # "get" /\ rows[op[d].guild] # NoRow
    BY <1>6 DEF Reload, Loaded, Return, Proceed, Goto
  <2>3. cache'[op[d].guild] = Stored(op[d].guild)
    BY <1>6, <2>1, <2>2 DEF Reload
  <2>4. Stored(op[d].guild) # NoConfig
    BY <2>1, <2>2, StoredType, NoConfusion
  <2> QED BY <2>2, <2>3, <2>4
<1>7. ASSUME InsertDefault(d) \/ Update(d) \/ RejectInvalid(d) \/ AddChannel(d)
               \/ RemoveChannel(d) \/ Reset(d) \/ Fail(d)
      PROVE  FALSE
  BY <1>7 DEF InsertDefault, Update, RejectInvalid, AddChannel, RemoveChannel, Reset,
              Fail, Wrote, Return, Proceed, Goto
<1>8. CASE Restart
  BY <1>8 DEF Restart
<1>9. CASE UNCHANGED vars
  BY <1>9 DEF vars
<1> QED
  BY <1>1, <1>2, <1>3, <1>4, <1>5, <1>6, <1>7, <1>8, <1>9 DEF Next, Step

-----------------------------------------------------------------------------
(* The database and the cache. *)

LEMMA StepValid == IInv /\ [Next]_vars => StoredConfigValid'
<1> SUFFICES ASSUME IInv, [Next]_vars PROVE StoredConfigValid'
  OBVIOUS
<1>0. TypeOK /\ StoredConfigValid
  BY DEF IInv
<1> USE DEF StoredConfigValid, Validate
<1>1. CASE UNCHANGED <<rows, channels>>
  BY <1>0, <1>1
<1>2. ASSUME NEW c \in Callers, InsertDefault(c) PROVE StoredConfigValid'
  BY <1>0, <1>2, ConfigAssumption, NoConfusion, DefaultType
     DEF InsertDefault, DefaultRow, TypeOK
<1>3. ASSUME NEW c \in Callers, Update(c) PROVE StoredConfigValid'
  <2> DEFINE g == op[c].guild
             cfg == Mutated(c)
             row == [width |-> cfg.width, deleteOriginal |-> cfg.deleteOriginal]
  <2>1. g \in Guilds /\ cfg \in Config
    BY <1>0, <1>3, MutatedType, Busy, OpFields DEF Update, IInv
  <2>2. row \in Row /\ row # NoRow
    BY <2>1, NoConfusion DEF Row, Config
  <2>3. row.width \in ValidWidths
    BY <1>3 DEF Update
  <2>4. /\ channels' = channels
        /\ rows'[g] = IF rows[g] = NoRow THEN NoRow ELSE row
        /\ \A h \in Guilds : h # g => rows'[h] = rows[h]
    BY <1>0, <1>3, <2>1 DEF Update, TypeOK
  <2> QED BY <1>0, <2>1, <2>2, <2>3, <2>4
<1>4. ASSUME NEW c \in Callers, AddChannel(c) \/ RemoveChannel(c) PROVE StoredConfigValid'
  <2>1. op[c].guild \in Guilds
    BY <1>0, <1>4, Busy, OpFields DEF AddChannel, RemoveChannel
  <2> QED BY <1>0, <1>4, <2>1 DEF AddChannel, RemoveChannel, TypeOK
<1>5. ASSUME NEW c \in Callers, Reset(c) PROVE StoredConfigValid'
  BY <1>0, <1>5, ConfigAssumption, NoConfusion, DefaultType DEF Reset, DefaultRow, TypeOK
<1> QED
  BY <1>1, <1>2, <1>3, <1>4, <1>5
     DEF Next, Step, Call, GetCached, Lock, LoadCached, Reload, RejectInvalid, Fail,
         Restart, vars

LEMMA StepCache == IInv /\ [Next]_vars => CacheCurrentOnceRead'
<1> SUFFICES ASSUME IInv, [Next]_vars PROVE CacheCurrentOnceRead'
  OBVIOUS
<1>0. TypeOK /\ CacheCurrentOnceRead
  BY DEF IInv
<1> USE DEF CacheCurrentOnceRead
<1>1. CASE UNCHANGED <<rows, channels, cache, unread>>
  BY <1>0, <1>1 DEF Stored
<1>2. ASSUME NEW c \in Callers, InsertDefault(c) PROVE CacheCurrentOnceRead'
  \* The row inserted belongs to a guild without a cache entry.
  <2> DEFINE g == op[c].guild
  <2>1. g \in Guilds /\ cache[g] = NoConfig
    BY <1>0, <1>2, Busy, OpFields DEF InsertDefault
  <2>2. UNCHANGED <<channels, cache, unread>>
        /\ \A h \in Guilds : h # g => rows'[h] = rows[h]
    BY <1>0, <1>2, <2>1 DEF InsertDefault, TypeOK
  <2> QED BY <1>0, <2>1, <2>2 DEF Stored
<1>3. ASSUME NEW c \in Callers, Reload(c) PROVE CacheCurrentOnceRead'
  <2> DEFINE g == op[c].guild
  <2>1. g \in Guilds
    BY <1>0, <1>3, Busy, OpFields DEF Reload
  <2>2. /\ UNCHANGED <<rows, channels>>
        /\ unread' = unread \ {g}
        /\ cache'[g] = IF rows[g] # NoRow THEN Stored(g) ELSE NoConfig
        /\ \A h \in Guilds : h # g => cache'[h] = cache[h]
    BY <1>0, <1>3, <2>1 DEF Reload, TypeOK
  <2> QED BY <1>0, <2>1, <2>2 DEF Stored
<1>4. ASSUME NEW c \in Callers,
             Update(c) \/ AddChannel(c) \/ RemoveChannel(c) \/ Reset(c)
      PROVE  CacheCurrentOnceRead'
  <2> DEFINE g == op[c].guild
  <2>1. g \in Guilds
    BY <1>0, <1>4, Busy, OpFields DEF Update, AddChannel, RemoveChannel, Reset
  <2>2. /\ cache' = cache /\ unread' = unread \cup {g}
        /\ \A h \in Guilds : h # g => rows'[h] = rows[h] /\ channels'[h] = channels[h]
    BY <1>0, <1>4, <2>1 DEF Update, AddChannel, RemoveChannel, Reset, Wrote, TypeOK
  <2> QED BY <1>0, <2>1, <2>2 DEF Stored
<1>5. CASE Restart
  BY <1>0, <1>5 DEF Restart
<1> QED
  BY <1>1, <1>2, <1>3, <1>4, <1>5
     DEF Next, Step, Call, GetCached, Lock, LoadCached, RejectInvalid, Fail, vars

LEMMA Invariance == Spec => []IInv
<1>1. IInv /\ [Next]_vars => IInv'
  BY StepType, StepInside, StepWriter, StepValid, StepCache DEF IInv
<1> QED BY InitInv, <1>1, PTL DEF Spec

-----------------------------------------------------------------------------
(* The results. *)

\* Every variable keeps its type.
THEOREM TypeCorrect == Spec => []TypeOK
<1>1. IInv => TypeOK
  BY DEF IInv
<1> QED BY Invariance, <1>1, PTL

\* One caller at a time is inside the service.
THEOREM MutualExclusion == Spec => []OneInside
<1>1. IInv => OneInside
  BY DEF IInv
<1> QED BY Invariance, <1>1, PTL

\* Only validated settings are ever stored, through failures and restarts.
THEOREM OnlyValidStored == Spec => []StoredConfigValid
<1>1. IInv => StoredConfigValid
  BY DEF IInv
<1> QED BY Invariance, <1>1, PTL

\* The cache agrees with the database except where a reload is outstanding.
THEOREM CacheCoherent == Spec => []CacheCurrentOnceRead
<1>1. IInv => CacheCurrentOnceRead
  BY DEF IInv
<1> QED BY Invariance, <1>1, PTL

\* An update does not change another setting, although it writes all of them.
THEOREM NoSettingUndone == Spec => UpdateKeepsOtherSettings
<1> DEFINE Keeps(c) ==
      pc[c] = "write" /\ pc'[c] = "lastReload" /\ op[c].guild \notin unread =>
        LET g == op[c].guild
        IN  /\ op[c].kind = "setWidth" =>
                 rows'[g].deleteOriginal = rows[g].deleteOriginal
            /\ op[c].kind = "setDelete" => rows'[g].width = rows[g].width
<1>1. IInv /\ [Next]_vars => [\A c \in Callers : Keeps(c)]_vars
  <2> SUFFICES ASSUME IInv, Next, NEW c \in Callers,
                      pc[c] = "write", pc'[c] = "lastReload",
                      op[c].guild \notin unread, IsUpdate(c)
               PROVE  LET g == op[c].guild
                      IN  /\ op[c].kind = "setWidth" =>
                               rows'[g].deleteOriginal = rows[g].deleteOriginal
                          /\ op[c].kind = "setDelete" => rows'[g].width = rows[g].width
    BY DEF IsUpdate
  <2>0. TypeOK /\ OneInside /\ WriterHasConfig /\ CacheCurrentOnceRead
    BY DEF IInv
  <2>1. Update(c)
    <3>1. lock = c
      BY <2>0 DEF OneInside
    <3>2. ASSUME NEW d \in Callers, d # c,
                 (\E o \in Ops : Call(d, o)) \/ (\E g \in Guilds : GetCached(d, g))
                   \/ Lock(d) \/ Step(d)
          PROVE  pc'[c] = pc[c]
      BY <2>0, <3>2
         DEF TypeOK, Call, GetCached, Lock, Step, LoadCached, InsertDefault, Reload, Loaded,
             Update, RejectInvalid, AddChannel, RemoveChannel, Reset, Wrote, Fail, Return,
             Proceed, Goto
    <3>3. ~Restart
      BY DEF Restart
    <3>4. (\E o \in Ops : Call(c, o)) \/ (\E g \in Guilds : GetCached(c, g))
            \/ Lock(c) \/ Step(c)
      BY <3>2, <3>3 DEF Next
    <3>5. ~RejectInvalid(c) /\ ~Fail(c)
      BY <2>0 DEF RejectInvalid, Fail, Return, TypeOK
    <3> QED
      BY <3>4, <3>5 DEF Call, GetCached, Lock, Step, LoadCached, InsertDefault, Reload,
                        AddChannel, RemoveChannel, Reset, IsUpdate
  <2> DEFINE g == op[c].guild
  <2>2. g \in Guilds /\ op[c] \in Ops
    BY <2>0, Busy, OpFields
  <2>3. cache[g] = Stored(g) /\ rows[g] # NoRow
    BY <2>0, <2>2 DEF WriterHasConfig, CacheCurrentOnceRead
  <2>4. rows'[g] = [width |-> Mutated(c).width,
                    deleteOriginal |-> Mutated(c).deleteOriginal]
    BY <2>0, <2>1, <2>2, <2>3 DEF Update, TypeOK
  <2> QED BY <2>3, <2>4 DEF Mutated, Stored
<1> QED BY Invariance, <1>1, PTL DEF Spec, UpdateKeepsOtherSettings

-----------------------------------------------------------------------------
(* A success is visible.                                                   *)
(*                                                                         *)
(* Between the write of an operation and the reload that ends it, the      *)
(* caller holds the mutex: nobody overwrites what it stored. The reload    *)
(* that reports the success therefore caches it.                           *)

\* The database holds what the operation asked for.
Written(o) ==
  /\ o.kind = "setWidth" => rows[o.guild].width = o.width
  /\ o.kind = "setDelete" => rows[o.guild].deleteOriginal = o.flag
  /\ o.kind = "add" => o.channel \in channels[o.guild]
  /\ o.kind = "remove" => o.channel \notin channels[o.guild]
  /\ o.kind = "reset" => rows[o.guild] = DefaultRow /\ channels[o.guild] = {}

WrittenBeforeReload ==
  \A c \in Callers :
    pc[c] = "lastReload" => /\ op[c].kind # "get"
                            /\ rows[op[c].guild] # NoRow => Written(op[c])

\* Each write stores what its operation asked for. (An update of a guild
\* without a row stores nothing, and the reload finds that out.)
LEMMA WriteStores ==
  ASSUME IInv, NEW c \in Callers, NEW o \in Ops, o = op[c],
         Update(c) \/ AddChannel(c) \/ RemoveChannel(c) \/ Reset(c)
  PROVE  o.kind # "get" /\ (rows'[o.guild] # NoRow => Written(o)')
<1> DEFINE g == o.guild
<1>0. TypeOK /\ WriterHasConfig /\ g \in Guilds
  BY OpFields DEF IInv
<1>1. CASE Update(c)
  <2>1. IsUpdate(c) /\ pc[c] = "write"
    BY <1>1 DEF Update
  <2> DEFINE cfg == cache[g]
  <2>2. cfg \in Config
    BY <1>0, <2>1 DEF TypeOK, WriterHasConfig
  <2>3. /\ o.kind = "setWidth" => Mutated(c).width = o.width
        /\ o.kind = "setDelete" => Mutated(c).deleteOriginal = o.flag
    BY <2>2 DEF Mutated, Config
  <2>4. rows'[g] # NoRow => rows'[g].width = Mutated(c).width
                            /\ rows'[g].deleteOriginal = Mutated(c).deleteOriginal
    BY <1>0, <1>1 DEF Update, TypeOK
  <2> QED BY <2>1, <2>3, <2>4 DEF Written, IsUpdate
<1>2. CASE AddChannel(c)
  BY <1>0, <1>2 DEF AddChannel, Written, TypeOK
<1>3. CASE RemoveChannel(c)
  BY <1>0, <1>3 DEF RemoveChannel, Written, TypeOK
<1>4. CASE Reset(c)
  BY <1>0, <1>4 DEF Reset, Written, TypeOK
<1> QED BY <1>1, <1>2, <1>3, <1>4

LEMMA StepWritten == IInv /\ WrittenBeforeReload /\ [Next]_vars => WrittenBeforeReload'
<1> SUFFICES ASSUME IInv, WrittenBeforeReload, [Next]_vars
             PROVE  WrittenBeforeReload'
  OBVIOUS
<1>0. TypeOK /\ OneInside /\ TypeOK'
  BY StepType DEF IInv
<1>1. SUFFICES ASSUME NEW d \in Callers, NEW o \in Ops,
                      o = op'[d], pc'[d] = "lastReload"
               PROVE  o.kind # "get" /\ (rows'[o.guild] # NoRow => Written(o)')
  <2>1. \A d \in Callers : pc'[d] = "lastReload" => op'[d] \in Ops
    BY <1>0 DEF TypeOK
  <2> QED BY <2>1 DEF WrittenBeforeReload, Written
<1>2. CASE pc[d] = "lastReload" /\ op[d] = o /\ UNCHANGED <<rows, channels>>
  BY <1>2 DEF WrittenBeforeReload, Written
<1>3. ASSUME NEW c \in Callers,
             (\E q \in Ops : Call(c, q)) \/ (\E g \in Guilds : GetCached(c, g)) \/ Lock(c)
      PROVE  pc[d] = "lastReload" /\ op[d] = o /\ UNCHANGED <<rows, channels>>
  BY <1>0, <1>1, <1>3 DEF Call, GetCached, Lock, Goto, TypeOK
<1>4. ASSUME NEW c \in Callers, Step(c), c # d PROVE FALSE
  <2>1. pc[c] \in Inside /\ pc'[d] = pc[d]
    BY <1>0, <1>4 DEF TypeOK, Step, LoadCached, InsertDefault, Reload, Loaded, Update,
                      RejectInvalid, AddChannel, RemoveChannel, Reset, Wrote, Fail, Inside,
                      Return, Proceed, Goto
  <2>2. lock = c /\ lock = d
    BY <1>0, <1>1, <2>1 DEF Inside, OneInside
  <2> QED BY <1>4, <2>2
<1>5. CASE Update(d) \/ AddChannel(d) \/ RemoveChannel(d) \/ Reset(d)
  <2>1. o = op[d]
    BY <1>0, <1>1, <1>5
       DEF Update, AddChannel, RemoveChannel, Reset, Wrote, Proceed, TypeOK
  <2> QED BY <1>5, <2>1, WriteStores
<1>6. ASSUME LoadCached(d) \/ InsertDefault(d) \/ Reload(d) \/ RejectInvalid(d) \/ Fail(d)
      PROVE  FALSE
  BY <1>0, <1>1, <1>6 DEF TypeOK, LoadCached, InsertDefault, Reload, Loaded, RejectInvalid,
                          Fail, Return, Proceed, Goto
<1>7. ~Restart
  BY <1>1 DEF Restart
<1>8. CASE UNCHANGED vars
  BY <1>1, <1>2, <1>8 DEF vars
<1> QED BY <1>2, <1>3, <1>4, <1>5, <1>6, <1>7, <1>8 DEF Next, Step

LEMMA WrittenAlways == Spec => []WrittenBeforeReload
<1>1. Init => WrittenBeforeReload
  BY DEF Init, WrittenBeforeReload
<1> QED BY Invariance, StepWritten, <1>1, PTL DEF Spec

\* The reload that finds the row leaves it in the cache, for a read and after a
\* write.
LEMMA ReloadShows ==
  ASSUME IInv, WrittenBeforeReload, NEW c \in Callers, NEW o, o = op[c],
         Reload(c), rows[o.guild] # NoRow, pc[c] = "lastReload" \/ o.kind = "get"
  PROVE  Done(o)'
<1> DEFINE g == o.guild
<1>1. TypeOK /\ o \in Ops /\ g \in Guilds
  BY Busy, OpFields DEF IInv, Reload
<1>2. Written(o)
  BY DEF WrittenBeforeReload, Written
<1>3. UNCHANGED <<rows, channels>> /\ cache'[g] = Stored(g)
  BY <1>1 DEF Reload, TypeOK
<1>4. Stored(g) # NoConfig
  BY <1>1, StoredType, NoConfusion
<1>5. Stored(g)' = Stored(g)
  BY <1>3 DEF Stored
<1>6. Written(o)'
  BY <1>2, <1>3 DEF Written
<1>7. /\ cache'[g] # NoConfig /\ rows'[g] # NoRow /\ cache'[g] = Stored(g)'
      /\ cache'[g].width = rows'[g].width
      /\ cache'[g].deleteOriginal = rows'[g].deleteOriginal
      /\ cache'[g].channels = channels'[g]
  BY <1>3, <1>4, <1>5 DEF Stored
<1>8. o.kind = "reset" =>
        cache'[g] = DefaultConfig
  <2>1. ASSUME o.kind = "reset"
        PROVE  /\ rows[g].width = DefaultWidth /\ rows[g].deleteOriginal = FALSE
               /\ channels[g] = {}
    BY <1>2, <2>1 DEF Written, DefaultRow
  <2> QED BY <1>3, <2>1 DEF Stored, DefaultConfig
<1> QED BY <1>6, <1>7, <1>8 DEF Done, Written

\* What a success of a write means: in the database, and in the cache the next
\* caller reads.
THEOREM SuccessVisible == Spec => SuccessIsVisible
<1> DEFINE Visible(c) ==
      lock = c /\ lock' = Nobody /\ result'[c] = "ok" =>
        \A o \in {op[c]} : o.kind # "get" => Done(o)'
<1>1. IInv /\ WrittenBeforeReload /\ [Next]_vars => [\A c \in Callers : Visible(c)]_vars
  <2> SUFFICES ASSUME IInv, WrittenBeforeReload, Next, NEW c \in Callers, NEW o \in {op[c]},
                      lock = c, lock' = Nobody, result'[c] = "ok", o.kind # "get"
               PROVE  Done(o)'
    OBVIOUS
  <2>0. TypeOK /\ OneInside /\ o = op[c]
    BY DEF IInv
  <2>1. Reload(c) /\ pc[c] = "lastReload" /\ rows[o.guild] # NoRow
    <3>1. ASSUME NEW d \in Callers,
                 (\E q \in Ops : Call(d, q)) \/ (\E g \in Guilds : GetCached(d, g)) \/ Lock(d)
          PROVE  FALSE
      BY <2>0, <3>1, NoConfusion DEF Call, GetCached, Lock
    <3>2. ASSUME NEW d \in Callers, Step(d) PROVE d = c
      BY <2>0, <3>2 DEF OneInside, Step, LoadCached, InsertDefault, Reload, Update,
                        RejectInvalid, AddChannel, RemoveChannel, Reset, Fail
    <3>3. ~Restart
      BY <2>0 DEF Restart
    <3>4. Step(c)
      BY <3>1, <3>2, <3>3 DEF Next
    <3>5. ~(InsertDefault(c) \/ Update(c) \/ AddChannel(c) \/ RemoveChannel(c) \/ Reset(c))
      BY <2>0, NoConfusion
         DEF InsertDefault, Update, AddChannel, RemoveChannel, Reset, Wrote, Proceed
    <3>6. ~(RejectInvalid(c) \/ Fail(c) \/ LoadCached(c))
      BY <2>0, NoConfusion
         DEF RejectInvalid, Fail, LoadCached, Loaded, Return, Proceed, TypeOK
    <3>7. Reload(c)
      BY <3>4, <3>5, <3>6 DEF Step
    <3> QED BY <2>0, <3>7, NoConfusion DEF Reload, Loaded, Return, Proceed, TypeOK
  <2> QED BY <2>0, <2>1, ReloadShows
<1> QED BY Invariance, WrittenAlways, <1>1, PTL DEF Spec, SuccessIsVisible

-----------------------------------------------------------------------------
(* What a step does to a guild's configuration.                            *)

\* Without a write, configurations stay.
LEMMA EffectiveKept ==
  ASSUME UNCHANGED <<rows, channels>>, NEW g
  PROVE  Effective(g)' = Effective(g)
  BY DEF Effective, Stored

\* The insertion of the default row gives a guild what it had without one.
LEMMA InsertKeeps ==
  ASSUME TypeOK, StoredConfigValid, NEW c \in Callers, InsertDefault(c), NEW g \in Guilds
  PROVE  Effective(g)' = Effective(g)
<1>1. \A h \in Guilds \ {op[c].guild} : rows'[h] = rows[h]
  BY DEF InsertDefault, TypeOK
<1>2. CASE rows[g] # NoRow \/ g # op[c].guild
  BY <1>1, <1>2 DEF InsertDefault, TypeOK, Effective, Stored
<1>3. CASE rows[g] = NoRow /\ g = op[c].guild
  <2>1. rows'[g] = DefaultRow /\ channels'[g] = {}
    BY <1>3 DEF InsertDefault, TypeOK, StoredConfigValid
  <2>2. rows'[g] # NoRow
    BY <2>1, DefaultType, NoConfusion
  <2>3. Effective(g) = DefaultConfig
    BY <1>3 DEF Effective
  <2> QED BY <2>1, <2>2, <2>3 DEF Effective, Stored, DefaultConfig, DefaultRow
<1> QED BY <1>2, <1>3

\* A write turns the configuration into what its operation asks for: an update
\* too, if the cache from which it writes every column is current. RowsAffected
\* tells whether that is another configuration than before.
LEMMA WriteTurns ==
  ASSUME IInv, NEW c \in Callers, NEW o \in Ops, o = op[c],
         Update(c) \/ AddChannel(c) \/ RemoveChannel(c) \/ Reset(c)
  PROVE  /\ o.kind # "get"
         /\ o.guild \notin unread \/ o.kind \notin {"setWidth", "setDelete"} =>
              Effective(o.guild)' = After(Effective(o.guild), o)
         /\ o.kind \in {"add", "remove"} =>
              (channels' # channels <=> Effective(o.guild)' # Effective(o.guild))
<1> DEFINE g == o.guild
<1>0. TypeOK /\ WriterHasConfig /\ StoredConfigValid /\ CacheCurrentOnceRead /\ g \in Guilds
  BY OpFields DEF IInv
<1>1. CASE Update(c)
  <2>1. pc[c] = "write" /\ o.kind \in {"setWidth", "setDelete"}
    BY <1>1 DEF Update, IsUpdate
  <2>2. ASSUME g \notin unread PROVE Effective(g)' = After(Effective(g), o)
    <3>1. rows[g] # NoRow /\ cache[g] = Stored(g)
      BY <1>0, <2>1, <2>2 DEF WriterHasConfig, IsUpdate, CacheCurrentOnceRead
    <3>2. Mutated(c) \in Config
      BY <1>0, <2>1, MutatedType DEF IsUpdate
    <3>3. Mutated(c) = After(Stored(g), o)
      BY <2>1, <3>1 DEF Mutated, After
    <3> DEFINE row == [width |-> Mutated(c).width,
                       deleteOriginal |-> Mutated(c).deleteOriginal]
    <3>4. rows'[g] = row /\ channels' = channels
      BY <1>0, <1>1, <3>1 DEF Update, TypeOK
    <3>5. row # NoRow
      BY <3>2, NoConfusion DEF Row, Config
    <3>6. Mutated(c).channels = channels[g]
      BY <2>1, <3>1 DEF Mutated, Stored
    <3>7. Effective(g)' = [width |-> Mutated(c).width,
                           deleteOriginal |-> Mutated(c).deleteOriginal,
                           channels |-> Mutated(c).channels]
      BY <3>4, <3>5, <3>6 DEF Effective, Stored
    <3>8. Effective(g)' = Mutated(c)
      BY <3>2, <3>7 DEF Config
    <3> QED BY <3>1, <3>3, <3>8 DEF Effective
  <2> QED BY <2>1, <2>2
<1>2. CASE AddChannel(c)
  <2>1. /\ o.kind = "add" /\ rows' = rows /\ rows[g] # NoRow
        /\ channels' = [channels EXCEPT ![g] = @ \cup {o.channel}]
    BY <1>2 DEF AddChannel
  <2>2. Effective(g)' = After(Effective(g), o)
    BY <1>0, <2>1 DEF Effective, Stored, After, TypeOK
  <2>3. channels' # channels <=> channels'[g] # channels[g]
    BY <1>0, <2>1 DEF TypeOK
  <2> QED BY <2>1, <2>2, <2>3 DEF Effective, Stored
<1>3. CASE RemoveChannel(c)
  <2>1. /\ o.kind = "remove" /\ rows' = rows
        /\ channels' = [channels EXCEPT ![g] = @ \ {o.channel}]
    BY <1>3 DEF RemoveChannel
  <2>2. CASE rows[g] # NoRow
    <3>1. Effective(g)' = After(Effective(g), o)
      BY <1>0, <2>1, <2>2 DEF Effective, Stored, After, TypeOK
    <3>2. channels' # channels <=> channels'[g] # channels[g]
      BY <1>0, <2>1 DEF TypeOK
    <3> QED BY <2>1, <2>2, <3>1, <3>2 DEF Effective, Stored
  <2>3. CASE rows[g] = NoRow
    <3>1. channels' = channels
      BY <1>0, <2>1, <2>3 DEF StoredConfigValid, TypeOK
    <3>2. Effective(g) = DefaultConfig /\ Effective(g)' = DefaultConfig
      BY <2>1, <2>3 DEF Effective
    <3>3. After(DefaultConfig, o) = DefaultConfig
      BY <2>1 DEF After, DefaultConfig
    <3> QED BY <2>1, <3>1, <3>2, <3>3
  <2> QED BY <2>2, <2>3
<1>4. CASE Reset(c)
  <2>1. o.kind = "reset" /\ rows'[g] = DefaultRow /\ channels'[g] = {}
    BY <1>0, <1>4 DEF Reset, TypeOK
  <2>2. Effective(g)' = DefaultConfig
    BY <2>1, DefaultType, NoConfusion DEF Effective, Stored, DefaultConfig, DefaultRow
  <2> QED BY <2>1, <2>2 DEF After
<1> QED BY <1>1, <1>2, <1>3, <1>4

-----------------------------------------------------------------------------
(* What the service remembers, and what it finds when it reads again.      *)

\* A guild in the cache has a row, and what the cache holds of it is valid.
CachedRow ==
  \A g \in Guilds : cache[g] # NoConfig => rows[g] # NoRow /\ Validate(cache[g])

\* The first reload follows the insertion of the row, the last one a write:
\* only the removal of a channel can have found no row.
ReloadFinds ==
  \A c \in Callers :
    /\ pc[c] = "firstReload" => rows[op[c].guild] # NoRow
    /\ pc[c] = "lastReload" => /\ op[c].guild \in unread
                               /\ rows[op[c].guild] = NoRow => op[c].kind = "remove"

RInv == IInv /\ CachedRow /\ ReloadFinds

\* Inside the critical section, a caller is alone.
LEMMA Alone ==
  ASSUME OneInside, NEW c \in Callers, pc[c] \in Inside, NEW d \in Callers, d # c
  PROVE  pc[d] \notin Inside
  BY DEF OneInside, Inside

LEMMA StepFrame ==
  ASSUME TypeOK, NEW c \in Callers, Step(c)
  PROVE  /\ pc[c] \in Inside
         /\ \A d \in Callers : d # c => pc'[d] = pc[d] /\ op'[d] = op[d]
  BY DEF TypeOK, Step, LoadCached, InsertDefault, Reload, Loaded, Update, RejectInvalid,
         AddChannel, RemoveChannel, Reset, Wrote, Fail, Inside, Return, Proceed, Goto

\* No operation leaves a guild without the row it had.
LEMMA RowsStay ==
  ASSUME IInv, [Next]_vars, NEW g \in Guilds, rows[g] # NoRow
  PROVE  rows'[g] # NoRow
<1>0. TypeOK /\ DefaultRow # NoRow
  BY DefaultType, NoConfusion DEF IInv
<1>1. CASE UNCHANGED rows
  BY <1>1
<1>2. ASSUME NEW c \in Callers, InsertDefault(c) \/ Reset(c) PROVE rows'[g] # NoRow
  BY <1>0, <1>2 DEF InsertDefault, Reset, TypeOK
<1>3. ASSUME NEW c \in Callers, Update(c) PROVE rows'[g] # NoRow
  <2> DEFINE row == [width |-> Mutated(c).width, deleteOriginal |-> Mutated(c).deleteOriginal]
  <2>1. Mutated(c) \in Config
    BY <1>0, <1>3, MutatedType DEF Update, IInv
  <2>2. row # NoRow
    BY <2>1, NoConfusion DEF Config, Row
  <2> QED BY <1>0, <1>3, <2>2 DEF Update, TypeOK
<1> QED
  BY <1>1, <1>2, <1>3
     DEF Next, Step, Call, GetCached, Lock, LoadCached, Reload, RejectInvalid, Fail,
         AddChannel, RemoveChannel, Restart, vars

LEMMA StepCached == RInv /\ [Next]_vars => CachedRow'
<1> SUFFICES ASSUME RInv, [Next]_vars, NEW g \in Guilds, cache'[g] # NoConfig
             PROVE  rows'[g] # NoRow /\ Validate(cache'[g])
  BY DEF CachedRow, Validate
<1>0. TypeOK /\ StoredConfigValid /\ IInv /\ CachedRow
  BY DEF RInv, IInv
<1>1. CASE cache'[g] = cache[g]
  BY <1>0, <1>1, RowsStay DEF CachedRow
<1>2. ASSUME NEW c \in Callers, Reload(c), g = op[c].guild
      PROVE  rows'[g] # NoRow /\ Validate(cache'[g])
  <2>1. rows[g] # NoRow /\ rows' = rows /\ cache'[g] = Stored(g)
    BY <1>0, <1>2 DEF Reload, TypeOK
  <2> QED BY <1>0, <2>1 DEF StoredConfigValid, Stored, Validate
<1>3. ASSUME NEW c \in Callers, Reload(c), g # op[c].guild PROVE cache'[g] = cache[g]
  BY <1>0, <1>3 DEF Reload, TypeOK
<1>4. ~Restart
  BY DEF Restart
<1> QED
  BY <1>1, <1>2, <1>3, <1>4
     DEF Next, Step, Call, GetCached, Lock, LoadCached, InsertDefault, Update, RejectInvalid,
         AddChannel, RemoveChannel, Reset, Wrote, Fail, vars

LEMMA StepFinds == RInv /\ [Next]_vars => ReloadFinds'
<1> SUFFICES ASSUME RInv, [Next]_vars, NEW d \in Callers
             PROVE  /\ pc'[d] = "firstReload" => rows'[op'[d].guild] # NoRow
                    /\ pc'[d] = "lastReload" =>
                         /\ op'[d].guild \in unread'
                         /\ rows'[op'[d].guild] = NoRow => op'[d].kind = "remove"
  BY DEF ReloadFinds
<1>0. IInv /\ TypeOK /\ OneInside /\ WriterHasConfig /\ CachedRow /\ ReloadFinds
  BY DEF RInv, IInv
<1>1. SUFFICES ASSUME pc'[d] \in {"firstReload", "lastReload"}
               PROVE  /\ pc'[d] = "firstReload" => rows'[op'[d].guild] # NoRow
                      /\ pc'[d] = "lastReload" =>
                           /\ op'[d].guild \in unread'
                           /\ rows'[op'[d].guild] = NoRow => op'[d].kind = "remove"
  OBVIOUS
<1>2. CASE pc'[d] = pc[d] /\ op'[d] = op[d] /\ UNCHANGED <<rows, unread>>
  BY <1>0, <1>2 DEF ReloadFinds
<1>3. ASSUME NEW c \in Callers,
             (\E o \in Ops : Call(c, o)) \/ (\E g \in Guilds : GetCached(c, g)) \/ Lock(c)
      PROVE  pc'[d] = pc[d] /\ op'[d] = op[d] /\ UNCHANGED <<rows, unread>>
  BY <1>0, <1>1, <1>3 DEF Call, GetCached, Lock, Goto, TypeOK
<1>4. ASSUME NEW c \in Callers, Step(c) PROVE c = d
  BY <1>0, <1>1, <1>4, StepFrame, Alone DEF Inside
<1>5. ASSUME LoadCached(d) \/ Reload(d) \/ RejectInvalid(d) \/ Fail(d) PROVE FALSE
  BY <1>0, <1>1, <1>5 DEF TypeOK, LoadCached, Reload, Loaded, RejectInvalid,
                          Fail, Return, Proceed, Goto
<1>6. CASE InsertDefault(d)
  <2>1. pc'[d] = "firstReload" /\ op' = op /\ pc[d] # "idle"
    BY <1>0, <1>6 DEF InsertDefault, Proceed, Goto, TypeOK
  <2>2. op[d].guild \in Guilds
    BY <1>0, <2>1, Busy, OpFields
  <2>3. rows'[op[d].guild] # NoRow
    BY <1>0, <1>6, <2>2, DefaultType, NoConfusion DEF InsertDefault, TypeOK
  <2> QED BY <2>1, <2>3
<1>7. CASE Update(d) \/ AddChannel(d) \/ RemoveChannel(d) \/ Reset(d)
  <2>1. /\ pc[d] = "write" /\ pc'[d] = "lastReload" /\ op' = op
        /\ unread' = unread \cup {op[d].guild}
    BY <1>0, <1>7
       DEF Update, AddChannel, RemoveChannel, Reset, Wrote, Proceed, Goto, TypeOK
  <2>2. op[d].guild \in Guilds
    BY <1>0, <2>1, Busy, OpFields
  <2>3. CASE Update(d)
    BY <1>0, <2>1, <2>2, <2>3, RowsStay DEF Update, WriterHasConfig, CachedRow
  <2>4. CASE AddChannel(d)
    BY <2>1, <2>4 DEF AddChannel
  <2>5. CASE RemoveChannel(d)
    BY <2>1, <2>5 DEF RemoveChannel
  <2>6. CASE Reset(d)
    BY <1>0, <2>1, <2>2, <2>6, DefaultType, NoConfusion DEF Reset, TypeOK
  <2> QED BY <1>7, <2>3, <2>4, <2>5, <2>6
<1>8. ~Restart
  BY <1>1 DEF Restart
<1>9. CASE UNCHANGED vars
  BY <1>2, <1>9 DEF vars
<1> QED BY <1>2, <1>3, <1>4, <1>5, <1>6, <1>7, <1>8, <1>9 DEF Next, Step

LEMMA RInvAlways == Spec => []RInv
<1>1. Init => CachedRow /\ ReloadFinds
  BY DEF Init, CachedRow, ReloadFinds
<1>2. RInv /\ [Next]_vars => (CachedRow /\ ReloadFinds)'
  BY StepCached, StepFinds
<1> QED BY Invariance, <1>1, <1>2, PTL DEF Spec, RInv

-----------------------------------------------------------------------------
(* Refinement: the service implements ConfigStore.                         *)

\* ConfigStore speaks of the configurations of this module.
LEMMA SameModel ==
  /\ Store!Ops = Ops /\ Store!Config = Config /\ Store!DefaultConfig = DefaultConfig
  /\ \A cfg : Store!Validate(cfg) <=> Validate(cfg)
  /\ \A cfg, o : Store!After(cfg, o) = After(cfg, o)
<1>1. Store!Ops = Ops /\ Store!Config = Config /\ Store!DefaultConfig = DefaultConfig
  BY DEF Store!Ops, Ops, Store!Config, Config, Store!DefaultConfig, DefaultConfig
<1>2. \A cfg : Store!Validate(cfg) <=> Validate(cfg)
  BY DEF Store!Validate, Validate
<1>3. \A cfg, o : Store!After(cfg, o) = After(cfg, o)
  BY <1>1 DEF Store!After, After
<1> QED BY <1>1, <1>2, <1>3

\* What ConfigStore sees of a caller at each place in the code.
Seen(s) == IF s = "idle" THEN "idle" ELSE IF s = "lastReload" THEN "effective" ELSE "asked"

LEMMA CallMoves ==
  ASSUME TypeOK, NEW c \in Callers, NEW s, pc' = [pc EXCEPT ![c] = s]
  PROVE  callBar' = [callBar EXCEPT ![c] = Seen(s)]
  BY DEF TypeOK, callBar, Seen

LEMMA ConfigSame ==
  ASSUME UNCHANGED <<rows, channels>>
  PROVE  configBar' = configBar
  BY EffectiveKept DEF configBar

\* While a caller is inside, only its own guild can be about to be read back.
LEMMA StaleNow ==
  ASSUME OneInside, NEW c \in Callers, pc[c] \in Inside
  PROVE  staleBar = IF pc[c] = "lastReload" THEN unread \ {op[c].guild} ELSE unread
<1>1. \A d \in Callers : d # c => pc[d] # "lastReload"
  BY Alone DEF Inside
<1> QED BY <1>1 DEF staleBar

LEMMA StaleNext ==
  ASSUME TypeOK, OneInside, NEW c \in Callers, Step(c)
  PROVE  staleBar' = IF pc'[c] = "lastReload" THEN unread' \ {op'[c].guild} ELSE unread'
<1>1. \A d \in Callers : d # c => pc'[d] # "lastReload"
  BY StepFrame, Alone DEF Inside
<1> QED BY <1>1 DEF staleBar

\* Outside the critical section, no caller starts or ends reading back.
LEMMA StaleSame ==
  ASSUME unread' = unread, NEW c \in Callers,
         pc[c] # "lastReload", pc'[c] # "lastReload",
         \A d \in Callers : d # c => pc'[d] = pc[d] /\ op'[d] = op[d]
  PROVE  staleBar' = staleBar
<1>1. {d \in Callers : pc'[d] = "lastReload"} = {d \in Callers : pc[d] = "lastReload"}
  OBVIOUS
<1>2. \A d \in {e \in Callers : pc[e] = "lastReload"} : op'[d].guild = op[d].guild
  OBVIOUS
<1> QED BY <1>1, <1>2 DEF staleBar

\* An operation that returns is answered.
LEMMA ReturnAnswers ==
  ASSUME TypeOK, NEW c \in Callers, NEW r, Return(c, r), UNCHANGED <<rows, channels>>
  PROVE  Store!Answer(c, r)
<1>1. callBar' = [callBar EXCEPT ![c] = "idle"]
  BY CallMoves DEF Return, Seen
<1> QED BY <1>1, ConfigSame DEF Return, Store!Answer

-----------------------------------------------------------------------------

LEMMA InitStore == Init => Store!StoreInit
<1> SUFFICES ASSUME Init PROVE Store!StoreInit
  OBVIOUS
<1>1. configBar = [g \in Guilds |-> Store!DefaultConfig]
  BY SameModel DEF Init, configBar, Effective
<1>2. callBar = [c \in Callers |-> "idle"] /\ staleBar = {}
  BY DEF Init, callBar, staleBar
<1> QED BY <1>1, <1>2 DEF Init, Store!StoreInit

\* A call, and the read of a cached configuration.
LEMMA CallAsks ==
  ASSUME TypeOK, NEW c \in Callers, NEW o \in Ops, Call(c, o)
  PROVE  Store!Ask(c, o)
<1>1. callBar[c] = "idle" /\ callBar' = [callBar EXCEPT ![c] = "asked"]
  <2>1. pc[c] = "idle" /\ pc' = [pc EXCEPT ![c] = "locking"]
    BY DEF Call, Goto
  <2>2. callBar' = [callBar EXCEPT ![c] = Seen("locking")]
    BY <2>1, CallMoves
  <2> QED BY <2>1, <2>2 DEF Seen, callBar
<1>2. configBar' = configBar
  BY ConfigSame DEF Call
<1>3. staleBar' = staleBar
  BY StaleSame DEF Call, Goto, TypeOK
<1> QED BY <1>1, <1>2, <1>3 DEF Call, Store!Ask

LEMMA GetReads ==
  ASSUME TypeOK, NEW c \in Callers, NEW g \in Guilds, GetCached(c, g)
  PROVE  Store!Read(c)
<1>1. callBar[c] = "idle" /\ callBar' = callBar /\ staleBar' = staleBar
  BY DEF GetCached, callBar, staleBar
<1>2. configBar' = configBar
  BY ConfigSame DEF GetCached
<1> QED BY <1>1, <1>2 DEF GetCached, Store!Read

\* Taking the mutex is no step of ConfigStore.
LEMMA LockStutters ==
  ASSUME TypeOK, NEW c \in Callers, Lock(c)
  PROVE  UNCHANGED <<configBar, staleBar, callBar, op, result>>
<1>1. PICK s \in {"write", "load"} : pc' = [pc EXCEPT ![c] = s]
  BY DEF Lock, Goto
<1>2. callBar' = [callBar EXCEPT ![c] = "asked"] /\ callBar[c] = "asked"
  BY <1>1, CallMoves DEF Seen, Lock, callBar
<1>3. callBar' = callBar
  BY <1>2 DEF callBar
<1>4. staleBar' = staleBar
  BY <1>1, StaleSame DEF Lock, TypeOK
<1> QED BY <1>3, <1>4, ConfigSame DEF Lock

\* Going on before the write is none either.
LEMMA ProceedStutters ==
  ASSUME TypeOK, OneInside, NEW c \in Callers, Step(c), pc[c] # "lastReload",
         NEW s \in {"firstReload", "write"}, Proceed(c, s)
  PROVE  /\ UNCHANGED <<callBar, op, result>> /\ callBar[c] = "asked"
         /\ staleBar = unread /\ staleBar' = unread'
<1>1. callBar' = [callBar EXCEPT ![c] = "asked"]
  BY CallMoves DEF Proceed, Goto, Seen
<1>2. callBar[c] = "asked" /\ pc[c] \in Inside /\ pc'[c] = s
  BY StepFrame DEF callBar, Inside, Proceed, Goto, TypeOK
<1>3. callBar' = callBar
  BY <1>1, <1>2 DEF callBar
<1> QED BY <1>2, <1>3, StaleNow, StaleNext DEF Proceed

\* Returning before the write.
LEMMA ReturnEarly ==
  ASSUME TypeOK, OneInside, NEW c \in Callers, Step(c), pc[c] # "lastReload",
         NEW r, Return(c, r)
  PROVE  callBar[c] = "asked" /\ staleBar = unread /\ staleBar' = unread'
<1>1. callBar[c] = "asked" /\ pc[c] \in Inside /\ pc'[c] = "idle"
  BY StepFrame DEF callBar, Inside, Return, TypeOK
<1> QED BY <1>1, StaleNow, StaleNext

\* Returning after it.
LEMMA ReturnLate ==
  ASSUME TypeOK, OneInside, NEW c \in Callers, Step(c), pc[c] = "lastReload",
         NEW r, Return(c, r)
  PROVE  /\ callBar[c] = "effective"
         /\ staleBar = unread \ {op[c].guild} /\ staleBar' = unread'
<1>1. callBar[c] = "effective" /\ pc[c] \in Inside /\ pc'[c] = "idle"
  BY StepFrame DEF callBar, Inside, Return, TypeOK
<1> QED BY <1>1, StaleNow, StaleNext

-----------------------------------------------------------------------------
(* The writes take effect. *)

\* After a step too, what a guild's configuration is, is one, and valid.
LEMMA EffectiveNext ==
  ASSUME RInv, [Next]_vars, NEW g \in Guilds
  PROVE  Effective(g)' \in Config /\ Validate(Effective(g)')
<1>1. TypeOK' /\ StoredConfigValid'
  BY StepType, StepValid DEF RInv
<1>2. DefaultConfig \in Config /\ Validate(DefaultConfig)
  BY ConfigAssumption DEF DefaultConfig, Config, Validate
<1>3. rows'[g] # NoRow => Validate(Stored(g)')
  BY <1>1 DEF StoredConfigValid, Validate, Stored
<1>4. rows'[g] # NoRow => Stored(g)' \in Config
  BY <1>1 DEF TypeOK, Stored, Row, Config
<1> QED BY <1>2, <1>3, <1>4 DEF Effective

\* An update of a guild that is not current sets what it was asked to set, and
\* leaves the channels.
LEMMA StaleUpdate ==
  ASSUME RInv, NEW c \in Callers, NEW o \in Ops, o = op[c], Update(c), [Next]_vars
  PROVE  /\ Effective(o.guild)'.channels = Effective(o.guild).channels
         /\ After(Effective(o.guild)', o) = Effective(o.guild)'
<1> DEFINE g == o.guild
<1>0. TypeOK /\ WriterHasConfig /\ CachedRow /\ g \in Guilds
  BY OpFields DEF RInv, IInv
<1>1. pc[c] = "write" /\ o.kind \in {"setWidth", "setDelete"}
  BY DEF Update, IsUpdate
<1>2. rows[g] # NoRow /\ Mutated(c) \in Config
  BY <1>0, <1>1, MutatedType DEF WriterHasConfig, IsUpdate, CachedRow
<1> DEFINE row == [width |-> Mutated(c).width, deleteOriginal |-> Mutated(c).deleteOriginal]
<1>3. rows'[g] = row /\ channels' = channels
  BY <1>0, <1>2 DEF Update, TypeOK
<1>4. row # NoRow
  BY <1>2, NoConfusion DEF Row, Config
<1>5. Effective(g)' = [width |-> Mutated(c).width,
                       deleteOriginal |-> Mutated(c).deleteOriginal,
                       channels |-> channels[g]]
  BY <1>3, <1>4 DEF Effective, Stored
<1>6. cache[g] \in Config
  BY <1>0, <1>1 DEF TypeOK, WriterHasConfig, IsUpdate
<1>7. /\ o.kind = "setWidth" => Mutated(c).width = o.width
      /\ o.kind = "setDelete" => Mutated(c).deleteOriginal = o.flag
  BY <1>6 DEF Mutated, Config
<1>8. After(Effective(g)', o) = Effective(g)'
  BY <1>1, <1>5, <1>7 DEF After
<1> QED BY <1>2, <1>5, <1>8 DEF Effective, Stored

\* The configuration after a write is one of the outcomes ConfigStore allows.
LEMMA WriteOutcome ==
  ASSUME RInv, [Next]_vars, NEW c \in Callers, NEW o \in Ops, o = op[c], staleBar = unread,
         Update(c) \/ AddChannel(c) \/ RemoveChannel(c) \/ Reset(c)
  PROVE  Effective(o.guild)' \in Store!Outcomes(o.guild, o)
<1> DEFINE g == o.guild
<1>0. IInv /\ g \in Guilds /\ configBar[g] = Effective(g)
  BY OpFields DEF RInv, configBar
<1>1. CASE g \in unread /\ o.kind \in {"setWidth", "setDelete"}
  <2>1. Update(c)
    BY <1>1 DEF AddChannel, RemoveChannel, Reset
  <2>2. /\ Effective(g)'.channels = configBar[g].channels
        /\ Store!After(Effective(g)', o) = Effective(g)'
    BY <1>0, <2>1, StaleUpdate, SameModel
  <2>3. Effective(g)' \in Store!Config
    BY <1>0, EffectiveNext, SameModel
  <2> QED BY <1>1, <2>2, <2>3 DEF Store!Outcomes
<1>2. CASE ~(g \in unread /\ o.kind \in {"setWidth", "setDelete"})
  <2>1. Effective(g)' = Store!After(configBar[g], o)
    BY <1>0, <1>2, WriteTurns, SameModel
  <2> QED BY <1>2, <2>1 DEF Store!Outcomes
<1> QED BY <1>1, <1>2

LEMMA WriteTakesEffect ==
  ASSUME RInv, [Next]_vars, NEW c \in Callers,
         Update(c) \/ AddChannel(c) \/ RemoveChannel(c) \/ Reset(c)
  PROVE  Store!TakeEffect(c)
<1>0. IInv /\ TypeOK /\ OneInside
  BY DEF RInv, IInv
<1>1. /\ pc[c] = "write" /\ Proceed(c, "lastReload")
      /\ unread' = unread \cup {op[c].guild}
      /\ Step(c)
  BY DEF Update, AddChannel, RemoveChannel, Reset, Wrote, Step
<1>2. PICK o \in Ops : o = op[c]
  BY <1>0, <1>1, Busy
<1> DEFINE g == o.guild
<1>3. g \in Guilds
  BY OpFields
<1>4. staleBar = unread /\ staleBar' = staleBar \ {g}
  <2>1. pc[c] \in Inside /\ pc'[c] = "lastReload" /\ op' = op
    BY <1>0, <1>1 DEF Inside, Proceed, Goto, TypeOK
  <2>2. staleBar = unread
    BY <1>0, <1>1, <2>1, StaleNow
  <2>3. staleBar' = unread' \ {g}
    BY <1>0, <1>1, <1>2, <2>1, StaleNext
  <2> QED BY <1>1, <1>2, <2>2, <2>3
<1>5. callBar[c] = "asked" /\ callBar' = [callBar EXCEPT ![c] = "effective"]
  BY <1>0, <1>1, CallMoves DEF Proceed, Goto, Seen, callBar
<1>6. configBar' = [configBar EXCEPT ![g] = Effective(g)']
  <2>1. \A h \in Guilds : h # g => rows'[h] = rows[h] /\ channels'[h] = channels[h]
    BY <1>0, <1>2, <1>3 DEF Update, AddChannel, RemoveChannel, Reset, TypeOK
  <2>2. \A h \in Guilds : h # g => Effective(h)' = Effective(h)
    BY <2>1 DEF Effective, Stored
  <2> QED BY <1>3, <2>2 DEF configBar
<1>7. o.kind # "get"
  BY <1>0, <1>2, WriteTurns
<1>8. /\ Effective(g)' \in Store!Outcomes(g, o)
      /\ Store!Validate(Effective(g)')
  BY <1>2, <1>3, <1>4, WriteOutcome, EffectiveNext, SameModel
<1>9. op' = op /\ result' = result
  BY <1>1 DEF Proceed
<1> QED BY <1>2, <1>4, <1>5, <1>6, <1>7, <1>8, <1>9 DEF Store!TakeEffect

-----------------------------------------------------------------------------
(* Every other step of a caller inside the critical section. *)

LEMMA LoadedStep ==
  ASSUME RInv, NEW c \in Callers, LoadCached(c)
  PROVE  Store!Succeed(c) \/ UNCHANGED <<configBar, staleBar, callBar, op, result>>
<1>0. TypeOK /\ OneInside /\ Step(c) /\ pc[c] # "lastReload"
      /\ UNCHANGED <<rows, channels, unread>>
  BY DEF RInv, IInv, Step, LoadCached
<1>1. CASE op[c].kind = "get"
  <2>1. Return(c, "ok")
    BY <1>1 DEF LoadCached, Loaded
  <2> QED BY <1>0, <1>1, <2>1, ReturnAnswers, ReturnEarly DEF Store!Succeed
<1>2. CASE op[c].kind # "get"
  <2>1. Proceed(c, "write")
    BY <1>2 DEF LoadCached, Loaded
  <2> QED BY <1>0, <2>1, ProceedStutters, ConfigSame
<1> QED BY <1>1, <1>2

LEMMA InsertStutters ==
  ASSUME RInv, NEW c \in Callers, InsertDefault(c)
  PROVE  UNCHANGED <<configBar, staleBar, callBar, op, result>>
<1>0. TypeOK /\ OneInside /\ StoredConfigValid /\ Step(c) /\ pc[c] # "lastReload"
      /\ Proceed(c, "firstReload") /\ unread' = unread
  BY DEF RInv, IInv, Step, InsertDefault
<1>1. configBar' = configBar
  BY <1>0, InsertKeeps DEF configBar
<1> QED BY <1>0, <1>1, ProceedStutters

LEMMA ReloadStep ==
  ASSUME RInv, NEW c \in Callers, Reload(c)
  PROVE  Store!Succeed(c) \/ Store!Reread(c) \/ Store!NothingToRemove(c)
<1>0. TypeOK /\ OneInside /\ ReloadFinds /\ Step(c) /\ UNCHANGED <<rows, channels>>
      /\ unread' = unread \ {op[c].guild}
  BY DEF RInv, IInv, Step, Reload
<1>1. op[c].guild \in Guilds
  BY <1>0, Busy, OpFields DEF Reload
<1>2. CASE pc[c] = "firstReload"
  <2>1. rows[op[c].guild] # NoRow
    BY <1>0, <1>2 DEF ReloadFinds
  <2>2. CASE op[c].kind = "get"
    <3>1. Return(c, "ok")
      BY <1>2, <2>1, <2>2 DEF Reload, Loaded
    <3> QED BY <1>0, <1>2, <2>2, <3>1, ReturnAnswers, ReturnEarly DEF Store!Succeed
  <2>3. CASE op[c].kind # "get"
    <3>1. Proceed(c, "write")
      BY <1>2, <2>1, <2>3 DEF Reload, Loaded
    <3> QED BY <1>0, <1>2, <3>1, ProceedStutters, ConfigSame DEF Store!Reread
  <2> QED BY <2>2, <2>3
<1>3. CASE pc[c] = "lastReload" /\ rows[op[c].guild] # NoRow
  <2>1. Return(c, "ok")
    BY <1>3 DEF Reload
  <2> QED BY <1>0, <1>3, <2>1, ReturnAnswers, ReturnLate DEF Store!Succeed
<1>4. CASE pc[c] = "lastReload" /\ rows[op[c].guild] = NoRow
  <2>1. Return(c, "error") /\ op[c].kind = "remove"
    BY <1>0, <1>4 DEF Reload, ReloadFinds
  <2>2. configBar[op[c].guild] = Store!DefaultConfig
    BY <1>1, <1>4, SameModel DEF configBar, Effective
  <2> QED BY <1>0, <1>4, <2>1, <2>2, ReturnAnswers, ReturnLate DEF Store!NothingToRemove
<1> QED BY <1>2, <1>3, <1>4 DEF Reload

LEMMA RejectRejects ==
  ASSUME RInv, NEW c \in Callers, RejectInvalid(c)
  PROVE  Store!Reject(c)
<1>0. TypeOK /\ OneInside /\ WriterHasConfig /\ CachedRow /\ Step(c) /\ pc[c] # "lastReload"
      /\ UNCHANGED <<rows, channels, unread>> /\ Return(c, "invalid")
  BY DEF RInv, IInv, Step, RejectInvalid
<1>1. op[c].guild \in Guilds /\ pc[c] = "write" /\ IsUpdate(c)
  BY <1>0, Busy, OpFields DEF RejectInvalid
<1>2. /\ cache[op[c].guild] \in Config /\ Validate(cache[op[c].guild])
      /\ ~Validate(Mutated(c))
  BY <1>0, <1>1 DEF TypeOK, WriterHasConfig, CachedRow, RejectInvalid
<1>3. op[c].kind = "setWidth" /\ op[c].width \notin ValidWidths
  BY <1>1, <1>2 DEF Mutated, Validate, Config, IsUpdate
<1> QED BY <1>0, <1>3, ReturnAnswers, ReturnEarly DEF Store!Reject

LEMMA FailFails ==
  ASSUME RInv, NEW c \in Callers, Fail(c)
  PROVE  Store!FailBefore(c) \/ Store!FailAfter(c)
<1>0. TypeOK /\ OneInside /\ ReloadFinds /\ Step(c) /\ Faults
      /\ UNCHANGED <<rows, channels, unread>> /\ Return(c, "error")
  BY DEF RInv, IInv, Step, Fail
<1>1. Store!Answer(c, "error")
  BY <1>0, ReturnAnswers
<1>2. CASE pc[c] # "lastReload"
  BY <1>0, <1>1, <1>2, ReturnEarly DEF Store!FailBefore
<1>3. CASE pc[c] = "lastReload"
  <2>1. op[c].guild \in unread
    BY <1>0, <1>3 DEF ReloadFinds
  <2>2. staleBar' = staleBar \cup {op[c].guild} /\ callBar[c] = "effective"
    BY <1>0, <1>3, <2>1, ReturnLate
  <2> QED BY <1>0, <1>1, <2>2 DEF Store!FailAfter
<1> QED BY <1>2, <1>3

LEMMA RestartForgets == Restart => Store!Forget
<1> SUFFICES ASSUME Restart PROVE Store!Forget
  OBVIOUS
<1>1. callBar' = [c \in Callers |-> "idle"]
  BY DEF Restart, callBar
<1>2. staleBar' = {}
  BY DEF Restart, staleBar
<1>3. configBar' = configBar
  BY ConfigSame DEF Restart
<1> QED BY <1>1, <1>2, <1>3 DEF Restart, Store!Forget

LEMMA StepStore == RInv /\ [Next]_vars => [Store!StoreNext]_(Store!storeVars)
<1> SUFFICES ASSUME RInv, [Next]_vars PROVE [Store!StoreNext]_(Store!storeVars)
  OBVIOUS
<1>0. TypeOK
  BY DEF RInv, IInv
<1> DEFINE Stutter == UNCHANGED <<configBar, staleBar, callBar, op, result>>
<1>1. ASSUME Stutter PROVE [Store!StoreNext]_(Store!storeVars)
  BY <1>1 DEF Store!storeVars
<1>2. ASSUME NEW c \in Callers, NEW o \in Ops, Call(c, o) PROVE Store!StoreNext
  BY <1>0, <1>2, CallAsks, SameModel DEF Store!StoreNext
<1>3. ASSUME NEW c \in Callers, NEW g \in Guilds, GetCached(c, g) PROVE Store!StoreNext
  BY <1>0, <1>3, GetReads DEF Store!StoreNext
<1>4. ASSUME NEW c \in Callers, Lock(c) PROVE Stutter
  BY <1>0, <1>4, LockStutters
<1>5. ASSUME NEW c \in Callers, Step(c) PROVE Store!StoreNext \/ Stutter
  <2>1. CASE LoadCached(c)
    BY <2>1, LoadedStep DEF Store!StoreNext
  <2>2. CASE InsertDefault(c)
    BY <2>2, InsertStutters
  <2>3. CASE Reload(c)
    BY <2>3, ReloadStep DEF Store!StoreNext
  <2>4. CASE Update(c) \/ AddChannel(c) \/ RemoveChannel(c) \/ Reset(c)
    BY <2>4, WriteTakesEffect DEF Store!StoreNext
  <2>5. CASE RejectInvalid(c)
    BY <2>5, RejectRejects DEF Store!StoreNext
  <2>6. CASE Fail(c)
    BY <2>6, FailFails DEF Store!StoreNext
  <2> QED BY <1>5, <2>1, <2>2, <2>3, <2>4, <2>5, <2>6 DEF Step
<1>6. CASE Restart
  BY <1>6, RestartForgets DEF Store!StoreNext
<1>7. CASE UNCHANGED vars
  <2>1. configBar' = configBar
    BY <1>7, ConfigSame DEF vars
  <2>2. callBar' = callBar /\ staleBar' = staleBar /\ UNCHANGED <<op, result>>
    BY <1>7 DEF vars, callBar, staleBar
  <2> QED BY <1>1, <2>1, <2>2
<1> HIDE DEF Stutter
<1> QED BY <1>1, <1>2, <1>3, <1>4, <1>5, <1>6, <1>7 DEF Next

\* Every operation is one step between its call and its return, whatever fails
\* and restarts in between: service.go's mutex, cache, database calls and reloads
\* are hidden from its callers, except for the stale guild after a failed reload.
THEOREM ServiceImplementsStore == Spec => ImplementsConfigStore
BY RInvAlways, InitStore, StepStore, PTL
   DEF Spec, ImplementsConfigStore, Store!StoreSpec

==============================================================================
