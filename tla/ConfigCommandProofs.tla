------------------------- MODULE ConfigCommandProofs -------------------------
(***************************************************************************)
(* Proofs about ConfigCommand for any guilds, callers, widths and failures *)
(* of the database.                                                        *)
(*                                                                         *)
(* The handler and the jobs take no step with the service that             *)
(* ConfigService does not allow, so what is proved of the service holds    *)
(* below the command. Who may change a configuration then needs two facts  *)
(* more: the gateway is the only caller that writes, and it is in the      *)
(* service only for an interaction whose user has the permission. That the *)
(* answer is true needs what the gateway's operation has done so far.      *)
(***************************************************************************)
EXTENDS ConfigCommand, ConfigServiceProofs

-----------------------------------------------------------------------------
(* The command uses the service as it may be used. *)

\* The operation that the reset prompt asks for.
LEMMA ResetIsOp == \A g \in Guilds : [kind |-> "reset", guild |-> g] \in Ops
  BY DEF Ops

LEMMA CallServiceIsNext ==
  ASSUME NEW o \in Ops, CallService(o)
  PROVE  Next
<1>1. o.guild \in Guilds
  BY OpFields
<1> QED BY <1>1, GatewayAssumption DEF CallService, Next

LEMMA StepImplements == [CommandNext]_allVars => [Next]_vars
<1> SUFFICES ASSUME [CommandNext]_allVars PROVE [Next]_vars
  OBVIOUS
<1>1. ASSUME NEW o \in Ops, NEW manages \in BOOLEAN, Subcommand(o, manages)
      PROVE  [Next]_vars
  BY <1>1, CallServiceIsNext DEF Subcommand, AnswerNow
<1>2. ASSUME NEW g \in Guilds, NEW manages \in BOOLEAN,
             ResetSubcommand(g, manages) \/ Cancel(g)
      PROVE  [Next]_vars
  BY <1>2 DEF ResetSubcommand, Cancel
<1>3. ASSUME NEW g \in Guilds, NEW manages \in BOOLEAN, Confirm(g, manages)
      PROVE  [Next]_vars
  BY <1>3, CallServiceIsNext, ResetIsOp DEF Confirm, AnswerNow
<1>4. ASSUME ServiceStep PROVE [Next]_vars
  BY <1>4, GatewayAssumption DEF ServiceStep, Next
<1>5. ASSUME Answer PROVE [Next]_vars
  BY <1>5 DEF Answer
<1>6. ASSUME NEW c \in Callers \ {Gateway}, JobStep(c) PROVE [Next]_vars
  <2>1. \A g \in Guilds : [kind |-> "get", guild |-> g] \in Ops
    BY DEF Ops
  <2> QED BY <1>6, <2>1 DEF JobStep, Next
<1>7. ASSUME CommandRestart PROVE [Next]_vars
  BY <1>7 DEF CommandRestart, Next
<1>8. CASE UNCHANGED allVars
  BY <1>8 DEF allVars
<1> QED BY <1>1, <1>2, <1>3, <1>4, <1>5, <1>6, <1>7, <1>8 DEF CommandNext

\* The command implements the specification of the service alone: in whatever
\* order interactions and jobs come, its theorems hold of /config
\* (commands.go calls Get, Update, AddChannel, RemoveChannel and Reset only).
THEOREM CommandImplementsService == CommandSpec => Spec
<1>1. CommandInit => Init
  BY DEF CommandInit
<1> QED BY <1>1, StepImplements, PTL DEF CommandSpec, Spec

LEMMA ServiceInvariance == CommandSpec => []IInv
  BY CommandImplementsService, Invariance, PTL

-----------------------------------------------------------------------------
(* Types, and the handler between gateway and service. *)

\* The handler is in the service for a manager only, and jobs only read.
Served ==
  /\ handler = "calling" => manager
  /\ \A c \in Callers \ {Gateway} : pc[c] # "idle" => op[c].kind = "get"

CommandInv == CommandTypeOK /\ Served

LEMMA EffectiveType ==
  ASSUME TypeOK, NEW g \in Guilds
  PROVE  Effective(g) \in Config
<1>1. DefaultConfig \in Config
  BY ConfigAssumption DEF DefaultConfig, Config
<1>2. rows[g] # NoRow => Stored(g) \in Config
  BY StoredType
<1> QED BY <1>1, <1>2 DEF Effective

\* What a caller inside the service does to the callers.
LEMMA CallerStep ==
  ASSUME TypeOK, NEW c \in Callers, Lock(c) \/ Step(c)
  PROVE  /\ pc[c] # "idle"
         /\ pc'[c] = "idle" \/ op'[c] = op[c]
         /\ \A d \in Callers \ {c} : pc'[d] = pc[d] /\ op'[d] = op[d]
<1>1. CASE Lock(c)
  BY <1>1 DEF Lock, Goto, TypeOK
<1>2. CASE Step(c)
  <2>1. pc[c] # "idle"
    BY <1>2 DEF Step, LoadCached, InsertDefault, Reload, Update, RejectInvalid,
                AddChannel, RemoveChannel, Reset, Fail
  <2>2. \/ \E r \in Result : Return(c, r)
        \/ \E s \in CallState : Proceed(c, s)
    BY <1>2 DEF Step, LoadCached, Loaded, InsertDefault, Reload, Update, RejectInvalid,
                AddChannel, RemoveChannel, Reset, Fail, Wrote, Result, CallState
  <2> QED BY <2>1, <2>2 DEF Return, Proceed, Goto, TypeOK
<1> QED BY <1>1, <1>2

\* An interaction that reaches the service, or is answered by itself.
LEMMA InteractionInv ==
  ASSUME CommandInv, TypeOK', NEW o \in Ops, NEW manages \in BOOLEAN,
         Interaction(o, manages), prompts' \subseteq Guilds,
         \/ manages /\ CallService(o)
         \/ \E r \in Reply : AnswerNow(r)
  PROVE  CommandInv'
<1>1. /\ TypeOK /\ o.guild \in Guilds /\ o # NoOp
      /\ pc[Gateway] = "idle"
  BY OpFields DEF CommandInv, CommandTypeOK, Interaction
<1>2. before' \in Config /\ fresh' \in BOOLEAN /\ changed' \in BOOLEAN
  <2>1. /\ before' = Effective(o.guild) /\ fresh' = (o.guild \notin unread)
        /\ changed' = FALSE
    BY DEF Interaction
  <2> QED BY <1>1, <2>1, EffectiveType
<1>3. CASE manages /\ Call(Gateway, o) /\ handler' = "calling" /\ reply' = "none"
  BY <1>1, <1>2, <1>3, GatewayAssumption
  DEF CommandInv, CommandTypeOK, Served, Interaction, Call, Goto, TypeOK, Reply
<1>4. CASE GetCached(Gateway, o.guild) /\ handler' = "waiting" /\ reply' = "done"
  BY <1>1, <1>2, <1>4, GatewayAssumption
  DEF CommandInv, CommandTypeOK, Served, Interaction, GetCached, Reply
<1>5. CASE \E r \in Reply : AnswerNow(r)
  BY <1>1, <1>2, <1>5, GatewayAssumption
  DEF CommandInv, CommandTypeOK, Served, Interaction, AnswerNow, vars, Reply
<1> QED BY <1>3, <1>4, <1>5 DEF CallService

LEMMA StepCommand == CommandInv /\ TypeOK' /\ [CommandNext]_allVars => CommandInv'
<1> SUFFICES ASSUME CommandInv, TypeOK', [CommandNext]_allVars PROVE CommandInv'
  OBVIOUS
<1>0. TypeOK /\ CommandTypeOK /\ Served
  BY DEF CommandInv, CommandTypeOK
<1>1. ASSUME NEW o \in Ops, NEW manages \in BOOLEAN, Subcommand(o, manages)
      PROVE  CommandInv'
  BY <1>0, <1>1, InteractionInv DEF Subcommand, CommandTypeOK, Reply
<1>2. ASSUME NEW g \in Guilds, NEW manages \in BOOLEAN, ResetSubcommand(g, manages)
      PROVE  CommandInv'
  <2>1. prompts' \subseteq Guilds
    BY <1>0, <1>2 DEF ResetSubcommand, CommandTypeOK
  <2> QED BY <1>0, <1>2, <2>1
          DEF ResetSubcommand, CommandInv, CommandTypeOK, Served, vars, Reply
<1>3. ASSUME NEW g \in Guilds, Cancel(g) PROVE CommandInv'
  <2>1. prompts' \subseteq Guilds
    BY <1>0, <1>3 DEF Cancel, Pressed, CommandTypeOK
  <2> QED BY <1>0, <1>3, <2>1
          DEF Cancel, CommandInv, CommandTypeOK, Served, vars, Reply
<1>4. ASSUME NEW g \in Guilds, NEW manages \in BOOLEAN, Confirm(g, manages)
      PROVE  CommandInv'
  <2>1. prompts' \subseteq Guilds
    BY <1>0, <1>4 DEF Confirm, Pressed, CommandTypeOK
  <2> QED BY <1>0, <1>4, <2>1, InteractionInv, ResetIsOp DEF Confirm, Reply
<1>5. ASSUME ServiceStep PROVE CommandInv'
  <2>1. /\ pc[Gateway] # "idle"
        /\ pc'[Gateway] = "idle" \/ op'[Gateway] = op[Gateway]
        /\ \A d \in Callers \ {Gateway} : pc'[d] = pc[d] /\ op'[d] = op[d]
    BY <1>0, <1>5, CallerStep, GatewayAssumption DEF ServiceStep
  <2>2. changed' \in BOOLEAN
    BY <1>0, <1>5 DEF ServiceStep, Affected, CommandTypeOK
  <2> QED BY <1>0, <1>5, <2>1, <2>2
          DEF ServiceStep, CommandInv, CommandTypeOK, Served
<1>6. ASSUME Answer PROVE CommandInv'
  <2>1. prompts' \subseteq Guilds
    BY <1>0, <1>6 DEF Answer, Pressed, CommandTypeOK
  <2>2. reply' \in Reply
    BY <1>6 DEF Answer, Reply
  <2> QED BY <1>0, <1>6, <2>1, <2>2
          DEF Answer, CommandInv, CommandTypeOK, Served, vars
<1>7. ASSUME NEW c \in Callers \ {Gateway}, JobStep(c) PROVE CommandInv'
  <2>1. UNCHANGED commandVars
    BY <1>7 DEF JobStep
  <2>2. ASSUME NEW g \in Guilds, Call(c, [kind |-> "get", guild |-> g])
        PROVE  CommandInv'
    BY <1>0, <2>1, <2>2, GatewayAssumption
    DEF Call, Goto, TypeOK, CommandInv, CommandTypeOK, Served, commandVars
  <2>3. ASSUME NEW g \in Guilds, GetCached(c, g) PROVE CommandInv'
    BY <1>0, <2>1, <2>3
    DEF GetCached, CommandInv, CommandTypeOK, Served, commandVars
  <2>4. CASE Lock(c) \/ Step(c)
    <3>1. /\ pc[c] # "idle"
          /\ pc'[c] = "idle" \/ op'[c] = op[c]
          /\ \A d \in Callers \ {c} : pc'[d] = pc[d] /\ op'[d] = op[d]
      BY <1>0, <2>4, CallerStep
    <3> QED BY <1>0, <2>1, <3>1, GatewayAssumption
            DEF CommandInv, CommandTypeOK, Served, commandVars
  <2> QED BY <1>7, <2>2, <2>3, <2>4 DEF JobStep
<1>8. ASSUME CommandRestart PROVE CommandInv'
  BY <1>0, <1>8, GatewayAssumption
  DEF CommandRestart, Restart, CommandInv, CommandTypeOK, Served, Reply
<1>9. CASE UNCHANGED allVars
  BY <1>0, <1>9 DEF allVars, commandVars, vars, CommandInv, CommandTypeOK, Served
<1> QED BY <1>1, <1>2, <1>3, <1>4, <1>5, <1>6, <1>7, <1>8, <1>9 DEF CommandNext

LEMMA CommandInvariance == CommandSpec => []CommandInv
<1>1. CommandInit /\ TypeOK => CommandInv
  <2>1. DefaultConfig \in Config
    BY ConfigAssumption DEF DefaultConfig, Config
  <2> QED BY <2>1, GatewayAssumption
          DEF CommandInit, Init, CommandInv, CommandTypeOK, Served, Reply
<1>2. IInv => TypeOK
  BY DEF IInv
<1> QED BY <1>1, <1>2, StepCommand, ServiceInvariance, PTL DEF CommandSpec

\* Types of the handler, the prompts and the answers; the gateway is in the
\* service only while it handles the command it was asked.
THEOREM CommandTypeCorrect == CommandSpec => []CommandTypeOK
<1>1. CommandInv => CommandTypeOK
  BY DEF CommandInv
<1> QED BY CommandInvariance, <1>1, PTL

-----------------------------------------------------------------------------
(* Who changes a configuration. *)

\* Only a write changes what a guild's configuration is, and only its own.
LEMMA EffectiveChange ==
  ASSUME TypeOK, StoredConfigValid, NEW c \in Callers, Lock(c) \/ Step(c),
         NEW g \in Guilds, Effective(g)' # Effective(g)
  PROVE  op[c].guild = g /\ op[c].kind # "get" /\ pc[c] # "idle"
<1>1. CASE UNCHANGED <<rows, channels>>
  BY <1>1 DEF Effective, Stored
<1>2. CASE InsertDefault(c)
  BY <1>2, InsertKeeps
<1>3. CASE Update(c) \/ AddChannel(c) \/ RemoveChannel(c) \/ Reset(c)
  <2>1. op[c].kind # "get" /\ pc[c] # "idle"
    BY <1>3 DEF Update, AddChannel, RemoveChannel, Reset, IsUpdate
  <2>2. \A h \in Guilds \ {op[c].guild} :
          rows'[h] = rows[h] /\ channels'[h] = channels[h]
    BY <1>3 DEF Update, AddChannel, RemoveChannel, Reset, TypeOK
  <2> QED BY <2>1, <2>2 DEF Effective, Stored
<1> QED BY <1>1, <1>2, <1>3
        DEF Lock, Step, LoadCached, Reload, RejectInvalid, Fail

\* A guild's configuration changes only while a command of that guild is
\* handled whose sender has Manage Server: neither a job that reads, nor
\* another guild's command, nor a prompt confirmed by somebody else changes it.
THEOREM OnlyManagers == CommandSpec => OnlyManagersChange
<1> DEFINE Changes(g) ==
      Effective(g)' # Effective(g) =>
        handler = "calling" /\ manager /\ asked.guild = g
<1>1. ASSUME CommandInv, IInv, [CommandNext]_allVars, NEW g \in Guilds
      PROVE  Changes(g)
  <2>0. TypeOK /\ StoredConfigValid /\ CommandTypeOK /\ Served
    BY <1>1 DEF IInv, CommandInv
  <2>1. CASE UNCHANGED <<rows, channels>>
    BY <2>1 DEF Effective, Stored
  <2>2. CASE ServiceStep
    <3> SUFFICES ASSUME Effective(g)' # Effective(g)
                 PROVE  handler = "calling" /\ manager /\ asked.guild = g
      OBVIOUS
    <3>1. op[Gateway].guild = g /\ pc[Gateway] # "idle"
      BY <2>0, <2>2, EffectiveChange, GatewayAssumption DEF ServiceStep
    <3> QED BY <2>0, <3>1 DEF CommandTypeOK, Served
  <2>3. ASSUME NEW c \in Callers \ {Gateway}, Lock(c) \/ Step(c) PROVE Changes(g)
    BY <2>0, <2>3, EffectiveChange DEF Served
  <2>4. CASE UNCHANGED vars
    BY <2>1, <2>4 DEF vars
  <2>5. ASSUME NEW o \in Ops, CallService(o) PROVE UNCHANGED <<rows, channels>>
    BY <2>5 DEF CallService, Call, GetCached
  <2>6. ASSUME NEW o \in Ops, NEW manages \in BOOLEAN, Subcommand(o, manages)
        PROVE  Changes(g)
    BY <2>1, <2>4, <2>5, <2>6 DEF Subcommand, AnswerNow
  <2>7. ASSUME NEW h \in Guilds, NEW manages \in BOOLEAN, Confirm(h, manages)
        PROVE  Changes(g)
    BY <2>1, <2>4, <2>5, <2>7, ResetIsOp DEF Confirm, AnswerNow
  <2>8. ASSUME NEW h \in Guilds, NEW manages \in BOOLEAN,
               ResetSubcommand(h, manages) \/ Cancel(h)
        PROVE  Changes(g)
    BY <2>4, <2>8 DEF ResetSubcommand, Cancel
  <2>9. ASSUME NEW c \in Callers \ {Gateway}, JobStep(c) PROVE Changes(g)
    BY <2>1, <2>3, <2>9 DEF JobStep, Call, GetCached
  <2>10. CASE Answer \/ CommandRestart \/ UNCHANGED allVars
    BY <2>1, <2>4, <2>10 DEF Answer, CommandRestart, Restart, allVars
  <2> QED BY <1>1, <2>2, <2>6, <2>7, <2>8, <2>9, <2>10 DEF CommandNext
<1>2. CommandInv /\ IInv /\ [CommandNext]_allVars => [\A g \in Guilds : Changes(g)]_allVars
  BY <1>1
<1> QED BY <1>2, CommandInvariance, ServiceInvariance, PTL
        DEF CommandSpec, OnlyManagersChange

-----------------------------------------------------------------------------
(* What the answer says.                                                   *)
(*                                                                         *)
(* While the handler is in the service, the guild's configuration is what  *)
(* it was when the interaction came in until the write, and what the       *)
(* operation turns it into after the write; nobody else changes it. The    *)
(* same is written down for the moment when the service has returned, with *)
(* what its result then says. Every part is about the operation o, the     *)
(* configuration b before it and whether it was read back then (f).        *)

Undone(o, b) == Effective(o.guild) = b
Whole(o, b) == Effective(o.guild) = After(b, o)

Deciding(o, b, f) ==
  pc[Gateway] \in {"locking", "load", "firstReload", "write"} =>
    Undone(o, b) /\ (f => o.guild \notin unread)

Confirming(o, b, f) ==
  pc[Gateway] = "lastReload" =>
    /\ o.kind # "get"
    /\ f \/ o.kind \notin {"setWidth", "setDelete"} => Whole(o, b)
    /\ o.kind \in {"add", "remove"} => (changed <=> ~Undone(o, b))

Returned(o, b, f) ==
  pc[Gateway] = "idle" =>
    /\ result[Gateway] \in {"ok", "invalid", "error"}
    /\ result[Gateway] = "invalid" => Undone(o, b)
    /\ f => Undone(o, b) \/ Whole(o, b)
    /\ result[Gateway] = "ok" /\ o.kind \in {"add", "remove"} =>
         Whole(o, b) /\ (changed <=> ~Undone(o, b))
    /\ result[Gateway] = "ok" /\ (f \/ o.kind # "get") => Done(o)

Telling(o, b, f) == Deciding(o, b, f) /\ Confirming(o, b, f) /\ Returned(o, b, f)

\* AnswerTruthful, for the operation that was asked.
Truth(o, b, f, r) ==
  /\ r \in {"denied", "invalid", "already"} => Undone(o, b)
  /\ r = "already" => After(b, o) = b
  /\ r = "done" /\ o.kind \in {"add", "remove"} => After(b, o) # b
  /\ r = "done" /\ (f \/ o.kind # "get") => Done(o)
  /\ f => Undone(o, b) \/ Whole(o, b)

TruthInv ==
  /\ handler = "calling" => Telling(asked, before, fresh)
  /\ Answered => Truth(asked, before, fresh, reply)

\* A step of a job leaves every configuration, every write that is not read
\* back, the gateway, and what a success has shown.
LEMMA JobKeeps ==
  ASSUME IInv, Served, NEW c \in Callers \ {Gateway}, JobStep(c), NEW o \in Ops
  PROVE  /\ Effective(o.guild)' = Effective(o.guild)
         /\ unread' \subseteq unread
         /\ pc'[Gateway] = pc[Gateway] /\ result'[Gateway] = result[Gateway]
         /\ Done(o) => Done(o)'
<1>0. TypeOK /\ StoredConfigValid /\ o.guild \in Guilds
  BY OpFields DEF IInv
<1>1. ASSUME UNCHANGED <<rows, channels, cache, unread>>
      PROVE  /\ Effective(o.guild)' = Effective(o.guild)
             /\ unread' \subseteq unread
             /\ Done(o) => Done(o)'
  BY <1>1, EffectiveKept DEF Done, Stored
<1>2. ASSUME \/ \E g \in Guilds : Call(c, [kind |-> "get", guild |-> g])
             \/ \E g \in Guilds : GetCached(c, g)
             \/ Lock(c)
      PROVE  /\ UNCHANGED <<rows, channels, cache, unread>>
             /\ pc'[Gateway] = pc[Gateway] /\ result'[Gateway] = result[Gateway]
  BY <1>0, <1>2, GatewayAssumption DEF Call, GetCached, Lock, Goto, TypeOK
<1>3. ASSUME Step(c)
      PROVE  /\ op[c].kind = "get" /\ pc[c] # "idle"
             /\ pc'[Gateway] = pc[Gateway] /\ result'[Gateway] = result[Gateway]
             /\ LoadCached(c) \/ InsertDefault(c) \/ Reload(c) \/ Fail(c)
  <2>1. pc[c] # "idle"
    BY <1>3 DEF Step, LoadCached, InsertDefault, Reload, Update, RejectInvalid,
                AddChannel, RemoveChannel, Reset, Fail
  <2>2. op[c].kind = "get"
    BY <2>1 DEF Served
  <2>3. LoadCached(c) \/ InsertDefault(c) \/ Reload(c) \/ Fail(c)
    BY <1>3, <2>2 DEF Step, Update, RejectInvalid, AddChannel, RemoveChannel, Reset, IsUpdate
  <2>4. pc'[Gateway] = pc[Gateway] /\ result'[Gateway] = result[Gateway]
    BY <1>0, <2>3, GatewayAssumption
    DEF LoadCached, Loaded, InsertDefault, Reload, Fail, Return, Proceed, Goto, TypeOK
  <2> QED BY <2>1, <2>2, <2>3, <2>4
<1>4. ASSUME InsertDefault(c)
      PROVE  /\ Effective(o.guild)' = Effective(o.guild)
             /\ unread' \subseteq unread
             /\ Done(o) => Done(o)'
  <2>1. Effective(o.guild)' = Effective(o.guild)
    BY <1>0, <1>4, InsertKeeps
  <2>2. cache' = cache /\ unread' = unread /\ channels' = channels
        /\ (cache[o.guild] # NoConfig => rows'[o.guild] = rows[o.guild])
    BY <1>0, <1>4 DEF InsertDefault, TypeOK
  <2> QED BY <2>1, <2>2 DEF Done, Stored
<1>5. ASSUME Reload(c)
      PROVE  /\ Effective(o.guild)' = Effective(o.guild)
             /\ unread' \subseteq unread
             /\ Done(o) => Done(o)'
  \* A guild that is read again gets the entry it has.
  <2>1. UNCHANGED <<rows, channels>> /\ unread' \subseteq unread
    BY <1>5 DEF Reload
  <2>2. ASSUME rows[o.guild] # NoRow, cache[o.guild] = Stored(o.guild)
        PROVE  cache'[o.guild] = cache[o.guild]
    BY <1>0, <1>5, <2>2 DEF Reload, TypeOK
  <2>3. Stored(o.guild)' = Stored(o.guild)
    BY <2>1 DEF Stored
  <2>4. Done(o) => Done(o)'
    BY <2>1, <2>2, <2>3 DEF Done
  <2> QED BY <2>1, <2>4, EffectiveKept
<1>6. ASSUME LoadCached(c) \/ Fail(c)
      PROVE  UNCHANGED <<rows, channels, cache, unread>>
  BY <1>6 DEF LoadCached, Fail
<1> QED BY <1>1, <1>2, <1>3, <1>4, <1>5, <1>6 DEF JobStep

\* A step of the service for the gateway.
LEMMA ServiceTells ==
  ASSUME IInv, WrittenBeforeReload, CommandTypeOK, ServiceStep,
         NEW o \in Ops, NEW b, NEW f \in BOOLEAN,
         handler = "calling", asked = o, Telling(o, b, f)
  PROVE  Telling(o, b, f)'
<1> DEFINE g == o.guild
<1>0. TypeOK /\ StoredConfigValid /\ CacheCurrentOnceRead /\ g \in Guilds
  BY OpFields DEF IInv
<1>1. pc[Gateway] # "idle" /\ op[Gateway] = o /\ Gateway \in Callers
  BY <1>0, CallerStep, GatewayAssumption DEF ServiceStep, CommandTypeOK
<1> USE DEF Telling, Deciding, Confirming, Returned
<1>2. ASSUME Lock(Gateway) PROVE Telling(o, b, f)'
  <2>1. UNCHANGED <<rows, channels, unread>> /\ pc'[Gateway] \in {"write", "load"}
        /\ pc[Gateway] = "locking"
    BY <1>0, <1>1, <1>2 DEF Lock, Goto, TypeOK
  <2> QED BY <2>1, EffectiveKept DEF Undone
<1>3. ASSUME LoadCached(Gateway) PROVE Telling(o, b, f)'
  <2>1. /\ UNCHANGED <<rows, channels, cache, unread>>
        /\ pc[Gateway] = "load" /\ cache[g] # NoConfig
        /\ \/ o.kind = "get" /\ pc'[Gateway] = "idle" /\ result'[Gateway] = "ok"
           \/ o.kind # "get" /\ pc'[Gateway] = "write"
    BY <1>0, <1>1, <1>3 DEF LoadCached, Loaded, Return, Proceed, Goto, TypeOK
  <2>2. Undone(o, b)' /\ (f => g \notin unread)
    BY <2>1, EffectiveKept DEF Undone
  <2>3. o.kind = "get" /\ f => Done(o)'
    BY <1>0, <2>1, <2>2 DEF CacheCurrentOnceRead, Done, Stored
  <2> QED BY <2>1, <2>2, <2>3
<1>4. ASSUME InsertDefault(Gateway) PROVE Telling(o, b, f)'
  <2>1. unread' = unread /\ pc[Gateway] = "load" /\ pc'[Gateway] = "firstReload"
    BY <1>0, <1>1, <1>4 DEF InsertDefault, Proceed, Goto, TypeOK
  <2> QED BY <1>0, <1>1, <1>4, <2>1, InsertKeeps DEF Undone
<1>5. ASSUME Reload(Gateway) PROVE Telling(o, b, f)'
  <2> DEFINE found == rows[g] # NoRow
  <2>1. /\ UNCHANGED <<rows, channels>> /\ unread' = unread \ {g}
        /\ pc[Gateway] \in {"firstReload", "lastReload"}
        /\ found => cache'[g] = Stored(g)
        /\ \/ ~found /\ pc'[Gateway] = "idle" /\ result'[Gateway] = "error"
           \/ /\ found /\ pc[Gateway] = "firstReload" /\ o.kind = "get"
              /\ pc'[Gateway] = "idle" /\ result'[Gateway] = "ok"
           \/ /\ found /\ pc[Gateway] = "firstReload" /\ o.kind # "get"
              /\ pc'[Gateway] = "write"
           \/ /\ found /\ pc[Gateway] = "lastReload"
              /\ pc'[Gateway] = "idle" /\ result'[Gateway] = "ok"
    BY <1>0, <1>1, <1>5 DEF Reload, Loaded, Return, Proceed, Goto, TypeOK
  <2>2. (Undone(o, b)' <=> Undone(o, b)) /\ (Whole(o, b)' <=> Whole(o, b))
    BY <2>1, EffectiveKept DEF Undone, Whole
  <2>3. changed' = changed
    BY <2>1 DEF ServiceStep
  <2>4. ASSUME result'[Gateway] = "ok", pc'[Gateway] = "idle" PROVE Done(o)'
    BY <1>1, <1>5, <2>1, <2>4, ReloadShows
  <2> QED BY <2>1, <2>2, <2>3, <2>4
<1>6. ASSUME Update(Gateway) \/ AddChannel(Gateway) \/ RemoveChannel(Gateway) \/ Reset(Gateway)
      PROVE  Telling(o, b, f)'
  <2>1. pc[Gateway] = "write" /\ pc'[Gateway] = "lastReload"
    BY <1>0, <1>1, <1>6
    DEF Update, AddChannel, RemoveChannel, Reset, Wrote, Proceed, Goto, TypeOK
  <2>2. changed' = Affected
    BY <2>1 DEF ServiceStep
  <2>3. Effective(g) = b /\ (f => g \notin unread)
    BY <2>1 DEF Undone
  <2> QED BY <1>1, <1>6, <2>1, <2>2, <2>3, WriteTurns DEF Undone, Whole, Affected
<1>7. ASSUME RejectInvalid(Gateway) PROVE Telling(o, b, f)'
  <2>1. /\ UNCHANGED <<rows, channels>> /\ pc[Gateway] = "write"
        /\ pc'[Gateway] = "idle" /\ result'[Gateway] = "invalid"
    BY <1>0, <1>1, <1>7 DEF RejectInvalid, Return, TypeOK
  <2> QED BY <2>1, EffectiveKept DEF Undone
<1>8. ASSUME Fail(Gateway) PROVE Telling(o, b, f)'
  <2>1. /\ UNCHANGED <<rows, channels>>
        /\ pc[Gateway] \in {"load", "firstReload", "write", "lastReload"}
        /\ pc'[Gateway] = "idle" /\ result'[Gateway] = "error"
    BY <1>0, <1>1, <1>8 DEF Fail, Return, TypeOK
  <2>2. (Undone(o, b)' <=> Undone(o, b)) /\ (Whole(o, b)' <=> Whole(o, b))
    BY <2>1, EffectiveKept DEF Undone, Whole
  <2> QED BY <2>1, <2>2
<1> QED
  BY <1>2, <1>3, <1>4, <1>5, <1>6, <1>7, <1>8 DEF ServiceStep, Step

\* The invariant after a step, with the values that the interaction has then.
LEMMA TruthAfter ==
  ASSUME NEW o, NEW b, NEW f, NEW r,
         asked' = o, before' = b, fresh' = f, reply' = r,
         handler' = "calling" => Telling(o, b, f)',
         handler' = "waiting" /\ o # NoOp => Truth(o, b, f, r)'
  PROVE  TruthInv'
<1>1. handler' = "calling" => Telling(asked, before, fresh)'
  BY DEF Telling, Deciding, Confirming, Returned, Undone, Whole, Done, Effective, Stored, After
<1>2. Answered' => Truth(asked, before, fresh, reply)'
  BY DEF Answered, Truth, Undone, Whole, Done, Effective, Stored, After
<1> QED BY <1>1, <1>2 DEF TruthInv

LEMMA InteractionTells ==
  ASSUME IInv, CommandTypeOK, NEW o \in Ops, NEW manages \in BOOLEAN,
         Interaction(o, manages), CallService(o) \/ AnswerNow("denied")
  PROVE  TruthInv'
<1> DEFINE g == o.guild
<1>0. TypeOK /\ CacheCurrentOnceRead /\ g \in Guilds /\ Gateway \in Callers
  BY OpFields, GatewayAssumption DEF IInv
<1>1. PICK b : b = Effective(g)
  OBVIOUS
<1>2. PICK f \in BOOLEAN : f <=> g \notin unread
  OBVIOUS
<1>3. asked' = o /\ before' = b /\ fresh' = f
  BY <1>1, <1>2 DEF Interaction
<1>4. UNCHANGED <<rows, channels, cache, unread>>
  BY DEF CallService, Call, GetCached, AnswerNow, vars
<1>5. Effective(g)' = b
  BY <1>4, <1>1, EffectiveKept
<1>6. CASE Call(Gateway, o) /\ handler' = "calling" /\ reply' = "none"
  <2>1. pc'[Gateway] = "locking"
    BY <1>0, <1>6 DEF Call, Goto, TypeOK
  <2>2. f => g \notin unread'
    BY <1>4, <1>2
  <2>3. Telling(o, b, f)'
    BY <1>5, <2>1, <2>2 DEF Telling, Deciding, Confirming, Returned, Undone
  <2> QED BY <1>3, <1>6, <2>3, TruthAfter
<1>7. CASE o.kind = "get" /\ GetCached(Gateway, g) /\ handler' = "waiting" /\ reply' = "done"
  <2>1. f => Done(o)'
    <3>1. cache[g] # NoConfig
      BY <1>7 DEF GetCached
    <3> QED BY <1>0, <1>4, <1>7, <1>2, <3>1 DEF CacheCurrentOnceRead, Done, Stored
  <2> QED BY <1>3, <1>5, <1>7, <2>1, TruthAfter DEF Truth, Undone
<1>8. CASE AnswerNow("denied")
  <2>1. handler' = "waiting" /\ reply' = "denied"
    BY <1>8 DEF AnswerNow, Interaction
  <2> QED BY <1>3, <1>5, <2>1, TruthAfter DEF Truth, Undone
<1> QED BY <1>6, <1>7, <1>8 DEF CallService

LEMMA StepTruth ==
  IInv /\ WrittenBeforeReload /\ CommandInv /\ TruthInv /\ [CommandNext]_allVars => TruthInv'
<1> SUFFICES ASSUME IInv, WrittenBeforeReload, CommandInv, TruthInv, [CommandNext]_allVars
             PROVE  TruthInv'
  OBVIOUS
<1>0. /\ CommandTypeOK /\ Served /\ asked \in Ops \cup {NoOp}
      /\ handler \in {"calling", "waiting"} /\ Gateway \in Callers
      /\ handler = "calling" => asked \in Ops
  BY GatewayAssumption DEF CommandInv, CommandTypeOK
<1>1. PICK o : o = asked
  OBVIOUS
<1>2. PICK b : b = before
  OBVIOUS
<1>3. PICK f \in BOOLEAN : f = fresh
  BY <1>0 DEF CommandTypeOK
<1>4. PICK r : r = reply
  OBVIOUS
<1>5. /\ handler = "calling" => Telling(o, b, f)
      /\ handler = "waiting" /\ o # NoOp => Truth(o, b, f, r)
  BY <1>1, <1>2, <1>3, <1>4 DEF TruthInv, Answered
<1>6. ASSUME NEW q \in Ops, NEW manages \in BOOLEAN, Subcommand(q, manages)
      PROVE  TruthInv'
  BY <1>0, <1>6, InteractionTells DEF Subcommand
<1>7. ASSUME NEW g \in Guilds, NEW manages \in BOOLEAN, Confirm(g, manages)
      PROVE  TruthInv'
  BY <1>0, <1>7, InteractionTells, ResetIsOp DEF Confirm
<1>8. ASSUME NEW g \in Guilds, NEW manages \in BOOLEAN,
             ResetSubcommand(g, manages) \/ Cancel(g)
      PROVE  TruthInv'
  BY <1>8 DEF ResetSubcommand, Cancel, TruthInv, Answered
<1>9. ASSUME ServiceStep PROVE TruthInv'
  <2>1. /\ UNCHANGED <<handler, asked, before, fresh, reply>>
        /\ pc[Gateway] # "idle"
    BY <1>0, <1>9, CallerStep DEF ServiceStep, CommandTypeOK
  <2>2. handler = "calling"
    BY <1>0, <2>1 DEF CommandTypeOK
  <2>3. Telling(o, b, f)'
    BY <1>0, <1>1, <1>5, <1>9, <2>2, ServiceTells
  <2> QED BY <1>1, <1>2, <1>3, <1>4, <2>1, <2>2, <2>3, TruthAfter
<1>10. ASSUME Answer PROVE TruthInv'
  <2>1. /\ UNCHANGED <<rows, channels, cache, asked, before, fresh>>
        /\ handler' = "waiting" /\ handler = "calling" /\ pc[Gateway] = "idle"
    BY <1>10 DEF Answer, vars
  <2>2. Returned(o, b, f)
    BY <1>5, <2>1 DEF Telling
  <2>3. /\ result[Gateway] \in {"ok", "invalid", "error"}
        /\ result[Gateway] = "error" => reply' = "failed"
        /\ result[Gateway] = "invalid" => reply' = "invalid"
        /\ result[Gateway] = "ok" =>
             reply' = IF o.kind \in {"add", "remove"} /\ ~changed THEN "already" ELSE "done"
    <3>1. result[Gateway] \in {"ok", "invalid", "error"}
      BY <2>1, <2>2 DEF Returned
    <3>2. result[Gateway] = "error" => reply' = "failed"
      BY <1>10 DEF Answer
    <3>3. result[Gateway] = "invalid" => reply' = "invalid"
      BY <1>10 DEF Answer
    <3>4. ASSUME result[Gateway] = "ok", o.kind \in {"add", "remove"} /\ ~changed
          PROVE  reply' = "already"
      BY <1>1, <1>10, <3>4 DEF Answer
    <3>5. ASSUME result[Gateway] = "ok", ~(o.kind \in {"add", "remove"} /\ ~changed)
          PROVE  reply' = "done"
      BY <1>1, <1>10, <3>5 DEF Answer
    <3> QED BY <3>1, <3>2, <3>3, <3>4, <3>5
  <2>4. PICK s : s = reply'
    OBVIOUS
  <2>5. Truth(o, b, f, s)
    BY <2>1, <2>2, <2>3, <2>4 DEF Returned, Truth, Undone, Whole
  <2>6. Truth(o, b, f, s)'
    BY <2>1, <2>5, EffectiveKept DEF Truth, Undone, Whole, Done, Stored
  <2> QED BY <1>1, <1>2, <1>3, <2>1, <2>4, <2>6, TruthAfter
<1>11. ASSUME NEW c \in Callers \ {Gateway}, JobStep(c) PROVE TruthInv'
  <2>1. UNCHANGED <<handler, asked, before, fresh, reply, changed>>
    BY <1>11 DEF JobStep, commandVars
  <2>2. ASSUME o \in Ops
        PROVE  /\ Effective(o.guild)' = Effective(o.guild)
               /\ unread' \subseteq unread
               /\ pc'[Gateway] = pc[Gateway] /\ result'[Gateway] = result[Gateway]
               /\ Done(o) => Done(o)'
    BY <1>0, <1>11, <2>2, JobKeeps
  <2>3. ASSUME o \in Ops, Telling(o, b, f) PROVE Telling(o, b, f)'
    BY <2>1, <2>2, <2>3 DEF Telling, Deciding, Confirming, Returned, Undone, Whole
  <2>4. ASSUME o \in Ops, Truth(o, b, f, r) PROVE Truth(o, b, f, r)'
    BY <2>2, <2>4 DEF Truth, Undone, Whole
  <2> QED BY <1>0, <1>1, <1>2, <1>3, <1>4, <1>5, <2>1, <2>3, <2>4, TruthAfter
<1>12. ASSUME CommandRestart PROVE TruthInv'
  <2>1. /\ UNCHANGED <<rows, channels, before, fresh>> /\ handler' = "waiting"
        /\ handler = "calling" => asked' = asked /\ reply' = "lost"
        /\ handler = "waiting" => asked' = NoOp
    BY <1>0, <1>12 DEF CommandRestart, Restart
  <2>2. CASE handler = "waiting"
    BY <2>1, <2>2 DEF TruthInv, Answered
  <2>3. CASE handler = "calling"
    \* Whatever the service was at, it had written nothing or everything.
    <3>1. pc[Gateway] \in CallState
      BY <1>0 DEF CommandTypeOK, TypeOK
    <3>2. f => Undone(o, b) \/ Whole(o, b)
      BY <1>5, <2>3, <3>1 DEF Telling, Deciding, Confirming, Returned, CallState
    <3>3. Truth(o, b, f, "lost")'
      BY <2>1, <3>2, EffectiveKept DEF Truth, Undone, Whole
    <3> QED BY <1>1, <1>2, <1>3, <2>1, <2>3, <3>3, TruthAfter
  <2> QED BY <1>0, <2>2, <2>3
<1>13. CASE UNCHANGED allVars
  <2>1. ASSUME Telling(o, b, f) PROVE Telling(o, b, f)'
    BY <1>13, <2>1, EffectiveKept
    DEF allVars, commandVars, vars, Telling, Deciding, Confirming, Returned, Undone, Whole,
        Done, Stored
  <2>2. ASSUME Truth(o, b, f, r) PROVE Truth(o, b, f, r)'
    BY <1>13, <2>2, EffectiveKept
    DEF allVars, vars, Truth, Undone, Whole, Done, Stored
  <2> QED BY <1>1, <1>2, <1>3, <1>4, <1>5, <1>13, <2>1, <2>2, TruthAfter
          DEF allVars, commandVars
<1> QED
  BY <1>6, <1>7, <1>8, <1>9, <1>10, <1>11, <1>12, <1>13 DEF CommandNext

LEMMA TruthAlways == CommandSpec => []TruthInv
<1>1. CommandInit => TruthInv
  BY DEF CommandInit, TruthInv, Answered
<1>2. CommandSpec => []WrittenBeforeReload
  BY CommandImplementsService, WrittenAlways, PTL
<1> QED BY <1>1, <1>2, StepTruth, CommandInvariance, ServiceInvariance, PTL DEF CommandSpec

\* What /config answers is what happened, whatever the database does, whoever
\* else uses the service and whenever the process dies.
THEOREM AnswersTrue == CommandSpec => []AnswerTruthful
<1>1. TruthInv => AnswerTruthful
  BY DEF TruthInv, Truth, AnswerTruthful, Undone, Whole
<1> QED BY TruthAlways, <1>1, PTL

==============================================================================
