----------------------------- MODULE ConfigStore -----------------------------
(***************************************************************************)
(* What the configuration service promises to its callers, without its     *)
(* tables, cache, mutex and database calls: every operation takes effect   *)
(* in one step between its call and its return, or not at all. One that    *)
(* returns ok took effect, one that is rejected did not, and one that      *)
(* returns an error may have. In the last case what the service remembers  *)
(* of the guild is stale until it is read again, and an update may then    *)
(* bring back other settings that the guild had before.                    *)
(*                                                                         *)
(* ConfigService implements this specification.                            *)
(***************************************************************************)
EXTENDS ConfigModel

VARIABLES
  config,  \* the configuration of each guild
  stale,   \* guilds whose last change was answered with an error
  call,    \* call[c]: "idle", "asked", or "effective" between effect and return
  asked,   \* what each caller asked for
  answer   \* what its last call returned

storeVars == <<config, stale, call, asked, answer>>

StoreInit ==
  /\ config = [g \in Guilds |-> DefaultConfig]
  /\ stale = {}
  /\ call = [c \in Callers |-> "idle"]
  /\ asked = [c \in Callers |-> NoOp]
  /\ answer = [c \in Callers |-> "none"]

Ask(c, o) ==
  /\ call[c] = "idle"
  /\ call' = [call EXCEPT ![c] = "asked"]
  /\ asked' = [asked EXCEPT ![c] = o]
  /\ answer' = [answer EXCEPT ![c] = "none"]
  /\ UNCHANGED <<config, stale>>

\* A read that finds the configuration at once.
Read(c) ==
  /\ call[c] = "idle"
  /\ answer' = [answer EXCEPT ![c] = "ok"]
  /\ UNCHANGED <<config, stale, call, asked>>

\* An update of a stale guild sets what it was asked to set, the rest is open.
Outcomes(g, o) ==
  IF g \in stale /\ o.kind \in {"setWidth", "setDelete"}
  THEN {cfg \in Config : cfg.channels = config[g].channels /\ After(cfg, o) = cfg}
  ELSE {After(config[g], o)}

TakeEffect(c) ==
  LET o == asked[c]
      g == o.guild
  IN  /\ call[c] = "asked" /\ o.kind # "get"
      /\ \E cfg \in Outcomes(g, o) :
           Validate(cfg) /\ config' = [config EXCEPT ![g] = cfg]
      /\ call' = [call EXCEPT ![c] = "effective"]
      /\ stale' = stale \ {g}
      /\ UNCHANGED <<asked, answer>>

\* The guild is read again before a change.
Reread(c) ==
  /\ call[c] = "asked"
  /\ stale' = stale \ {asked[c].guild}
  /\ UNCHANGED <<config, call, asked, answer>>

Answer(c, r) ==
  /\ call' = [call EXCEPT ![c] = "idle"]
  /\ asked' = [asked EXCEPT ![c] = NoOp]
  /\ answer' = [answer EXCEPT ![c] = r]
  /\ UNCHANGED config

Succeed(c) ==
  /\ \/ call[c] = "effective" /\ UNCHANGED stale
     \/ /\ call[c] = "asked" /\ asked[c].kind = "get"
        /\ stale' \in {stale, stale \ {asked[c].guild}}
  /\ Answer(c, "ok")

\* Only the value that was asked for is a reason to reject it.
Reject(c) ==
  /\ call[c] = "asked" /\ asked[c].kind = "setWidth"
  /\ asked[c].width \notin ValidWidths
  /\ Answer(c, "invalid") /\ UNCHANGED stale

FailBefore(c) ==
  /\ Faults /\ call[c] = "asked"
  /\ Answer(c, "error") /\ UNCHANGED stale

FailAfter(c) ==
  /\ Faults /\ call[c] = "effective"
  /\ Answer(c, "error") /\ stale' = stale \cup {asked[c].guild}

\* The one error without a fault: a channel of a guild that has none.
NothingToRemove(c) ==
  /\ call[c] = "effective" /\ asked[c].kind = "remove"
  /\ config[asked[c].guild] = DefaultConfig
  /\ Answer(c, "error") /\ UNCHANGED stale

\* The process dies and starts again: nothing remembered is stale.
Forget ==
  /\ call' = [c \in Callers |-> "idle"]
  /\ asked' = [c \in Callers |-> NoOp]
  /\ answer' = [c \in Callers |-> "none"]
  /\ stale' = {}
  /\ UNCHANGED config

StoreNext ==
  \/ \E c \in Callers :
       \/ \E o \in Ops : Ask(c, o)
       \/ Read(c) \/ TakeEffect(c) \/ Reread(c) \/ Succeed(c) \/ Reject(c)
       \/ FailBefore(c) \/ FailAfter(c) \/ NothingToRemove(c)
  \/ Forget

StoreSpec == StoreInit /\ [][StoreNext]_storeVars

==============================================================================
