----------------------------- MODULE ConfigModel -----------------------------
(***************************************************************************)
(* internal/config/model.go: what a guild's configuration is, and the      *)
(* operations of config.Service on it.                                     *)
(*                                                                         *)
(* A configuration has one setting with a range of accepted values (width, *)
(* for the dimensions, the quality and the size limit), one flag           *)
(* (deleteOriginal, for the three flags) and the allowlist of channels.    *)
(***************************************************************************)
EXTENDS Naturals

CONSTANTS
  Guilds, Channels,
  Callers,       \* the goroutines that use the service
  Widths,        \* what a caller may ask for
  ValidWidths,   \* what Config.Validate accepts
  DefaultWidth,
  Faults,        \* whether database calls fail by themselves
  NoOp           \* what a caller is at when it is not in a call

Config == [width : Widths, deleteOriginal : BOOLEAN, channels : SUBSET Channels]

Ops == [kind : {"get", "reset"}, guild : Guilds]
         \cup [kind : {"add", "remove"}, guild : Guilds, channel : Channels]
         \cup [kind : {"setWidth"}, guild : Guilds, width : Widths]
         \cup [kind : {"setDelete"}, guild : Guilds, flag : BOOLEAN]

ASSUME ConfigAssumption ==
  /\ ValidWidths \subseteq Widths /\ DefaultWidth \in ValidWidths
  /\ Faults \in BOOLEAN
  /\ NoOp \notin Ops

DefaultConfig ==
  [width |-> DefaultWidth, deleteOriginal |-> FALSE, channels |-> {}]

Validate(cfg) == cfg.width \in ValidWidths

\* The configuration that operation o turns cfg into.
After(cfg, o) ==
  CASE o.kind = "get" -> cfg
    [] o.kind = "reset" -> DefaultConfig
    [] o.kind = "add" -> [cfg EXCEPT !.channels = @ \cup {o.channel}]
    [] o.kind = "remove" -> [cfg EXCEPT !.channels = @ \ {o.channel}]
    [] o.kind = "setWidth" -> [cfg EXCEPT !.width = o.width]
    [] o.kind = "setDelete" -> [cfg EXCEPT !.deleteOriginal = o.flag]

==============================================================================
