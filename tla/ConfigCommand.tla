---------------------------- MODULE ConfigCommand ----------------------------
(***************************************************************************)
(* internal/bot/commands.go: /config and the buttons of its reset prompt,  *)
(* on top of ConfigService.                                                *)
(*                                                                         *)
(* The gateway goroutine handles one interaction after the other and is    *)
(* the only caller that writes; the conversion jobs only Get.  An          *)
(* interaction carries the permissions its user has at that moment.  The   *)
(* answer may not reach Discord: a prompt may then never appear, and one   *)
(* that was pressed may keep its buttons.                                  *)
(***************************************************************************)
EXTENDS ConfigService

CONSTANT Gateway  \* the goroutine that handles interactions

ASSUME GatewayAssumption == Gateway \in Callers

VARIABLES
  handler,  \* "calling" while handleConfig is in the service
  asked,    \* the operation of the interaction in progress, or of the last one
  manager,  \* its user has Manage Server
  reply,    \* its answer
  changed,  \* RowsAffected() > 0 in AddChannel or RemoveChannel
  prompts,  \* the guilds with a reset prompt on screen
  before,   \* history: the guild's configuration when the interaction came in
  fresh     \* history: its last write had been read back then

commandVars == <<handler, asked, manager, reply, changed, prompts, before, fresh>>

allVars == <<vars, commandVars>>

Reply == {"none", "denied", "invalid", "failed", "already", "done", "lost"}

CommandTypeOK ==
  /\ TypeOK
  /\ handler \in {"waiting", "calling"}
  /\ asked \in Ops \cup {NoOp}
  /\ manager \in BOOLEAN
  /\ reply \in Reply
  /\ changed \in BOOLEAN
  /\ prompts \subseteq Guilds
  /\ before \in Config
  /\ fresh \in BOOLEAN
  /\ handler = "calling" => asked # NoOp
  /\ pc[Gateway] # "idle" => handler = "calling" /\ op[Gateway] = asked

CommandInit ==
  /\ Init
  /\ handler = "waiting"
  /\ asked = NoOp /\ manager = FALSE /\ reply = "none" /\ changed = FALSE
  /\ prompts = {}
  /\ before = DefaultConfig /\ fresh = TRUE

-----------------------------------------------------------------------------

\* Mutant: events are handled concurrently.
InteractionAsync(o, manages) ==
  /\ asked' = o /\ manager' = manages
  /\ before' = Effective(o.guild)
  /\ fresh' = (o.guild \notin unread)
  /\ changed' = FALSE

\* The gateway takes the next interaction, which asks for o.
Interaction(o, manages) ==
  /\ handler = "waiting"
  /\ asked' = o /\ manager' = manages
  /\ before' = Effective(o.guild)
  /\ fresh' = (o.guild \notin unread)
  /\ changed' = FALSE

\* The handler asks the service. Get may find the configuration at once.
CallService(o) ==
  \/ /\ Call(Gateway, o)
     /\ handler' = "calling" /\ reply' = "none"
  \/ /\ o.kind = "get" /\ GetCached(Gateway, o.guild)
     /\ handler' = "waiting" /\ reply' = "done"

\* It answers without having asked.
AnswerNow(r) == reply' = r /\ UNCHANGED <<vars, handler>>

\* handleConfig and runConfig for every subcommand with an operation: show and
\* channel list read, the others write.
Subcommand(o, manages) ==
  /\ o.kind # "reset"
  /\ Interaction(o, manages)
  /\ IF manages THEN CallService(o) ELSE AnswerNow("denied")
  /\ UNCHANGED prompts

\* The two subcommands that only answer: reset shows its prompt, and
\* max-file-size asks for the size it was not given.
ResetSubcommand(g, manages) ==
  /\ handler = "waiting"
  /\ prompts' \in IF manages THEN {prompts, prompts \cup {g}} ELSE {prompts}
  /\ asked' = NoOp /\ manager' = manages /\ reply' = "none"
  /\ UNCHANGED <<vars, handler, changed, before, fresh>>

\* The answer to a press takes the buttons away, if it arrives.
Pressed(g) == {prompts, prompts \ {g}}

\* Mutant: whoever presses Confirm resets.
ConfirmUnchecked(g, manages) ==
  /\ g \in prompts
  /\ Interaction([kind |-> "reset", guild |-> g], manages)
  /\ CallService([kind |-> "reset", guild |-> g])
  /\ UNCHANGED prompts

\* handleResetButton. The permission is that of whoever presses, now.
Confirm(g, manages) ==
  /\ g \in prompts
  /\ Interaction([kind |-> "reset", guild |-> g], manages)
  /\ IF manages
     THEN CallService([kind |-> "reset", guild |-> g]) /\ UNCHANGED prompts
     ELSE AnswerNow("denied") /\ prompts' \in Pressed(g)

Cancel(g) ==
  /\ handler = "waiting" /\ g \in prompts
  /\ prompts' \in Pressed(g)
  /\ asked' = NoOp /\ reply' = "none"
  /\ UNCHANGED <<vars, handler, manager, changed, before, fresh>>

\* Mutant: AddChannel and RemoveChannel return true whatever the rows.
AffectedAlways == TRUE

\* RowsAffected of INSERT OR IGNORE and of DELETE.
Affected == channels' # channels

ServiceStep ==
  /\ Lock(Gateway) \/ Step(Gateway)
  /\ changed' = IF pc[Gateway] = "write" /\ pc'[Gateway] = "lastReload"
                THEN Affected ELSE changed
  /\ UNCHANGED <<handler, asked, manager, reply, prompts, before, fresh>>

\* Mutant: an error of the service ends the handler without an answer.
AnswerSuccess ==
  /\ handler = "calling" /\ pc[Gateway] = "idle"
  /\ result[Gateway] = "ok"
  /\ handler' = "waiting"
  /\ reply' = IF asked.kind \in {"add", "remove"} /\ ~changed THEN "already"
              ELSE "done"
  /\ UNCHANGED <<vars, asked, manager, changed, prompts, before, fresh>>

\* The service returned: the answer, and the next interaction.
Answer ==
  /\ handler = "calling" /\ pc[Gateway] = "idle"
  /\ handler' = "waiting"
  /\ reply' = CASE result[Gateway] = "error" -> "failed"
                [] result[Gateway] = "invalid" -> "invalid"
                [] /\ result[Gateway] = "ok"
                   /\ asked.kind \in {"add", "remove"} /\ ~changed -> "already"
                [] OTHER -> "done"
  /\ prompts' \in IF asked.kind = "reset" THEN Pressed(asked.guild)
                  ELSE {prompts}
  /\ UNCHANGED <<vars, asked, manager, changed, before, fresh>>

\* A conversion job reads its guild's configuration.
JobStep(c) ==
  /\ \/ \E g \in Guilds : Call(c, [kind |-> "get", guild |-> g])
     \/ \E g \in Guilds : GetCached(c, g)
     \/ Lock(c) \/ Step(c)
  /\ UNCHANGED commandVars

\* A crash loses the interaction in progress; the prompts stay on screen.
CommandRestart ==
  /\ Restart
  /\ handler' = "waiting"
  /\ asked' = IF handler = "calling" THEN asked ELSE NoOp
  /\ reply' = IF handler = "calling" THEN "lost" ELSE "none"
  /\ UNCHANGED <<manager, changed, prompts, before, fresh>>

CommandNext ==
  \/ \E o \in Ops, manages \in BOOLEAN : Subcommand(o, manages)
  \/ \E g \in Guilds, manages \in BOOLEAN :
       ResetSubcommand(g, manages) \/ Confirm(g, manages)
  \/ \E g \in Guilds : Cancel(g)
  \/ ServiceStep \/ Answer
  \/ \E c \in Callers \ {Gateway} : JobStep(c)
  \/ CommandRestart

CommandSpec == CommandInit /\ [][CommandNext]_allVars

(***************************************************************************)
(* As for the service alone: a goroutine inside the critical section goes  *)
(* on, one that waits for the mutex gets it, and the handler goes on.      *)
(***************************************************************************)
CommandFairness ==
  /\ WF_allVars(ServiceStep /\ pc[Gateway] # "locking")
  /\ SF_allVars(ServiceStep /\ pc[Gateway] = "locking")
  /\ WF_allVars(Answer)
  /\ \A c \in Callers \ {Gateway} : WF_allVars(Step(c) /\ UNCHANGED commandVars)

FairCommandSpec == CommandSpec /\ CommandFairness

-----------------------------------------------------------------------------

Answered == handler = "waiting" /\ asked # NoOp

\* What the answer says is so, and says all. A denied or rejected command, and
\* one that was done already, changed nothing; after a confirmation the database
\* and the cache have what was asked for, which for a channel they had not
\* before; and a command that failed, or whose answer died with the process,
\* took effect as a whole or not at all. (A guild whose last write was never
\* read back is the exception UpdateKeepsOtherSettings names.)
AnswerTruthful ==
  Answered =>
    LET now == Effective(asked.guild) IN
    /\ reply \in {"denied", "invalid", "already"} => now = before
    /\ reply = "already" => After(before, asked) = before
    /\ reply = "done" /\ asked.kind \in {"add", "remove"} =>
         After(before, asked) # before
    /\ reply = "done" /\ (fresh \/ asked.kind # "get") => Done(asked)
    /\ fresh => now \in {before, After(before, asked)}

\* A guild's configuration changes only while a command is handled that was
\* sent by someone who may manage the server at that moment: for a reset, the
\* one who presses Confirm (commands.go:124, commands.go:221).
OnlyManagersChange ==
  [][\A g \in Guilds : Effective(g)' # Effective(g) =>
       handler = "calling" /\ manager /\ asked.guild = g]_allVars

\* Every command is answered, unless the process dies: the mutex comes free
\* and no path of the service keeps the handler.
EveryCommandAnswered == handler = "calling" ~> handler = "waiting"

=============================================================================
