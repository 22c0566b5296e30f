---------------------------- MODULE ResultMessage ----------------------------
(***************************************************************************)
(* The response to one /convert command and its Refresh URL button         *)
(* (internal/bot/interactions.go, finalizeResult in convert.go, the        *)
(* content format of internal/discordurl/message.go).                      *)
(*                                                                         *)
(* One Discord message is edited by many: the gateway goroutine that       *)
(* acknowledged the command, the conversion job, finalizeResult's retries, *)
(* and a goroutine for every press of the button. The bot keeps no state   *)
(* about it. Discord signs a new URL each time the message is read;        *)
(* signatures are numbered in the order they are given out.                *)
(***************************************************************************)
EXTENDS Naturals

CONSTANTS
  Presses,   \* presses of the Refresh URL button
  Attempts,  \* finalizeResult's attempts
  Timeouts,  \* calls that may time out before a refresh's own context has
  Faults     \* whether REST calls fail by themselves

ASSUME ResultAssumption ==
  /\ Attempts \in Nat \ {0} /\ Timeouts \in Nat \ {0}
  /\ Faults \in BOOLEAN

VARIABLES
  (* Discord *)
  message,  \* what the response shows
  exists,   \* it has not been deleted
  signed,   \* how many URLs Discord has signed
  (* the bot *)
  hpc,      \* where onConvert stands
  jpc,      \* where runConvertJob stands
  dead,     \* the job's context has ended
  attempt,  \* finalizeResult's attempts so far
  jobURL,   \* the URL in the upload's response
  rpc,      \* rpc[r]: where the refresh of press r stands
  left,     \* left[r]: timeouts until its context ends
  fetched,  \* fetched[r]: the message as it was read
  (* history *)
  outcome,  \* outcome[r]: what the user of press r got
  pressedAt,\* pressedAt[r]: signatures given out when r was pressed
  missed    \* an answer to the command was lost: a failed call or a crash

commandVars == <<hpc, jpc, dead, attempt, jobURL>>
refreshVars == <<rpc, left, fetched, outcome, pressedAt>>
vars == <<message, exists, signed, commandVars, refreshVars, missed>>

Shown == {"nothing", "waiting", "error", "summary", "result", "bareURL"}
Message == [shown : Shown, url : Nat, file : BOOLEAN, button : BOOLEAN]

HandlerState == {"idle", "submit", "refuse", "over"}
JobState == {"none", "queued", "load", "convert", "upload", "report",
             "finalize", "pause", "over"}
RefreshState == {"idle", "fetch", "fallback", "check", "edit", "tell", "over"}

TypeOK ==
  /\ message \in Message /\ fetched \in [Presses -> Message]
  /\ exists \in BOOLEAN /\ signed \in Nat
  /\ hpc \in HandlerState /\ jpc \in JobState
  /\ dead \in BOOLEAN /\ attempt \in 0 .. Attempts /\ jobURL \in 0 .. signed
  /\ rpc \in [Presses -> RefreshState] /\ left \in [Presses -> 0 .. Timeouts]
  /\ outcome \in [Presses -> {"none", "refreshed", "told", "unheard", "silent"}]
  /\ pressedAt \in [Presses -> 0 .. signed]
  /\ missed \in BOOLEAN

Nothing == [shown |-> "nothing", url |-> 0, file |-> FALSE, button |-> FALSE]

Init ==
  /\ message = Nothing /\ exists = TRUE /\ signed = 0
  /\ hpc = "idle" /\ jpc = "none"
  /\ dead = FALSE /\ attempt = 0 /\ jobURL = 0
  /\ rpc = [r \in Presses |-> "idle"] /\ left = [r \in Presses |-> Timeouts]
  /\ fetched = [r \in Presses |-> Nothing]
  /\ outcome = [r \in Presses |-> "none"] /\ pressedAt = [r \in Presses |-> 0]
  /\ missed = FALSE

-----------------------------------------------------------------------------
(***************************************************************************)
(* A REST call: it may take effect although its answer is lost, it may use *)
(* up its whole APITimeout, and under a dead context it does nothing.      *)
(***************************************************************************)
Calls(alive, reachable) ==
  {c \in [ok : BOOLEAN, done : BOOLEAN, late : BOOLEAN] :
     /\ c.done => alive /\ reachable
     /\ c.ok => c.done /\ ~c.late
     /\ c.late => alive /\ Faults
     /\ alive /\ reachable /\ ~Faults => c.ok}

\* An edit that sets the text, by whoever.
Edit(c, new) ==
  /\ message' = IF c.done THEN new ELSE message
  /\ UNCHANGED <<exists, signed>>

ErrorText == [message EXCEPT !.shown = "error"]

\* ResultContent with Components: the summary if there is one, the URL and
\* the button. SummaryFromContent finds it in a summary and in a result.
HasSummary(shown) == shown \in {"summary", "result"}

ResultContent(summary, url) ==
  [message EXCEPT !.shown = IF summary THEN "result" ELSE "bareURL",
                  !.url = url, !.button = TRUE]

-----------------------------------------------------------------------------
(***************************************************************************)
(* onConvert, on the gateway goroutine.                                    *)
(***************************************************************************)

DeferResponse ==
  /\ hpc = "idle"
  /\ \E c \in Calls(TRUE, TRUE) :
       /\ Edit(c, [message EXCEPT !.shown = "waiting"])
       /\ hpc' = IF c.ok THEN "submit" ELSE "over"
       /\ missed' = ~c.ok
  /\ UNCHANGED <<jpc, dead, attempt, jobURL, refreshVars>>

TrySubmit ==
  /\ hpc = "submit"
  /\ \/ hpc' = "over" /\ jpc' = "queued"
     \/ hpc' = "refuse" /\ UNCHANGED jpc
  /\ UNCHANGED <<message, exists, signed, dead, attempt, jobURL, refreshVars, missed>>

AnswerQueueFull ==
  /\ hpc = "refuse"
  /\ \E c \in Calls(TRUE, exists) :
       Edit(c, ErrorText) /\ missed' = (missed \/ ~c.done)
  /\ hpc' = "over"
  /\ UNCHANGED <<jpc, dead, attempt, jobURL, refreshVars>>

onConvert == DeferResponse \/ TrySubmit \/ AnswerQueueFull

(***************************************************************************)
(* runConvertJob, on a worker.                                             *)
(***************************************************************************)

JobGoes(from, to) ==
  /\ jpc = from /\ jpc' = to
  /\ UNCHANGED <<message, exists, signed, hpc, dead, attempt, jobURL, refreshVars>>

StartJob == JobGoes("queued", "load") /\ UNCHANGED missed

\* Mutant: a configuration that cannot be loaded is only logged.
LoadConfigSilently ==
  /\ \/ JobGoes("load", "convert")
     \/ Faults /\ JobGoes("load", "over")
  /\ UNCHANGED missed

LoadConfig ==
  /\ \/ JobGoes("load", "convert")
     \/ Faults /\ JobGoes("load", "report")
  /\ UNCHANGED missed

\* Converted, an error, or a panic that only safeRun sees. Nothing converts under
\* a dead context.
Convert ==
  \/ ~dead /\ JobGoes("convert", "upload") /\ UNCHANGED missed
  \/ JobGoes("convert", "report") /\ UNCHANGED missed
  \/ Faults /\ JobGoes("convert", "over") /\ missed' = TRUE

Upload ==
  /\ jpc = "upload"
  /\ \E c \in Calls(~dead, exists) :
       /\ message' = IF c.done THEN [message EXCEPT !.shown = "summary", !.file = TRUE]
                     ELSE message
       /\ signed' = IF c.ok THEN signed + 1 ELSE signed
       /\ jobURL' = IF c.ok THEN signed' ELSE jobURL
       /\ jpc' = IF c.ok THEN "finalize" ELSE "report"
  /\ UNCHANGED <<exists, hpc, dead, attempt, refreshVars, missed>>

\* editResponseText with the job's own context.
Report ==
  /\ jpc = "report"
  /\ \E c \in Calls(~dead, exists) :
       Edit(c, ErrorText) /\ missed' = (missed \/ ~c.done)
  /\ jpc' = "over"
  /\ UNCHANGED <<hpc, dead, attempt, jobURL, refreshVars>>

\* Mutant: giving up reports an error on top of the result.
FinalizeReports ==
  /\ jpc = "finalize"
  /\ \E c \in Calls(~dead, exists) :
       /\ Edit(c, ResultContent(TRUE, jobURL))
       /\ attempt' = attempt + 1
       /\ jpc' = IF c.ok THEN "over" ELSE IF attempt' = Attempts THEN "report" ELSE "pause"
  /\ UNCHANGED <<hpc, dead, jobURL, refreshVars, missed>>

\* Mutant: attempts are not counted.
FinalizeForever ==
  /\ jpc = "finalize"
  /\ \E c \in Calls(~dead, exists) :
       /\ Edit(c, ResultContent(TRUE, jobURL))
       /\ jpc' = IF c.ok THEN "over" ELSE "pause"
  /\ UNCHANGED <<hpc, dead, attempt, jobURL, refreshVars, missed>>

\* Mutant: one attempt too many.
FinalizeOnceMore ==
  /\ jpc = "finalize"
  /\ \E c \in Calls(~dead, exists) :
       /\ Edit(c, ResultContent(TRUE, jobURL))
       /\ attempt' = attempt + 1
       /\ jpc' = IF c.ok \/ attempt' > Attempts THEN "over" ELSE "pause"
  /\ UNCHANGED <<hpc, dead, jobURL, refreshVars, missed>>

\* finalizeResult: one attempt to add the URL and the button.
Finalize ==
  /\ jpc = "finalize"
  /\ \E c \in Calls(~dead, exists) :
       /\ Edit(c, ResultContent(TRUE, jobURL))
       /\ attempt' = attempt + 1
       /\ jpc' = IF c.ok \/ attempt' = Attempts THEN "over" ELSE "pause"
  /\ UNCHANGED <<hpc, dead, jobURL, refreshVars, missed>>

\* The upload's response names no attachment: nothing is edited.
FinalizeWithoutAttachment ==
  Faults /\ attempt = 0 /\ JobGoes("finalize", "over") /\ UNCHANGED missed

\* The pause between two attempts ends early with the context; a select with
\* both ready takes either branch.
Pause ==
  /\ \/ JobGoes("pause", "finalize")
     \/ dead /\ JobGoes("pause", "over")
  /\ UNCHANGED missed

finalizeResult == Finalize \/ FinalizeWithoutAttachment \/ Pause

runConvertJob ==
  StartJob \/ LoadConfig \/ Convert \/ Upload \/ Report \/ finalizeResult

\* JobTimeout, or the end of the shutdown grace period.
JobExpires ==
  /\ jpc \notin {"none", "queued", "over"} /\ ~dead
  /\ dead' = TRUE
  /\ UNCHANGED <<message, exists, signed, hpc, jpc, attempt, jobURL, refreshVars, missed>>

-----------------------------------------------------------------------------
(***************************************************************************)
(* onRefresh and refreshURL, a goroutine per press.                        *)
(***************************************************************************)

Alive(r) == left[r] > 0

\* A call of r's that timed out has used up part of r's context.
Spend(r, c) == left' = [left EXCEPT ![r] = IF c.late THEN @ - 1 ELSE @]

RefreshGoes(r, to) == rpc' = [rpc EXCEPT ![r] = to]

\* The press is acknowledged, or fails visibly in the client.
Press(r) ==
  /\ rpc[r] = "idle" /\ exists /\ message.button
  /\ \E c \in Calls(TRUE, TRUE) :
       /\ RefreshGoes(r, IF c.ok THEN "fetch" ELSE "over")
       /\ outcome' = [outcome EXCEPT ![r] = IF c.ok THEN @ ELSE "unheard"]
  /\ pressedAt' = [pressedAt EXCEPT ![r] = signed]
  /\ UNCHANGED <<message, exists, signed, commandVars, left, fetched, missed>>

\* Mutant: the URL is taken from the text instead of the attachment.
ReadOldURL(r, c, otherwise) ==
  /\ signed' = IF c.ok THEN signed + 1 ELSE signed
  /\ fetched' = IF c.ok THEN [fetched EXCEPT ![r] = message] ELSE fetched
  /\ RefreshGoes(r, IF c.ok THEN "check" ELSE otherwise)
  /\ Spend(r, c)
  /\ UNCHANGED <<message, exists, commandVars, outcome, pressedAt, missed>>

\* Reading the message: its attachment's URL is signed anew.
Read(r, c, otherwise) ==
  /\ signed' = IF c.ok THEN signed + 1 ELSE signed
  /\ fetched' = IF c.ok THEN [fetched EXCEPT ![r] = [message EXCEPT !.url = signed']]
                ELSE fetched
  /\ RefreshGoes(r, IF c.ok THEN "check" ELSE otherwise)
  /\ Spend(r, c)
  /\ UNCHANGED <<message, exists, commandVars, outcome, pressedAt, missed>>

\* GetInteractionResponse; GetMessage in case that is unavailable.
Fetch(r) ==
  rpc[r] = "fetch" /\ \E c \in Calls(Alive(r), exists) : Read(r, c, "fallback")

\* Mutant: the two endpoints are tried in turn until one answers.
FallbackAgain(r) ==
  rpc[r] = "fallback" /\ \E c \in Calls(Alive(r), exists) : Read(r, c, "fetch")

Fallback(r) ==
  rpc[r] = "fallback" /\ \E c \in Calls(Alive(r), exists) : Read(r, c, "tell")

\* No attachment, or an expiry that does not parse (never from a sane Discord).
Check(r) ==
  /\ rpc[r] = "check"
  /\ \/ fetched[r].file /\ RefreshGoes(r, "edit")
     \/ (~fetched[r].file \/ Faults) /\ RefreshGoes(r, "tell")
  /\ UNCHANGED <<message, exists, signed, commandVars, left, fetched, outcome,
                 pressedAt, missed>>

EditURL(r) ==
  /\ rpc[r] = "edit"
  /\ \E c \in Calls(Alive(r), exists) :
       /\ Edit(c, ResultContent(HasSummary(fetched[r].shown), fetched[r].url))
       /\ RefreshGoes(r, IF c.ok THEN "over" ELSE "tell")
       /\ outcome' = [outcome EXCEPT ![r] = IF c.ok THEN "refreshed" ELSE @]
       /\ Spend(r, c)
  /\ UNCHANGED <<commandVars, fetched, pressedAt, missed>>

\* The follow-up shares the refresh's context.
Tell(r) ==
  /\ rpc[r] = "tell"
  /\ \E c \in Calls(Alive(r), TRUE) :
       /\ outcome' = [outcome EXCEPT ![r] = IF c.done THEN "told"
                                            ELSE IF Alive(r) THEN "unheard" ELSE "silent"]
       /\ Spend(r, c)
  /\ RefreshGoes(r, "over")
  /\ UNCHANGED <<message, exists, signed, commandVars, fetched, pressedAt, missed>>

refreshURL(r) == Fetch(r) \/ Fallback(r) \/ Check(r) \/ EditURL(r)

onRefresh(r) == refreshURL(r) \/ Tell(r)

-----------------------------------------------------------------------------
(* The surroundings. *)

UserDeletes ==
  /\ exists /\ message.shown # "nothing"
  /\ exists' = FALSE
  /\ UNCHANGED <<message, signed, commandVars, refreshVars, missed>>

CommandSettled == hpc = "over" /\ jpc \in {"none", "over"}
Quiet == CommandSettled /\ \A r \in Presses : rpc[r] \in {"idle", "over"}

\* The process dies; jobs and refreshes are only in its memory. The next
\* process serves the presses still to come.
Crash ==
  /\ Faults /\ ~Quiet
  /\ hpc' = "over" /\ jpc' = "over"
  /\ rpc' = [r \in Presses |-> IF rpc[r] = "idle" THEN "idle" ELSE "over"]
  /\ outcome' = [r \in Presses |->
                   IF rpc[r] \in {"idle", "over"} THEN outcome[r] ELSE "unheard"]
  /\ missed' = (missed \/ ~CommandSettled)
  /\ UNCHANGED <<message, exists, signed, dead, attempt, jobURL, left, fetched, pressedAt>>

Terminated == Quiet /\ UNCHANGED vars

Next ==
  \/ onConvert \/ runConvertJob \/ JobExpires
  \/ \E r \in Presses : Press(r) \/ onRefresh(r)
  \/ UserDeletes \/ Crash
  \/ Terminated

Spec == Init /\ [][Next]_vars

\* Goroutines go on, a worker takes the queued job, calls end by their timeout.
Fairness ==
  /\ WF_vars(TrySubmit \/ AnswerQueueFull) /\ WF_vars(runConvertJob)
  /\ \A r \in Presses : WF_vars(onRefresh(r))

FairSpec == Spec /\ Fairness

-----------------------------------------------------------------------------
(***************************************************************************)
(* Properties                                                              *)
(***************************************************************************)

\* The message that carries the button carries the file, its URL and the
\* summary line, whoever edited it last: the job's retries after an edit whose
\* answer was lost, or refreshes in any order. So a press never finds a message
\* without attachment, and never loses the summary it has to restore.
ButtonMeansResult ==
  message.button => message.file /\ message.shown = "result" /\ message.url > 0

\* A refresh that succeeds shows a URL signed after the button was pressed:
\* never the one the user already had, whatever else edits the message.
RefreshShowsNewURL ==
  [][\A r \in Presses : outcome'[r] = "refreshed" /\ outcome[r] # "refreshed" =>
       message'.url > pressedAt[r]]_vars

\* Once nobody works on the command, the response no longer says that the bot
\* is thinking, unless the answer was lost (its call failed or ran under the
\* job's ended context, or the job panicked, or the process died): every path
\* out of onConvert and runConvertJob sends one.
CommandAnswered == CommandSettled /\ message.shown = "waiting" => missed

\* A command that was acknowledged is finished: retries and pauses are bounded.
CommandSettles == hpc = "submit" ~> CommandSettled

\* Every press is over at some time.
EveryPressEnds == \A r \in Presses : rpc[r] = "fetch" ~> rpc[r] = "over"

==============================================================================
