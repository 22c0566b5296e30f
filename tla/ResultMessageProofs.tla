------------------------- MODULE ResultMessageProofs -------------------------
(***************************************************************************)
(* Proofs about the response to /convert, for any number of presses of its *)
(* button and of attempts and timeouts, with and without failing calls.    *)
(*                                                                         *)
(* The message is edited by the handler, the job, finalizeResult and every *)
(* refresh. The invariant says who may still edit it and what that editor  *)
(* relies on: once the button is there, only finalizeResult and refreshes  *)
(* are left, and what a refresh has read is newer than its press.          *)
(***************************************************************************)
EXTENDS ResultMessage, TLAPS

\* The command's own goroutines: the job starts when the handler is done with
\* the message, and finalizeResult works on an uploaded result.
CommandInv ==
  /\ hpc # "over" => jpc = "none"
  /\ jpc \notin {"finalize", "pause", "over"} => attempt = 0
  /\ message.button => hpc = "over" /\ jpc \in {"finalize", "pause", "over"}
  /\ jpc \in {"finalize", "pause"} =>
       /\ message.file /\ HasSummary(message.shown)
       /\ jobURL > 0 /\ attempt < Attempts

\* Nobody can press a button that is not there, and nothing takes it away.
RefreshInv ==
  \A r \in Presses :
    /\ rpc[r] # "idle" => message.button
    /\ rpc[r] \in {"check", "edit"} =>
         /\ fetched[r].file /\ HasSummary(fetched[r].shown)
         /\ fetched[r].url > pressedAt[r]

IInv == TypeOK /\ CommandInv /\ RefreshInv /\ ButtonMeansResult /\ CommandAnswered

USE DEF Message, Shown, HasSummary

-----------------------------------------------------------------------------
(* What the calls and the edits do. *)

LEMMA CallFacts ==
  ASSUME NEW alive \in BOOLEAN, NEW reachable \in BOOLEAN,
         NEW c \in Calls(alive, reachable)
  PROVE  /\ c.ok \in BOOLEAN /\ c.done \in BOOLEAN /\ c.late \in BOOLEAN
         /\ c.ok => c.done
         /\ c.late => alive
  BY DEF Calls

LEMMA ResultContentFacts ==
  ASSUME message \in Message, NEW url \in Nat, NEW new, new = ResultContent(TRUE, url)
  PROVE  /\ new \in Message /\ new.shown = "result" /\ new.url = url /\ new.button
         /\ new.file = message.file
  BY DEF ResultContent

LEMMA ErrorTextFacts ==
  ASSUME message \in Message
  PROVE  /\ ErrorText \in Message /\ ErrorText.shown = "error"
         /\ ErrorText.url = message.url /\ ErrorText.button = message.button
         /\ ErrorText.file = message.file
  BY DEF ErrorText

\* A timeout is spent only while some are left.
LEMMA SpendType ==
  ASSUME TypeOK, NEW r \in Presses, NEW reachable \in BOOLEAN,
         NEW c \in Calls(Alive(r), reachable), Spend(r, c)
  PROVE  left' \in [Presses -> 0 .. Timeouts]
<1> DEFINE n == IF c.late THEN left[r] - 1 ELSE left[r]
<1>1. left \in [Presses -> 0 .. Timeouts] /\ left[r] \in 0 .. Timeouts
  BY DEF TypeOK
<1>2. Alive(r) \in BOOLEAN /\ (Alive(r) <=> left[r] > 0)
  BY DEF Alive
<1>3. c.late => left[r] > 0
  BY <1>2, CallFacts
<1>4. n \in 0 .. Timeouts
  BY <1>1, <1>3, ResultAssumption
<1>5. left' = [left EXCEPT ![r] = n]
  BY DEF Spend
<1> HIDE DEF n
<1> QED BY <1>1, <1>4, <1>5

LEMMA InitInv == Init => IInv
<1> SUFFICES ASSUME Init PROVE IInv
  OBVIOUS
<1>1. Nothing \in Message
  BY DEF Nothing
<1>2. TypeOK
  <2> HIDE DEF Message
  <2>1. /\ message \in Message /\ fetched \in [Presses -> Message]
        /\ exists \in BOOLEAN /\ signed \in Nat
    BY <1>1 DEF Init
  <2>2. hpc \in HandlerState /\ jpc \in JobState /\ dead \in BOOLEAN /\ missed \in BOOLEAN
    BY DEF Init, HandlerState, JobState
  <2>3. attempt \in 0 .. Attempts /\ jobURL \in 0 .. signed
    BY ResultAssumption DEF Init
  <2>4. rpc \in [Presses -> RefreshState] /\ pressedAt \in [Presses -> 0 .. signed]
    BY DEF Init, RefreshState
  <2>5. left \in [Presses -> 0 .. Timeouts]
    BY ResultAssumption DEF Init
  <2> QED BY <2>1, <2>2, <2>3, <2>4, <2>5 DEF Init, TypeOK
<1>3. CommandInv /\ RefreshInv /\ ButtonMeansResult /\ CommandAnswered
  BY DEF Init, Nothing, CommandInv, RefreshInv, ButtonMeansResult, CommandAnswered,
     CommandSettled
<1> QED BY <1>2, <1>3 DEF IInv

-----------------------------------------------------------------------------
(* The command. *)

LEMMA HandlerKeeps == ASSUME IInv, onConvert PROVE IInv'
<1> USE DEF commandVars, refreshVars, HandlerState, JobState, RefreshState, IInv, TypeOK,
            CommandInv, RefreshInv, ButtonMeansResult, CommandAnswered, CommandSettled
<1>1. CASE DeferResponse
  <2>1. PICK c \in Calls(TRUE, TRUE) :
          /\ Edit(c, [message EXCEPT !.shown = "waiting"])
          /\ hpc' = IF c.ok THEN "submit" ELSE "over"
          /\ missed' = ~c.ok
    BY <1>1 DEF DeferResponse
  <2>2. c.ok \in BOOLEAN
    BY CallFacts
  <2> QED BY <1>1, <2>1, <2>2 DEF DeferResponse, Edit
<1>2. CASE TrySubmit
  BY <1>2 DEF TrySubmit
<1>3. CASE AnswerQueueFull
  <2>1. PICK c \in Calls(TRUE, exists) : Edit(c, ErrorText) /\ missed' = (missed \/ ~c.done)
    BY <1>3 DEF AnswerQueueFull
  <2> QED BY <1>3, <2>1, ErrorTextFacts DEF AnswerQueueFull, Edit
<1> QED BY <1>1, <1>2, <1>3 DEF onConvert

LEMMA JobKeeps == ASSUME IInv, runConvertJob PROVE IInv'
<1> USE DEF commandVars, refreshVars, HandlerState, JobState, RefreshState, IInv, TypeOK,
            CommandInv, RefreshInv, ButtonMeansResult, CommandAnswered, CommandSettled
<1>1. CASE StartJob \/ LoadConfig \/ Convert
  <2>1. /\ UNCHANGED <<message, exists, signed, hpc, dead, attempt, jobURL, refreshVars>>
        /\ jpc \in {"queued", "load", "convert"}
        /\ jpc' \in {"load", "convert", "upload", "report", "over"}
        /\ missed' \in BOOLEAN /\ (missed => missed') /\ (jpc' = "over" => missed')
    BY <1>1 DEF StartJob, LoadConfig, Convert, JobGoes
  <2>2. TypeOK'
    <3> HIDE DEF Message
    <3> QED BY <2>1
  <2>3. ~message.button /\ attempt = 0
    BY <2>1
  <2>4. CommandInv' /\ RefreshInv' /\ ButtonMeansResult' /\ CommandAnswered'
    BY <2>1, <2>3
  <2> QED BY <2>2, <2>4
<1>2. CASE Upload
  <2>1. PICK c \in Calls(~dead, exists) :
          /\ message' = IF c.done THEN [message EXCEPT !.shown = "summary", !.file = TRUE]
                        ELSE message
          /\ signed' = IF c.ok THEN signed + 1 ELSE signed
          /\ jobURL' = IF c.ok THEN signed' ELSE jobURL
          /\ jpc' = IF c.ok THEN "finalize" ELSE "report"
    BY <1>2 DEF Upload
  <2>2. c.ok => c.done
    BY CallFacts
  <2>3. UNCHANGED <<exists, hpc, dead, attempt, refreshVars, missed>> /\ jpc = "upload"
    BY <1>2 DEF Upload
  <2>4. /\ ~message.button /\ hpc = "over" /\ attempt = 0
        /\ \A r \in Presses : rpc[r] = "idle"
    BY <2>3
  <2>5. /\ message' \in Message /\ ~message'.button
        /\ c.done => message'.file /\ message'.shown = "summary"
    BY <2>1, <2>4
  <2>6. signed' \in Nat /\ signed <= signed' /\ jobURL' \in 0 .. signed' /\ (c.ok => jobURL' > 0)
    BY <2>1
  <2>7. TypeOK'
    BY <2>1, <2>3, <2>5, <2>6
  <2>8. CommandInv' /\ RefreshInv' /\ ButtonMeansResult' /\ CommandAnswered'
    BY <2>1, <2>2, <2>3, <2>4, <2>5, <2>6, ResultAssumption
  <2> QED BY <2>7, <2>8
<1>3. CASE Report
  <2>1. PICK c \in Calls(~dead, exists) : Edit(c, ErrorText) /\ missed' = (missed \/ ~c.done)
    BY <1>3 DEF Report
  <2> QED BY <1>3, <2>1, ErrorTextFacts DEF Report, Edit
<1>4. CASE Finalize
  <2>1. PICK c \in Calls(~dead, exists) :
          /\ Edit(c, ResultContent(TRUE, jobURL))
          /\ attempt' = attempt + 1
          /\ jpc' = IF c.ok \/ attempt' = Attempts THEN "over" ELSE "pause"
    BY <1>4 DEF Finalize
  <2>2. UNCHANGED <<signed, exists, hpc, dead, jobURL, refreshVars, missed>> /\ jpc = "finalize"
    BY <1>4, <2>1 DEF Finalize, Edit
  <2>3. /\ message' \in Message /\ message'.file /\ HasSummary(message'.shown)
        /\ message.button => message'.button
        /\ message'.button => message'.shown = "result" /\ message'.url > 0
    <3>0. PICK new : new = ResultContent(TRUE, jobURL)
      OBVIOUS
    <3>1. jobURL \in Nat /\ jobURL > 0 /\ message \in Message /\ message.file
      BY <2>2
    <3>2. new \in Message /\ new.file /\ new.button /\ new.shown = "result" /\ new.url = jobURL
      <4> HIDE DEF Message
      <4> QED BY <3>0, <3>1, ResultContentFacts
    <3>3. message' = new \/ message' = message
      BY <2>1, <3>0 DEF Edit
    <3> QED BY <2>2, <3>1, <3>2, <3>3
  <2>4. attempt' \in 0 .. Attempts /\ (jpc' = "pause" => attempt' < Attempts)
    BY <2>1, <2>2, ResultAssumption
  <2>5. jpc' \in {"over", "pause"}
    BY <2>1
  <2>6. TypeOK'
    BY <2>2, <2>3, <2>4, <2>5
  <2>7. CommandInv' /\ RefreshInv' /\ ButtonMeansResult' /\ CommandAnswered'
    BY <2>2, <2>3, <2>4, <2>5
  <2> QED BY <2>6, <2>7
<1>5. CASE FinalizeWithoutAttachment \/ Pause
  BY <1>5 DEF FinalizeWithoutAttachment, Pause, JobGoes
<1> QED BY <1>1, <1>2, <1>3, <1>4, <1>5 DEF runConvertJob, finalizeResult

-----------------------------------------------------------------------------
(* The refreshes. *)

LEMMA RefreshKeeps ==
  ASSUME IInv, NEW r \in Presses, Press(r) \/ onRefresh(r) PROVE IInv'
<1> USE DEF commandVars, refreshVars, RefreshState, IInv, TypeOK, CommandInv, RefreshInv,
            ButtonMeansResult, CommandAnswered, CommandSettled, RefreshGoes, Spend
<1>1. CASE Press(r)
  <2>1. PICK c \in Calls(TRUE, TRUE) :
          /\ RefreshGoes(r, IF c.ok THEN "fetch" ELSE "over")
          /\ outcome' = [outcome EXCEPT ![r] = IF c.ok THEN @ ELSE "unheard"]
    BY <1>1 DEF Press
  <2>2. /\ message.button
        /\ pressedAt' = [pressedAt EXCEPT ![r] = signed]
        /\ UNCHANGED <<message, exists, signed, commandVars, left, fetched, missed>>
    BY <1>1 DEF Press
  <2> QED BY <2>1, <2>2
<1>2. CASE Fetch(r) \/ Fallback(r)
  \* What is read is signed now, after every press.
  <2>1. PICK c \in Calls(Alive(r), exists), to \in {"fallback", "tell"} : Read(r, c, to)
    BY <1>2 DEF Fetch, Fallback
  <2>2. rpc[r] # "idle" /\ message.button
    BY <1>2 DEF Fetch, Fallback
  <2>3. UNCHANGED <<message, exists, commandVars, outcome, pressedAt, missed>>
    BY <2>1 DEF Read
  <2>4. signed' \in Nat /\ signed <= signed' /\ (c.ok => signed' = signed + 1)
    BY <2>1 DEF Read
  <2>5. /\ c.ok => fetched' = [fetched EXCEPT ![r] = [message EXCEPT !.url = signed']]
        /\ ~c.ok => fetched' = fetched
        /\ rpc' = [rpc EXCEPT ![r] = IF c.ok THEN "check" ELSE to]
    BY <2>1 DEF Read
  <2>6. fetched' \in [Presses -> Message]
    <3>1. [message EXCEPT !.url = signed'] \in Message
      BY <2>4
    <3> HIDE DEF Message
    <3> QED BY <2>5, <3>1
  <2>7. left' \in [Presses -> 0 .. Timeouts]
    BY <2>1, SpendType DEF Read
  <2>8. TypeOK'
    <3>1. rpc' \in [Presses -> RefreshState]
      BY <2>5
    <3>2. jobURL' \in 0 .. signed' /\ pressedAt' \in [Presses -> 0 .. signed']
      BY <2>3, <2>4
    <3> HIDE DEF Message
    <3> QED BY <2>3, <2>4, <2>6, <2>7, <3>1, <3>2
  <2>9. RefreshInv'
    BY <2>2, <2>3, <2>4, <2>5
  <2> QED BY <2>3, <2>8, <2>9
<1>3. CASE Check(r)
  BY <1>3 DEF Check
<1>4. CASE EditURL(r)
  <2>1. PICK c \in Calls(Alive(r), exists) :
          /\ Edit(c, ResultContent(HasSummary(fetched[r].shown), fetched[r].url))
          /\ RefreshGoes(r, IF c.ok THEN "over" ELSE "tell")
          /\ outcome' = [outcome EXCEPT ![r] = IF c.ok THEN "refreshed" ELSE @]
          /\ Spend(r, c)
    BY <1>4 DEF EditURL
  <2>2. rpc[r] = "edit" /\ UNCHANGED <<exists, signed, commandVars, fetched, pressedAt, missed>>
    BY <1>4, <2>1 DEF EditURL, Edit
  <2>3. message' \in Message /\ ButtonMeansResult' /\ message'.button
    <3> DEFINE url == fetched[r].url
    <3>0. PICK new : new = ResultContent(TRUE, url)
      OBVIOUS
    <3>1. url \in Nat /\ url > 0 /\ HasSummary(fetched[r].shown) = TRUE
          /\ message \in Message /\ message.file /\ message.button
      BY <2>2
    <3>2. new \in Message /\ new.file /\ new.button /\ new.shown = "result" /\ new.url = url
      <4> HIDE DEF Message
      <4> QED BY <3>0, <3>1, ResultContentFacts
    <3>3. message' = new \/ message' = message
      BY <2>1, <3>0, <3>1 DEF Edit
    <3> HIDE DEF url
    <3> QED BY <3>1, <3>2, <3>3
  <2>4. left' \in [Presses -> 0 .. Timeouts]
    BY <2>1, SpendType
  <2>5. TypeOK'
    BY <2>1, <2>2, <2>3, <2>4
  <2>6. message'.file /\ HasSummary(message'.shown)
    BY <2>3
  <2>7. CommandInv' /\ RefreshInv' /\ CommandAnswered'
    BY <2>1, <2>2, <2>3, <2>6
  <2> QED BY <2>3, <2>5, <2>7
<1>5. CASE Tell(r)
  <2>1. PICK c \in Calls(Alive(r), TRUE) : Spend(r, c)
    BY <1>5 DEF Tell
  <2>3. left' \in [Presses -> 0 .. Timeouts]
    BY <2>1, SpendType
  <2>4. UNCHANGED <<message, exists, signed, commandVars, fetched, pressedAt, missed>>
        /\ rpc[r] = "tell" /\ RefreshGoes(r, "over")
        /\ outcome' \in [Presses -> {"none", "refreshed", "told", "unheard", "silent"}]
    BY <1>5 DEF Tell
  <2> QED BY <2>3, <2>4
<1> QED BY <1>1, <1>2, <1>3, <1>4, <1>5 DEF onRefresh, refreshURL

LEMMA StepInv == IInv /\ [Next]_vars => IInv'
<1> SUFFICES ASSUME IInv, [Next]_vars PROVE IInv'
  OBVIOUS
<1> USE DEF commandVars, refreshVars
<1>1. CASE JobExpires \/ UserDeletes
  <2>1. /\ UNCHANGED <<message, signed, hpc, jpc, attempt, jobURL, refreshVars, missed>>
        /\ exists' \in BOOLEAN /\ dead' \in BOOLEAN
    BY <1>1 DEF JobExpires, UserDeletes, IInv, TypeOK
  <2>2. TypeOK'
    BY <2>1 DEF IInv, TypeOK
  <2>3. CommandInv' /\ RefreshInv' /\ ButtonMeansResult' /\ CommandAnswered'
    BY <2>1 DEF IInv, CommandInv, RefreshInv, ButtonMeansResult, CommandAnswered,
       CommandSettled
  <2> QED BY <2>2, <2>3 DEF IInv
<1>2. CASE Crash
  BY <1>2 DEF Crash, IInv, TypeOK, CommandInv, RefreshInv, ButtonMeansResult, CommandAnswered,
     CommandSettled, HandlerState, JobState, RefreshState
<1>3. CASE UNCHANGED vars
  BY <1>3 DEF vars, IInv, TypeOK, CommandInv, RefreshInv, ButtonMeansResult, CommandAnswered,
     CommandSettled
<1> QED
  BY <1>1, <1>2, <1>3, HandlerKeeps, JobKeeps, RefreshKeeps DEF Next, Terminated

LEMMA Invariance == Spec => []IInv
  BY InitInv, StepInv, PTL DEF Spec

-----------------------------------------------------------------------------
(* The results. *)

\* Every variable keeps its type: attempts and timeouts never exceed their
\* bounds, and no URL is newer than the last one signed.
THEOREM TypeCorrect == Spec => []TypeOK
<1>1. IInv => TypeOK
  BY DEF IInv
<1> QED BY Invariance, <1>1, PTL

\* Whoever edited the response last, the handler, the job, a retry whose answer
\* was lost or a refresh: with the button come the file, its URL and the summary.
THEOREM ButtonBringsResult == Spec => []ButtonMeansResult
<1>1. IInv => ButtonMeansResult
  BY DEF IInv
<1> QED BY Invariance, <1>1, PTL

\* onConvert and runConvertJob leave no response at "thinking", except when the
\* call that answers is lost.
THEOREM CommandGetsAnswer == Spec => []CommandAnswered
<1>1. IInv => CommandAnswered
  BY DEF IInv
<1> QED BY Invariance, <1>1, PTL

\* A refresh that reports success has shown a URL signed after its press,
\* whatever other presses and finalizeResult did in between.
THEOREM RefreshIsNew == Spec => RefreshShowsNewURL
<1> DEFINE New(r) == outcome'[r] = "refreshed" /\ outcome[r] # "refreshed" =>
                       message'.url > pressedAt[r]
<1>1. IInv /\ [Next]_vars => [\A r \in Presses : New(r)]_vars
  <2> SUFFICES ASSUME IInv, Next, NEW r \in Presses,
                      outcome'[r] = "refreshed", outcome[r] # "refreshed"
               PROVE  message'.url > pressedAt[r]
    OBVIOUS
  <2> USE DEF IInv, TypeOK
  <2>1. EditURL(r)
    <3>1. ASSUME UNCHANGED outcome PROVE FALSE
      BY <3>1
    <3>2. ASSUME NEW q \in Presses, Press(q) PROVE FALSE
      BY <3>2 DEF Press
    <3>3. ASSUME NEW q \in Presses, Tell(q) PROVE FALSE
      BY <3>3 DEF Tell
    <3>4. ASSUME NEW q \in Presses, EditURL(q) PROVE q = r
      BY <3>4 DEF EditURL
    <3>5. ASSUME Crash PROVE FALSE
      BY <3>5 DEF Crash
    <3>6. ASSUME NEW q \in Presses, Fetch(q) \/ Fallback(q) \/ Check(q) PROVE FALSE
      BY <3>1, <3>6 DEF Fetch, Fallback, Read, Check
    <3>7. ASSUME onConvert \/ runConvertJob PROVE FALSE
      BY <3>1, <3>7
         DEF onConvert, DeferResponse, TrySubmit, AnswerQueueFull, runConvertJob, StartJob,
         LoadConfig, Convert, JobGoes, Upload, Report, finalizeResult, Finalize,
         FinalizeWithoutAttachment, Pause, refreshVars
    <3>8. ASSUME JobExpires \/ UserDeletes \/ Terminated PROVE FALSE
      BY <3>1, <3>8 DEF JobExpires, UserDeletes, Terminated, vars, refreshVars
    <3> QED BY <3>2, <3>3, <3>4, <3>5, <3>6, <3>7, <3>8 DEF Next, onRefresh, refreshURL
  <2>2. PICK c \in Calls(Alive(r), exists) :
          /\ Edit(c, ResultContent(HasSummary(fetched[r].shown), fetched[r].url))
          /\ c.ok
    BY <2>1 DEF EditURL
  <2>3. c.done
    BY <2>2 DEF Calls
  <2>4. message' = ResultContent(TRUE, fetched[r].url)
    BY <2>1, <2>2, <2>3 DEF Edit, EditURL, RefreshInv
  <2>5. fetched[r].url \in Nat /\ fetched[r].url > pressedAt[r] /\ message \in Message
    BY <2>1 DEF EditURL, RefreshInv
  <2>6. message'.url = fetched[r].url
    BY <2>4, <2>5, ResultContentFacts
  <2> QED BY <2>5, <2>6
<1> QED BY Invariance, <1>1, PTL DEF Spec, RefreshShowsNewURL

==============================================================================
