------------------------------ MODULE AdminBot ------------------------------
(***************************************************************************)
(* The administrators' commands (app/telegram/handlers.py) run by the      *)
(* polling loop: a command works, its audit row is committed in a          *)
(* transaction of its own, and then it is answered.  /activate deploys,    *)
(* and the deploy commits a deploy_log row long before the audit row.      *)
(* Members' commands are those of Distribution and end in one step here.   *)
(***************************************************************************)
EXTENDS TelegramPoll, FiniteSets

VARIABLES
  asked,       \* update -> kind of command it holds
  stage,       \* how far the handler of an administrator's command is
  ok,          \* what it will report
  deployRows,  \* deploy_log rows of the command taken last, by their success
  auditRows,   \* its admin_action_log rows, likewise
  told,        \* history: answers to it that reached the chat
  cut,         \* history: its handling or answering ended early
  page         \* history: what this process was last answered

commandVars == <<stage, ok, deployRows, auditRows, told, cut>>
adminVars == <<vars, asked, commandVars, page>>

\* "report": a command that does something, is audited and says so
Kinds == {"help", "report", "activate", "member"}

Busy == pc \in {"handle", "text"}

AdminInit ==
  /\ Init
  /\ asked \in [Updates -> Kinds]
  /\ stage = "idle" /\ ok = FALSE
  /\ deployRows = {} /\ auditRows = {}
  /\ told = {} /\ cut = FALSE
  /\ page = {}

-----------------------------------------------------------------------------
(* The handler of one command *)

At(kinds, where) == pc = "handle" /\ asked[update] \in kinds /\ stage = where

HandlerStep(where) ==
  /\ stage' = where
  /\ UNCHANGED <<vars, asked, told, cut, page>>

\* /status, /nodes, /logs, /health and /notify_test
Report ==
  /\ At({"report"}, "start")
  /\ ok' \in BOOLEAN
  /\ HandlerStep("audit")
  /\ UNCHANGED <<deployRows, auditRows>>

\* /activate: the node is found, or its absence is audited
Look ==
  /\ At({"activate"}, "start")
  /\ ok' = FALSE
  /\ \E where \in {"deploy", "audit"} : HandlerStep(where)
  /\ UNCHANGED <<deployRows, auditRows>>

\* activate_node returns: the deploy's row is committed, unless no config could
\* be generated
DeployEnds ==
  /\ At({"activate"}, "deploy")
  /\ \/ /\ ok' \in BOOLEAN
        /\ deployRows' = deployRows \cup {ok'}
     \/ /\ ok' = FALSE
        /\ UNCHANGED deployRows
  /\ HandlerStep("audit")
  /\ UNCHANGED auditRows

\* Mutant of Audit: a row that cannot be stored is given up, the command goes on
AuditOrSkip ==
  /\ At({"report", "activate"}, "audit")
  /\ auditRows' \in {auditRows, auditRows \cup {ok}}
  /\ HandlerStep("answer")
  /\ UNCHANGED <<ok, deployRows>>

\* add_admin_action and commit
Audit ==
  /\ At({"report", "activate"}, "audit")
  /\ auditRows' = auditRows \cup {ok}
  /\ HandlerStep("answer")
  /\ UNCHANGED <<ok, deployRows>>

\* The dispatcher gets the handler's response; one for an administrator has a text
Reply ==
  /\ \/ At({"report", "activate"}, "answer") /\ pc' = "text"
     \/ At({"help"}, "start") /\ pc' = "text"
     \/ At({"member"}, "start")
  /\ Handled
  /\ stage' = "idle"
  /\ UNCHANGED <<asked, ok, deployRows, auditRows, told, cut, page>>

-----------------------------------------------------------------------------
(* The loop around it *)

Quiet == UNCHANGED <<asked, commandVars, page>>

\* An answer replaces the one before
Answered ==
  /\ GetUpdates
  /\ page' = batch'
  /\ UNCHANGED <<asked, commandVars>>

TakeCommand ==
  /\ Take
  /\ stage' = IF pc' = "handle" THEN "start" ELSE "idle"
  /\ deployRows' = {} /\ auditRows' = {} /\ told' = {} /\ cut' = FALSE
  /\ UNCHANGED <<asked, ok, page>>

\* Only members are sent documents
Told ==
  /\ TextSent
  /\ asked[update] # "member" => pc' = "next"
  /\ told' = IF asked[update] \in {"report", "activate"}
             THEN told \cup {ok} ELSE told
  /\ ok' = FALSE
  /\ UNCHANGED <<asked, stage, deployRows, auditRows, cut, page>>

CutShort ==
  /\ cut' = (cut \/ Busy)
  /\ stage' = "idle" /\ ok' = FALSE
  /\ UNCHANGED <<asked, deployRows, auditRows, told>>

\* A lookup, a command's work, a commit or the sending raises
RaiseCommand == Raise /\ CutShort /\ UNCHANGED page

RestartManager == Restart /\ CutShort /\ page' = {}

AdminStep ==
  \/ Answered
  \/ TakeCommand
  \/ Report \/ Look \/ DeployEnds \/ Audit \/ Reply
  \/ Told
  \/ RaiseCommand
  \/ (GetUpdatesFails \/ BatchDone \/ DocumentSent \/ Backoff) /\ Quiet

AdminNext ==
  \/ Write /\ Quiet
  \/ AdminStep
  \/ RestartManager

AdminSpec == AdminInit /\ [][AdminNext]_adminVars

\* As FairPoll; a deploy that holds a command up comes to an end (see Deployer)
FairAdmin ==
  /\ AdminSpec
  /\ WF_adminVars(AdminStep)
  /\ SF_adminVars(Answered /\ batch' # {})

-----------------------------------------------------------------------------
(* Properties *)

\* What a restart makes the bot do again is at most the answer it was working on:
\* every command begun before that answer has been confirmed to Telegram, however
\* many polls failed.
RepeatsOnlyLastAnswer == started \cap inbox \subseteq page

\* What administrators are told is what the audit log says, an activation it calls
\* successful is one the deploy log calls successful, and a deploy that was not
\* answered belongs to a command that raised or died, or is still on its way.
AuditAgrees ==
  /\ told \subseteq auditRows
  /\ \A u \in {update} \ {0} :
       asked[u] = "activate" /\ TRUE \in auditRows => TRUE \in deployRows
  /\ deployRows # {} => deployRows = told \/ cut \/ Busy

=============================================================================
