--------------------------- MODULE TelegramProofs ---------------------------
(***************************************************************************)
(* The polling loop skips no update and takes them in order, for any       *)
(* number of updates and restarts.  The bot with its commands implements   *)
(* the loop, and so inherits what is proved of it; repeats and the audit   *)
(* trail of the commands.                                                  *)
(***************************************************************************)
EXTENDS AdminBot, TLAPS

USE TelegramPollAssumption

\* Why no update is skipped: one that was not taken yet is still at Telegram, not
\* below the offset, and not passed over by the batch, which has no gaps.
Waiting(u) ==
  /\ u \in inbox /\ u >= offset
  /\ \A v \in batch : u < v => u \in batch
QueueInv == PollTypeOK /\ \A u \in 1..sent : u \in ever \/ Waiting(u)

\* The empty queue of a new bot satisfies the invariant.
LEMMA QueueInit == Init => QueueInv
  BY DEF Init, QueueInv, Waiting, PollTypeOK

\* Every step keeps the types: Telegram's queue, the offset and the batch.
LEMMA TypeStep == PollTypeOK /\ [Next]_vars => PollTypeOK'
<1> SUFFICES ASSUME PollTypeOK, [Next]_vars PROVE PollTypeOK'
  OBVIOUS
<1> USE DEF PollTypeOK
<1>1. CASE Write
  BY <1>1 DEF Write
<1>2. CASE GetUpdates
  BY <1>2 DEF GetUpdates, Pages, Unconfirmed
<1>3. CASE GetUpdatesFails
  BY <1>3 DEF GetUpdatesFails, Unconfirmed
<1>4. CASE Take
  <2>1. PICK u \in batch :
          /\ Oldest(u) /\ offset' = u + 1 /\ batch' = batch \ {u}
          /\ started' = started \cup {u} /\ ever' = ever \cup {u} /\ update' = u
    BY <1>4 DEF Take, Advance
  <2>2. /\ sent' = sent /\ inbox' = inbox /\ restarts' = restarts
        /\ pc' \in {"next", "handle"}
    BY <1>4 DEF Take
  <2>3. \A v \in batch' : v \in inbox /\ v >= u + 1
    BY <2>1 DEF Oldest
  <2> QED
    BY <2>1, <2>2, <2>3
<1>5. CASE Raise
  BY <1>5 DEF Raise
<1>6. CASE Restart
  BY <1>6 DEF Restart
<1>7. CASE BatchDone \/ Handled \/ TextSent \/ DocumentSent \/ Backoff
  BY <1>7 DEF BatchDone, Handled, TextSent, DocumentSent, Backoff
<1>8. CASE UNCHANGED vars
  BY <1>8 DEF vars
<1> QED
  BY <1>1, <1>2, <1>3, <1>4, <1>5, <1>6, <1>7, <1>8 DEF Next, Step

\* Every step keeps each update waiting until it is taken.
LEMMA QueueStep == QueueInv /\ [Next]_vars => QueueInv'
<1> SUFFICES ASSUME QueueInv, [Next]_vars, NEW w \in 1..sent' PROVE (w \in ever \/ Waiting(w))'
  BY TypeStep DEF QueueInv
<1> USE DEF QueueInv, PollTypeOK, Waiting
<1>1. CASE Write
  BY <1>1 DEF Write
<1>2. CASE GetUpdates
  BY <1>2 DEF GetUpdates, Pages, Unconfirmed
<1>3. CASE GetUpdatesFails
  BY <1>3 DEF GetUpdatesFails, Unconfirmed
<1>4. CASE Take
  <2>1. PICK u \in batch :
          /\ Oldest(u) /\ offset' = u + 1 /\ batch' = batch \ {u}
          /\ ever' = ever \cup {u}
    BY <1>4 DEF Take, Advance
  <2>2. sent' = sent /\ inbox' = inbox
    BY <1>4 DEF Take
  <2>3. CASE w \in ever'
    BY <2>3
  <2>4. CASE w \notin ever'
    <3>1. w \in inbox /\ w # u /\ \A v \in batch : w < v => w \in batch
      BY <2>1, <2>2, <2>4
    <3>2. ~(w < u)
      BY <2>1, <3>1 DEF Oldest
    <3> QED
      BY <2>1, <2>2, <3>1, <3>2
  <2> QED
    BY <2>3, <2>4
<1>5. CASE Raise
  BY <1>5 DEF Raise
<1>6. CASE Restart
  BY <1>6 DEF Restart
<1>7. CASE BatchDone \/ Handled \/ TextSent \/ DocumentSent \/ Backoff
  BY <1>7 DEF BatchDone, Handled, TextSent, DocumentSent, Backoff
<1>8. CASE UNCHANGED vars
  BY <1>8 DEF vars
<1> QED
  BY <1>1, <1>2, <1>3, <1>4, <1>5, <1>6, <1>7, <1>8 DEF Next, Step

\* Types, and a batch that is still unconfirmed, for any number of updates.
THEOREM PollTypes == PollSpec => []PollTypeOK
<1>1. Init => PollTypeOK
  BY QueueInit DEF QueueInv
<1> QED
  BY <1>1, TypeStep, PTL DEF PollSpec

\* An update leaves Telegram's queue only after its handling has begun, however
\* many calls are lost, handlers raise and restarts happen.
THEOREM NoUpdateSkipped == PollSpec => []NoneSkipped
<1>1. QueueInv => NoneSkipped
  BY DEF QueueInv, Waiting, NoneSkipped
<1> QED
  BY <1>1, QueueInit, QueueStep, PTL DEF PollSpec

\* What this process has taken is below its offset.
Passed == \A u \in started : u < offset

LEMMA PassedStep == PollTypeOK /\ Passed /\ [Next]_vars => Passed'
<1> SUFFICES ASSUME PollTypeOK, Passed, [Next]_vars PROVE Passed'
  OBVIOUS
<1> USE DEF Passed, PollTypeOK
<1>1. CASE Take
  <2>1. PICK u \in batch : offset' = u + 1 /\ started' = started \cup {u}
    BY <1>1 DEF Take, Advance
  <2>2. u >= offset /\ u \in Int /\ \A v \in started : v \in Int
    BY <2>1
  <2> QED
    BY <2>1, <2>2
<1>2. CASE Restart
  BY <1>2 DEF Restart
<1>3. CASE Write \/ GetUpdates \/ GetUpdatesFails \/ BatchDone \/ Handled \/ TextSent
           \/ DocumentSent \/ Raise \/ Backoff
  BY <1>3 DEF Write, GetUpdates, GetUpdatesFails, BatchDone, Handled, TextSent, DocumentSent,
              Raise, Backoff
<1>4. CASE UNCHANGED vars
  BY <1>4 DEF vars
<1> QED
  BY <1>1, <1>2, <1>3, <1>4 DEF Next, Step

LEMMA PassedHolds == PollSpec => [](PollTypeOK /\ Passed)
<1>1. Init => PollTypeOK /\ Passed
  BY QueueInit DEF QueueInv, Init, Passed
<1> QED
  BY <1>1, TypeStep, PassedStep, PTL DEF PollSpec

\* One process takes updates in the order they were sent and none of them twice,
\* although it asks again for what it held when a handler raised.
THEOREM UpdatesTakenInOrder == PollSpec => TakenOnceInOrder
<1>1. PollTypeOK /\ Passed /\ [Next]_vars =>
        [pc = "next" /\ batch' # batch /\ restarts' = restarts
           => \A u \in started : u < update']_vars
  <2> SUFFICES ASSUME PollTypeOK, Passed, Next, pc = "next", batch' # batch, restarts' = restarts
               PROVE  \A u \in started : u < update'
    OBVIOUS
  <2>1. CASE Take
    <3>1. PICK u \in batch : update' = u
      BY <2>1 DEF Take
    <3> QED
      BY <3>1 DEF Passed, PollTypeOK
  <2>2. CASE Restart
    BY <2>2 DEF Restart, PollTypeOK
  <2> QED
    BY <2>1, <2>2 DEF Next, Step, Write, GetUpdates, GetUpdatesFails, BatchDone, Handled, TextSent,
                      DocumentSent, Raise, Backoff
<1> QED
  BY <1>1, PassedHolds, PTL DEF PollSpec, TakenOnceInOrder

-----------------------------------------------------------------------------
(* The bot with its commands *)

\* Every step of the bot is a step of the polling loop, or one inside a handler.
LEMMA StepIsPolling == [AdminNext]_adminVars => [Next]_vars
<1> SUFFICES ASSUME AdminNext PROVE Next \/ UNCHANGED vars
  BY DEF adminVars
<1>1. CASE Answered \/ TakeCommand \/ Reply \/ Told \/ RaiseCommand
  BY <1>1 DEF Answered, TakeCommand, Reply, Told, RaiseCommand, Next, Step
<1>2. CASE Report \/ Look \/ DeployEnds \/ Audit
  BY <1>2 DEF Report, Look, DeployEnds, Audit, HandlerStep
<1>3. CASE (GetUpdatesFails \/ BatchDone \/ DocumentSent \/ Backoff) /\ Quiet
  BY <1>3 DEF Next, Step
<1>4. CASE (Write /\ Quiet) \/ RestartManager
  BY <1>4 DEF RestartManager, Next
<1> QED
  BY <1>1, <1>2, <1>3, <1>4 DEF AdminNext, AdminStep

\* The bot with its commands, audit rows and deploys implements the bare loop.
THEOREM AdminImplementsPoll == AdminSpec => PollSpec
<1>1. AdminInit => Init
  BY DEF AdminInit
<1> QED
  BY <1>1, StepIsPolling, PTL DEF AdminSpec, PollSpec

\* With its commands, too, the bot skips no update.
THEOREM AdminSkipsNone == AdminSpec => []NoneSkipped
BY AdminImplementsPoll, NoUpdateSkipped, PTL

-----------------------------------------------------------------------------
(* Repeats *)

\* Updates begun are below the offset; those of them that the last answer did not
\* hold were confirmed by asking for it.
RepeatInv ==
  /\ PollTypeOK /\ Passed
  /\ RepeatsOnlyLastAnswer
  /\ batch \subseteq page

LEMMA RepeatStep == RepeatInv /\ [AdminNext]_adminVars => RepeatInv'
<1> SUFFICES ASSUME RepeatInv, [AdminNext]_adminVars PROVE RepeatInv'
  OBVIOUS
<1> USE DEF RepeatInv
<1>1. PollTypeOK' /\ Passed'
  BY StepIsPolling, TypeStep, PassedStep
<1>2. RepeatsOnlyLastAnswer' /\ (batch \subseteq page)'
  <2> USE DEF RepeatsOnlyLastAnswer
  <2>1. CASE Answered
    <3>1. \A u \in started : u \notin inbox'
      BY <2>1 DEF Answered, GetUpdates, Unconfirmed, Passed, PollTypeOK
    <3> QED
      BY <2>1, <3>1 DEF Answered, GetUpdates
  <2>2. CASE TakeCommand
    BY <2>2 DEF TakeCommand, Take
  <2>3. CASE Report \/ Look \/ DeployEnds \/ Audit
    BY <2>3 DEF Report, Look, DeployEnds, Audit, HandlerStep, vars
  <2>4. CASE Reply \/ Told \/ RaiseCommand
    BY <2>4 DEF Reply, Handled, Told, TextSent, RaiseCommand, Raise, CutShort
  <2>5. CASE (GetUpdatesFails \/ BatchDone \/ DocumentSent \/ Backoff) /\ Quiet
    BY <2>5 DEF GetUpdatesFails, Unconfirmed, BatchDone, DocumentSent, Backoff, Quiet
  <2>6. CASE Write /\ Quiet
    BY <2>6 DEF Write, Quiet, PollTypeOK
  <2>7. CASE RestartManager
    BY <2>7 DEF RestartManager, Restart
  <2>8. CASE UNCHANGED adminVars
    BY <2>8 DEF adminVars, vars
  <2> QED
    BY <2>1, <2>2, <2>3, <2>4, <2>5, <2>6, <2>7, <2>8 DEF AdminNext, AdminStep
<1> QED
  BY <1>1, <1>2

\* A restart repeats no more than the answer the bot was working on.
THEOREM AdminRepeatsOnlyLast == AdminSpec => []RepeatsOnlyLastAnswer
<1>1. AdminInit => RepeatInv
  BY QueueInit DEF AdminInit, Init, QueueInv, RepeatInv, Passed, RepeatsOnlyLastAnswer
<1>2. RepeatInv => RepeatsOnlyLastAnswer
  BY DEF RepeatInv
<1> QED
  BY <1>1, <1>2, RepeatStep, PTL DEF AdminSpec

-----------------------------------------------------------------------------
(* The audit trail *)

\* How the rows of the command taken last follow from where its handler is.
AuditInv ==
  /\ ok \in BOOLEAN
  /\ asked \in [Updates -> Kinds]
  /\ update \in {0} \cup Updates
  /\ Busy => update \in Updates
  /\ pc # "handle" => stage = "idle"
  /\ pc = "handle" => stage \in {"start", "deploy", "audit", "answer"}
  /\ stage \in {"deploy", "audit", "answer"} => asked[update] \in {"report", "activate"}
  /\ stage \in {"start", "deploy"} => deployRows = {} /\ auditRows = {} /\ told = {}
  /\ stage = "audit" => /\ auditRows = {} /\ told = {}
                        /\ asked[update] = "activate" =>
                             deployRows = {ok} \/ (deployRows = {} /\ ~ok)
  /\ stage = "answer" \/ pc = "text" =>
       /\ told = {}
       /\ asked[update] \in {"report", "activate"} => auditRows = {ok}
       /\ asked[update] = "activate" => deployRows = {ok} \/ (deployRows = {} /\ ~ok)
  /\ update \in Updates /\ asked[update] # "activate" => deployRows = {}
  /\ AuditAgrees

LEMMA AuditStep == PollTypeOK /\ AuditInv /\ [AdminNext]_adminVars => AuditInv'
<1> SUFFICES ASSUME PollTypeOK, AuditInv, [AdminNext]_adminVars PROVE AuditInv'
  OBVIOUS
<1> USE DEF AuditInv, AuditAgrees, Busy
<1>1. CASE TakeCommand
  <2>1. PICK u \in batch : update' = u
    BY <1>1 DEF TakeCommand, Take
  <2>2. u \in Updates
    <3>1. u \in 1..sent /\ sent \in 0..MaxUpdates
      BY DEF PollTypeOK
    <3> QED
      BY <3>1, TelegramPollAssumption DEF TelegramPollAssumption, Updates
  <2> QED
    BY <1>1, <2>1, <2>2 DEF TakeCommand, Take
<1>2. CASE Report
  BY <1>2 DEF Report, At, HandlerStep, vars
<1>3. CASE Look
  BY <1>3 DEF Look, At, HandlerStep, vars
<1>4. CASE DeployEnds
  BY <1>4 DEF DeployEnds, At, HandlerStep, vars
<1>5. CASE Audit
  BY <1>5 DEF Audit, At, HandlerStep, vars
<1>6. CASE Reply
  BY <1>6 DEF Reply, At, Handled
<1>7. CASE Told
  BY <1>7 DEF Told, TextSent
<1>8. CASE RaiseCommand
  BY <1>8 DEF RaiseCommand, Raise, CutShort
<1>9. CASE RestartManager
  <2>1. 0 \notin Updates
    BY DEF Updates
  <2>2. /\ update' = 0 /\ pc' = "poll" /\ stage' = "idle" /\ ok' = FALSE
        /\ cut' = (cut \/ Busy)
        /\ UNCHANGED <<asked, deployRows, auditRows, told>>
    BY <1>9 DEF RestartManager, Restart, CutShort
  <2> QED
    BY <2>1, <2>2
<1>10. CASE Answered
  BY <1>10 DEF Answered, GetUpdates, commandVars
<1>11. CASE (GetUpdatesFails \/ BatchDone \/ DocumentSent \/ Backoff) /\ Quiet
  BY <1>11 DEF GetUpdatesFails, BatchDone, DocumentSent, Backoff, Quiet, commandVars
<1>12. CASE Write /\ Quiet
  BY <1>12 DEF Write, Quiet, commandVars
<1>13. CASE UNCHANGED adminVars
  BY <1>13 DEF adminVars, vars, commandVars
<1> QED
  BY <1>1, <1>2, <1>3, <1>4, <1>5, <1>6, <1>7, <1>8, <1>9, <1>10, <1>11, <1>12,
     <1>13
     DEF AdminNext, AdminStep

\* The answers an administrator reads, the audit log and the deploy log agree,
\* whatever raises and whenever the manager dies.
THEOREM AdminAuditAgrees == AdminSpec => []AuditAgrees
<1>1. AdminInit => AuditInv
  BY DEF AdminInit, Init, AuditInv, AuditAgrees, Busy
<1>2. AuditInv => AuditAgrees
  BY DEF AuditInv
<1> QED
  BY <1>1, <1>2, AuditStep, AdminImplementsPoll, PollTypes, PTL DEF AdminSpec

=============================================================================
