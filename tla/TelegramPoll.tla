---------------------------- MODULE TelegramPoll ----------------------------
(***************************************************************************)
(* The Telegram bot's polling loop (app/telegram/bot.py, client.py and     *)
(* dispatcher.py) against the Bot API, which keeps an update until a       *)
(* getUpdates call with a larger offset confirms it.                       *)
(*                                                                         *)
(* The offset lives in memory only: a restarted manager asks for           *)
(* everything that is still unconfirmed.  A call can fail before or after  *)
(* it had its effect, and a command handler can raise.                     *)
(***************************************************************************)
EXTENDS Integers

CONSTANTS MaxUpdates, MaxRestarts  \* bounds: updates sent, restarts

ASSUME TelegramPollAssumption == MaxUpdates \in Nat /\ MaxRestarts \in Nat

VARIABLES
  sent,     \* updates sent by users so far; an update is its number
  inbox,    \* updates the Bot API still keeps
  offset,   \* TelegramBotRunner.offset; 0 when None
  batch,    \* updates of the last answer that are still to be handled
  pc,       \* where poll_once is
  update,   \* update being handled
  started,  \* history: updates whose handling began in this process
  ever,     \* history: updates whose handling began in any process
  restarts

vars == <<sent, inbox, offset, batch, pc, update, started, ever, restarts>>

Updates == 1..MaxUpdates

\* Type invariant: the queue at Telegram, the loop, and a batch whose updates are
\* all still unconfirmed.
PollTypeOK ==
  /\ sent \in 0..MaxUpdates
  /\ inbox \subseteq 1..sent
  /\ offset \in 0..(sent + 1)
  /\ batch \subseteq {u \in inbox : u >= offset}
  /\ pc \in {"poll", "next", "handle", "text", "document", "backoff"}
  /\ update \in 0..sent
  /\ started \subseteq 1..sent /\ ever \subseteq 1..sent
  /\ restarts \in 0..MaxRestarts

Init ==
  /\ sent = 0 /\ inbox = {} /\ offset = 0 /\ batch = {}
  /\ pc = "poll" /\ update = 0
  /\ started = {} /\ ever = {} /\ restarts = 0

\* A user writes to the bot
Write ==
  /\ sent < MaxUpdates
  /\ sent' = sent + 1
  /\ inbox' = inbox \cup {sent'}
  /\ UNCHANGED <<offset, batch, pc, update, started, ever, restarts>>

\* What the Bot API still keeps once it has seen the offset
Unconfirmed == {u \in inbox : u >= offset}

\* An answer holds the oldest updates, at most a page of them
Pages == {page \in SUBSET Unconfirmed :
            \A u \in page, v \in Unconfirmed : v < u => v \in page}

GetUpdates ==
  /\ pc = "poll"
  /\ inbox' = Unconfirmed
  /\ batch' \in Pages
  /\ pc' = "next"
  /\ UNCHANGED <<sent, offset, update, started, ever, restarts>>

\* The call fails: it never arrived, or its answer was lost
GetUpdatesFails ==
  /\ pc = "poll"
  /\ inbox' \in {inbox, Unconfirmed}
  /\ pc' = "backoff"
  /\ UNCHANGED <<sent, offset, batch, update, started, ever, restarts>>

Oldest(u) == u \in batch /\ \A v \in batch : u <= v

\* Mutant of Advance: the whole answer is confirmed at once
AdvancePastBatch(u) ==
  \E v \in batch : (\A x \in batch : x <= v) /\ u <= v /\ offset' = v + 1

\* Mutant of Advance: the offset stays until the next answer
AdvanceLater(u) == u \in batch /\ UNCHANGED offset

\* The offset moves past an update before it is handled
Advance(u) == offset' = u + 1

\* The loop takes the next update; one without a chat is passed over
Take ==
  /\ pc = "next" /\ batch # {}
  /\ \E u \in batch :
       /\ Oldest(u)
       /\ Advance(u)
       /\ batch' = batch \ {u}
       /\ started' = started \cup {u} /\ ever' = ever \cup {u}
       /\ update' = u
  /\ pc' \in {"next", "handle"}
  /\ UNCHANGED <<sent, inbox, restarts>>

BatchDone ==
  /\ pc = "next" /\ batch = {}
  /\ pc' = "poll"
  /\ UNCHANGED <<sent, inbox, offset, batch, update, started, ever, restarts>>

\* The dispatcher returns a response with or without a document, or none
Handled ==
  /\ pc = "handle"
  /\ pc' \in {"text", "next"}
  /\ UNCHANGED <<sent, inbox, offset, batch, update, started, ever, restarts>>

TextSent ==
  /\ pc = "text"
  /\ pc' \in {"document", "next"}
  /\ UNCHANGED <<sent, inbox, offset, batch, update, started, ever, restarts>>

\* A document that cannot be sent is only logged
DocumentSent ==
  /\ pc = "document"
  /\ pc' = "next"
  /\ UNCHANGED <<sent, inbox, offset, batch, update, started, ever, restarts>>

\* Mutant of Raise: the update that raised is asked for again
RaiseAndRetry ==
  /\ pc \in {"handle", "text"}
  /\ pc' = "backoff" /\ batch' = {} /\ offset' = update
  /\ UNCHANGED <<sent, inbox, update, started, ever, restarts>>

\* The handler or the answer's text fails: poll_once ends, and the rest of the
\* answer is asked for again
Raise ==
  /\ pc \in {"handle", "text"}
  /\ pc' = "backoff" /\ batch' = {}
  /\ UNCHANGED <<sent, inbox, offset, update, started, ever, restarts>>

Backoff ==
  /\ pc = "backoff"
  /\ pc' = "poll"
  /\ UNCHANGED <<sent, inbox, offset, batch, update, started, ever, restarts>>

\* The manager stops anywhere and is started again
Restart ==
  /\ restarts < MaxRestarts
  /\ restarts' = restarts + 1
  /\ offset' = 0 /\ batch' = {} /\ pc' = "poll" /\ update' = 0 /\ started' = {}
  /\ UNCHANGED <<sent, inbox, ever>>

Step == GetUpdates \/ GetUpdatesFails \/ Take \/ BatchDone \/ Handled \/ TextSent
        \/ DocumentSent \/ Raise \/ Backoff

Next == Write \/ Step \/ Restart

PollSpec == Init /\ [][Next]_vars

\* run_forever goes on after every error, and Telegram does not for ever fail
\* or answer that there is nothing
FairPoll ==
  /\ PollSpec
  /\ WF_vars(Step)
  /\ SF_vars(GetUpdates /\ batch' # {})

-----------------------------------------------------------------------------
(* Properties *)

\* An update is given up by Telegram only when its handling has begun: neither a
\* failing handler, nor a lost answer, nor a restart loses the updates behind it.
NoneSkipped == \A u \in 1..sent : u \in inbox \/ u \in ever

\* Within one process an update is taken at most once and in the order sent: a
\* command that raises is not repeated, although its batch is fetched again.
TakenOnceInOrder ==
  [][pc = "next" /\ batch' # batch /\ restarts' = restarts
       => \A u \in started : u < update']_vars

\* A poisonous command does not stop the bot: every update is taken at last.
EveryUpdateTaken == \A u \in Updates : u <= sent ~> u \in ever

=============================================================================
