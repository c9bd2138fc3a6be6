--------------------------- MODULE DeployPromise ---------------------------
(***************************************************************************)
(* What deploying a config promises, without backups, clock, service or    *)
(* event loop: a deploy is a transaction on the config file.  It ends      *)
(* answered "ok" with the file as wanted, "rolled_back" with the file as   *)
(* it was before, or "failed"; deploys exclude each other, and the file    *)
(* changes by other hands between deploys only.                            *)
(***************************************************************************)
CONSTANTS Tasks, Configs, Torn, NoFile

VARIABLES
  file,    \* content of the config file
  phase,   \* where each deploy is
  wanted,  \* the config it was given
  before   \* the file's content when it wrote

promiseVars == <<file, phase, wanted, before>>

Busy == {"open", "written", "undone"}
Answers == {"ok", "rolled_back", "failed"}

PromiseInit ==
  /\ file \in Configs \cup {NoFile}
  /\ phase = [t \in Tasks |-> "idle"]
  /\ wanted = [t \in Tasks |-> NoFile]
  /\ before = [t \in Tasks |-> NoFile]

Become(t, p) == phase' = [phase EXCEPT ![t] = p]
Alone(t) == \A u \in Tasks \ {t} : phase[u] = "idle"

\* A deploy is begun when no other is under way, else refused
Begin(t, c) ==
  /\ phase[t] = "idle"
  /\ wanted' = [wanted EXCEPT ![t] = c]
  /\ IF \E u \in Tasks : phase[u] \in Busy THEN Become(t, "failed")
                                           ELSE Become(t, "open")
  /\ UNCHANGED <<file, before>>

GiveUp(t) ==
  /\ phase[t] \in {"open", "written"}
  /\ Become(t, "failed")
  /\ UNCHANGED <<file, wanted, before>>

\* A complete write, or one that broke off and is answered at once
Write(t) ==
  /\ phase[t] = "open" /\ Alone(t)
  /\ before' = [before EXCEPT ![t] = file]
  /\ \/ file' = wanted[t] /\ Become(t, "written")
     \/ file' \in {file, Torn, wanted[t]} /\ Become(t, "failed")
  /\ UNCHANGED wanted

Commit(t) ==
  /\ phase[t] = "written" /\ file = wanted[t]
  /\ Become(t, "ok")
  /\ UNCHANGED <<file, wanted, before>>

\* Undoing puts back exactly the earlier content, or fails and says so
Undo(t) ==
  /\ phase[t] = "written" /\ Alone(t)
  /\ \/ file' = before[t] /\ Become(t, "undone")
     \/ file' \in {file, Torn, before[t]} /\ Become(t, "failed")
  /\ UNCHANGED <<wanted, before>>

TellUndone(t) ==
  /\ phase[t] = "undone"
  /\ Become(t, "rolled_back")
  /\ UNCHANGED <<file, wanted, before>>

\* The answer was delivered
Forget(S) ==
  /\ phase' = [t \in Tasks |-> IF t \in S THEN "idle" ELSE phase[t]]
  /\ wanted' = [t \in Tasks |-> IF t \in S THEN NoFile ELSE wanted[t]]
  /\ before' = [t \in Tasks |-> IF t \in S THEN NoFile ELSE before[t]]
  /\ UNCHANGED file

Deliver(t) == phase[t] \in Answers /\ Forget({t})

\* An operator replaces the file while no deploy is known
Replace ==
  /\ \A t \in Tasks : phase[t] = "idle"
  /\ file' \in Configs \cup {Torn, NoFile}
  /\ UNCHANGED <<phase, wanted, before>>

PromiseNext ==
  \/ \E t \in Tasks : \/ GiveUp(t) \/ Write(t) \/ Commit(t) \/ Undo(t)
                      \/ TellUndone(t) \/ Deliver(t)
                      \/ \E c \in Configs : Begin(t, c)
  \/ Forget(Tasks)   \* the manager died
  \/ Replace

PromiseSpec == PromiseInit /\ [][PromiseNext]_promiseVars

=============================================================================
