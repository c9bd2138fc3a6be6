----------------------------- MODULE HealthLoop -----------------------------
(***************************************************************************)
(* The background health loop (app/main.py and app/health.py): a round     *)
(* reads the active node's tag, awaits the checks, stores one sample per   *)
(* check, and notifies when the overall state has changed.                 *)
(*                                                                         *)
(* Between the round's awaits other handlers activate nodes, the network   *)
(* changes, and the manager may be restarted, which forgets the last state.*)
(***************************************************************************)
EXTENDS Integers, Sequences

CONSTANTS
  SystemChecks, ConnectivityChecks, \* names of the checks of each category
  Tags, NoTag,                      \* node tags; no node is active
  Retain,                   \* _HEALTH_RETAIN_DAYS, in rounds
  MaxSwitches, MaxRestarts  \* bounds: activations, restarts

Checks == SystemChecks \cup ConnectivityChecks

ASSUME HealthAssumption ==
  /\ SystemChecks \cap ConnectivityChecks = {} /\ NoTag \notin Tags
  /\ ConnectivityChecks # {}
  /\ {Retain, MaxSwitches, MaxRestarts} \subseteq Nat

VARIABLES
  net,      \* checks that would pass now
  active,   \* tag of the active node
  pc,       \* where the round is
  tag,      \* the tag the round has read
  pending,  \* checks still under way
  passed,   \* checks that have passed
  last,     \* _last_health_state
  samples,  \* health_check_log: one entry for the rows of a round, with its age in
            \* rounds and (history) the node that was active at its checked_at
  notices,  \* history: the last two states notified by this process
  switches, restarts

vars == <<net, active, pc, tag, pending, passed, last, samples, notices, switches, restarts>>
env == <<net, active, switches, restarts>>

Init ==
  /\ net \in SUBSET Checks /\ active = NoTag
  /\ pc = "sleep" /\ tag = NoTag /\ pending = {} /\ passed = {}
  /\ last = "unknown" /\ samples = {} /\ notices = <<>>
  /\ switches = 0 /\ restarts = 0

Overall(ok) ==
  IF ok = Checks THEN "connected"
  ELSE IF ok \cap ConnectivityChecks # {} THEN "degraded" ELSE "failed"

\* _current_active_node_tag, and the checks are started together
Begin ==
  /\ pc = "sleep"
  /\ pc' = "check" /\ tag' = active
  /\ pending' = Checks /\ passed' = {}
  /\ UNCHANGED <<env, last, samples, notices>>

\* A check ends; one that raises or times out has failed
Check(c) ==
  /\ pc = "check" /\ c \in pending
  /\ pending' = pending \ {c}
  /\ passed' = IF c \in net THEN passed \cup {c} ELSE passed
  /\ UNCHANGED <<env, pc, tag, last, samples, notices>>

\* The round ends with its locals forgotten
Sleep ==
  /\ pc' = "sleep"
  /\ tag' = NoTag /\ pending' = {} /\ passed' = {}

\* One transaction: the round's rows in, rows past the retention time out
Stored ==
  {[s EXCEPT !.age = @ + 1] : s \in {r \in samples : r.age < Retain}}
    \cup {[age |-> 0, tag |-> tag, passed |-> passed, active |-> active]}

Announce(state) ==
  IF Len(notices) = 2 THEN <<notices[2], state>> ELSE Append(notices, state)

\* Mutant of NotifyChange: a recovery does not update the state
NotifyBadChange(current) ==
  /\ notices' = IF last \in {current, "unknown"} THEN notices ELSE Announce(current)
  /\ last' = IF current = "connected" /\ last # "unknown" THEN last ELSE current

\* _notify_health_change, and the state is remembered
NotifyChange(current) ==
  /\ notices' = IF last \in {current, "unknown"} THEN notices ELSE Announce(current)
  /\ last' = current

\* check_external_ip returns, with an address or without; the rest of the round
\* runs without giving up the loop
Store ==
  /\ pc = "check" /\ pending = {}
  /\ samples' = Stored
  /\ NotifyChange(Overall(passed))
  /\ Sleep
  /\ UNCHANGED env

\* Mutant of StoreFails: the exception ends the loop
StoreFailsAndEnds ==
  /\ pc = "check" /\ pending = {}
  /\ pc' = "ended"
  /\ UNCHANGED <<env, tag, pending, passed, last, samples, notices>>

\* The commit fails ("database is locked"): logged, and tried again next round
StoreFails ==
  /\ pc = "check" /\ pending = {}
  /\ Sleep
  /\ UNCHANGED <<env, last, samples, notices>>

-----------------------------------------------------------------------------

\* The tunnel or the network gets better or worse
NetChanges ==
  /\ net' \in SUBSET Checks
  /\ UNCHANGED <<active, switches, restarts, pc, tag, pending, passed, last, samples,
                 notices>>

\* A deploy marks a node active, or a restore clears the flag
Activate ==
  /\ switches < MaxSwitches
  /\ switches' = switches + 1
  /\ active' \in (Tags \cup {NoTag}) \ {active}
  /\ UNCHANGED <<net, restarts, pc, tag, pending, passed, last, samples, notices>>

Restart ==
  /\ restarts < MaxRestarts
  /\ restarts' = restarts + 1
  /\ Sleep
  /\ last' = "unknown" /\ notices' = <<>>
  /\ UNCHANGED <<net, active, switches, samples>>

Step == Begin \/ (\E c \in Checks : Check(c)) \/ Store \/ StoreFails

Next == Step \/ NetChanges \/ Activate \/ Restart

HealthSpec == Init /\ [][Next]_vars

\* The loop goes on after every error, and the database is not locked for ever
FairHealth == HealthSpec /\ WF_vars(Step) /\ SF_vars(Store)

-----------------------------------------------------------------------------
(* Properties *)

\* docs/ops.md:213, notifications only when the state changes: no two that follow
\* each other say the same, the last one is what the loop last found, and that is
\* what the newest stored samples say, although rounds and commits fail in
\* between: failed only when no connectivity check passed, connected only when
\* every check did.
NoticesFollowState ==
  /\ Len(notices) = 2 => notices[1] # notices[2]
  /\ notices # <<>> => notices[Len(notices)] = last
  /\ pc = "sleep" /\ last # "unknown" =>
       \E s \in samples :
         /\ s.age = 0
         /\ last = "failed" <=> s.passed \cap ConnectivityChecks = {}
         /\ last = "connected" <=> s.passed = Checks

\* docs/ops.md:171: a sample carries the tag of the node that was active at the
\* time of the check, the row's checked_at.
SampleNamesNode == \A s \in samples : s.tag = s.active

\* An outage that lasts is found, also when checks, commits and restarts fall in
\* between: the state the loop holds ends up failed.  It is announced by a process
\* that has seen the tunnel work before; one that was restarted knows no change.
OutageFound ==
  /\ <>[](net = {}) => <>[](last = "failed")
  /\ (last \in {"connected", "degraded"} /\ [](net = {}))
       ~> (last = "unknown" \/ (notices # <<>> /\ notices[Len(notices)] = "failed"))

=============================================================================
