------------------------------ MODULE Deployer ------------------------------
(***************************************************************************)
(* app/singbox/deployer.py on the asyncio event loop: the deploy pipeline  *)
(* with its lock and its rollback, and the handlers that reach the same    *)
(* host without the lock (the restore route and the service buttons).      *)
(*                                                                         *)
(* Every helper call blocks the event loop, so a request keeps the loop    *)
(* (variable loop) from its start to its end; the one point where the      *)
(* pipeline lets go of it is the sleep between two health checks.  Only    *)
(* there can another request run.  systemd and the clock never wait.       *)
(***************************************************************************)
EXTENDS Host

CONSTANTS
  Tasks,     \* requests that can be in flight at the same time
  None,      \* no task
  Attempts,  \* _wait_service_active(attempts)
  Requests,  \* which requests the operators send, a subset of RequestKinds
  FastFail,  \* TRUE: a restart can fail in the second of the backup
  AppCrash,  \* TRUE: the manager process can die and be started again
  Overlap    \* TRUE: operators also restore (and edit) while a deploy waits

RequestKinds == {"deploy", "restore", "service"}

ASSUME DeployerAssumption ==
  /\ None \notin Tasks
  /\ Attempts \in Nat \ {0}
  /\ Requests \subseteq RequestKinds
  /\ FastFail \in BOOLEAN
  /\ AppCrash \in BOOLEAN
  /\ Overlap \in BOOLEAN

VARIABLES
  lock,    \* holder of _deploy_lock
  loop,    \* task that runs on the event loop
  pc,      \* where each task is
  cfg,     \* the config a deploy task was given
  bak,     \* backup_name of a deploy; the chosen name of a restore
  tries,   \* health checks made so far
  slept,   \* second in which the current sleep began
  result,  \* the DeployResult
  old      \* history: content of the config file before the task's deploy

taskVars == <<lock, loop, pc, cfg, bak, tries, slept, result, old>>
deployerVars == <<hostVars, taskVars>>

Stages == {"validate", "deploy", "restart", "health", "ok", "lock"}

NoResult == [success |-> FALSE, stage |-> "validate", rolled_back |-> FALSE,
             backup |-> NoName]

\* The states in which a task is inside "async with _deploy_lock"
InPipeline == {"validate", "deploy", "restart", "health", "sleep",
               "rollback", "rbrestart"}

PCs == InPipeline \cup {"idle", "finish", "restoring", "restarting",
                       "restored", "refused", "saving"}

TaskTypeOK ==
  /\ lock \in Tasks \cup {None}
  /\ loop \in Tasks \cup {None}
  /\ pc \in [Tasks -> PCs]
  /\ cfg \in [Tasks -> Configs \cup {NoFile}]
  /\ bak \in [Tasks -> Nat]
  /\ tries \in [Tasks -> Nat]
  /\ slept \in [Tasks -> Nat]
  /\ result \in [Tasks -> [success : BOOLEAN, stage : Stages,
                           rolled_back : BOOLEAN, backup : Nat]]
  /\ old \in [Tasks -> Contents \cup {NoFile}]

\* Type invariant of the host, the event loop and every request on it.
TypeOK == HostTypeOK /\ TaskTypeOK

TaskInit ==
  /\ lock = None
  /\ loop = None
  /\ pc = [t \in Tasks |-> "idle"]
  /\ cfg = [t \in Tasks |-> NoFile]
  /\ bak = [t \in Tasks |-> NoName]
  /\ tries = [t \in Tasks |-> 0]
  /\ slept = [t \in Tasks |-> 0]
  /\ result = [t \in Tasks |-> NoResult]
  /\ old = [t \in Tasks |-> NoFile]

DeployerInit == HostInit /\ TaskInit

-----------------------------------------------------------------------------
(* Steps of a task that has the loop *)

At(t, label) == loop = t /\ pc[t] = label
Goto(t, label) == pc' = [pc EXCEPT ![t] = label]

\* Mutant of Return: the lock is never released
ReturnLocked(t, success, stage, rolled_back, name) ==
  /\ result' = [result EXCEPT ![t] =
                  [success |-> success, stage |-> stage,
                   rolled_back |-> rolled_back, backup |-> name]]
  /\ Goto(t, "finish")
  /\ UNCHANGED lock

\* return DeployResult(...): leaving "async with" releases the lock
Return(t, success, stage, rolled_back, name) ==
  /\ result' = [result EXCEPT ![t] =
                  [success |-> success, stage |-> stage,
                   rolled_back |-> rolled_back, backup |-> name]]
  /\ Goto(t, "finish")
  /\ lock' = None

\* Mutant of BeginDeploy: the pipeline is entered without asking for the lock
BeginDeployUnlocked(t, c) ==
  /\ loop = None /\ pc[t] = "idle"
  /\ loop' = t
  /\ cfg' = [cfg EXCEPT ![t] = c]
  /\ lock' = t
  /\ Goto(t, "validate")
  /\ UNCHANGED <<hostVars, bak, tries, slept, result, old>>

\* deploy_with_rollback, called on a free loop: a busy lock is reported at
\* once, a free one is taken before anything else can run
BeginDeploy(t, c) ==
  /\ loop = None /\ pc[t] = "idle"
  /\ loop' = t
  /\ cfg' = [cfg EXCEPT ![t] = c]
  /\ IF lock # None
     THEN /\ result' = [result EXCEPT ![t] = [NoResult EXCEPT !.stage = "lock"]]
          /\ Goto(t, "finish")
          /\ UNCHANGED lock
     ELSE /\ lock' = t
          /\ Goto(t, "validate")
          /\ UNCHANGED result
  /\ UNCHANGED <<hostVars, bak, tries, slept, old>>

\* 1. validate before touching anything
Validate(t) ==
  /\ At(t, "validate")
  /\ \/ Goto(t, "deploy") /\ UNCHANGED <<result, lock>>
     \/ Return(t, FALSE, "validate", FALSE, NoName)
  /\ UNCHANGED <<hostVars, loop, cfg, bak, tries, slept, old>>

\* 2. deploy through the helper; its failure is returned without a rollback
Deploy(t) ==
  /\ At(t, "deploy")
  /\ \E ok \in BOOLEAN, name \in {NoName, now} :
       /\ HelperDeploy(cfg[t], ok, name)
       /\ bak' = [bak EXCEPT ![t] = name]
       /\ IF ok THEN Goto(t, "restart") /\ UNCHANGED <<result, lock>>
                ELSE Return(t, FALSE, "deploy", FALSE, NoName)
  /\ old' = [old EXCEPT ![t] = config]
  /\ UNCHANGED <<now, svc, running, loop, cfg, tries, slept>>

\* A failed stage rolls back when there is a backup, else it just returns
FailStage(t, stage) ==
  IF bak[t] # NoName
  THEN /\ result' = [result EXCEPT ![t] = [NoResult EXCEPT !.stage = stage]]
       /\ Goto(t, "rollback")
       /\ UNCHANGED lock
  ELSE Return(t, FALSE, stage, FALSE, NoName)

\* Mutant of Restart: the restart's result is not looked at
RestartUnchecked(t) ==
  /\ At(t, "restart")
  /\ \E ok \in BOOLEAN : HelperRestart(ok)
  /\ Goto(t, "health")
  /\ UNCHANGED <<config, backups, now, lock, loop, cfg, bak, tries, slept, result, old>>

\* 3. restart the service
Restart(t) ==
  /\ At(t, "restart")
  /\ \E ok \in BOOLEAN :
       /\ HelperRestart(ok)
       /\ IF ok THEN Goto(t, "health") /\ UNCHANGED <<result, lock>>
                ELSE (FastFail \/ now > bak[t]) /\ FailStage(t, "restart")
  /\ UNCHANGED <<config, backups, now, loop, cfg, bak, tries, slept, old>>

\* 4. one pass of _wait_service_active: active, or sleep with the loop free
HealthCheck(t) ==
  /\ At(t, "health")
  /\ \/ /\ svc = "active"
        /\ Return(t, TRUE, "ok", FALSE, bak[t])
        /\ UNCHANGED <<loop, slept>>
     \/ /\ svc # "active" \/ HelperFaults
        /\ Goto(t, "sleep")
        /\ slept' = [slept EXCEPT ![t] = now]
        /\ loop' = None
        /\ UNCHANGED <<result, lock>>
  /\ UNCHANGED <<hostVars, cfg, bak, tries, old>>

\* Mutant of Wake: the attempts follow each other without a delay
WakeAtOnce(t) ==
  /\ loop = None /\ pc[t] = "sleep"
  /\ loop' = t
  /\ tries' = [tries EXCEPT ![t] = @ + 1]
  /\ IF tries[t] + 1 < Attempts
     THEN Goto(t, "health") /\ UNCHANGED <<result, lock>>
     ELSE FailStage(t, "health")
  /\ UNCHANGED <<hostVars, cfg, bak, slept, old>>

\* The sleep of one second is over; after the last attempt the check failed
Wake(t) ==
  /\ loop = None /\ pc[t] = "sleep"
  /\ loop' = t
  /\ now' = IF now > slept[t] THEN now ELSE slept[t] + 1
  /\ tries' = [tries EXCEPT ![t] = @ + 1]
  /\ IF tries[t] + 1 < Attempts
     THEN Goto(t, "health") /\ UNCHANGED <<result, lock>>
     ELSE FailStage(t, "health")
  /\ UNCHANGED <<config, backups, svc, running, cfg, bak, slept, old>>

\* Mutant of Rollback: a failed restore still counts as a rollback
RollbackUnchecked(t) ==
  /\ At(t, "rollback")
  /\ \E ok \in BOOLEAN : HelperRestore(bak[t], ok)
  /\ Goto(t, "rbrestart")
  /\ UNCHANGED <<now, svc, running, lock, loop, cfg, bak, tries, slept, result, old>>

\* _do_rollback, first half: restore the backup
Rollback(t) ==
  /\ At(t, "rollback")
  /\ \E ok \in BOOLEAN :
       /\ HelperRestore(bak[t], ok)
       /\ IF ok THEN Goto(t, "rbrestart") /\ UNCHANGED <<result, lock>>
                ELSE Return(t, FALSE, result[t].stage, FALSE, bak[t])
  /\ UNCHANGED <<now, svc, running, loop, cfg, bak, tries, slept, old>>

\* Mutant of RollbackRestart: the restored config is not loaded
RollbackWithoutRestart(t) ==
  /\ At(t, "rbrestart")
  /\ Return(t, FALSE, result[t].stage, TRUE, bak[t])
  /\ UNCHANGED <<hostVars, loop, cfg, bak, tries, slept, old>>

\* _do_rollback, second half: the restart's result is not looked at
RollbackRestart(t) ==
  /\ At(t, "rbrestart")
  /\ \E ok \in BOOLEAN : HelperRestart(ok)
  /\ Return(t, FALSE, result[t].stage, TRUE, bak[t])
  /\ UNCHANGED <<config, backups, now, loop, cfg, bak, tries, slept, old>>

PipelineStep(t) ==
  Validate(t) \/ Deploy(t) \/ Restart(t) \/ HealthCheck(t) \/ Rollback(t)
  \/ RollbackRestart(t)

\* The handlers of the tasks in S end: their local variables are gone
End(S) ==
  /\ pc' = [t \in Tasks |-> IF t \in S THEN "idle" ELSE pc[t]]
  /\ cfg' = [t \in Tasks |-> IF t \in S THEN NoFile ELSE cfg[t]]
  /\ bak' = [t \in Tasks |-> IF t \in S THEN NoName ELSE bak[t]]
  /\ tries' = [t \in Tasks |-> IF t \in S THEN 0 ELSE tries[t]]
  /\ slept' = [t \in Tasks |-> IF t \in S THEN 0 ELSE slept[t]]
  /\ result' = [t \in Tasks |-> IF t \in S THEN NoResult ELSE result[t]]
  /\ old' = [t \in Tasks |-> IF t \in S THEN NoFile ELSE old[t]]

\* The request is answered and the loop is free again
Respond(t) ==
  /\ loop = t /\ pc[t] \in {"finish", "restored", "refused"}
  /\ loop' = None
  /\ End({t})
  /\ UNCHANGED <<hostVars, lock>>

-----------------------------------------------------------------------------
(* Requests that do not take the lock *)

\* POST /backups/{name}/restore
BeginRestore(t, name) ==
  /\ loop = None /\ pc[t] = "idle"
  /\ loop' = t
  /\ bak' = [bak EXCEPT ![t] = name]
  /\ Goto(t, "restoring")
  /\ UNCHANGED <<hostVars, lock, cfg, tries, slept, result, old>>

Restore(t) ==
  /\ At(t, "restoring")
  /\ \E ok \in BOOLEAN :
       /\ HelperRestore(bak[t], ok)
       /\ Goto(t, IF ok THEN "restarting" ELSE "refused")
  /\ UNCHANGED <<now, svc, running, lock, loop, cfg, bak, tries, slept, result, old>>

RestoreRestart(t) ==
  /\ At(t, "restarting")
  /\ \E ok \in BOOLEAN : HelperRestart(ok)
  /\ Goto(t, "restored")
  /\ UNCHANGED <<config, backups, now, lock, loop, cfg, bak, tries, slept, result, old>>

\* POST /service/{action}: restart, stop, start, reload (or restart)
ServiceAction ==
  /\ loop = None
  /\ \E ok \in BOOLEAN :
       \/ HelperRestart(ok)
       \/ HelperStop(ok)
       \/ HelperStart(ok)
       \/ HelperReload
  /\ UNCHANGED <<config, backups, now, taskVars>>

-----------------------------------------------------------------------------
\* The manager dies and is started again: tasks, lock and loop are gone
Crash ==
  /\ AppCrash
  /\ \E t \in Tasks : pc[t] # "idle"
  /\ lock' = None
  /\ loop' = None
  /\ End(Tasks)
  /\ UNCHANGED hostVars

\* What a request in flight does next
TaskStep(t) == PipelineStep(t) \/ Wake(t) \/ Restore(t) \/ RestoreRestart(t)

\* Bound: no deploy or restore is sent once the clock passed MaxTime
InTime == now <= MaxTime

\* When operators send what does not take the lock
Free == loop = None /\ (Overlap \/ \A t \in Tasks : pc[t] = "idle")

DeployerNext ==
  \/ \E t \in Tasks : TaskStep(t) \/ Respond(t)
  \/ \E t \in Tasks, c \in Configs :
       "deploy" \in Requests /\ InTime /\ BeginDeploy(t, c)
  \/ \E t \in Tasks, name \in DOMAIN backups :
       "restore" \in Requests /\ InTime /\ Free /\ BeginRestore(t, name)
  \/ "service" \in Requests /\ ServiceAction
  \/ Crash
  \/ HostStep /\ UNCHANGED taskVars

DeployerSpec == DeployerInit /\ [][DeployerNext]_deployerVars

\* A request that has the loop goes on until it lets go of it, and a sleep
\* that is over gets the loop in spite of requests that keep arriving: the
\* loop runs ready callbacks first come, first served.  Nothing is asked of
\* operators, systemd, the clock or a crash.
DeployerFairness ==
  \A t \in Tasks :
    /\ WF_deployerVars(TaskStep(t) \/ Respond(t))
    /\ SF_deployerVars(Wake(t))

DeployerFairSpec == DeployerSpec /\ DeployerFairness

-----------------------------------------------------------------------------
(* Properties *)

\* The lock is held exactly by the one task that is inside the pipeline, so
\* two deploys never interleave although the holder gives up the loop.
PipelineExclusive ==
  \A t \in Tasks : pc[t] \in InPipeline <=> lock = t

\* A result that says "automatically rolled back to previous config" is
\* true: the config file holds what it held before the deploy.
RolledBackMeansPrevious ==
  \A t \in Tasks :
    pc[t] = "finish" /\ result[t].rolled_back => config = old[t]

\* A deploy that reports success left its own config on disk and the
\* service running with exactly that config.
SuccessMeansRunning ==
  \A t \in Tasks :
    pc[t] = "finish" /\ result[t].success =>
      config = cfg[t] /\ running \in {cfg[t], NoFile}

\* "manual rollback available: <backup>" names a backup that still holds
\* the config from before the failed deploy.
ManualBackupHoldsPrevious ==
  \A t \in Tasks :
    (pc[t] = "finish" /\ ~result[t].success /\ ~result[t].rolled_back
       /\ result[t].backup # NoName)
    => /\ result[t].backup \in DOMAIN backups
       /\ backups[result[t].backup] = old[t]

\* A rollback never writes to the backup it restores from: the pre-restore
\* backup that action_restore makes first must not have the same name.
RollbackKeepsItsBackup ==
  [][\A t \in Tasks :
       Rollback(t) => bak[t] \in DOMAIN backups' /\ backups'[bak[t]] = backups[bak[t]]]_deployerVars

\* Every deploy comes to an end and gives the lock back.
DeployTerminates ==
  \A t \in Tasks : pc[t] = "validate" ~> pc[t] = "idle" /\ lock # t

-----------------------------------------------------------------------------
(* The transaction the pipeline implements *)

PhaseOf(t) ==
  CASE pc[t] \in {"validate", "deploy"} -> "open"
    [] pc[t] \in {"restart", "health", "sleep", "rollback"} -> "written"
    [] pc[t] = "rbrestart" -> "undone"
    [] pc[t] \in {"finish", "saving"} -> IF result[t].success THEN "ok"
                                        ELSE IF result[t].rolled_back THEN "rolled_back"
                                        ELSE "failed"
    [] OTHER -> "idle"

Promise == INSTANCE DeployPromise WITH
  file <- config,
  phase <- [t \in Tasks |-> PhaseOf(t)],
  wanted <- cfg,
  before <- old

\* The pipeline (lock, backups, restart, health wait, rollback) is a
\* transaction on the config file, whatever the helper, the service, the
\* operators' service buttons and a crash of the manager do, and whatever is
\* restored by hand between two deploys.
ImplementsPromise == Promise!PromiseSpec

=============================================================================
