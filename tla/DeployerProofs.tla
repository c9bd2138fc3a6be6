--------------------------- MODULE DeployerProofs ---------------------------
(***************************************************************************)
(* Theorems about Deployer for every set of tasks and configs, every       *)
(* number of health checks, every mix of requests and every fault switch.  *)
(***************************************************************************)
EXTENDS Deployer, TLAPS

USE HostAssumption, DeployerAssumption

-----------------------------------------------------------------------------
(* The host: what each helper action leaves behind is again a host *)

Dir(b) == DOMAIN b \subseteq Seconds /\ b \in [DOMAIN b -> Contents]

\* A backup made now, of whatever content, keeps the directory well formed.
LEMMA WithBackupDir ==
  ASSUME HostTypeOK, NEW c \in Contents
  PROVE  /\ Dir(WithBackup(c))
         /\ DOMAIN WithBackup(c) = DOMAIN backups \cup {now}
         /\ WithBackup(c)[now] = c
         /\ \A s \in DOMAIN backups \ {now} : WithBackup(c)[s] = backups[s]
  BY DEF HostTypeOK, WithBackup, Dir

\* Likewise for _make_backup, which makes none when there is no config file.
LEMMA BackedUpDir ==
  ASSUME HostTypeOK
  PROVE  /\ Dir(BackedUp)
         /\ DOMAIN backups \subseteq DOMAIN BackedUp
         /\ \A s \in DOMAIN backups \ {now} : BackedUp[s] = backups[s]
         /\ config # NoFile => now \in DOMAIN BackedUp /\ BackedUp[now] = config
  <1>1. CASE config = NoFile
    BY <1>1 DEF HostTypeOK, BackedUp, Dir
  <1>2. CASE config # NoFile
    <2>1. config \in Contents
      BY <1>2 DEF HostTypeOK
    <2> QED
      BY <1>2, <2>1, WithBackupDir DEF BackedUp
  <1> QED
    BY <1>1, <1>2

\* The files after the helper's deploy action.
LEMMA HelperDeployFiles ==
  ASSUME HostTypeOK, NEW c \in Configs \cup {NoFile}, NEW ok \in BOOLEAN, NEW name \in {NoName, now},
         HelperDeploy(c, ok, name)
  PROVE  config' \in Contents \cup {NoFile} /\ Dir(backups')
  <1>1. CASE BackupBroken
    <2>1. config # NoFile => config \in Contents /\ Torn \in Contents
      BY DEF HostTypeOK, Contents
    <2> QED
      BY <1>1, <2>1, BackedUpDir, WithBackupDir DEF BackupBroken, HostTypeOK, Contents
  <1>2. CASE ~BackupBroken
    BY <1>2, BackedUpDir DEF HelperDeploy, HostTypeOK, Contents, Dir
  <1> QED
    BY <1>1, <1>2

\* The files after the helper's restore action.
LEMMA HelperRestoreFiles ==
  ASSUME HostTypeOK, NEW name \in Nat, NEW ok \in BOOLEAN, HelperRestore(name, ok)
  PROVE  config' \in Contents \cup {NoFile} /\ Dir(backups')
  <1>1. CASE BackupBroken
    <2>1. config # NoFile => config \in Contents /\ Torn \in Contents
      BY DEF HostTypeOK, Contents
    <2> QED
      BY <1>1, <2>1, BackedUpDir, WithBackupDir DEF BackupBroken, HostTypeOK, Contents
  <1>2. CASE UNCHANGED <<config, backups>>
    BY <1>2 DEF HostTypeOK, Dir
  <1>3. CASE /\ name \in DOMAIN backups
             /\ backups' = BackedUp /\ config' \in {Torn, BackedUp[name]}
    <2>1. BackedUp[name] \in Contents
      BY <1>3, BackedUpDir DEF Dir
    <2> QED
      BY <1>3, <2>1, BackedUpDir DEF Contents
  <1> QED
    BY <1>1, <1>2, <1>3 DEF HelperRestore

\* The service after any of the helper's service actions.
LEMMA HelperServiceState ==
  ASSUME HostTypeOK, NEW ok \in BOOLEAN,
         HelperRestart(ok) \/ HelperStop(ok) \/ HelperStart(ok) \/ HelperReload
  PROVE  svc' \in {"active", "failed", "stopped"} /\ running' \in Configs \cup {NoFile}
  BY DEF HostTypeOK, HelperRestart, HelperStop, HelperStart, HelperReload, Up, Down

-----------------------------------------------------------------------------
(* Type correctness *)

\* The two ways a stage ends leave a well-typed answer.
LEMMA ReturnTypes ==
  ASSUME TaskTypeOK, NEW t \in Tasks, NEW success \in BOOLEAN, NEW stage \in Stages,
         NEW rb \in BOOLEAN, NEW name \in Nat, Return(t, success, stage, rb, name)
  PROVE  /\ lock' \in Tasks \cup {None}
         /\ pc' \in [Tasks -> PCs]
         /\ result' \in [Tasks -> [success : BOOLEAN, stage : Stages,
                                   rolled_back : BOOLEAN, backup : Nat]]
  BY DEF TaskTypeOK, Return, Goto, PCs

LEMMA FailStageTypes ==
  ASSUME TaskTypeOK, NEW t \in Tasks, NEW stage \in Stages, FailStage(t, stage)
  PROVE  /\ lock' \in Tasks \cup {None}
         /\ pc' \in [Tasks -> PCs]
         /\ result' \in [Tasks -> [success : BOOLEAN, stage : Stages,
                                   rolled_back : BOOLEAN, backup : Nat]]
  <1>1. CASE bak[t] # NoName
    <2>1. [NoResult EXCEPT !.stage = stage] \in
             [success : BOOLEAN, stage : Stages, rolled_back : BOOLEAN, backup : Nat]
      BY DEF NoResult, NoName
    <2>2. /\ result' = [result EXCEPT ![t] = [NoResult EXCEPT !.stage = stage]]
          /\ pc' = [pc EXCEPT ![t] = "rollback"] /\ lock' = lock
      BY <1>1 DEF FailStage, Goto
    <2>3. pc' \in [Tasks -> PCs] /\ lock' \in Tasks \cup {None}
      BY <2>2 DEF TaskTypeOK, PCs, InPipeline
    <2> QED
      BY <2>1, <2>2, <2>3 DEF TaskTypeOK
  <1>2. CASE bak[t] = NoName
    <2>1. Return(t, FALSE, stage, FALSE, NoName)
      BY <1>2 DEF FailStage
    <2>2. NoName \in Nat
      BY DEF NoName
    <2> QED
      BY <2>1, <2>2, ReturnTypes
  <1> QED
    BY <1>1, <1>2

\* A handler that ends leaves initial values behind.
LEMMA EndTypes ==
  ASSUME TaskTypeOK, NEW S, End(S)
  PROVE  /\ pc' \in [Tasks -> PCs]
         /\ cfg' \in [Tasks -> Configs \cup {NoFile}]
         /\ bak' \in [Tasks -> Nat] /\ tries' \in [Tasks -> Nat] /\ slept' \in [Tasks -> Nat]
         /\ result' \in [Tasks -> [success : BOOLEAN, stage : Stages,
                                   rolled_back : BOOLEAN, backup : Nat]]
         /\ old' \in [Tasks -> Contents \cup {NoFile}]
  BY DEF TaskTypeOK, End, PCs, NoName, NoResult, Stages

LEMMA TypeInit == DeployerInit => TypeOK
  BY DEF DeployerInit, HostInit, TaskInit, TypeOK, HostTypeOK, TaskTypeOK, Contents,
         Seconds, NoName, NoResult, Stages, PCs

LEMMA TypeStep ==
  ASSUME TypeOK, [DeployerNext]_deployerVars
  PROVE  TypeOK'
  <1> USE DEF TypeOK
  <1>1. ASSUME NEW t \in Tasks, NEW c \in Configs, BeginDeploy(t, c)
        PROVE  TypeOK'
    <2>1. [NoResult EXCEPT !.stage = "lock"] \in
             [success : BOOLEAN, stage : Stages, rolled_back : BOOLEAN, backup : Nat]
      BY DEF NoResult, NoName, Stages
    <2>2. CASE lock # None
      <3>1. /\ result' = [result EXCEPT ![t] = [NoResult EXCEPT !.stage = "lock"]]
            /\ pc' = [pc EXCEPT ![t] = "finish"]
            /\ lock' = lock
            /\ UNCHANGED <<hostVars, bak, tries, slept, old>>
            /\ loop' = t /\ cfg' = [cfg EXCEPT ![t] = c]
        BY <1>1, <2>2 DEF BeginDeploy, Goto
      <3>2. HostTypeOK'
        BY <3>1 DEF HostTypeOK, hostVars
      <3>3. pc' \in [Tasks -> PCs]
        BY <3>1 DEF TaskTypeOK, PCs
      <3>4. result' \in [Tasks -> [success : BOOLEAN, stage : Stages,
                                   rolled_back : BOOLEAN, backup : Nat]]
        BY <2>1, <3>1 DEF TaskTypeOK
      <3> QED
        BY <3>1, <3>2, <3>3, <3>4 DEF TaskTypeOK
    <2>3. CASE lock = None
      BY <1>1, <2>3 DEF BeginDeploy, HostTypeOK, TaskTypeOK, hostVars, Goto, PCs, InPipeline
    <2> QED
      BY <2>2, <2>3
  <1>2. ASSUME NEW t \in Tasks, Validate(t)
        PROVE  TypeOK'
    <2>1. HostTypeOK' /\ UNCHANGED <<loop, cfg, bak, tries, slept, old>>
      BY <1>2 DEF Validate, HostTypeOK, hostVars
    <2>2. CASE Goto(t, "deploy") /\ UNCHANGED <<result, lock>>
      BY <2>1, <2>2 DEF TaskTypeOK, Goto, PCs, InPipeline
    <2>3. CASE Return(t, FALSE, "validate", FALSE, NoName)
      <3>1. NoName \in Nat /\ "validate" \in Stages
        BY DEF NoName, Stages
      <3> QED
        BY <2>1, <2>3, <3>1, ReturnTypes DEF TaskTypeOK
    <2> QED
      BY <1>2, <2>2, <2>3 DEF Validate
  <1>3. ASSUME NEW t \in Tasks, Deploy(t)
        PROVE  TypeOK'
    <2>1. PICK ok \in BOOLEAN, name \in {NoName, now} :
            /\ HelperDeploy(cfg[t], ok, name)
            /\ bak' = [bak EXCEPT ![t] = name]
            /\ IF ok THEN Goto(t, "restart") /\ UNCHANGED <<result, lock>>
                     ELSE Return(t, FALSE, "deploy", FALSE, NoName)
      BY <1>3 DEF Deploy
    <2>2. cfg[t] \in Configs \cup {NoFile}
      BY DEF TaskTypeOK
    <2>3. config' \in Contents \cup {NoFile} /\ Dir(backups')
      BY <2>1, <2>2, HelperDeployFiles
    <2>4. HostTypeOK'
      BY <1>3, <2>3 DEF Deploy, HostTypeOK, Dir
    <2>5. bak' \in [Tasks -> Nat] /\ old' \in [Tasks -> Contents \cup {NoFile}]
      BY <1>3, <2>1 DEF Deploy, HostTypeOK, TaskTypeOK, Seconds, NoName
    <2>6. CASE ok
      BY <1>3, <2>1, <2>4, <2>5, <2>6 DEF Deploy, TaskTypeOK, Goto, PCs, InPipeline
    <2>7. CASE ~ok
      <3>1. NoName \in Nat /\ "deploy" \in Stages
        BY DEF NoName, Stages
      <3>2. Return(t, FALSE, "deploy", FALSE, NoName)
        BY <2>1, <2>7
      <3> QED
        BY <1>3, <2>4, <2>5, <3>1, <3>2, ReturnTypes DEF Deploy, TaskTypeOK
    <2> QED
      BY <2>6, <2>7
  <1>4. ASSUME NEW t \in Tasks, Restart(t)
        PROVE  TypeOK'
    <2>1. PICK ok \in BOOLEAN :
            /\ HelperRestart(ok)
            /\ IF ok THEN Goto(t, "health") /\ UNCHANGED <<result, lock>>
                     ELSE (FastFail \/ now > bak[t]) /\ FailStage(t, "restart")
      BY <1>4 DEF Restart
    <2>2. HostTypeOK'
      BY <1>4, <2>1, HelperServiceState DEF Restart, HostTypeOK
    <2>3. CASE ok
      BY <1>4, <2>1, <2>2, <2>3 DEF Restart, TaskTypeOK, Goto, PCs, InPipeline
    <2>4. CASE ~ok
      <3>1. FailStage(t, "restart") /\ "restart" \in Stages
        BY <2>1, <2>4 DEF Stages
      <3> QED
        BY <1>4, <2>2, <3>1, FailStageTypes DEF Restart, TaskTypeOK
    <2> QED
      BY <2>3, <2>4
  <1>5. ASSUME NEW t \in Tasks, HealthCheck(t)
        PROVE  TypeOK'
    <2>1. HostTypeOK' /\ UNCHANGED <<cfg, bak, tries, old>>
      BY <1>5 DEF HealthCheck, HostTypeOK, hostVars
    <2>2. CASE Return(t, TRUE, "ok", FALSE, bak[t]) /\ UNCHANGED <<loop, slept>>
      <3>1. bak[t] \in Nat /\ "ok" \in Stages
        BY DEF TaskTypeOK, Stages
      <3> QED
        BY <2>1, <2>2, <3>1, ReturnTypes DEF TaskTypeOK
    <2>3. CASE /\ Goto(t, "sleep") /\ slept' = [slept EXCEPT ![t] = now]
               /\ loop' = None /\ UNCHANGED <<result, lock>>
      BY <2>1, <2>3 DEF TaskTypeOK, HostTypeOK, Seconds, Goto, PCs, InPipeline
    <2> QED
      BY <1>5, <2>2, <2>3 DEF HealthCheck
  <1>6. ASSUME NEW t \in Tasks, Wake(t)
        PROVE  TypeOK'
    <2>1. now' \in Seconds
      BY <1>6 DEF Wake, HostTypeOK, TaskTypeOK, Seconds, NoName
    <2>2. HostTypeOK'
      BY <1>6, <2>1 DEF Wake, HostTypeOK
    <2>3. /\ loop' \in Tasks \cup {None} /\ tries' \in [Tasks -> Nat]
          /\ UNCHANGED <<cfg, bak, slept, old>>
      BY <1>6 DEF Wake, TaskTypeOK
    <2>4. CASE tries[t] + 1 < Attempts
      BY <1>6, <2>2, <2>3, <2>4 DEF Wake, TaskTypeOK, Goto, PCs, InPipeline
    <2>5. CASE ~(tries[t] + 1 < Attempts)
      <3>1. FailStage(t, "health") /\ "health" \in Stages
        BY <1>6, <2>5 DEF Wake, Stages
      <3> QED
        BY <2>2, <2>3, <3>1, FailStageTypes DEF TaskTypeOK
    <2> QED
      BY <2>4, <2>5
  <1>7. ASSUME NEW t \in Tasks, Rollback(t)
        PROVE  TypeOK'
    <2>1. PICK ok \in BOOLEAN :
            /\ HelperRestore(bak[t], ok)
            /\ IF ok THEN Goto(t, "rbrestart") /\ UNCHANGED <<result, lock>>
                     ELSE Return(t, FALSE, result[t].stage, FALSE, bak[t])
      BY <1>7 DEF Rollback
    <2>2. bak[t] \in Nat /\ result[t].stage \in Stages
      BY DEF TaskTypeOK
    <2>3. config' \in Contents \cup {NoFile} /\ Dir(backups')
      BY <2>1, <2>2, HelperRestoreFiles
    <2>4. HostTypeOK'
      BY <1>7, <2>3 DEF Rollback, HostTypeOK, Dir
    <2>5. CASE ok
      BY <1>7, <2>1, <2>4, <2>5 DEF Rollback, TaskTypeOK, Goto, PCs, InPipeline
    <2>6. CASE ~ok
      <3>1. Return(t, FALSE, result[t].stage, FALSE, bak[t])
        BY <2>1, <2>6
      <3> QED
        BY <1>7, <2>2, <2>4, <3>1, ReturnTypes DEF Rollback, TaskTypeOK
    <2> QED
      BY <2>5, <2>6
  <1>8. ASSUME NEW t \in Tasks, RollbackRestart(t)
        PROVE  TypeOK'
    <2>1. HostTypeOK'
      BY <1>8, HelperServiceState DEF RollbackRestart, HostTypeOK
    <2>2. /\ bak[t] \in Nat /\ result[t].stage \in Stages
          /\ Return(t, FALSE, result[t].stage, TRUE, bak[t])
      BY <1>8 DEF RollbackRestart, TaskTypeOK
    <2> QED
      BY <1>8, <2>1, <2>2, ReturnTypes DEF RollbackRestart, TaskTypeOK
  <1>9. ASSUME NEW t \in Tasks, Restore(t)
        PROVE  TypeOK'
    <2>1. PICK ok \in BOOLEAN :
            HelperRestore(bak[t], ok) /\ Goto(t, IF ok THEN "restarting" ELSE "refused")
      BY <1>9 DEF Restore
    <2>2. bak[t] \in Nat
      BY DEF TaskTypeOK
    <2>3. config' \in Contents \cup {NoFile} /\ Dir(backups')
      BY <2>1, <2>2, HelperRestoreFiles
    <2>4. HostTypeOK'
      BY <1>9, <2>3 DEF Restore, HostTypeOK, Dir
    <2> QED
      BY <1>9, <2>1, <2>4 DEF Restore, TaskTypeOK, Goto, PCs
  <1>10. ASSUME NEW t \in Tasks, RestoreRestart(t)
         PROVE  TypeOK'
    <2>1. HostTypeOK'
      BY <1>10, HelperServiceState DEF RestoreRestart, HostTypeOK
    <2> QED
      BY <1>10, <2>1 DEF RestoreRestart, TaskTypeOK, Goto, PCs
  <1>11. ASSUME NEW t \in Tasks, Respond(t)
         PROVE  TypeOK'
    <2>1. HostTypeOK' /\ End({t}) /\ loop' = None /\ lock' = lock
      BY <1>11 DEF Respond, HostTypeOK, hostVars
    <2> QED
      BY <2>1, EndTypes DEF TaskTypeOK
  <1>12. ASSUME NEW t \in Tasks, NEW name \in DOMAIN backups, BeginRestore(t, name)
         PROVE  TypeOK'
    <2>1. HostTypeOK' /\ name \in Nat
      BY <1>12 DEF BeginRestore, HostTypeOK, hostVars, Seconds
    <2> QED
      BY <1>12, <2>1 DEF BeginRestore, TaskTypeOK, Goto, PCs
  <1>13. CASE ServiceAction
    <2>1. HostTypeOK'
      BY <1>13, HelperServiceState DEF ServiceAction, HostTypeOK
    <2> QED
      BY <1>13, <2>1 DEF ServiceAction, TaskTypeOK, taskVars
  <1>14. CASE Crash
    <2>1. HostTypeOK' /\ End(Tasks) /\ loop' = None /\ lock' = None
      BY <1>14 DEF Crash, HostTypeOK, hostVars
    <2> QED
      BY <2>1, EndTypes DEF TaskTypeOK
  <1>15. CASE HostStep /\ UNCHANGED taskVars
    <2>1. HostTypeOK'
      BY <1>15 DEF HostStep, ServiceCrash, AutoRestart, Tick, Up, Down, HostTypeOK,
                   Seconds, NoName
    <2> QED
      BY <1>15, <2>1 DEF TaskTypeOK, taskVars
  <1>16. CASE UNCHANGED deployerVars
    BY <1>16 DEF deployerVars, hostVars, taskVars, HostTypeOK, TaskTypeOK
  <1> QED
    BY <1>1, <1>2, <1>3, <1>4, <1>5, <1>6, <1>7, <1>8, <1>9, <1>10, <1>11, <1>12,
       <1>13, <1>14, <1>15, <1>16 DEF DeployerNext, TaskStep, PipelineStep

\* The type invariant of Deployer holds in every reachable state.
THEOREM DeployerTypeOK == DeployerSpec => []TypeOK
  <1>1. TypeOK /\ [DeployerNext]_deployerVars => TypeOK'
    BY TypeStep
  <1> QED
    BY <1>1, TypeInit, PTL DEF DeployerSpec

-----------------------------------------------------------------------------
(* Mutual exclusion *)

\* A task that is neither new nor asleep is the one that has the loop.
LoopInv == \A t \in Tasks : pc[t] \notin {"idle", "sleep"} => loop = t

ExclusiveInv == TypeOK /\ PipelineExclusive /\ LoopInv

LEMMA ExclusiveStep ==
  ASSUME ExclusiveInv, [DeployerNext]_deployerVars
  PROVE  PipelineExclusive' /\ LoopInv'
  <1> USE DEF ExclusiveInv
  <1>a. pc \in [Tasks -> PCs]
    BY DEF TypeOK, TaskTypeOK
  <1>b. ASSUME NEW t \in Tasks, NEW u \in Tasks, u # t, loop = t \/ loop = None
        PROVE  pc[u] \in {"idle", "sleep"}
    BY <1>b DEF LoopInv
  <1>1. ASSUME NEW t \in Tasks, NEW c \in Configs, BeginDeploy(t, c)
        PROVE  PipelineExclusive' /\ LoopInv'
    BY <1>1, <1>a DEF BeginDeploy, Goto, PipelineExclusive, LoopInv, InPipeline
  <1>2. ASSUME NEW t \in Tasks, pc[t] \in InPipeline \ {"sleep"}, loop = t, loop' = t,
               NEW p \in InPipeline \ {"sleep"}, Goto(t, p), lock' = lock
        PROVE  PipelineExclusive' /\ LoopInv'
    BY <1>2, <1>a DEF Goto, PipelineExclusive, LoopInv, InPipeline
  <1>3. ASSUME NEW t \in Tasks, pc[t] \in InPipeline, loop' = t, loop \in {t, None},
               Goto(t, "finish"), lock' = None
        PROVE  PipelineExclusive' /\ LoopInv'
    BY <1>3, <1>a, <1>b DEF Goto, PipelineExclusive, LoopInv, InPipeline, TypeOK, TaskTypeOK
  <1>4. ASSUME NEW t \in Tasks, Validate(t)
        PROVE  PipelineExclusive' /\ LoopInv'
    BY <1>4, <1>2, <1>3 DEF Validate, At, Return, InPipeline
  <1>5. ASSUME NEW t \in Tasks, Deploy(t)
        PROVE  PipelineExclusive' /\ LoopInv'
    BY <1>5, <1>2, <1>3 DEF Deploy, At, Return, InPipeline
  <1>6. ASSUME NEW t \in Tasks, Restart(t)
        PROVE  PipelineExclusive' /\ LoopInv'
    BY <1>6, <1>2, <1>3 DEF Restart, At, FailStage, Return, InPipeline
  <1>7. ASSUME NEW t \in Tasks, HealthCheck(t)
        PROVE  PipelineExclusive' /\ LoopInv'
    <2>1. CASE Return(t, TRUE, "ok", FALSE, bak[t]) /\ UNCHANGED <<loop, slept>>
      BY <1>7, <2>1, <1>3 DEF HealthCheck, At, Return, InPipeline
    <2>2. CASE Goto(t, "sleep") /\ loop' = None /\ UNCHANGED <<result, lock>>
      BY <1>7, <2>2, <1>a, <1>b
         DEF HealthCheck, At, Goto, PipelineExclusive, LoopInv, InPipeline
    <2> QED
      BY <1>7, <2>1, <2>2 DEF HealthCheck
  <1>8. ASSUME NEW t \in Tasks, Wake(t)
        PROVE  PipelineExclusive' /\ LoopInv'
    <2>1. pc[t] \in InPipeline /\ loop' = t /\ loop = None
      BY <1>8 DEF Wake, InPipeline
    <2>2. CASE Goto(t, "finish") /\ lock' = None
      BY <2>1, <2>2, <1>3
    <2>3. CASE \E p \in {"health", "rollback"} : Goto(t, p) /\ lock' = lock
      BY <2>1, <2>3, <1>a, <1>b DEF Goto, PipelineExclusive, LoopInv, InPipeline
    <2> QED
      BY <1>8, <2>2, <2>3 DEF Wake, FailStage, Return
  <1>9. ASSUME NEW t \in Tasks, Rollback(t)
        PROVE  PipelineExclusive' /\ LoopInv'
    BY <1>9, <1>2, <1>3 DEF Rollback, At, Return, InPipeline
  <1>10. ASSUME NEW t \in Tasks, RollbackRestart(t)
         PROVE  PipelineExclusive' /\ LoopInv'
    BY <1>10, <1>3 DEF RollbackRestart, At, Return, InPipeline
  <1>11. ASSUME NEW t \in Tasks, Restore(t) \/ RestoreRestart(t)
         PROVE  PipelineExclusive' /\ LoopInv'
    BY <1>11, <1>a, <1>b
       DEF Restore, RestoreRestart, At, Goto, PipelineExclusive, LoopInv, InPipeline
  <1>12. ASSUME NEW t \in Tasks, Respond(t)
         PROVE  PipelineExclusive' /\ LoopInv'
    BY <1>12, <1>a, <1>b DEF Respond, End, PipelineExclusive, LoopInv, InPipeline
  <1>13. ASSUME NEW t \in Tasks, NEW name \in DOMAIN backups, BeginRestore(t, name)
         PROVE  PipelineExclusive' /\ LoopInv'
    BY <1>13, <1>a, <1>b DEF BeginRestore, Goto, PipelineExclusive, LoopInv, InPipeline
  <1>14. CASE Crash
    BY <1>14 DEF Crash, End, PipelineExclusive, LoopInv, InPipeline
  <1>15. CASE ServiceAction \/ (HostStep /\ UNCHANGED taskVars) \/ UNCHANGED deployerVars
    BY <1>15 DEF ServiceAction, taskVars, deployerVars, PipelineExclusive, LoopInv
  <1> QED
    BY <1>1, <1>4, <1>5, <1>6, <1>7, <1>8, <1>9, <1>10, <1>11, <1>12, <1>13, <1>14, <1>15
       DEF DeployerNext, TaskStep, PipelineStep

LEMMA ExclusiveInvHolds == DeployerSpec => []ExclusiveInv
  <1>1. DeployerInit => ExclusiveInv
    BY TypeInit DEF DeployerInit, TaskInit, ExclusiveInv, PipelineExclusive, LoopInv, InPipeline
  <1>2. ExclusiveInv /\ [DeployerNext]_deployerVars => ExclusiveInv'
    BY TypeStep, ExclusiveStep DEF ExclusiveInv
  <1> QED
    BY <1>1, <1>2, PTL DEF DeployerSpec

\* Deploys never interleave: whoever is in the pipeline holds the lock.
THEOREM DeploysExclude == DeployerSpec => []PipelineExclusive
  <1>1. ExclusiveInv => PipelineExclusive
    BY DEF ExclusiveInv
  <1> QED
    BY <1>1, ExclusiveInvHolds, PTL

-----------------------------------------------------------------------------
(* Rollback *)

\* What the helper's two file actions do to the backups that exist.
LEMMA HelperDeployKeeps ==
  ASSUME HostTypeOK, NEW c, NEW ok \in BOOLEAN, NEW name \in {NoName, now},
         HelperDeploy(c, ok, name)
  PROVE  /\ DOMAIN backups \subseteq DOMAIN backups'
         /\ ok => config' = c
         /\ ok /\ name # NoName => name \in DOMAIN backups' /\ backups'[name] = config
  <1>1. CASE ok
    BY <1>1, BackedUpDir DEF HelperDeploy, BackupName
  <1>2. CASE ~ok /\ BackupBroken
    <2>1. config # NoFile => Torn \in Contents
      BY DEF Contents
    <2> QED
      BY <1>2, <2>1, BackedUpDir, WithBackupDir DEF BackupBroken
  <1>3. CASE ~ok /\ ~BackupBroken
    BY <1>3, BackedUpDir DEF HelperDeploy
  <1> QED
    BY <1>1, <1>2, <1>3

LEMMA HelperRestoreKeeps ==
  ASSUME HostTypeOK, NEW name \in Nat, NEW ok \in BOOLEAN, HelperRestore(name, ok)
  PROVE  /\ DOMAIN backups \subseteq DOMAIN backups'
         /\ \A s \in DOMAIN backups \ {now} : backups'[s] = backups[s]
         /\ ok /\ name # now => config' = backups[name]
  <1>1. CASE ok
    BY <1>1, BackedUpDir DEF HelperRestore
  <1>2. CASE ~ok /\ BackupBroken
    <2>1. config # NoFile => Torn \in Contents
      BY DEF Contents
    <2> QED
      BY <1>2, <2>1, BackedUpDir, WithBackupDir DEF BackupBroken
  <1>3. CASE ~ok /\ ~BackupBroken
    BY <1>3, BackedUpDir DEF HelperRestore
  <1> QED
    BY <1>1, <1>2, <1>3

\* From the helper's deploy on, the backup's file exists and is no younger
\* than the sleep that may precede a rollback; when a rollback begins, its
\* second is over.
InFlight == {"restart", "health", "sleep", "rollback"}
OrderOf(t) ==
  pc[t] \in InFlight =>
    /\ bak[t] <= now
    /\ bak[t] # NoName => bak[t] \in DOMAIN backups
    /\ pc[t] = "sleep" => bak[t] <= slept[t]
    /\ pc[t] = "rollback" => bak[t] # NoName /\ bak[t] < now
OrderInv == \A t \in Tasks : OrderOf(t)

\* Nothing a step does to the clock and the directory hurts a waiting task.
LEMMA OrderKept ==
  ASSUME TypeOK, OrderInv, NEW u \in Tasks, now' \in Nat, now <= now',
         DOMAIN backups \subseteq DOMAIN backups',
         pc'[u] = pc[u], bak'[u] = bak[u], slept'[u] = slept[u]
  PROVE  OrderOf(u)'
  BY DEF OrderInv, OrderOf, TypeOK, HostTypeOK, TaskTypeOK, Seconds

LEMMA OrderStep ==
  ASSUME ~FastFail, TypeOK, OrderInv, [DeployerNext]_deployerVars
  PROVE  OrderInv'
  <1>a. /\ pc \in [Tasks -> PCs] /\ bak \in [Tasks -> Nat] /\ slept \in [Tasks -> Nat]
        /\ now \in Nat /\ HostTypeOK
    BY DEF TypeOK, TaskTypeOK, HostTypeOK, Seconds
  <1>b. now' \in Nat
    BY TypeStep DEF TypeOK, HostTypeOK, Seconds
  <1>1. ASSUME NEW t \in Tasks, Deploy(t)
        PROVE  OrderInv'
    <2>1. PICK ok \in BOOLEAN, name \in {NoName, now} :
            /\ HelperDeploy(cfg[t], ok, name)
            /\ bak' = [bak EXCEPT ![t] = name]
            /\ IF ok THEN Goto(t, "restart") /\ UNCHANGED <<result, lock>>
                     ELSE Return(t, FALSE, "deploy", FALSE, NoName)
      BY <1>1 DEF Deploy
    <2>2. /\ DOMAIN backups \subseteq DOMAIN backups'
          /\ ok /\ name # NoName => name \in DOMAIN backups'
      BY <1>a, <2>1, HelperDeployKeeps
    <2>3. now' = now /\ slept' = slept
      BY <1>1 DEF Deploy
    <2>4. OrderOf(t)'
      BY <1>a, <2>1, <2>2, <2>3 DEF OrderOf, InFlight, Goto, Return, NoName
    <2>5. ASSUME NEW u \in Tasks \ {t} PROVE OrderOf(u)'
      <3>1. pc'[u] = pc[u] /\ bak'[u] = bak[u] /\ slept'[u] = slept[u]
        BY <1>a, <2>1, <2>3 DEF Goto, Return
      <3> QED
        BY <1>a, <2>2, <2>3, <3>1, OrderKept
    <2> QED
      BY <2>4, <2>5 DEF OrderInv
  <1>2. ASSUME NEW t \in Tasks, Rollback(t) \/ Restore(t)
        PROVE  OrderInv'
    <2>1. \E ok \in BOOLEAN : HelperRestore(bak[t], ok)
      BY <1>2 DEF Rollback, Restore
    <2>2. DOMAIN backups \subseteq DOMAIN backups'
      BY <1>a, <2>1, HelperRestoreKeeps
    <2>3. now' = now /\ bak' = bak /\ slept' = slept /\ pc'[t] \notin InFlight
      BY <1>2, <1>a DEF Rollback, Restore, Goto, Return, InFlight
    <2>4. ASSUME NEW u \in Tasks \ {t} PROVE OrderOf(u)'
      <3>1. pc'[u] = pc[u]
        BY <1>2, <1>a DEF Rollback, Restore, Goto, Return
      <3> QED
        BY <1>a, <2>2, <2>3, <3>1, OrderKept
    <2> QED
      BY <2>3, <2>4 DEF OrderInv, OrderOf
  <1>3. ASSUME NEW t \in Tasks, Wake(t)
        PROVE  OrderInv'
    <2>1. /\ pc[t] = "sleep" /\ now <= now' /\ slept[t] < now'
          /\ backups' = backups /\ bak' = bak /\ slept' = slept
      BY <1>3, <1>a DEF Wake
    <2>2. OrderOf(t)'
      <3>1. bak[t] <= slept[t] /\ (bak[t] # NoName => bak[t] \in DOMAIN backups)
        BY <2>1 DEF OrderInv, OrderOf, InFlight
      <3>2. pc'[t] \in {"health", "finish"} \/ (pc'[t] = "rollback" /\ bak[t] # NoName)
        BY <1>3, <1>a DEF Wake, FailStage, Return, Goto
      <3> QED
        BY <1>a, <1>b, <2>1, <3>1, <3>2 DEF OrderOf
    <2>3. ASSUME NEW u \in Tasks \ {t} PROVE OrderOf(u)'
      <3>1. pc'[u] = pc[u]
        BY <1>3, <1>a DEF Wake, FailStage, Return, Goto
      <3> QED
        BY <1>b, <2>1, <3>1, OrderKept
    <2> QED
      BY <2>2, <2>3 DEF OrderInv
  <1>4. ASSUME NEW t \in Tasks, Restart(t) \/ HealthCheck(t)
        PROVE  OrderInv'
    <2>1. /\ pc[t] \in {"restart", "health"} /\ now' = now /\ backups' = backups /\ bak' = bak
          /\ \A u \in Tasks \ {t} : slept'[u] = slept[u] /\ pc'[u] = pc[u]
      BY <1>4, <1>a DEF Restart, HealthCheck, At, FailStage, Return, Goto, hostVars
    <2>2. OrderOf(t)'
      <3>1. bak[t] <= now /\ (bak[t] # NoName => bak[t] \in DOMAIN backups)
        BY <2>1 DEF OrderInv, OrderOf, InFlight
      <3>2. \/ pc'[t] \in {"health", "finish"}
            \/ pc'[t] = "sleep" /\ slept'[t] = now
            \/ pc'[t] = "rollback" /\ bak[t] # NoName /\ bak[t] < now
        BY <1>4, <1>a DEF Restart, HealthCheck, FailStage, Return, Goto
      <3> QED
        BY <1>a, <2>1, <3>1, <3>2 DEF OrderOf
    <2>3. ASSUME NEW u \in Tasks \ {t} PROVE OrderOf(u)'
      BY <1>a, <2>1, OrderKept
    <2> QED
      BY <2>2, <2>3 DEF OrderInv
  <1>5. ASSUME NEW t \in Tasks, pc'[t] \notin InFlight,
               \A u \in Tasks \ {t} : pc'[u] = pc[u] /\ bak'[u] = bak[u] /\ slept'[u] = slept[u],
               now' = now, backups' = backups
        PROVE  OrderInv'
    <2>1. ASSUME NEW u \in Tasks \ {t} PROVE OrderOf(u)'
      BY <1>a, <1>5, OrderKept
    <2> QED
      BY <1>5, <2>1 DEF OrderInv, OrderOf
  <1>6. ASSUME NEW t \in Tasks,
               \/ \E c \in Configs : BeginDeploy(t, c)
               \/ \E name \in DOMAIN backups : BeginRestore(t, name)
               \/ Validate(t) \/ RollbackRestart(t) \/ RestoreRestart(t) \/ Respond(t)
        PROVE  OrderInv'
    <2>1. pc'[t] \notin InFlight /\ now' = now /\ backups' = backups
      BY <1>6, <1>a DEF BeginDeploy, BeginRestore, Validate, RollbackRestart, RestoreRestart,
                        Respond, End, Goto, Return, InFlight, hostVars
    <2>2. \A u \in Tasks \ {t} : pc'[u] = pc[u] /\ bak'[u] = bak[u] /\ slept'[u] = slept[u]
      BY <1>6, <1>a DEF BeginDeploy, BeginRestore, Validate, RollbackRestart, RestoreRestart,
                        Respond, End, Goto, Return
    <2> QED
      BY <2>1, <2>2, <1>5
  <1>7. CASE Crash
    BY <1>7 DEF Crash, End, OrderInv, OrderOf, InFlight
  <1>8. CASE ServiceAction \/ (HostStep /\ UNCHANGED taskVars) \/ UNCHANGED deployerVars
    <2>1. UNCHANGED <<pc, bak, slept, backups>> /\ now <= now'
      BY <1>8, <1>a DEF ServiceAction, HostStep, ServiceCrash, AutoRestart, Tick, taskVars,
                        deployerVars, hostVars
    <2> QED
      BY <1>b, <2>1, OrderKept DEF OrderInv
  <1> QED
    BY <1>1, <1>2, <1>3, <1>4, <1>6, <1>7, <1>8 DEF DeployerNext, TaskStep, PipelineStep

LEMMA OrderInvHolds == ASSUME ~FastFail PROVE DeployerSpec => [](TypeOK /\ OrderInv)
  <1>1. DeployerInit => TypeOK /\ OrderInv
    BY TypeInit DEF DeployerInit, TaskInit, OrderInv, OrderOf, InFlight
  <1>2. TypeOK /\ OrderInv /\ [DeployerNext]_deployerVars => (TypeOK /\ OrderInv)'
    BY TypeStep, OrderStep
  <1> QED
    BY <1>1, <1>2, PTL DEF DeployerSpec

\* When a restart takes its failure past the second of the backup, no rollback
\* overwrites the backup it restores from, whatever else operators do.
THEOREM RollbackKeeps == ASSUME ~FastFail PROVE DeployerSpec => RollbackKeepsItsBackup
  <1> DEFINE Keeps == \A t \in Tasks :
               Rollback(t) => bak[t] \in DOMAIN backups' /\ backups'[bak[t]] = backups[bak[t]]
  <1>1. TypeOK /\ OrderInv => Keeps
    <2> SUFFICES ASSUME TypeOK, OrderInv, NEW t \in Tasks, Rollback(t)
                 PROVE  bak[t] \in DOMAIN backups' /\ backups'[bak[t]] = backups[bak[t]]
      OBVIOUS
    <2>1. bak[t] \in DOMAIN backups \ {now} /\ bak[t] \in Nat /\ HostTypeOK
      BY DEF Rollback, At, OrderInv, OrderOf, InFlight, TypeOK, HostTypeOK, TaskTypeOK, Seconds
    <2>2. \E ok \in BOOLEAN : HelperRestore(bak[t], ok)
      BY DEF Rollback
    <2> QED
      BY <2>1, <2>2, HelperRestoreKeeps
  <1> QED
    BY <1>1, OrderInvHolds, PTL DEF RollbackKeepsItsBackup

-----------------------------------------------------------------------------
(* The deploy as a transaction *)

\* Operators restore by hand between deploys only.
RestoresWait == ~Overlap \/ "restore" \notin Requests

\* A restore by hand runs alone, and a task that deploys nothing carries
\* nothing of a deploy.
Restoring == {"restoring", "restarting", "restored", "refused"}
RestoreOf(t) ==
  /\ pc[t] \in Restoring => \A u \in Tasks \ {t} : pc[u] = "idle"
  /\ pc[t] \in Restoring \cup {"idle"} => cfg[t] = NoFile /\ old[t] = NoFile
RestoreInv == \A t \in Tasks : RestoreOf(t)

\* From the helper's deploy to the answer the file and the backup are the
\* task's own: nobody else writes them while the lock is held.
TxOf(t) ==
  /\ pc[t] \in InFlight =>
       config = cfg[t] /\ (bak[t] # NoName => backups[bak[t]] = old[t])
  /\ pc[t] = "rbrestart" => config = old[t]
  /\ pc[t] = "finish" /\ result[t].success => config = cfg[t]
  /\ pc[t] = "finish" /\ result[t].rolled_back => config = old[t]
TxInv == \A t \in Tasks : TxOf(t)

FullInv == ExclusiveInv /\ OrderInv /\ RestoreInv /\ TxInv

\* Whoever runs inside the pipeline is the only request there is.
LEMMA AloneInPipeline ==
  ASSUME ExclusiveInv, NEW t \in Tasks, pc[t] \in InPipeline, loop = t,
         NEW u \in Tasks \ {t}
  PROVE  pc[u] = "idle"
  BY DEF ExclusiveInv, PipelineExclusive, LoopInv, InPipeline

\* A step that leaves the files and a task's variables alone keeps its part.
LEMMA TxKept ==
  ASSUME TxInv, NEW u \in Tasks, config' = config, backups' = backups,
         pc'[u] = pc[u], cfg'[u] = cfg[u], bak'[u] = bak[u], old'[u] = old[u],
         result'[u] = result[u]
  PROVE  TxOf(u)'
  BY DEF TxInv, TxOf

\* A step by one task, while no restore is under way or by the one that
\* restores, keeps the others' part of RestoreInv.
LEMMA RestoreKept ==
  ASSUME ExclusiveInv, RestoreInv, NEW t \in Tasks, pc[t] \notin {"idle", "sleep"} => loop = t,
         loop \in {t, None},
         \A u \in Tasks \ {t} : pc'[u] = pc[u] /\ cfg'[u] = cfg[u] /\ old'[u] = old[u],
         RestoreOf(t)'
  PROVE  RestoreInv'
  <1>1. ASSUME NEW u \in Tasks \ {t} PROVE RestoreOf(u)'
    <2>1. pc[u] \notin Restoring
      BY None \notin Tasks DEF ExclusiveInv, LoopInv, Restoring
    <2> QED
      BY <1>1, <2>1 DEF RestoreInv, RestoreOf
  <1> QED
    BY <1>1 DEF RestoreInv

LEMMA RestoreStep ==
  ASSUME RestoresWait, ExclusiveInv, RestoreInv, [DeployerNext]_deployerVars
  PROVE  RestoreInv'
  <1>a. /\ pc \in [Tasks -> PCs] /\ cfg \in [Tasks -> Configs \cup {NoFile}]
        /\ old \in [Tasks -> Contents \cup {NoFile}]
    BY DEF ExclusiveInv, TypeOK, TaskTypeOK
  <1>1. ASSUME NEW t \in Tasks, PipelineStep(t) \/ Wake(t)
        PROVE  RestoreInv'
    <2>1. /\ pc'[t] \notin Restoring \cup {"idle"} /\ loop \in {t, None}
          /\ pc[t] \notin {"idle", "sleep"} => loop = t
          /\ \A u \in Tasks \ {t} : pc'[u] = pc[u] /\ cfg'[u] = cfg[u] /\ old'[u] = old[u]
      BY <1>1, <1>a DEF PipelineStep, Validate, Deploy, Restart, HealthCheck, Rollback,
                        RollbackRestart, Wake, At, FailStage, Goto, Return, Restoring
    <2> QED
      BY <2>1, RestoreKept DEF RestoreOf
  <1>2. ASSUME NEW t \in Tasks, NEW c \in Configs, BeginDeploy(t, c)
        PROVE  RestoreInv'
    <2>1. /\ pc'[t] \notin Restoring \cup {"idle"} /\ loop = None /\ pc[t] = "idle"
          /\ \A u \in Tasks \ {t} : pc'[u] = pc[u] /\ cfg'[u] = cfg[u] /\ old'[u] = old[u]
      BY <1>2, <1>a DEF BeginDeploy, Goto, Restoring
    <2> QED
      BY <2>1, RestoreKept DEF RestoreOf
  <1>3. ASSUME NEW t \in Tasks, NEW name \in DOMAIN backups,
               "restore" \in Requests, Free, BeginRestore(t, name)
        PROVE  RestoreInv'
    <2>1. \A u \in Tasks : pc[u] = "idle"
      BY <1>3 DEF RestoresWait, Free
    <2>2. /\ \A u \in Tasks \ {t} : pc'[u] = pc[u]
          /\ cfg' = cfg /\ old' = old
      BY <1>3, <1>a DEF BeginRestore, Goto
    <2> QED
      BY <2>1, <2>2 DEF RestoreInv, RestoreOf, Restoring
  <1>4. ASSUME NEW t \in Tasks, Restore(t) \/ RestoreRestart(t)
        PROVE  RestoreInv'
    <2>1. /\ pc[t] \in Restoring /\ cfg' = cfg /\ old' = old
          /\ \A u \in Tasks \ {t} : pc'[u] = pc[u]
      BY <1>4, <1>a DEF Restore, RestoreRestart, At, Goto, Restoring
    <2>2. \A u \in Tasks \ {t} : pc[u] = "idle"
      BY <2>1 DEF RestoreInv, RestoreOf
    <2> QED
      BY <2>1, <2>2 DEF RestoreInv, RestoreOf, Restoring
  <1>5. ASSUME NEW t \in Tasks, Respond(t)
        PROVE  RestoreInv'
    <2>1. /\ loop = t /\ pc'[t] = "idle" /\ cfg'[t] = NoFile /\ old'[t] = NoFile
          /\ \A u \in Tasks \ {t} : pc'[u] = pc[u] /\ cfg'[u] = cfg[u] /\ old'[u] = old[u]
      BY <1>5 DEF Respond, End
    <2> QED
      BY <2>1, RestoreKept DEF RestoreOf, Restoring
  <1>6. CASE Crash
    BY <1>6 DEF Crash, End, RestoreInv, RestoreOf, Restoring
  <1>7. CASE ServiceAction \/ (HostStep /\ UNCHANGED taskVars) \/ UNCHANGED deployerVars
    BY <1>7 DEF ServiceAction, taskVars, deployerVars, RestoreInv, RestoreOf
  <1> QED
    BY <1>1, <1>2, <1>3, <1>4, <1>5, <1>6, <1>7 DEF DeployerNext, TaskStep

LEMMA TxStep ==
  ASSUME ~FastFail, RestoresWait, FullInv, [DeployerNext]_deployerVars
  PROVE  TxInv'
  <1> USE DEF FullInv
  <1>a. /\ pc \in [Tasks -> PCs] /\ bak \in [Tasks -> Nat] /\ HostTypeOK
        /\ old \in [Tasks -> Contents \cup {NoFile}] /\ cfg \in [Tasks -> Configs \cup {NoFile}]
        /\ result \in [Tasks -> [success : BOOLEAN, stage : Stages,
                                 rolled_back : BOOLEAN, backup : Nat]]
    BY DEF ExclusiveInv, TypeOK, TaskTypeOK
  <1>1. ASSUME NEW t \in Tasks, Deploy(t)
        PROVE  TxInv'
    <2>1. PICK ok \in BOOLEAN, name \in {NoName, now} :
            /\ HelperDeploy(cfg[t], ok, name)
            /\ bak' = [bak EXCEPT ![t] = name]
            /\ IF ok THEN Goto(t, "restart") /\ UNCHANGED <<result, lock>>
                     ELSE Return(t, FALSE, "deploy", FALSE, NoName)
      BY <1>1 DEF Deploy
    <2>2. /\ ok => config' = cfg[t]
          /\ ok /\ name # NoName => backups'[name] = config
      BY <1>a, <2>1, HelperDeployKeeps
    <2>3. old' = [old EXCEPT ![t] = config] /\ cfg' = cfg
      BY <1>1 DEF Deploy
    <2>4. TxOf(t)'
      <3>1. CASE ok
        BY <1>a, <2>1, <2>2, <2>3, <3>1 DEF TxOf, Goto, InFlight
      <3>2. CASE ~ok
        BY <1>a, <2>1, <2>3, <3>2 DEF TxOf, Return, Goto, InFlight
      <3> QED
        BY <3>1, <3>2
    <2>5. ASSUME NEW u \in Tasks \ {t} PROVE TxOf(u)'
      <3>1. pc[u] = "idle"
        BY <1>1, AloneInPipeline DEF Deploy, At, InPipeline
      <3>2. pc'[u] = pc[u]
        BY <1>a, <2>1 DEF Goto, Return
      <3> QED
        BY <3>1, <3>2 DEF TxOf, InFlight
    <2> QED
      BY <2>4, <2>5 DEF TxInv
  <1>2. ASSUME NEW t \in Tasks, Rollback(t)
        PROVE  TxInv'
    <2>1. PICK ok \in BOOLEAN :
            /\ HelperRestore(bak[t], ok)
            /\ IF ok THEN Goto(t, "rbrestart") /\ UNCHANGED <<result, lock>>
                     ELSE Return(t, FALSE, result[t].stage, FALSE, bak[t])
      BY <1>2 DEF Rollback
    <2>2. bak[t] # now /\ backups[bak[t]] = old[t] /\ bak[t] \in Nat
      BY <1>2, <1>a DEF Rollback, At, OrderInv, OrderOf, TxInv, TxOf, InFlight, HostTypeOK,
                        Seconds
    <2>3. ok => config' = old[t]
      BY <1>a, <2>1, <2>2, HelperRestoreKeeps
    <2>4. old' = old
      BY <1>2 DEF Rollback
    <2>5. TxOf(t)'
      <3>1. CASE ok
        BY <1>a, <2>1, <2>3, <2>4, <3>1 DEF TxOf, Goto, InFlight
      <3>2. CASE ~ok
        BY <1>a, <2>1, <2>4, <3>2 DEF TxOf, Return, Goto, InFlight
      <3> QED
        BY <3>1, <3>2
    <2>6. ASSUME NEW u \in Tasks \ {t} PROVE TxOf(u)'
      <3>1. pc[u] = "idle"
        BY <1>2, AloneInPipeline DEF Rollback, At, InPipeline
      <3>2. pc'[u] = pc[u]
        BY <1>a, <2>1 DEF Goto, Return
      <3> QED
        BY <3>1, <3>2 DEF TxOf, InFlight
    <2> QED
      BY <2>5, <2>6 DEF TxInv
  <1>3. ASSUME NEW t \in Tasks, config' = config, backups' = backups,
               \A u \in Tasks \ {t} : /\ pc'[u] = pc[u] /\ cfg'[u] = cfg[u]
                                      /\ bak'[u] = bak[u] /\ old'[u] = old[u]
                                      /\ result'[u] = result[u],
               TxOf(t)'
        PROVE  TxInv'
    BY <1>3, TxKept DEF TxInv
  <1>4. ASSUME NEW t \in Tasks, NEW c \in Configs, BeginDeploy(t, c)
        PROVE  TxInv'
    <2>1. pc'[t] = "validate" \/ (pc'[t] = "finish" /\ ~result'[t].success
                                    /\ ~result'[t].rolled_back)
      BY <1>4, <1>a DEF BeginDeploy, Goto, NoResult
    <2>2. TxOf(t)'
      BY <2>1 DEF TxOf, InFlight
    <2> QED
      BY <1>4, <1>a, <2>2, <1>3 DEF BeginDeploy, Goto, hostVars
  <1>5. ASSUME NEW t \in Tasks, Validate(t)
        PROVE  TxInv'
    <2>1. pc'[t] = "deploy" \/ (pc'[t] = "finish" /\ ~result'[t].success
                                  /\ ~result'[t].rolled_back)
      BY <1>5, <1>a DEF Validate, Goto, Return
    <2>2. TxOf(t)'
      BY <2>1 DEF TxOf, InFlight
    <2> QED
      BY <1>5, <1>a, <2>2, <1>3 DEF Validate, Goto, Return, hostVars
  <1>6. ASSUME NEW t \in Tasks, Restart(t) \/ HealthCheck(t) \/ Wake(t)
        PROVE  TxInv'
    <2>1. pc[t] \in InFlight /\ UNCHANGED <<config, backups, cfg, bak, old>>
      BY <1>6 DEF Restart, HealthCheck, Wake, At, InFlight, hostVars
    <2>2. /\ config = cfg[t]
          /\ bak[t] # NoName => backups[bak[t]] = old[t]
      BY <2>1 DEF TxInv, TxOf
    <2>3. \/ pc'[t] \in InFlight
          \/ pc'[t] = "finish" /\ ~result'[t].rolled_back
      BY <1>6, <1>a DEF Restart, HealthCheck, Wake, FailStage, Goto, Return, InFlight
    <2>4. TxOf(t)'
      BY <2>1, <2>2, <2>3 DEF TxOf, InFlight
    <2>5. \A u \in Tasks \ {t} : pc'[u] = pc[u] /\ result'[u] = result[u]
      BY <1>6, <1>a DEF Restart, HealthCheck, Wake, FailStage, Goto, Return
    <2> QED
      BY <2>1, <2>4, <2>5, <1>3
  <1>7. ASSUME NEW t \in Tasks, RollbackRestart(t)
        PROVE  TxInv'
    <2>1. config = old[t] /\ UNCHANGED <<config, backups, cfg, bak, old>>
      BY <1>7 DEF RollbackRestart, At, TxInv, TxOf
    <2>2. pc'[t] = "finish" /\ ~result'[t].success
      BY <1>7, <1>a DEF RollbackRestart, Return, Goto
    <2>3. TxOf(t)'
      BY <2>1, <2>2 DEF TxOf, InFlight
    <2> QED
      BY <1>7, <1>a, <2>1, <2>3, <1>3 DEF RollbackRestart, Return, Goto
  <1>8. ASSUME NEW t \in Tasks, Restore(t) \/ RestoreRestart(t)
        PROVE  TxInv'
    <2>1. /\ pc[t] \in Restoring /\ pc'[t] \in Restoring
          /\ \A u \in Tasks \ {t} : pc'[u] = pc[u]
      BY <1>8, <1>a DEF Restore, RestoreRestart, At, Goto, Restoring
    <2>2. \A u \in Tasks \ {t} : pc'[u] = "idle"
      BY <2>1 DEF RestoreInv, RestoreOf
    <2> QED
      BY <2>1, <2>2 DEF TxInv, TxOf, InFlight, Restoring
  <1>8b. ASSUME NEW t \in Tasks, NEW name \in DOMAIN backups, BeginRestore(t, name)
         PROVE  TxInv'
    <2>1. pc'[t] = "restoring"
      BY <1>8b, <1>a DEF BeginRestore, Goto
    <2>2. TxOf(t)'
      BY <2>1 DEF TxOf, InFlight
    <2> QED
      BY <1>8b, <1>a, <2>2, <1>3 DEF BeginRestore, Goto, hostVars
  <1>9. ASSUME NEW t \in Tasks, Respond(t)
        PROVE  TxInv'
    <2>1. TxOf(t)'
      BY <1>9 DEF Respond, End, TxOf, InFlight
    <2> QED
      BY <1>9, <2>1, <1>3 DEF Respond, End, hostVars
  <1>10. CASE Crash
    BY <1>10 DEF Crash, End, TxInv, TxOf, InFlight
  <1>11. CASE ServiceAction \/ (HostStep /\ UNCHANGED taskVars) \/ UNCHANGED deployerVars
    <2>1. UNCHANGED <<config, backups, pc, cfg, bak, old, result>>
      BY <1>11 DEF ServiceAction, HostStep, ServiceCrash, AutoRestart, Tick, taskVars,
                   deployerVars, hostVars
    <2> QED
      BY <2>1, TxKept DEF TxInv
  <1> QED
    BY <1>1, <1>2, <1>4, <1>5, <1>6, <1>7, <1>8, <1>8b, <1>9, <1>10, <1>11
       DEF DeployerNext, TaskStep, PipelineStep

LEMMA FullInvHolds ==
  ASSUME ~FastFail, RestoresWait
  PROVE  DeployerSpec => []FullInv
  <1>1. DeployerInit => FullInv
    <2> SUFFICES ASSUME DeployerInit PROVE FullInv
      OBVIOUS
    <2>1. \A t \in Tasks : pc[t] = "idle" /\ lock = None /\ cfg[t] = NoFile /\ old[t] = NoFile
      BY DEF DeployerInit, TaskInit
    <2> QED
      BY <2>1, TypeInit DEF FullInv, ExclusiveInv, PipelineExclusive, LoopInv, OrderInv,
                            OrderOf, RestoreInv, RestoreOf, TxInv, TxOf,
                            InFlight, InPipeline
  <1>2. FullInv /\ [DeployerNext]_deployerVars => FullInv'
    BY TypeStep, ExclusiveStep, OrderStep, RestoreStep, TxStep DEF FullInv, ExclusiveInv
  <1> QED
    BY <1>1, <1>2, PTL DEF DeployerSpec

\* "Automatically rolled back to previous config" is never said of another
\* config, if restarts fail slowly and restores by hand wait for deploys.
THEOREM RolledBackIsPrevious ==
  ASSUME ~FastFail, RestoresWait
  PROVE  DeployerSpec => []RolledBackMeansPrevious
  <1>1. FullInv => RolledBackMeansPrevious
    BY DEF FullInv, TxInv, TxOf, RolledBackMeansPrevious
  <1> QED
    BY <1>1, FullInvHolds, PTL

-----------------------------------------------------------------------------
(* What the answers of a deploy say of the host *)

\* A deploy's own config is on disk until it is rolled back, and once the
\* pipeline has restarted the service nothing else runs.
RunOf(t) ==
  /\ pc[t] \in {"restart", "health", "sleep"} => config = cfg[t]
  /\ pc[t] \in {"health", "sleep"} => running \in {config, NoFile}
  /\ pc[t] = "finish" /\ result[t].success =>
       config = cfg[t] /\ running \in {config, NoFile}
RunInv == \A t \in Tasks : RunOf(t)

\* Service actions, and systemd by itself, load the config file or nothing.
LEMMA ServiceLoadsConfig ==
  ASSUME running \in {config, NoFile}, config' = config,
         \/ \E ok \in BOOLEAN : HelperRestart(ok) \/ HelperStop(ok) \/ HelperStart(ok)
         \/ HelperReload \/ HostStep
  PROVE  running' \in {config', NoFile}
  BY DEF HelperRestart, HelperStop, HelperStart, HelperReload, HostStep, ServiceCrash,
         AutoRestart, Tick, Up, Down

\* A step that only moves the clock, or tasks that claim nothing, keeps the rest.
LEMMA RunKept ==
  ASSUME RunInv, NEW u \in Tasks, config' = config, running' = running,
         pc'[u] = pc[u], cfg'[u] = cfg[u], result'[u] = result[u]
  PROVE  RunOf(u)'
  BY DEF RunInv, RunOf

LEMMA RunStep ==
  ASSUME RestoresWait, ExclusiveInv, RestoreInv, RunInv, [DeployerNext]_deployerVars
  PROVE  RunInv'
  <1>a. /\ pc \in [Tasks -> PCs] /\ HostTypeOK /\ cfg \in [Tasks -> Configs \cup {NoFile}]
        /\ result \in [Tasks -> [success : BOOLEAN, stage : Stages,
                                 rolled_back : BOOLEAN, backup : Nat]]
    BY DEF ExclusiveInv, TypeOK, TaskTypeOK
  <1>1. ASSUME NEW t \in Tasks, RunOf(t)',
               \A u \in Tasks \ {t} : pc'[u] = "idle"
        PROVE  RunInv'
    BY <1>1 DEF RunInv, RunOf
  <1>2. ASSUME NEW t \in Tasks, RunOf(t)', config' = config, running' = running,
               \A u \in Tasks \ {t} : /\ pc'[u] = pc[u] /\ cfg'[u] = cfg[u]
                                      /\ result'[u] = result[u]
        PROVE  RunInv'
    BY <1>2, RunKept DEF RunInv
  <1>3. ASSUME NEW t \in Tasks, Deploy(t)
        PROVE  RunInv'
    <2>1. PICK ok \in BOOLEAN, name \in {NoName, now} :
            /\ HelperDeploy(cfg[t], ok, name)
            /\ IF ok THEN Goto(t, "restart") /\ UNCHANGED <<result, lock>>
                     ELSE Return(t, FALSE, "deploy", FALSE, NoName)
      BY <1>3 DEF Deploy
    <2>2. \A u \in Tasks \ {t} : pc'[u] = "idle"
      BY <1>3, <1>a, <2>1, AloneInPipeline DEF Deploy, At, Goto, Return, InPipeline
    <2>3. ok => config' = cfg[t]
      BY <1>a, <2>1, HelperDeployKeeps
    <2>4. cfg' = cfg
      BY <1>3 DEF Deploy
    <2>5. RunOf(t)'
      <3>1. CASE ok
        BY <1>a, <2>1, <2>3, <2>4, <3>1 DEF RunOf, Goto
      <3>2. CASE ~ok
        BY <1>a, <2>1, <3>2 DEF RunOf, Return, Goto
      <3> QED
        BY <3>1, <3>2
    <2> QED
      BY <2>2, <2>5, <1>1
  <1>4. ASSUME NEW t \in Tasks, Restart(t)
        PROVE  RunInv'
    <2>1. PICK ok \in BOOLEAN :
            /\ HelperRestart(ok)
            /\ IF ok THEN Goto(t, "health") /\ UNCHANGED <<result, lock>>
                     ELSE (FastFail \/ now > bak[t]) /\ FailStage(t, "restart")
      BY <1>4 DEF Restart
    <2>2. \A u \in Tasks \ {t} : pc'[u] = "idle"
      BY <1>4, <1>a, AloneInPipeline DEF Restart, At, FailStage, Goto, Return, InPipeline
    <2>3. config = cfg[t] /\ config' = config /\ cfg' = cfg
      BY <1>4 DEF Restart, At, RunInv, RunOf
    <2>4. RunOf(t)'
      <3>1. CASE ok
        <4>1. running' \in {config', NoFile}
          BY <2>1, <2>3, <3>1 DEF HelperRestart, Up, Down
        <4> QED
          BY <1>a, <2>1, <2>3, <3>1, <4>1 DEF RunOf, Goto
      <3>2. CASE ~ok
        BY <1>a, <2>1, <3>2 DEF RunOf, FailStage, Return, Goto
      <3> QED
        BY <3>1, <3>2
    <2> QED
      BY <2>2, <2>4, <1>1
  <1>5. ASSUME NEW t \in Tasks, HealthCheck(t) \/ Wake(t)
        PROVE  RunInv'
    <2>1. /\ pc[t] \in {"health", "sleep"} /\ UNCHANGED <<config, running, cfg>>
          /\ \A u \in Tasks \ {t} : pc'[u] = pc[u] /\ result'[u] = result[u]
      BY <1>5, <1>a DEF HealthCheck, Wake, At, FailStage, Goto, Return, hostVars
    <2>2. config = cfg[t] /\ running \in {config, NoFile}
      BY <2>1 DEF RunInv, RunOf
    <2>3. RunOf(t)'
      BY <2>1, <2>2 DEF RunOf
    <2> QED
      BY <2>1, <2>3, <1>2
  <1>6. ASSUME NEW t \in Tasks, Rollback(t) \/ RollbackRestart(t)
        PROVE  RunInv'
    <2>1. /\ \A u \in Tasks \ {t} : pc'[u] = "idle"
          /\ pc'[t] = "rbrestart" \/ (pc'[t] = "finish" /\ ~result'[t].success)
      BY <1>6, <1>a, AloneInPipeline
         DEF Rollback, RollbackRestart, At, Goto, Return, InPipeline
    <2>2. RunOf(t)'
      BY <2>1 DEF RunOf
    <2> QED
      BY <2>1, <2>2, <1>1
  <1>7. ASSUME NEW t \in Tasks, Restore(t) \/ RestoreRestart(t)
        PROVE  RunInv'
    <2>1. /\ pc[t] \in Restoring /\ pc'[t] \in Restoring
          /\ \A u \in Tasks \ {t} : pc'[u] = pc[u]
      BY <1>7, <1>a DEF Restore, RestoreRestart, At, Goto, Restoring
    <2>2. \A u \in Tasks \ {t} : pc'[u] = "idle"
      BY <2>1 DEF RestoreInv, RestoreOf
    <2>3. RunOf(t)'
      BY <2>1 DEF RunOf, Restoring
    <2> QED
      BY <2>2, <2>3, <1>1
  <1>8. ASSUME NEW t \in Tasks,
               \/ \E c \in Configs : BeginDeploy(t, c)
               \/ \E name \in DOMAIN backups : BeginRestore(t, name)
               \/ Validate(t) \/ Respond(t)
        PROVE  RunInv'
    <2>1. /\ UNCHANGED <<config, running>>
          /\ \A u \in Tasks \ {t} : /\ pc'[u] = pc[u] /\ cfg'[u] = cfg[u]
                                    /\ result'[u] = result[u]
      BY <1>8, <1>a DEF BeginDeploy, BeginRestore, Validate, Respond, End, Goto, Return,
                        hostVars
    <2>2. \/ pc'[t] \in {"validate", "deploy", "restoring", "idle"}
          \/ pc'[t] = "finish" /\ ~result'[t].success
      BY <1>8, <1>a DEF BeginDeploy, BeginRestore, Validate, Respond, End, Goto, Return,
                        NoResult
    <2>3. RunOf(t)'
      BY <2>2 DEF RunOf
    <2> QED
      BY <2>1, <2>3, <1>2
  <1>9. CASE ServiceAction \/ (HostStep /\ UNCHANGED taskVars)
    <2>1. UNCHANGED <<config, pc, cfg, result>>
      BY <1>9 DEF ServiceAction, HostStep, ServiceCrash, AutoRestart, Tick, taskVars
    <2>2. running \in {config, NoFile} => running' \in {config', NoFile}
      BY <1>9, <2>1, ServiceLoadsConfig DEF ServiceAction
    <2> QED
      BY <2>1, <2>2 DEF RunInv, RunOf
  <1>10. CASE Crash
    BY <1>10 DEF Crash, End, RunInv, RunOf
  <1>11. CASE UNCHANGED deployerVars
    BY <1>11 DEF deployerVars, hostVars, taskVars, RunInv, RunOf
  <1> QED
    BY <1>3, <1>4, <1>5, <1>6, <1>7, <1>8, <1>9, <1>10, <1>11
       DEF DeployerNext, TaskStep, PipelineStep

\* A deploy that reports success left its config on disk and the service runs it
\* or nothing, also when a restart can fail within the second of the backup.
THEOREM SuccessIsRunning ==
  ASSUME RestoresWait
  PROVE  DeployerSpec => []SuccessMeansRunning
  <1> DEFINE Inv == ExclusiveInv /\ RestoreInv /\ RunInv
  <1>1. DeployerInit => Inv
    <2> SUFFICES ASSUME DeployerInit PROVE Inv
      OBVIOUS
    <2>1. \A t \in Tasks : pc[t] = "idle" /\ lock = None /\ cfg[t] = NoFile /\ old[t] = NoFile
      BY DEF DeployerInit, TaskInit
    <2> QED
      BY <2>1, TypeInit DEF ExclusiveInv, PipelineExclusive, LoopInv, RestoreInv, RestoreOf,
                            RunInv, RunOf, InPipeline, Restoring
  <1>2. Inv /\ [DeployerNext]_deployerVars => Inv'
    BY TypeStep, ExclusiveStep, RestoreStep, RunStep DEF ExclusiveInv
  <1>3. Inv => SuccessMeansRunning
    BY DEF RunInv, RunOf, SuccessMeansRunning
  <1> QED
    BY <1>1, <1>2, <1>3, PTL DEF DeployerSpec

\* The backup a failed rollback leaves to the operator is the one from before.
ManualOf(t) ==
  (pc[t] = "finish" /\ ~result[t].success /\ ~result[t].rolled_back
     /\ result[t].backup # NoName)
  => /\ result[t].backup \in DOMAIN backups
     /\ backups[result[t].backup] = old[t]

LEMMA ManualStep ==
  ASSUME ~FastFail, RestoresWait, FullInv, ManualBackupHoldsPrevious,
         [DeployerNext]_deployerVars
  PROVE  ManualBackupHoldsPrevious'
  <1> SUFFICES ASSUME NEW u \in Tasks PROVE ManualOf(u)'
    BY DEF ManualOf, ManualBackupHoldsPrevious
  <1>a. /\ pc \in [Tasks -> PCs] /\ bak \in [Tasks -> Nat] /\ HostTypeOK
        /\ old \in [Tasks -> Contents \cup {NoFile}]
        /\ result \in [Tasks -> [success : BOOLEAN, stage : Stages,
                                 rolled_back : BOOLEAN, backup : Nat]]
        /\ ManualOf(u) /\ (pc[u] = "finish" => loop = u) /\ u # None
    BY DEF FullInv, ExclusiveInv, LoopInv, TypeOK, TaskTypeOK, ManualOf,
           ManualBackupHoldsPrevious
  <1>1. ASSUME NEW t \in Tasks \ {u}, loop \in {t, None}, pc'[u] = pc[u]
        PROVE  ManualOf(u)'
    BY <1>1, <1>a DEF ManualOf
  <1>2. ASSUME NEW t \in Tasks, TaskStep(t) \/ (\E c \in Configs : BeginDeploy(t, c))
                 \/ (\E name \in DOMAIN backups : BeginRestore(t, name)) \/ Respond(t)
        PROVE  loop \in {t, None} /\ (t # u => pc'[u] = pc[u])
    BY <1>2, <1>a DEF TaskStep, PipelineStep, Validate, Deploy, Restart, HealthCheck,
                      Rollback, RollbackRestart, Wake, Restore, RestoreRestart, BeginDeploy,
                      BeginRestore, Respond, End, At, FailStage, Goto, Return
  <1>3. CASE Rollback(u)
    <2>1. PICK ok \in BOOLEAN :
            /\ HelperRestore(bak[u], ok)
            /\ IF ok THEN Goto(u, "rbrestart") /\ UNCHANGED <<result, lock>>
                     ELSE Return(u, FALSE, result[u].stage, FALSE, bak[u])
      BY <1>3 DEF Rollback
    <2>2. /\ bak[u] \in Nat /\ bak[u] # now /\ bak[u] \in DOMAIN backups
          /\ backups[bak[u]] = old[u]
      BY <1>3, <1>a DEF Rollback, At, FullInv, OrderInv, OrderOf, TxInv, TxOf, InFlight,
                        HostTypeOK, Seconds
    <2>3. bak[u] \in DOMAIN backups' /\ backups'[bak[u]] = old[u] /\ old' = old
      BY <1>3, <1>a, <2>1, <2>2, HelperRestoreKeeps DEF Rollback
    <2>4. CASE ok
      BY <1>a, <2>1, <2>4 DEF Goto, ManualOf
    <2>5. CASE ~ok
      BY <1>a, <2>1, <2>3, <2>5 DEF Return, Goto, ManualOf
    <2> QED
      BY <2>4, <2>5
  <1>4. CASE \/ (\E c \in Configs : BeginDeploy(u, c))
             \/ (\E name \in DOMAIN backups : BeginRestore(u, name))
             \/ Respond(u) \/ (TaskStep(u) /\ ~Rollback(u))
    <2>1. \/ pc'[u] # "finish"
          \/ result'[u].success \/ result'[u].rolled_back \/ result'[u].backup = NoName
      BY <1>4, <1>a DEF TaskStep, PipelineStep, Validate, Deploy, Restart, HealthCheck,
                        RollbackRestart, Wake, Restore, RestoreRestart, BeginDeploy,
                        BeginRestore, Respond, End, FailStage, Goto, Return, NoResult
    <2> QED
      BY <2>1 DEF ManualOf
  <1>5. CASE Crash
    BY <1>5 DEF Crash, End, ManualOf
  <1>6. CASE ServiceAction \/ (HostStep /\ UNCHANGED taskVars) \/ UNCHANGED deployerVars
    <2>1. UNCHANGED <<backups, pc, old, result>>
      BY <1>6 DEF ServiceAction, HostStep, ServiceCrash, AutoRestart, Tick, taskVars,
                  deployerVars, hostVars
    <2> QED
      BY <1>a, <2>1 DEF ManualOf
  <1> QED
    BY <1>1, <1>2, <1>3, <1>4, <1>5, <1>6 DEF DeployerNext

\* "Manual rollback available" names a backup that exists and holds the config from
\* before the deploy, if restarts fail slowly and restores by hand wait.
THEOREM ManualRollbackAvailable ==
  ASSUME ~FastFail, RestoresWait
  PROVE  DeployerSpec => []ManualBackupHoldsPrevious
  <1>1. DeployerInit => ManualBackupHoldsPrevious
    BY DEF DeployerInit, TaskInit, ManualBackupHoldsPrevious
  <1>2. FullInv /\ ManualBackupHoldsPrevious /\ [DeployerNext]_deployerVars
          => ManualBackupHoldsPrevious'
    BY ManualStep
  <1> QED
    BY <1>1, <1>2, FullInvHolds, PTL DEF DeployerSpec

-----------------------------------------------------------------------------
(* Refinement of DeployPromise *)

Phases == [u \in Tasks |-> PhaseOf(u)]

\* A step that moves one task moves one phase.
LEMMA PhaseMoves ==
  ASSUME NEW t \in Tasks,
         \A u \in Tasks \ {t} : pc'[u] = pc[u] /\ result'[u] = result[u]
  PROVE  Phases' = [Phases EXCEPT ![t] = PhaseOf(t)']
  <1>1. ASSUME NEW u \in Tasks \ {t} PROVE PhaseOf(u)' = PhaseOf(u)
    BY <1>1 DEF PhaseOf
  <1> QED
    BY <1>1 DEF Phases

\* Being under way in the abstract is being in the pipeline.
LEMMA BusyIsInPipeline ==
  ASSUME NEW u \in Tasks
  PROVE  PhaseOf(u) \in Promise!Busy <=> pc[u] \in InPipeline
  BY DEF PhaseOf, Promise!Busy, InPipeline

\* The config file after a helper call that failed.
LEMMA DeployBroken ==
  ASSUME NEW c, NEW name, HelperDeploy(c, FALSE, name)
  PROVE  config' \in {config, Torn, c}
  BY DEF HelperDeploy, BackupBroken

LEMMA RestoreBroken ==
  ASSUME HostTypeOK, NEW name \in Nat, name # now, HelperRestore(name, FALSE)
  PROVE  config' \in {config, Torn, backups[name]}
  BY BackedUpDir DEF HelperRestore, BackupBroken

LEMMA PromiseStep ==
  ASSUME ~FastFail, RestoresWait, FullInv, [DeployerNext]_deployerVars
  PROVE  Promise!PromiseNext \/ (UNCHANGED <<config, cfg, old>> /\ Phases' = Phases)
  <1> DEFINE Same == UNCHANGED <<config, cfg, old>> /\ Phases' = Phases
  <1> USE DEF FullInv
  <1>a. /\ pc \in [Tasks -> PCs] /\ bak \in [Tasks -> Nat] /\ HostTypeOK
        /\ lock \in Tasks \cup {None}
        /\ old \in [Tasks -> Contents \cup {NoFile}] /\ cfg \in [Tasks -> Configs \cup {NoFile}]
        /\ result \in [Tasks -> [success : BOOLEAN, stage : Stages,
                                 rolled_back : BOOLEAN, backup : Nat]]
    BY DEF ExclusiveInv, TypeOK, TaskTypeOK
  <1>b. ASSUME NEW t \in Tasks, pc[t] \in InPipeline, loop = t
        PROVE  \A u \in Tasks \ {t} : Phases[u] = "idle"
    BY <1>b, AloneInPipeline DEF Phases, PhaseOf
  <1>c. ASSUME NEW t \in Tasks, UNCHANGED <<config, cfg, old>>, PhaseOf(t)' = PhaseOf(t),
               \A u \in Tasks \ {t} : pc'[u] = pc[u] /\ result'[u] = result[u]
        PROVE  Same
    <2>1. Phases' = [Phases EXCEPT ![t] = Phases[t]]
      BY <1>c, PhaseMoves DEF Phases
    <2> QED
      BY <1>c, <2>1 DEF Phases
  <1>d. ASSUME NEW t \in Tasks, UNCHANGED <<config, cfg, old>>,
               PhaseOf(t) \in {"open", "written"}, PhaseOf(t)' = "failed",
               \A u \in Tasks \ {t} : pc'[u] = pc[u] /\ result'[u] = result[u]
        PROVE  Promise!PromiseNext
    <2>1. Phases' = [Phases EXCEPT ![t] = "failed"]
      BY <1>d, PhaseMoves
    <2>2. Promise!GiveUp(t)
      BY <1>d, <2>1 DEF Promise!GiveUp, Promise!Become, Phases
    <2> QED
      BY <2>2 DEF Promise!PromiseNext
  <1>1. ASSUME NEW t \in Tasks, NEW c \in Configs, BeginDeploy(t, c)
        PROVE  Promise!PromiseNext
    <2>1. \A u \in Tasks \ {t} : pc'[u] = pc[u] /\ result'[u] = result[u]
      BY <1>1, <1>a DEF BeginDeploy, Goto
    <2>2. /\ PhaseOf(t) = "idle" /\ cfg' = [cfg EXCEPT ![t] = c]
          /\ UNCHANGED <<config, old>>
      BY <1>1 DEF BeginDeploy, PhaseOf, hostVars
    <2>3. (\E u \in Tasks : Phases[u] \in Promise!Busy) <=> lock # None
      BY <1>a, BusyIsInPipeline DEF Phases, ExclusiveInv, PipelineExclusive
    <2>4. PhaseOf(t)' = IF lock # None THEN "failed" ELSE "open"
      <3>1. CASE lock # None
        <4>1. /\ pc'[t] = "finish"
              /\ result'[t].success = FALSE /\ result'[t].rolled_back = FALSE
          BY <1>1, <1>a, <3>1 DEF BeginDeploy, Goto, NoResult
        <4> QED
          BY <3>1, <4>1 DEF PhaseOf
      <3>2. CASE lock = None
        BY <1>1, <1>a, <3>2 DEF BeginDeploy, Goto, PhaseOf
      <3> QED
        BY <3>1, <3>2
    <2>5. Promise!Begin(t, c)
      BY <2>1, <2>2, <2>3, <2>4, PhaseMoves DEF Promise!Begin, Promise!Become, Phases
    <2> QED
      BY <2>5 DEF Promise!PromiseNext
  <1>2. ASSUME NEW t \in Tasks, Validate(t)
        PROVE  Promise!PromiseNext \/ Same
    <2>1. /\ PhaseOf(t) = "open" /\ UNCHANGED <<config, cfg, old>>
          /\ \A u \in Tasks \ {t} : pc'[u] = pc[u] /\ result'[u] = result[u]
      BY <1>2, <1>a DEF Validate, At, PhaseOf, Goto, Return, hostVars
    <2>2. PhaseOf(t)' \in {"open", "failed"}
      BY <1>2, <1>a DEF Validate, PhaseOf, Goto, Return
    <2> QED
      BY <2>1, <2>2, <1>c, <1>d
  <1>3. ASSUME NEW t \in Tasks, Deploy(t)
        PROVE  Promise!PromiseNext
    <2>1. PICK ok \in BOOLEAN, name \in {NoName, now} :
            /\ HelperDeploy(cfg[t], ok, name)
            /\ IF ok THEN Goto(t, "restart") /\ UNCHANGED <<result, lock>>
                     ELSE Return(t, FALSE, "deploy", FALSE, NoName)
      BY <1>3 DEF Deploy
    <2>2. /\ PhaseOf(t) = "open" /\ cfg' = cfg /\ old' = [old EXCEPT ![t] = config]
          /\ \A u \in Tasks \ {t} : pc'[u] = pc[u] /\ result'[u] = result[u]
          /\ \A u \in Tasks \ {t} : Phases[u] = "idle"
      BY <1>3, <1>a, <1>b, <2>1 DEF Deploy, At, PhaseOf, Goto, Return, InPipeline
    <2>3. CASE ok
      <3>1. config' = cfg[t] /\ PhaseOf(t)' = "written"
        BY <1>a, <2>1, <2>3, HelperDeployKeeps DEF Goto, PhaseOf
      <3>2. Promise!Write(t)
        BY <2>2, <3>1, PhaseMoves DEF Promise!Write, Promise!Become, Promise!Alone, Phases
      <3> QED
        BY <3>2 DEF Promise!PromiseNext
    <2>4. CASE ~ok
      <3>1. config' \in {config, Torn, cfg[t]} /\ PhaseOf(t)' = "failed"
        <4>1. HelperDeploy(cfg[t], FALSE, name)
          BY <2>1, <2>4
        <4>2. config' \in {config, Torn, cfg[t]}
          BY <4>1, DeployBroken
        <4>3. PhaseOf(t)' = "failed"
          BY <1>a, <2>1, <2>4 DEF Return, Goto, PhaseOf
        <4> QED
          BY <4>2, <4>3
      <3>2. Promise!Write(t)
        BY <2>2, <3>1, PhaseMoves DEF Promise!Write, Promise!Become, Promise!Alone, Phases
      <3> QED
        BY <3>2 DEF Promise!PromiseNext
    <2> QED
      BY <2>3, <2>4
  <1>4. ASSUME NEW t \in Tasks, Restart(t) \/ Wake(t)
        PROVE  Promise!PromiseNext \/ Same
    <2>1. /\ PhaseOf(t) = "written" /\ UNCHANGED <<config, cfg, old>>
          /\ \A u \in Tasks \ {t} : pc'[u] = pc[u] /\ result'[u] = result[u]
      BY <1>4, <1>a DEF Restart, Wake, At, PhaseOf, FailStage, Goto, Return
    <2>2. PhaseOf(t)' \in {"written", "failed"}
      BY <1>4, <1>a DEF Restart, Wake, PhaseOf, FailStage, Goto, Return
    <2> QED
      BY <2>1, <2>2, <1>c, <1>d
  <1>5. ASSUME NEW t \in Tasks, HealthCheck(t)
        PROVE  Promise!PromiseNext \/ Same
    <2>1. /\ PhaseOf(t) = "written" /\ UNCHANGED <<config, cfg, old>>
          /\ \A u \in Tasks \ {t} : pc'[u] = pc[u] /\ result'[u] = result[u]
      BY <1>5, <1>a DEF HealthCheck, At, PhaseOf, Goto, Return, hostVars
    <2>2. PhaseOf(t)' \in {"written", "ok"}
      BY <1>5, <1>a DEF HealthCheck, PhaseOf, Goto, Return
    <2>3. CASE PhaseOf(t)' = "ok"
      <3>1. config = cfg[t]
        BY <1>5 DEF HealthCheck, At, TxInv, TxOf, InFlight
      <3>2. Promise!Commit(t)
        BY <2>1, <2>3, <3>1, PhaseMoves DEF Promise!Commit, Promise!Become, Phases
      <3> QED
        BY <3>2 DEF Promise!PromiseNext
    <2> QED
      BY <2>1, <2>2, <2>3, <1>c
  <1>6. ASSUME NEW t \in Tasks, Rollback(t)
        PROVE  Promise!PromiseNext
    <2>1. PICK ok \in BOOLEAN :
            /\ HelperRestore(bak[t], ok)
            /\ IF ok THEN Goto(t, "rbrestart") /\ UNCHANGED <<result, lock>>
                     ELSE Return(t, FALSE, result[t].stage, FALSE, bak[t])
      BY <1>6 DEF Rollback
    <2>2. /\ PhaseOf(t) = "written" /\ UNCHANGED <<cfg, old>>
          /\ \A u \in Tasks \ {t} : pc'[u] = pc[u] /\ result'[u] = result[u]
          /\ \A u \in Tasks \ {t} : Phases[u] = "idle"
      BY <1>6, <1>a, <1>b, <2>1 DEF Rollback, At, PhaseOf, Goto, Return, InPipeline
    <2>3. bak[t] # now /\ backups[bak[t]] = old[t] /\ bak[t] \in Nat
      BY <1>6, <1>a DEF Rollback, At, OrderInv, OrderOf, TxInv, TxOf, InFlight, HostTypeOK,
                        Seconds
    <2>4. CASE ok
      <3>1. config' = old[t]
        BY <1>a, <2>1, <2>3, <2>4, HelperRestoreKeeps
      <3>2. PhaseOf(t)' = "undone"
        BY <1>a, <2>1, <2>4 DEF Goto, PhaseOf
      <3>3. Promise!Undo(t)
        BY <2>2, <3>1, <3>2, PhaseMoves DEF Promise!Undo, Promise!Become, Promise!Alone, Phases
      <3> QED
        BY <3>3 DEF Promise!PromiseNext
    <2>5. CASE ~ok
      <3>1. HelperRestore(bak[t], FALSE)
        BY <2>1, <2>5
      <3>2. config' \in {config, Torn, old[t]}
        BY <1>a, <2>3, <3>1, RestoreBroken
      <3>3. PhaseOf(t)' = "failed"
        BY <1>a, <2>1, <2>5 DEF Return, Goto, PhaseOf
      <3>4. Promise!Undo(t)
        BY <2>2, <3>2, <3>3, PhaseMoves DEF Promise!Undo, Promise!Become, Promise!Alone, Phases
      <3> QED
        BY <3>4 DEF Promise!PromiseNext
    <2> QED
      BY <2>4, <2>5
  <1>7. ASSUME NEW t \in Tasks, RollbackRestart(t)
        PROVE  Promise!PromiseNext
    <2>1. /\ PhaseOf(t) = "undone" /\ PhaseOf(t)' = "rolled_back"
          /\ UNCHANGED <<config, cfg, old>>
          /\ \A u \in Tasks \ {t} : pc'[u] = pc[u] /\ result'[u] = result[u]
      BY <1>7, <1>a DEF RollbackRestart, At, PhaseOf, Goto, Return
    <2>2. Promise!TellUndone(t)
      BY <2>1, PhaseMoves DEF Promise!TellUndone, Promise!Become, Phases
    <2> QED
      BY <2>2 DEF Promise!PromiseNext
  <1>8. ASSUME NEW t \in Tasks, Restore(t) \/ RestoreRestart(t)
        PROVE  Promise!PromiseNext \/ Same
    <2>1. /\ PhaseOf(t) = "idle" /\ PhaseOf(t)' = "idle" /\ UNCHANGED <<cfg, old>>
          /\ \A u \in Tasks \ {t} : pc'[u] = pc[u] /\ result'[u] = result[u]
      BY <1>8, <1>a DEF Restore, RestoreRestart, At, PhaseOf, Goto
    <2>2. CASE config' = config
      BY <2>1, <2>2, <1>c
    <2>3. CASE config' # config
      <3>1. Restore(t)
        BY <1>8, <2>3 DEF RestoreRestart
      <3>2. \A u \in Tasks \ {t} : pc[u] = "idle"
        BY <3>1 DEF Restore, At, RestoreInv, RestoreOf, Restoring
      <3>3. \A u \in Tasks : Phases[u] = "idle"
        BY <2>1, <3>2 DEF Phases, PhaseOf
      <3>4. config' \in Configs \cup {Torn, NoFile}
        BY <1>a, <3>1, HelperRestoreFiles DEF Restore, Contents
      <3>5. Phases' = Phases
        <4>1. Phases' = [Phases EXCEPT ![t] = Phases[t]]
          BY <2>1, PhaseMoves DEF Phases
        <4> QED
          BY <4>1 DEF Phases
      <3>6. Promise!Replace
        BY <2>1, <3>3, <3>4, <3>5 DEF Promise!Replace, Phases
      <3> QED
        BY <3>6 DEF Promise!PromiseNext
    <2> QED
      BY <2>2, <2>3
  <1>8b. ASSUME NEW t \in Tasks, NEW name \in DOMAIN backups, BeginRestore(t, name)
         PROVE  Same
    <2>1. /\ PhaseOf(t) = "idle" /\ PhaseOf(t)' = "idle" /\ UNCHANGED <<config, cfg, old>>
          /\ \A u \in Tasks \ {t} : pc'[u] = pc[u] /\ result'[u] = result[u]
      BY <1>8b, <1>a DEF BeginRestore, PhaseOf, Goto, hostVars
    <2> QED
      BY <2>1, <1>c
  <1>9. ASSUME NEW t \in Tasks, Respond(t)
        PROVE  Promise!PromiseNext \/ Same
    <2>1. Phases' = [u \in Tasks |-> IF u \in {t} THEN "idle" ELSE Phases[u]]
      BY <1>9 DEF Respond, End, Phases, PhaseOf
    <2>2. CASE pc[t] = "finish"
      <3>1. Phases[t] \in Promise!Answers
        BY <2>2 DEF Phases, PhaseOf, Promise!Answers
      <3>2. Promise!Deliver(t)
        BY <1>9, <2>1, <3>1 DEF Respond, End, Promise!Deliver, Promise!Forget, Phases, hostVars
      <3> QED
        BY <3>2 DEF Promise!PromiseNext
    <2>3. CASE pc[t] # "finish"
      <3>1. pc[t] \in Restoring /\ cfg[t] = NoFile /\ old[t] = NoFile
        BY <1>9, <2>3 DEF Respond, RestoreInv, RestoreOf, Restoring
      <3>2. /\ PhaseOf(t) = "idle" /\ PhaseOf(t)' = "idle"
            /\ \A u \in Tasks \ {t} : pc'[u] = pc[u] /\ result'[u] = result[u]
        BY <1>9, <3>1 DEF Respond, End, PhaseOf, Restoring
      <3>3. UNCHANGED <<config, cfg, old>>
        BY <1>9, <1>a, <3>1 DEF Respond, End, hostVars
      <3> QED
        BY <3>2, <3>3, <1>c
    <2> QED
      BY <2>2, <2>3
  <1>10. CASE Crash
    <2>1. Phases' = [u \in Tasks |-> IF u \in Tasks THEN "idle" ELSE Phases[u]]
      BY <1>10 DEF Crash, End, Phases, PhaseOf
    <2>2. Promise!Forget(Tasks)
      BY <1>10, <2>1 DEF Crash, End, Promise!Forget, Phases, hostVars
    <2> QED
      BY <2>2 DEF Promise!PromiseNext
  <1>11. CASE ServiceAction \/ (HostStep /\ UNCHANGED taskVars) \/ UNCHANGED deployerVars
    <2>1. UNCHANGED <<config, cfg, old, pc, result>>
      BY <1>11 DEF ServiceAction, HostStep, ServiceCrash, AutoRestart, Tick, taskVars,
                   deployerVars, hostVars
    <2> QED
      BY <2>1 DEF Phases, PhaseOf
  <1> QED
    BY <1>1, <1>2, <1>3, <1>4, <1>5, <1>6, <1>7, <1>8, <1>8b, <1>9, <1>10, <1>11
       DEF DeployerNext, TaskStep, PipelineStep

\* The pipeline implements the transaction of DeployPromise: every behaviour
\* of the deployer is one of the transaction on the config file.
THEOREM DeployerImplementsPromise ==
  ASSUME ~FastFail, RestoresWait
  PROVE  DeployerSpec => ImplementsPromise
  <1>1. DeployerInit => Promise!PromiseInit
    BY DEF DeployerInit, HostInit, TaskInit, Promise!PromiseInit, PhaseOf
  <1>2. FullInv /\ [DeployerNext]_deployerVars => [Promise!PromiseNext]_(Promise!promiseVars)
    BY PromiseStep DEF Promise!promiseVars, Phases
  <1> QED
    BY <1>1, <1>2, FullInvHolds, PTL DEF DeployerSpec, ImplementsPromise, Promise!PromiseSpec

=============================================================================
