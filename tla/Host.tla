-------------------------------- MODULE Host --------------------------------
(***************************************************************************)
(* The managed host as the manager sees it: the deployed config file, the  *)
(* backup directory of the privileged helper, the wall clock the backup    *)
(* names are taken from, and sing-box.service.  One operator per helper    *)
(* action; the ones that can end in several ways take the outcome the      *)
(* caller is told (ok) as a parameter.                                     *)
(*                                                                         *)
(* A file's content is a member of Configs or Torn, what a copy that broke *)
(* off leaves (no valid JSON).  A backup file config_YYYYMMDD_HHMMSS.json  *)
(* is named by the second it was made in.                                  *)
(***************************************************************************)
EXTENDS Naturals

CONSTANTS
  Configs,      \* contents that are valid JSON
  Torn,         \* content of a file whose copy was interrupted
  NoFile,       \* there is no such file (or no config is loaded)
  MaxTime,      \* bound: the clock does not tick by itself beyond it
  HelperFaults  \* TRUE: a helper call may fail or time out at any point

ASSUME HostAssumption ==
  /\ Torn \notin Configs
  /\ NoFile \notin Configs \cup {Torn}
  /\ MaxTime \in Nat
  /\ HelperFaults \in BOOLEAN

VARIABLES
  config,   \* content of /etc/sing-box/config.json
  backups,  \* /etc/sing-box/backups: second of the name -> content
  now,      \* wall clock in seconds
  svc,      \* state of sing-box.service: "active", "failed" or "stopped"
  running   \* the content the running service loaded

hostVars == <<config, backups, now, svc, running>>

Contents == Configs \cup {Torn}
NoName == 0     \* "no backup": backup_name is None
Seconds == Nat \ {NoName}

HostTypeOK ==
  /\ config \in Contents \cup {NoFile}
  /\ DOMAIN backups \subseteq Seconds
  /\ backups \in [DOMAIN backups -> Contents]
  /\ now \in Seconds
  /\ svc \in {"active", "failed", "stopped"}
  /\ running \in Configs \cup {NoFile}

HostInit ==
  /\ config \in Configs \cup {NoFile}
  /\ backups = [s \in {} |-> Torn]
  /\ now = 1
  /\ svc = IF config = NoFile THEN "failed" ELSE "active"
  /\ running = config

-----------------------------------------------------------------------------
(* The helper's file actions *)

\* Mutant of WithBackup: the name is taken one second too early
WithBackupEarly(content) ==
  [s \in DOMAIN backups \cup {now - 1} |-> IF s = now - 1 THEN content ELSE backups[s]]

WithBackup(content) ==
  [s \in DOMAIN backups \cup {now} |-> IF s = now THEN content ELSE backups[s]]

\* _make_backup: a second backup of the same second overwrites the first
BackedUp == IF config = NoFile THEN backups ELSE WithBackup(config)
BackupName == IF config = NoFile THEN NoName ELSE now

\* Where a copy into the backup directory can break off
BackupBroken ==
  /\ config' = config
  /\ \/ backups' = BackedUp
     \/ config # NoFile /\ backups' = WithBackup(Torn)

\* Mutant of HelperDeploy: the backup is made after the copy
HelperDeployBackupLast(content, ok, name) ==
  /\ ok /\ name = BackupName
  /\ backups' = WithBackup(content)
  /\ config' = content

\* action_deploy.  The backup's name reaches the caller only on success.
HelperDeploy(content, ok, name) ==
  \/ /\ ok /\ name = BackupName
     /\ backups' = BackedUp
     /\ config' = content
  \/ /\ HelperFaults /\ ~ok /\ name = NoName
     /\ \/ UNCHANGED <<config, backups>>
        \/ BackupBroken
        \/ backups' = BackedUp /\ config' \in {Torn, content}

\* action_restore: the check of the backup's content comes before the
\* pre-restore backup, the copy after it
HelperRestore(name, ok) ==
  LET usable == name \in DOMAIN backups /\ backups[name] # Torn IN
  \/ /\ ok /\ usable
     /\ backups' = BackedUp
     /\ config' = BackedUp[name]
  \/ /\ ~ok /\ ~usable
     /\ UNCHANGED <<config, backups>>
  \/ /\ HelperFaults /\ ~ok /\ usable
     /\ \/ UNCHANGED <<config, backups>>
        \/ BackupBroken
        \/ backups' = BackedUp /\ config' \in {Torn, BackedUp[name]}

-----------------------------------------------------------------------------
(* The helper's service actions, and what systemd does by itself *)

Up ==
  /\ config \in Configs
  /\ svc' = "active" /\ running' = config

Down(state) == svc' = state /\ running' = NoFile

\* systemctl restart: success says only that the process was started; a
\* failure may also be a call that timed out or was refused
HelperRestart(ok) ==
  \/ ok /\ (Up \/ Down("failed"))
  \/ ~ok /\ Down("failed")
  \/ HelperFaults /\ ~ok /\ (Up \/ UNCHANGED <<svc, running>>)

HelperStart(ok) ==
  IF svc = "active" THEN ok /\ UNCHANGED <<svc, running>> ELSE HelperRestart(ok)

HelperStop(ok) ==
  \/ ok /\ Down("stopped")
  \/ HelperFaults /\ ~ok /\ (Down("stopped") \/ UNCHANGED <<svc, running>>)

\* systemctl reload of an active unit; a failed reload is followed by restart
HelperReload == svc = "active" /\ (Up \/ Down("failed"))

ServiceCrash ==
  /\ svc = "active"
  /\ Down("failed")
  /\ UNCHANGED <<config, backups, now>>

AutoRestart ==
  /\ svc = "failed"
  /\ Up
  /\ UNCHANGED <<config, backups, now>>

Tick ==
  /\ now < MaxTime
  /\ now' = now + 1
  /\ UNCHANGED <<config, backups, svc, running>>

HostStep == ServiceCrash \/ AutoRestart \/ Tick

=============================================================================
