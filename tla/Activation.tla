----------------------------- MODULE Activation -----------------------------
(***************************************************************************)
(* Activating nodes and profiles: the database rows that say what is       *)
(* active (app/services/deploy.py, profiles.py, nodes.py, settings.py and  *)
(* the routes that call them) composed with the deploy pipeline.           *)
(*                                                                         *)
(* A handler loads its rows before the deploy and writes them after it, in *)
(* one transaction; while the pipeline sleeps other handlers commit        *)
(* changes to the same rows.  A row is found again by its integer key, and *)
(* SQLite gives the key of a deleted last row to the next row inserted.    *)
(***************************************************************************)
EXTENDS Deployer, FiniteSetsExt

CONSTANTS
  Tags,      \* node tags
  NoTag,     \* no such row
  Presets,   \* DNS, route, log level and app bypass settings, as one value
  MaxRows,   \* bound: rows of each table
  Edits      \* which edits the operators send, a subset of EditKinds

EditKinds == {"add_node", "delete_node", "add_profile", "delete_profile", "settings"}

\* generate_config: everything the deployed file is made from
Generate(tag, preset) == [tag |-> tag, preset |-> preset]

ASSUME ActivationAssumption ==
  /\ Configs = {Generate(tag, preset) : tag \in Tags, preset \in Presets}
  /\ NoTag \notin Tags
  /\ MaxRows \in Nat
  /\ Edits \subseteq EditKinds

VARIABLES
  nodes,          \* id -> tag of the row
  activeNodes,    \* ids of the rows with active = True
  profiles,       \* id -> [tag, preset] of the row
  activeProfiles, \* ids of the rows with active = True
  settings,       \* the stored presets
  deployLog,      \* newest deploy_log row
  attempt,        \* history: newest deploy result handed to a caller
  row,            \* the node and profile rows a task has loaded
  interrupted     \* history: the manager died inside a request, and no
                  \* activation has succeeded since

dbVars == <<nodes, activeNodes, profiles, activeProfiles, settings, deployLog>>
sessionVars == <<attempt, row, interrupted>>
activationVars == <<deployerVars, dbVars, sessionVars>>

NoId == 0
Ids == 1..MaxRows
ProfileRows == [tag : Tags, preset : Presets]
NoRow == [node |-> NoId, tag |-> NoTag, profile |-> NoId]

LogEntry(tag, r) ==
  [tag |-> tag, stage |-> r.stage, success |-> r.success,
   rolled_back |-> r.rolled_back, backup |-> r.backup]

ActivationInit ==
  /\ DeployerInit
  /\ nodes = [i \in {} |-> NoTag]
  /\ activeNodes = {}
  /\ profiles = [i \in {} |-> NoTag]
  /\ activeProfiles = {}
  /\ settings \in Presets
  /\ deployLog = LogEntry(NoTag, NoResult)
  /\ attempt = LogEntry(NoTag, NoResult)
  /\ row = [t \in Tasks |-> NoRow]
  /\ interrupted = FALSE

-----------------------------------------------------------------------------
(* Rows *)

\* INTEGER PRIMARY KEY without AUTOINCREMENT: one more than the largest key
NextId(table) == IF DOMAIN table = {} THEN 1 ELSE Max(DOMAIN table) + 1

Insert(table, value) ==
  [i \in DOMAIN table \cup {NextId(table)} |->
     IF i \in DOMAIN table THEN table[i] ELSE value]
Delete(table, id) == [i \in DOMAIN table \ {id} |-> table[i]]

-----------------------------------------------------------------------------
(* Handlers that deploy *)

\* POST /nodes/{id}/activate and /activate: load the row, generate, deploy
ActivateNode(t, id) ==
  /\ BeginDeploy(t, Generate(nodes[id], settings))
  /\ row' = [row EXCEPT ![t] = [node |-> id, tag |-> nodes[id], profile |-> NoId]]
  /\ UNCHANGED <<dbVars, attempt, interrupted>>

\* POST /profiles/{id}/activate: the node is looked up by the profile's tag
ActivateProfile(t, p) ==
  \E id \in DOMAIN nodes :
    /\ nodes[id] = profiles[p].tag
    /\ BeginDeploy(t, Generate(nodes[id], profiles[p].preset))
    /\ row' = [row EXCEPT ![t] = [node |-> id, tag |-> nodes[id], profile |-> p]]
    /\ UNCHANGED <<dbVars, attempt, interrupted>>

\* Mutant of RowsFound: a missing row is not noticed
RowsNotChecked(t) == t \in Tasks

\* An UPDATE by key that meets no row makes the whole commit fail
RowsFound(t) ==
  /\ row[t].node \in DOMAIN nodes
  /\ row[t].profile = NoId \/ row[t].profile \in DOMAIN profiles

\* The rows a successful deploy leaves active
Flags(t) ==
  /\ activeNodes' = {row[t].node}
  /\ activeProfiles' = {row[t].profile} \ {NoId}

\* A failed deploy commits its log row and nothing else
LogFailure(t) == deployLog' = LogEntry(row[t].tag, result[t])

\* activate_node after the deploy: log row and flags in one transaction
Record(t) ==
  /\ At(t, "finish")
  /\ attempt' = LogEntry(row[t].tag, result[t])
  /\ IF ~result[t].success
     THEN /\ LogFailure(t)
          /\ UNCHANGED <<activeNodes, activeProfiles>>
     ELSE IF RowsFound(t)
     THEN /\ deployLog' = attempt'
          /\ Flags(t)
     ELSE UNCHANGED <<deployLog, activeNodes, activeProfiles>>
  /\ interrupted' = (interrupted /\ ~(result[t].success /\ RowsFound(t)))
  /\ UNCHANGED <<hostVars, nodes, profiles, settings>>
  /\ IF result[t].success /\ RowsFound(t) /\ row[t].profile # NoId
     THEN Goto(t, "saving")
          /\ UNCHANGED <<lock, loop, cfg, bak, tries, slept, result, old, row>>
     ELSE /\ loop' = None
          /\ End({t})
          /\ row' = [row EXCEPT ![t] = NoRow]
          /\ UNCHANGED lock

\* activate_profile after activate_node: its presets become the settings
SavePresets(t) ==
  /\ At(t, "saving")
  /\ settings' = profiles[row[t].profile].preset
  /\ loop' = None
  /\ End({t})
  /\ row' = [row EXCEPT ![t] = NoRow]
  /\ UNCHANGED <<hostVars, lock, nodes, activeNodes, profiles, activeProfiles,
                 deployLog, attempt, interrupted>>

\* Mutant of RestoreDone: the active flag survives a restore
RestoreDoneFlagKept(t) ==
  /\ loop = t /\ pc[t] \in {"restored", "refused"}
  /\ loop' = None
  /\ End({t})
  /\ UNCHANGED <<hostVars, lock, dbVars, sessionVars>>

\* restore_backup_route after the restart: no node is active any more
RestoreDone(t) ==
  /\ loop = t /\ pc[t] \in {"restored", "refused"}
  /\ activeNodes' = IF pc[t] = "restored" THEN {} ELSE activeNodes
  /\ loop' = None
  /\ End({t})
  /\ UNCHANGED <<hostVars, lock, nodes, profiles, activeProfiles, settings,
                 deployLog, sessionVars>>

-----------------------------------------------------------------------------
(* Handlers that only edit the database *)

AddNode(tag) ==
  /\ "add_node" \in Edits /\ NextId(nodes) <= MaxRows
  /\ \A i \in DOMAIN nodes : nodes[i] # tag
  /\ nodes' = Insert(nodes, tag)
  /\ UNCHANGED <<activeNodes, profiles, activeProfiles, settings>>

DeleteNode(id) ==
  /\ "delete_node" \in Edits
  /\ nodes' = Delete(nodes, id)
  /\ activeNodes' = activeNodes \ {id}
  /\ UNCHANGED <<profiles, activeProfiles, settings>>

CreateProfile(r) ==
  /\ "add_profile" \in Edits /\ NextId(profiles) <= MaxRows
  /\ profiles' = Insert(profiles, r)
  /\ UNCHANGED <<nodes, activeNodes, activeProfiles, settings>>

DeleteProfile(p) ==
  /\ "delete_profile" \in Edits
  /\ profiles' = Delete(profiles, p)
  /\ activeProfiles' = activeProfiles \ {p}
  /\ UNCHANGED <<nodes, activeNodes, settings>>

\* Mutant of SaveSettings: the profile marker survives
SaveSettingsOnly(preset) ==
  /\ "settings" \in Edits
  /\ settings' = preset
  /\ UNCHANGED <<nodes, activeNodes, profiles, activeProfiles>>

\* POST /settings: no profile describes the settings any more
SaveSettings(preset) ==
  /\ "settings" \in Edits
  /\ settings' = preset
  /\ activeProfiles' = {}
  /\ UNCHANGED <<nodes, activeNodes, profiles>>

Edit ==
  /\ Free
  /\ \/ \E tag \in Tags : AddNode(tag)
     \/ \E id \in DOMAIN nodes : DeleteNode(id)
     \/ \E r \in ProfileRows : CreateProfile(r)
     \/ \E p \in DOMAIN profiles : DeleteProfile(p)
     \/ \E preset \in Presets : SaveSettings(preset)
  /\ UNCHANGED <<deployerVars, deployLog, sessionVars>>

-----------------------------------------------------------------------------
Activate ==
  /\ loop = None /\ InTime /\ "deploy" \in Requests
  /\ \E t \in Tasks : \/ \E id \in DOMAIN nodes : ActivateNode(t, id)
                      \/ \E p \in DOMAIN profiles : ActivateProfile(t, p)

\* Steps of the deployer, the host and the operators that leave the tables be
HostSide ==
  /\ \/ \E t \in Tasks : TaskStep(t)
     \/ /\ Free /\ InTime /\ "restore" \in Requests
        /\ \E t \in Tasks, name \in DOMAIN backups : BeginRestore(t, name)
     \/ Free /\ "service" \in Requests /\ ServiceAction
     \/ HostStep /\ UNCHANGED taskVars
  /\ UNCHANGED <<dbVars, sessionVars>>

\* The manager dies in save_settings: set_setting commits every key by itself,
\* and the profile flags come last
DieSaving ==
  /\ AppCrash /\ loop = None /\ "settings" \in Edits
  /\ settings' \in Presets
  /\ lock' = None /\ loop' = None /\ End(Tasks)
  /\ row' = [t \in Tasks |-> NoRow]
  /\ interrupted' = TRUE
  /\ UNCHANGED <<hostVars, nodes, activeNodes, profiles, activeProfiles, deployLog, attempt>>

Die ==
  /\ Crash
  /\ row' = [t \in Tasks |-> NoRow]
  /\ interrupted' = (interrupted \/ \E t \in Tasks : pc[t] # "idle")
  /\ UNCHANGED <<dbVars, attempt>>

ActivationNext ==
  \/ Activate
  \/ \E t \in Tasks : Record(t) \/ SavePresets(t) \/ RestoreDone(t)
  \/ HostSide
  \/ Edit
  \/ Die
  \/ DieSaving

ActivationSpec == ActivationInit /\ [][ActivationNext]_activationVars

-----------------------------------------------------------------------------
(* Properties *)

Idle == \A t \in Tasks : pc[t] = "idle"

\* At rest, the node marked active is the one the config file was made for,
\* and the profile marked active beside it the one it was made with.  After a
\* crash in the middle of a request this holds again from the next activation
\* that succeeds.
ActiveFlagsMatchHost ==
  Idle /\ ~interrupted =>
    /\ \A n \in activeNodes : config \in Configs /\ config.tag = nodes[n]
    /\ activeNodes # {} =>
         \A p \in activeProfiles : config = Generate(profiles[p].tag, profiles[p].preset)

\* At rest, a running service runs the config file, although operators restore
\* backups and press service buttons in the middle of deploys; after a crash in a
\* request, again from the next activation that succeeds.
IdleServiceRunsFile == Idle /\ ~interrupted /\ svc = "active" => running = config

\* At most one node and one profile carry the active flag, and only rows that
\* exist do, although rows are deleted and their keys given out again while a
\* deploy waits.
OneActive ==
  /\ activeNodes \subseteq DOMAIN nodes /\ Cardinality(activeNodes) <= 1
  /\ activeProfiles \subseteq DOMAIN profiles /\ Cardinality(activeProfiles) <= 1

\* At rest, the stored presets are those of the active profile, although
\* settings can be saved and profiles deleted while its deploy waits, and again
\* from the first activation after a crash between the two commits.
ActiveProfileMatchesSettings ==
  Idle /\ ~interrupted => \A p \in activeProfiles : settings = profiles[p].preset

-----------------------------------------------------------------------------
(* A definition the code does not keep; README.md, section 6 *)

\* deploy_log is an audit trail of deploy attempts: when the loop is free,
\* its newest row describes the newest attempt that came to an end.  It fails
\* when the node or profile of a deploy that succeeds is deleted meanwhile: the
\* flags' UPDATE meets no row, and the log row is rolled back with it.
AuditTrailComplete == loop = None => deployLog = attempt

=============================================================================
