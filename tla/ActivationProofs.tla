-------------------------- MODULE ActivationProofs --------------------------
(***************************************************************************)
(* Proofs about the active flags of nodes and profiles, the stored         *)
(* presets and the host they are about, for any tasks, tags, presets and   *)
(* bounds.  What they assume of the fault switches and of the requests     *)
(* that overlap a deploy is stated with each theorem.                      *)
(***************************************************************************)
EXTENDS Activation, DeployerProofs, FiniteSetTheorems, TLAPS

\* Every flag is on a row that exists, and there is one of each kind at most.
FlagsInv ==
  /\ activeNodes \subseteq DOMAIN nodes
  /\ activeProfiles \subseteq DOMAIN profiles
  /\ \E n : activeNodes \subseteq {n}
  /\ \E p : activeProfiles \subseteq {p}

LEMMA InsertKeeps ==
  ASSUME NEW table, NEW value
  PROVE  DOMAIN table \subseteq DOMAIN Insert(table, value)
  BY DEF Insert

\* What a successful deploy marks has been found again by the commit.
LEMMA RecordStep ==
  ASSUME FlagsInv, NEW t \in Tasks, Record(t)
  PROVE  FlagsInv'
<1>1. UNCHANGED <<nodes, profiles>>
  BY DEF Record
<1>2. CASE result[t].success /\ RowsFound(t)
  <2>1. Flags(t)
    BY <1>2 DEF Record
  <2>2. activeNodes' \subseteq DOMAIN nodes /\ activeProfiles' \subseteq DOMAIN profiles
    BY <2>1, <1>2 DEF Flags, RowsFound
  <2>3. activeNodes' \subseteq {row[t].node} /\ activeProfiles' \subseteq {row[t].profile}
    BY <2>1 DEF Flags
  <2> QED
    BY <1>1, <2>2, <2>3 DEF FlagsInv
<1>3. CASE ~(result[t].success /\ RowsFound(t))
  <2>1. UNCHANGED <<activeNodes, activeProfiles>>
    BY <1>3 DEF Record
  <2> QED
    BY <1>1, <2>1 DEF FlagsInv
<1> QED
  BY <1>2, <1>3

\* Rows that go take their flag with them, rows that come have none.
LEMMA EditStep ==
  ASSUME FlagsInv, Edit
  PROVE  FlagsInv'
<1>1. ASSUME NEW tag \in Tags, AddNode(tag) PROVE FlagsInv'
  BY <1>1, InsertKeeps DEF AddNode, FlagsInv
<1>2. ASSUME NEW id \in DOMAIN nodes, DeleteNode(id) PROVE FlagsInv'
  BY <1>2 DEF DeleteNode, Delete, FlagsInv
<1>3. ASSUME NEW r \in ProfileRows, CreateProfile(r) PROVE FlagsInv'
  BY <1>3, InsertKeeps DEF CreateProfile, FlagsInv
<1>4. ASSUME NEW p \in DOMAIN profiles, DeleteProfile(p) PROVE FlagsInv'
  BY <1>4 DEF DeleteProfile, Delete, FlagsInv
<1>5. ASSUME NEW preset \in Presets, SaveSettings(preset) PROVE FlagsInv'
  BY <1>5 DEF SaveSettings, FlagsInv
<1> QED
  BY <1>1, <1>2, <1>3, <1>4, <1>5 DEF Edit

LEMMA FlagsStep == FlagsInv /\ [ActivationNext]_activationVars => FlagsInv'
<1> SUFFICES ASSUME FlagsInv, [ActivationNext]_activationVars PROVE FlagsInv'
  OBVIOUS
<1>1. CASE Activate
  BY <1>1 DEF Activate, ActivateNode, ActivateProfile, dbVars, FlagsInv
<1>2. ASSUME NEW t \in Tasks, Record(t) PROVE FlagsInv'
  BY <1>2, RecordStep
<1>3. ASSUME NEW t \in Tasks, SavePresets(t) PROVE FlagsInv'
  BY <1>3 DEF SavePresets, FlagsInv
<1>4. ASSUME NEW t \in Tasks, RestoreDone(t) PROVE FlagsInv'
  BY <1>4 DEF RestoreDone, FlagsInv
<1>5. CASE HostSide
  BY <1>5 DEF HostSide, dbVars, FlagsInv
<1>6. CASE Edit
  BY <1>6, EditStep
<1>7. CASE Die
  BY <1>7 DEF Die, dbVars, FlagsInv
<1>8. CASE DieSaving
  BY <1>8 DEF DieSaving, FlagsInv
<1>9. CASE UNCHANGED activationVars
  BY <1>9 DEF activationVars, dbVars, FlagsInv
<1> QED
  BY <1>1, <1>2, <1>3, <1>4, <1>5, <1>6, <1>7, <1>8, <1>9 DEF ActivationNext

LEMMA AtMostOne ==
  ASSUME NEW S, NEW x, S \subseteq {x}
  PROVE  Cardinality(S) <= 1
<1>1. S = {} \/ S = {x}
  OBVIOUS
<1>2. Cardinality(S) = 0 \/ Cardinality(S) = 1
  BY <1>1, FS_EmptySet, FS_Singleton, Zenon
<1> QED
  BY <1>2

\* At most one node and one profile carry the active flag, and only rows that
\* exist do, although rows are deleted and their keys given out again, settings
\* saved and backups restored while deploys wait.
THEOREM OneActiveAlways == ActivationSpec => []OneActive
<1>1. ActivationInit => FlagsInv
  BY DEF ActivationInit, FlagsInv
<1>2. FlagsInv => OneActive
  BY AtMostOne DEF FlagsInv, OneActive
<1> QED
  BY <1>1, <1>2, FlagsStep, PTL DEF ActivationSpec

-----------------------------------------------------------------------------
(* The active profile and the settings *)

Matching == \A p \in activeProfiles : settings = profiles[p].preset

\* Between its two commits a task has the loop to itself.
Saving(t) == At(t, "saving")

\* The profile whose presets are on their way is the active one.
SavesActive == \A t \in Tasks : Saving(t) => activeProfiles \subseteq {row[t].profile}

ProfileInv ==
  /\ DOMAIN pc = Tasks
  /\ interrupted \in BOOLEAN
  /\ FlagsInv
  /\ SavesActive
  /\ interrupted \/ Matching \/ \E t \in Tasks : Saving(t)

LEMMA InsertKeepsRows ==
  ASSUME NEW table, NEW value, NEW i \in DOMAIN table
  PROVE  Insert(table, value)[i] = table[i]
  BY DEF Insert

LEMMA TasksKept ==
  ASSUME DOMAIN pc = Tasks, [ActivationNext]_activationVars
  PROVE  DOMAIN pc' = Tasks
<1>1. CASE Activate
  BY <1>1 DEF Activate, ActivateNode, ActivateProfile, BeginDeploy, Goto
<1>2. ASSUME NEW t \in Tasks, Record(t) \/ SavePresets(t) \/ RestoreDone(t)
      PROVE  DOMAIN pc' = Tasks
  BY <1>2 DEF Record, SavePresets, RestoreDone, Goto, End
<1>3. CASE HostSide
  <2>1. ASSUME NEW t \in Tasks, TaskStep(t) PROVE DOMAIN pc' = Tasks
    BY <2>1 DEF TaskStep, PipelineStep, Validate, Deploy, Restart, HealthCheck, Wake,
                Rollback, RollbackRestart, Restore, RestoreRestart, Return, FailStage, Goto
  <2>2. ASSUME NEW t \in Tasks, NEW name \in DOMAIN backups, BeginRestore(t, name)
        PROVE  DOMAIN pc' = Tasks
    BY <2>2 DEF BeginRestore, Goto
  <2>3. ASSUME UNCHANGED taskVars PROVE DOMAIN pc' = Tasks
    BY <2>3 DEF taskVars
  <2> QED
    BY <1>3, <2>1, <2>2, <2>3 DEF HostSide, ServiceAction
<1>4. CASE Edit
  BY <1>4 DEF Edit, deployerVars, taskVars
<1>5. CASE Die \/ DieSaving
  BY <1>5 DEF Die, Crash, DieSaving, End
<1>6. CASE UNCHANGED activationVars
  BY <1>6 DEF activationVars, deployerVars, taskVars
<1> QED
  BY <1>1, <1>2, <1>3, <1>4, <1>5, <1>6 DEF ActivationNext

\* A step of the pipeline or of a restore does not lead to the second commit.
LEMMA TaskStepSaves ==
  ASSUME DOMAIN pc = Tasks, NEW u \in Tasks, TaskStep(u)
  PROVE  \A t \in Tasks : ~Saving(t)'
<1> SUFFICES ASSUME NEW t \in Tasks, Saving(t)' PROVE FALSE
  OBVIOUS
<1>1. loop' = t /\ pc'[t] = "saving" /\ t # None
  BY DeployerAssumption DEF Saving, At
<1>2. CASE Validate(u) \/ Deploy(u)
  BY <1>1, <1>2 DEF Validate, Deploy, Return, Goto, At
<1>3. CASE Restart(u) \/ HealthCheck(u) \/ Wake(u)
  BY <1>1, <1>3 DEF Restart, HealthCheck, Wake, FailStage, Return, Goto, At
<1>4. CASE Rollback(u) \/ RollbackRestart(u)
  BY <1>1, <1>4 DEF Rollback, RollbackRestart, Return, Goto, At
<1>5. CASE Restore(u) \/ RestoreRestart(u)
  BY <1>1, <1>5 DEF Restore, RestoreRestart, Goto, At
<1> QED
  BY <1>2, <1>3, <1>4, <1>5 DEF TaskStep, PipelineStep

\* While a task saves its presets no other task and no operator takes a step.
LEMMA NobodySaves ==
  ASSUME NEW t \in Tasks, Saving(t)
  PROVE  /\ loop # None
         /\ \A u \in Tasks : ~TaskStep(u) /\ ~Record(u) /\ ~RestoreDone(u)
         /\ \A u \in Tasks : SavePresets(u) => u = t
<1>1. loop = t /\ pc[t] = "saving"
  BY DEF Saving, At
<1>2. loop # None
  BY <1>1, DeployerAssumption
<1>3. ASSUME NEW u \in Tasks, TaskStep(u) PROVE FALSE
  BY <1>1, <1>2, <1>3
     DEF TaskStep, PipelineStep, Validate, Deploy, Restart, HealthCheck, Wake, Rollback,
         RollbackRestart, Restore, RestoreRestart, At
<1>4. ASSUME NEW u \in Tasks, Record(u) \/ RestoreDone(u) PROVE FALSE
  BY <1>1, <1>4 DEF Record, RestoreDone, At
<1>5. \A u \in Tasks : SavePresets(u) => u = t
  BY <1>1 DEF SavePresets, At
<1> QED
  BY <1>2, <1>3, <1>4, <1>5

LEMMA RecordProfile ==
  ASSUME ProfileInv, NEW t \in Tasks, Record(t)
  PROVE  SavesActive' /\ (interrupted' \/ Matching' \/ Saving(t)')
<1>1. UNCHANGED <<profiles, settings>> /\ loop = t /\ t # None
  BY DeployerAssumption DEF Record, At
<1>2. CASE result[t].success /\ RowsFound(t) /\ row[t].profile # NoId
  <2>1. activeProfiles' = {row[t].profile} \ {NoId}
    BY <1>2 DEF Record, Flags
  <2>2. Goto(t, "saving") /\ UNCHANGED <<loop, row>>
    BY <1>2 DEF Record
  <2>3. At(t, "saving")'
    BY <1>1, <2>2 DEF At, Goto, ProfileInv
  <2>4. \A u \in Tasks : Saving(u)' => u = t
    BY <1>1, <2>2 DEF Saving, At
  <2> QED
    BY <2>1, <2>2, <2>3, <2>4 DEF Saving, SavesActive
<1>3. ASSUME ~(result[t].success /\ RowsFound(t) /\ row[t].profile # NoId)
      PROVE  \A u \in Tasks : ~Saving(u)'
  <2>1. loop' = None
    BY <1>3 DEF Record
  <2> QED
    BY <2>1, DeployerAssumption DEF Saving, At
<1>4. CASE result[t].success /\ RowsFound(t) /\ row[t].profile = NoId
  <2>1. activeProfiles' = {}
    BY <1>4 DEF Record, Flags
  <2> QED
    BY <1>3, <1>4, <2>1 DEF Matching, SavesActive
<1>5. CASE ~(result[t].success /\ RowsFound(t))
  <2>1. UNCHANGED activeProfiles
    BY <1>5 DEF Record
  <2>2. interrupted => interrupted'
    <3>1. interrupted' = (interrupted /\ ~(result[t].success /\ RowsFound(t)))
      BY DEF Record
    <3> QED
      BY <1>5, <3>1, Zenon
  <2>3. \A u \in Tasks : ~Saving(u)
    BY NobodySaves
  <2>4. Matching => Matching'
    BY <1>1, <2>1 DEF Matching
  <2> QED
    BY <1>3, <1>5, <2>2, <2>3, <2>4, Zenon DEF ProfileInv, SavesActive
<1> QED
  BY <1>2, <1>4, <1>5

LEMMA EditProfile ==
  ASSUME ProfileInv, Edit
  PROVE  interrupted' \/ Matching'
<1>1. loop = None /\ UNCHANGED interrupted
  BY DEF Edit, Free, sessionVars
<1>2. interrupted \/ Matching
  BY <1>1, NobodySaves DEF ProfileInv
<1>3. activeProfiles \subseteq DOMAIN profiles
  BY DEF ProfileInv, FlagsInv
<1>4. ASSUME NEW tag \in Tags, AddNode(tag), Matching PROVE Matching'
  BY <1>4 DEF AddNode, Matching
<1>5. ASSUME NEW id \in DOMAIN nodes, DeleteNode(id), Matching PROVE Matching'
  BY <1>5 DEF DeleteNode, Matching
<1>6. ASSUME NEW r \in ProfileRows, CreateProfile(r), Matching PROVE Matching'
  BY <1>3, <1>6, InsertKeepsRows DEF CreateProfile, Matching
<1>7. ASSUME NEW p \in DOMAIN profiles, DeleteProfile(p), Matching PROVE Matching'
  BY <1>3, <1>7 DEF DeleteProfile, Delete, Matching
<1>8. ASSUME NEW preset \in Presets, SaveSettings(preset) PROVE Matching'
  BY <1>8 DEF SaveSettings, Matching
<1> QED
  BY <1>1, <1>2, <1>4, <1>5, <1>6, <1>7, <1>8 DEF Edit

LEMMA ProfileStep == ProfileInv /\ [ActivationNext]_activationVars => ProfileInv'
<1> DEFINE Settled == interrupted \/ Matching \/ \E t \in Tasks : Saving(t)
<1> SUFFICES ASSUME ProfileInv, [ActivationNext]_activationVars
             PROVE  (interrupted \in BOOLEAN)' /\ SavesActive' /\ Settled'
  BY TasksKept, FlagsStep DEF ProfileInv
<1>0. interrupted' \in BOOLEAN
  BY DEF ProfileInv, ActivationNext, Activate, ActivateNode, ActivateProfile, Record,
         SavePresets, RestoreDone, HostSide, Edit, Die, DieSaving, sessionVars,
         activationVars
<1>1. CASE Activate
  <2>1. UNCHANGED <<dbVars, interrupted>> /\ loop = None
    BY <1>1 DEF Activate, ActivateNode, ActivateProfile
  <2>2. \A t \in Tasks : ~Saving(t)'
    BY <1>1 DEF Activate, ActivateNode, ActivateProfile, BeginDeploy, Goto, Saving, At,
                ProfileInv
  <2>3. interrupted \/ Matching
    BY <2>1, NobodySaves DEF ProfileInv
  <2> QED
    BY <1>0, <2>1, <2>2, <2>3 DEF dbVars, Matching, SavesActive
<1>2. ASSUME NEW t \in Tasks, Record(t) PROVE SavesActive' /\ Settled'
  BY <1>2, RecordProfile
<1>3. ASSUME NEW t \in Tasks, SavePresets(t) PROVE SavesActive' /\ Settled'
  <2>1. UNCHANGED <<activeProfiles, profiles, interrupted>> /\ loop' = None
    BY <1>3 DEF SavePresets
  <2>2. settings' = profiles[row[t].profile].preset
    BY <1>3 DEF SavePresets
  <2>3. activeProfiles \subseteq {row[t].profile}
    BY <1>3 DEF SavePresets, ProfileInv, SavesActive, Saving
  <2>4. Matching'
    BY <2>1, <2>2, <2>3 DEF Matching
  <2> QED
    BY <2>1, <2>4, DeployerAssumption DEF SavesActive, Saving, At
<1>4. ASSUME NEW t \in Tasks, RestoreDone(t) PROVE SavesActive' /\ Settled'
  <2>1. UNCHANGED <<activeProfiles, profiles, settings, interrupted>> /\ loop' = None
    BY <1>4 DEF RestoreDone, sessionVars
  <2>2. interrupted \/ Matching
    BY <1>4, NobodySaves DEF ProfileInv
  <2> QED
    BY <2>1, <2>2, DeployerAssumption DEF Matching, SavesActive, Saving, At
<1>5. CASE HostSide
  <2>1. UNCHANGED <<activeProfiles, profiles, settings, interrupted, row>>
    BY <1>5 DEF HostSide, dbVars, sessionVars
  <2>2. (interrupted => interrupted') /\ (Matching => Matching')
    BY <2>1 DEF Matching
  <2>3. CASE \E t \in Tasks : Saving(t)
    <3>1. loop # None /\ \A u \in Tasks : ~TaskStep(u)
      BY <2>3, NobodySaves
    <3>2. UNCHANGED taskVars
      BY <1>5, <3>1 DEF HostSide, Free
    <3>3. \A t \in Tasks : Saving(t)' <=> Saving(t)
      BY <3>2 DEF taskVars, Saving, At
    <3> QED
      BY <2>1, <2>3, <3>3 DEF SavesActive, ProfileInv
  <2>4. CASE \A t \in Tasks : ~Saving(t)
    <3>1. \A t \in Tasks : ~Saving(t)'
      <4>1. ASSUME NEW u \in Tasks, TaskStep(u) PROVE \A t \in Tasks : ~Saving(t)'
        BY <4>1, TaskStepSaves DEF ProfileInv
      <4>2. ASSUME NEW u \in Tasks, NEW name \in DOMAIN backups, BeginRestore(u, name)
            PROVE  \A t \in Tasks : ~Saving(t)'
        BY <4>2 DEF BeginRestore, Goto, Saving, At, ProfileInv
      <4>3. ASSUME UNCHANGED taskVars PROVE \A t \in Tasks : ~Saving(t)'
        BY <2>4, <4>3 DEF taskVars, Saving, At
      <4> QED
        BY <1>5, <4>1, <4>2, <4>3 DEF HostSide, ServiceAction
    <3>2. interrupted \/ Matching
      BY <2>4 DEF ProfileInv
    <3>3. SavesActive'
      BY <3>1 DEF SavesActive
    <3>4. interrupted' \/ Matching'
      BY <2>2, <3>2, Zenon
    <3> QED
      BY <1>0, <3>3, <3>4, Zenon
  <2> QED
    BY <2>3, <2>4
<1>6. CASE Edit
  <2>1. loop' = None
    BY <1>6 DEF Edit, Free, deployerVars, taskVars
  <2>2. SavesActive'
    BY <2>1, DeployerAssumption DEF SavesActive, Saving, At
  <2>3. interrupted' \/ Matching'
    BY <1>6, EditProfile
  <2> QED
    BY <1>0, <2>2, <2>3, Zenon
<1>7. CASE Die
  <2>1. loop' = None /\ interrupted'
    BY <1>7 DEF Die, Crash
  <2> QED
    BY <2>1, DeployerAssumption DEF SavesActive, Saving, At
<1>8. CASE DieSaving
  <2>1. loop' = None /\ interrupted'
    BY <1>8 DEF DieSaving
  <2> QED
    BY <2>1, DeployerAssumption DEF SavesActive, Saving, At
<1>9. CASE UNCHANGED activationVars
  BY <1>9 DEF activationVars, deployerVars, taskVars, dbVars, sessionVars, ProfileInv,
              Matching, Saving, At, SavesActive
<1> QED
  BY <1>0, <1>1, <1>2, <1>3, <1>4, <1>5, <1>6, <1>7, <1>8, <1>9 DEF ActivationNext

\* At rest the stored presets are those of the active profile, although settings
\* are saved and profiles deleted while its deploy waits; after a crash inside a
\* request this holds from the next activation that succeeds.
THEOREM ProfileMatchesSettings == ActivationSpec => []ActiveProfileMatchesSettings
<1>1. ActivationInit => ProfileInv
  BY DEF ActivationInit, DeployerInit, TaskInit, ProfileInv, FlagsInv, Matching,
         SavesActive, Saving, At
<1>2. ProfileInv => ActiveProfileMatchesSettings
  BY DEF ProfileInv, ActiveProfileMatchesSettings, Idle, Saving, At, Matching
<1> QED
  BY <1>1, <1>2, ProfileStep, PTL DEF ActivationSpec

-----------------------------------------------------------------------------
(* The deployer inside the composed system *)

\* Rows hold what the forms and the importers let through, and the profile whose
\* presets are to be saved has not gone.
DataInv ==
  /\ DOMAIN row = Tasks
  /\ \A i \in DOMAIN nodes : nodes[i] \in Tags
  /\ \A p \in DOMAIN profiles : profiles[p] \in ProfileRows
  /\ settings \in Presets
  /\ \A t \in Tasks : Saving(t) => row[t].profile \in DOMAIN profiles

\* Only Record leads to the second commit, and nothing else happens before it.
LEMMA SavingStays ==
  ASSUME DOMAIN pc = Tasks, [ActivationNext]_activationVars,
         NEW t \in Tasks, Saving(t)'
  PROVE  /\ UNCHANGED <<row, profiles>>
         /\ Saving(t) \/ (RowsFound(t) /\ row[t].profile # NoId)
<1>0. loop' = t /\ pc'[t] = "saving" /\ t # None
  BY DeployerAssumption DEF Saving, At
<1>1. CASE Activate
  BY <1>0, <1>1 DEF Activate, ActivateNode, ActivateProfile, BeginDeploy, Goto
<1>2. ASSUME NEW u \in Tasks, Record(u)
      PROVE  UNCHANGED <<row, profiles>> /\ RowsFound(t) /\ row[t].profile # NoId
  BY <1>0, <1>2 DEF Record, At
<1>3. ASSUME NEW u \in Tasks, SavePresets(u) \/ RestoreDone(u) PROVE FALSE
  BY <1>0, <1>3 DEF SavePresets, RestoreDone
<1>4. CASE HostSide
  <2>1. ASSUME NEW u \in Tasks, TaskStep(u) PROVE FALSE
    BY <2>1, TaskStepSaves
  <2>2. ASSUME NEW u \in Tasks, NEW name \in DOMAIN backups, BeginRestore(u, name) PROVE FALSE
    BY <1>0, <2>2 DEF BeginRestore, Goto
  <2>3. UNCHANGED taskVars
    BY <1>4, <2>1, <2>2 DEF HostSide, ServiceAction
  <2> QED
    BY <1>4, <2>3 DEF HostSide, taskVars, dbVars, sessionVars, Saving, At
<1>5. CASE Edit \/ Die \/ DieSaving
  BY <1>0, <1>5 DEF Edit, Free, deployerVars, taskVars, Die, Crash, DieSaving
<1>6. CASE UNCHANGED activationVars
  BY <1>6 DEF activationVars, deployerVars, taskVars, dbVars, sessionVars, Saving, At
<1> QED
  BY <1>1, <1>2, <1>3, <1>4, <1>5, <1>6 DEF ActivationNext

LEMMA InsertedRow ==
  ASSUME NEW table, NEW value, NEW S, value \in S, \A i \in DOMAIN table : table[i] \in S
  PROVE  \A i \in DOMAIN Insert(table, value) : Insert(table, value)[i] \in S
  BY DEF Insert

LEMMA DataStep ==
  ASSUME DOMAIN pc = Tasks, DataInv, [ActivationNext]_activationVars
  PROVE  DataInv'
<1>1. \A t \in Tasks : Saving(t)' => row'[t].profile \in DOMAIN profiles'
  BY SavingStays DEF DataInv, RowsFound
<1>2. DOMAIN row' = Tasks
  BY DEF DataInv, ActivationNext, Activate, ActivateNode, ActivateProfile, Record,
         SavePresets, RestoreDone, HostSide, Edit, Die, DieSaving, sessionVars,
         activationVars
<1> DEFINE Rows == /\ \A i \in DOMAIN nodes : nodes[i] \in Tags
                   /\ \A p \in DOMAIN profiles : profiles[p] \in ProfileRows
                   /\ settings \in Presets
<1>3. Rows'
  <2>1. CASE Edit
    <3>1. ASSUME NEW tag \in Tags, AddNode(tag) PROVE Rows'
      BY <3>1, InsertedRow DEF AddNode, DataInv
    <3>2. ASSUME NEW id \in DOMAIN nodes, DeleteNode(id) PROVE Rows'
      BY <3>2 DEF DeleteNode, Delete, DataInv
    <3>3. ASSUME NEW r \in ProfileRows, CreateProfile(r) PROVE Rows'
      BY <3>3, InsertedRow DEF CreateProfile, DataInv
    <3>4. ASSUME NEW p \in DOMAIN profiles, DeleteProfile(p) PROVE Rows'
      BY <3>4 DEF DeleteProfile, Delete, DataInv
    <3>5. ASSUME NEW preset \in Presets, SaveSettings(preset) PROVE Rows'
      BY <3>5 DEF SaveSettings, DataInv
    <3> QED
      BY <2>1, <3>1, <3>2, <3>3, <3>4, <3>5 DEF Edit
  <2>2. ASSUME NEW t \in Tasks, SavePresets(t) PROVE Rows'
    <3>1. profiles[row[t].profile] \in ProfileRows
      BY <2>2 DEF SavePresets, DataInv, Saving
    <3> QED
      BY <2>2, <3>1 DEF SavePresets, DataInv, ProfileRows
  <2>3. ASSUME NEW t \in Tasks, Record(t) \/ RestoreDone(t) PROVE Rows'
    BY <2>3 DEF Record, RestoreDone, DataInv
  <2>4. CASE Activate \/ HostSide \/ Die \/ UNCHANGED activationVars
    <3>1. UNCHANGED <<nodes, profiles, settings>>
      BY <2>4 DEF Activate, ActivateNode, ActivateProfile, HostSide, Die, activationVars, dbVars
    <3> QED
      BY <3>1 DEF DataInv
  <2>5. CASE DieSaving
    BY <2>5 DEF DieSaving, DataInv
  <2> QED
    BY <2>1, <2>2, <2>3, <2>4, <2>5 DEF ActivationNext
<1> QED
  BY <1>1, <1>2, <1>3 DEF DataInv

\* What the composed system does that the deployer by itself does not: a request
\* goes on to its second commit and answers after it, and the manager also dies
\* in a handler that deploys nothing.
Linger(t) ==
  /\ At(t, "finish") /\ Goto(t, "saving")
  /\ UNCHANGED <<hostVars, lock, loop, cfg, bak, tries, slept, result, old>>
Leave(t) ==
  /\ At(t, "saving") /\ loop' = None /\ End({t})
  /\ UNCHANGED <<hostVars, lock>>
Vanish ==
  /\ lock' = None /\ loop' = None /\ End(Tasks)
  /\ UNCHANGED hostVars

DeployerSide ==
  \/ [DeployerNext]_deployerVars
  \/ \E t \in Tasks : Linger(t) \/ Leave(t)
  \/ Vanish

\* Seen from the deployer, every step is one of its own or one of these.
LEMMA StepOfDeployer ==
  ASSUME DataInv, [ActivationNext]_activationVars
  PROVE  DeployerSide
<1>1. CASE Activate
  <2>1. PICK t \in Tasks : \/ \E id \in DOMAIN nodes : ActivateNode(t, id)
                           \/ \E p \in DOMAIN profiles : ActivateProfile(t, p)
    BY <1>1 DEF Activate
  <2>2. \E c \in Configs : BeginDeploy(t, c)
    BY <2>1, ActivationAssumption DEF ActivateNode, ActivateProfile, DataInv, ProfileRows
  <2> QED
    BY <1>1, <2>2 DEF Activate, DeployerSide, DeployerNext
<1>2. ASSUME NEW t \in Tasks, Record(t) PROVE DeployerSide
  <2>1. CASE result[t].success /\ RowsFound(t) /\ row[t].profile # NoId
    BY <1>2, <2>1 DEF Record, DeployerSide, Linger
  <2>2. CASE ~(result[t].success /\ RowsFound(t) /\ row[t].profile # NoId)
    <3>1. Respond(t)
      BY <1>2, <2>2 DEF Record, Respond, At
    <3> QED
      BY <3>1 DEF DeployerSide, DeployerNext
  <2> QED
    BY <2>1, <2>2
<1>3. ASSUME NEW t \in Tasks, SavePresets(t) PROVE DeployerSide
  BY <1>3 DEF SavePresets, DeployerSide, Leave
<1>4. ASSUME NEW t \in Tasks, RestoreDone(t) PROVE DeployerSide
  <2>1. Respond(t)
    BY <1>4 DEF RestoreDone, Respond
  <2> QED
    BY <2>1 DEF DeployerSide, DeployerNext
<1>5. CASE HostSide
  BY <1>5 DEF HostSide, DeployerSide, DeployerNext
<1>6. CASE Edit \/ UNCHANGED activationVars
  BY <1>6 DEF Edit, activationVars, DeployerSide
<1>7. CASE Die
  BY <1>7 DEF Die, DeployerSide, DeployerNext
<1>8. CASE DieSaving
  BY <1>8 DEF DieSaving, DeployerSide, Vanish
<1> QED
  BY <1>1, <1>2, <1>3, <1>4, <1>5, <1>6, <1>7, <1>8 DEF ActivationNext

LEMMA ExclusiveSide ==
  ASSUME ExclusiveInv, DeployerSide
  PROVE  ExclusiveInv'
<1>1. CASE [DeployerNext]_deployerVars
  BY <1>1, TypeStep, ExclusiveStep DEF ExclusiveInv
<1>2. ASSUME NEW t \in Tasks, Linger(t) PROVE ExclusiveInv'
  <2>1. TypeOK'
    BY <1>2 DEF Linger, Goto, hostVars, ExclusiveInv, TypeOK, HostTypeOK, TaskTypeOK, PCs
  <2> QED
    BY <1>2, <2>1 DEF Linger, At, Goto, ExclusiveInv, PipelineExclusive, LoopInv, InPipeline,
                      TypeOK, TaskTypeOK
<1>3. ASSUME NEW t \in Tasks, Leave(t) PROVE ExclusiveInv'
  <2>1. TypeOK'
    BY <1>3, EndTypes DEF Leave, hostVars, ExclusiveInv, TypeOK, HostTypeOK, TaskTypeOK
  <2> QED
    BY <1>3, <2>1 DEF Leave, At, End, ExclusiveInv, PipelineExclusive, LoopInv, InPipeline
<1>4. CASE Vanish
  <2>1. TypeOK'
    BY <1>4, EndTypes DEF Vanish, hostVars, ExclusiveInv, TypeOK, HostTypeOK, TaskTypeOK
  <2> QED
    BY <1>4, <2>1, DeployerAssumption
       DEF Vanish, End, ExclusiveInv, PipelineExclusive, LoopInv, InPipeline
<1> QED
  BY <1>1, <1>2, <1>3, <1>4 DEF DeployerSide

-----------------------------------------------------------------------------
(* The service and the config file *)

Served == svc = "active" => running = config

\* Someone has written the file and not yet restarted the service.
Unserved == \E t \in Tasks : pc[t] \in {"restart", "rbrestart", "restarting"}

\* A deploy whose restart was reported good.
Past(t) == pc[t] \in {"health", "sleep"} \/ (pc[t] = "finish" /\ result[t].success)

\* The service falls behind the file only between a write and the restart that
\* follows it, or when the manager dies there.
ServedInv ==
  /\ interrupted \in BOOLEAN
  /\ interrupted \/ Served \/ Unserved
  /\ \A t \in Tasks : Past(t) => Served \/ Unserved

\* A restart, stop or reload that is not lost leaves the service in step with
\* the file, whatever it runs before.
LEMMA RestartServes ==
  ASSUME ~HelperFaults, config' = config, NEW ok \in BOOLEAN,
         HelperRestart(ok) \/ HelperStop(ok) \/ HelperReload
  PROVE  Served'
  BY DEF HelperRestart, HelperStop, HelperReload, Up, Down, Served

\* Nor does anything else that happens to the service bring it out of step.
LEMMA ServiceServes ==
  ASSUME ~HelperFaults, Served, config' = config,
         \/ \E ok \in BOOLEAN : HelperRestart(ok) \/ HelperStop(ok) \/ HelperStart(ok)
         \/ HelperReload \/ HostStep
  PROVE  Served'
  BY DEF HelperRestart, HelperStop, HelperStart, HelperReload, HostStep, ServiceCrash,
         AutoRestart, Tick, Up, Down, Served

\* Without a fault a deploy is written, and a restore that fails writes nothing.
LEMMA DeployWritten ==
  ASSUME ~HelperFaults, NEW c, NEW ok \in BOOLEAN, NEW name, HelperDeploy(c, ok, name)
  PROVE  ok /\ name = BackupName /\ config' = c /\ backups' = BackedUp
  BY DEF HelperDeploy

LEMMA RestoreRefused ==
  ASSUME ~HelperFaults, NEW ok \in BOOLEAN, NEW name, HelperRestore(name, ok), ~ok
  PROVE  UNCHANGED <<config, backups>>
  BY DEF HelperRestore

\* A step of one task that leaves the service in step with the file, or is
\* about to restart it, is a good one whatever was before.
LEMMA ServedKept ==
  ASSUME ServedInv, interrupted' \in BOOLEAN, interrupted => interrupted',
         Served' \/ Unserved'
  PROVE  ServedInv'
  BY DEF ServedInv

\* A step that touches neither the service nor the file, by a task that was not
\* about to restart it and has not just heard of a good restart.
LEMMA ServedIdle ==
  ASSUME ServedInv, interrupted' \in BOOLEAN, interrupted => interrupted',
         UNCHANGED <<svc, running, config>>, NEW t \in Tasks,
         \A u \in Tasks \ {t} : pc'[u] = pc[u] /\ result'[u] = result[u],
         pc[t] \notin {"restart", "rbrestart", "restarting"},
         Past(t)' => Past(t)
  PROVE  ServedInv'
<1>1. Served' <=> Served
  BY DEF Served
<1>2. Unserved => Unserved'
  BY DEF Unserved
<1>3. \A u \in Tasks : Past(u)' => Past(u)
  BY DEF Past
<1>4. interrupted' \/ Served' \/ Unserved'
  BY <1>1, <1>2, Zenon DEF ServedInv
<1>5. \A u \in Tasks : Past(u)' => Served' \/ Unserved'
  BY <1>1, <1>2, <1>3, Zenon DEF ServedInv
<1> QED
  BY <1>4, <1>5 DEF ServedInv

LEMMA ServedTask ==
  ASSUME ~HelperFaults, ExclusiveInv, ServedInv, NEW t \in Tasks, TaskStep(t),
         UNCHANGED interrupted
  PROVE  ServedInv'
<1>a. /\ pc \in [Tasks -> PCs]
      /\ result \in [Tasks -> [success : BOOLEAN, stage : Stages,
                               rolled_back : BOOLEAN, backup : Nat]]
  BY DEF ExclusiveInv, TypeOK, TaskTypeOK
<1>b. interrupted' \in BOOLEAN
  BY DEF ServedInv
<1>1. CASE Validate(t) \/ HealthCheck(t) \/ Wake(t)
  <2>1. /\ UNCHANGED <<svc, running, config>>
        /\ \A u \in Tasks \ {t} : pc'[u] = pc[u] /\ result'[u] = result[u]
        /\ pc[t] \in {"validate", "health", "sleep"}
    BY <1>1, <1>a DEF Validate, HealthCheck, Wake, hostVars, At, Goto, Return, FailStage
  <2>2. Past(t)' => Past(t)
    BY <1>1, <1>a DEF Validate, HealthCheck, Wake, At, Goto, Return, FailStage, Past
  <2> QED
    BY <1>b, <2>1, <2>2, ServedIdle
<1>2. CASE Deploy(t)
  <2>1. PICK ok \in BOOLEAN, name \in {NoName, now} :
          HelperDeploy(cfg[t], ok, name) /\ (ok => Goto(t, "restart"))
    BY <1>2 DEF Deploy
  <2>2. ok
    BY <2>1, DeployWritten
  <2>3. pc'[t] = "restart"
    BY <1>a, <2>1, <2>2 DEF Goto
  <2> QED
    BY <1>b, <2>3, ServedKept DEF Unserved
<1>3. CASE Restart(t) \/ RollbackRestart(t) \/ RestoreRestart(t)
  <2>1. Served'
    BY <1>3, RestartServes DEF Restart, RollbackRestart, RestoreRestart
  <2> QED
    BY <1>b, <2>1, ServedKept
<1>4. CASE Rollback(t) \/ Restore(t)
  <2>1. CASE pc'[t] \in {"rbrestart", "restarting"}
    BY <1>b, <2>1, ServedKept DEF Unserved
  <2>2. CASE pc'[t] \notin {"rbrestart", "restarting"}
    <3>1. PICK ok \in BOOLEAN :
            /\ HelperRestore(bak[t], ok)
            /\ \/ ok /\ pc'[t] \in {"rbrestart", "restarting"}
               \/ ~ok /\ pc'[t] = "refused"
               \/ ~ok /\ pc'[t] = "finish" /\ ~result'[t].success
      BY <1>4, <1>a DEF Rollback, Restore, Goto, Return
    <3>3. UNCHANGED config
      BY <2>2, <3>1, RestoreRefused
    <3>2. /\ UNCHANGED <<svc, running>>
          /\ \A u \in Tasks \ {t} : pc'[u] = pc[u] /\ result'[u] = result[u]
          /\ pc[t] \in {"rollback", "restoring"}
      BY <1>4, <1>a DEF Rollback, Restore, At, Goto, Return
    <3> QED
      BY <1>b, <2>2, <3>1, <3>2, <3>3, ServedIdle DEF Past
  <2> QED
    BY <2>1, <2>2
<1> QED
  BY <1>1, <1>2, <1>3, <1>4 DEF TaskStep, PipelineStep

LEMMA ServedStep ==
  ASSUME ~HelperFaults, ExclusiveInv, ServedInv, [ActivationNext]_activationVars
  PROVE  ServedInv'
<1>a. /\ pc \in [Tasks -> PCs]
      /\ result \in [Tasks -> [success : BOOLEAN, stage : Stages,
                               rolled_back : BOOLEAN, backup : Nat]]
  BY DEF ExclusiveInv, TypeOK, TaskTypeOK
<1>b. interrupted \in BOOLEAN
  BY DEF ServedInv
<1>0. ASSUME UNCHANGED <<svc, running, config, pc, result, interrupted>> PROVE ServedInv'
  BY <1>0 DEF ServedInv, Served, Unserved, Past
<1>1. CASE Activate
  <2>1. PICK t \in Tasks : \/ \E id \in DOMAIN nodes : ActivateNode(t, id)
                           \/ \E p \in DOMAIN profiles : ActivateProfile(t, p)
    BY <1>1 DEF Activate
  <2>2. /\ UNCHANGED <<svc, running, config, interrupted>>
        /\ \A u \in Tasks \ {t} : pc'[u] = pc[u] /\ result'[u] = result[u]
        /\ pc[t] = "idle" /\ ~Past(t)'
    BY <2>1, <1>a DEF ActivateNode, ActivateProfile, BeginDeploy, Goto, hostVars, Past, NoResult
  <2> QED
    BY <1>b, <2>2, ServedIdle
<1>2. ASSUME NEW t \in Tasks, Record(t) PROVE ServedInv'
  <2>1. /\ UNCHANGED <<svc, running, config>> /\ pc[t] = "finish" /\ ~Past(t)'
        /\ \A u \in Tasks \ {t} : pc'[u] = pc[u] /\ result'[u] = result[u]
    BY <1>2, <1>a DEF Record, At, Goto, End, hostVars, Past
  <2>2. interrupted' = (interrupted /\ ~(result[t].success /\ RowsFound(t)))
    BY <1>2 DEF Record
  <2>3. CASE result[t].success
    <3>1. Served' \/ Unserved'
      BY <2>1, <2>3 DEF ServedInv, Past, Served, Unserved
    <3> QED
      BY <1>b, <2>2, <3>1 DEF ServedInv
  <2>4. CASE ~result[t].success
    <3>1. interrupted' = interrupted
      BY <1>b, <2>2, <2>4
    <3> QED
      BY <1>b, <2>1, <3>1, ServedIdle
  <2> QED
    BY <2>3, <2>4
<1>3. ASSUME NEW t \in Tasks, SavePresets(t) \/ RestoreDone(t) PROVE ServedInv'
  <2>1. /\ UNCHANGED <<svc, running, config, interrupted>>
        /\ pc[t] \in {"saving", "restored", "refused"} /\ ~Past(t)'
        /\ \A u \in Tasks \ {t} : pc'[u] = pc[u] /\ result'[u] = result[u]
    BY <1>3, <1>a DEF SavePresets, RestoreDone, At, End, hostVars, sessionVars, Past
  <2> QED
    BY <1>b, <2>1, ServedIdle
<1>4. CASE HostSide
  <2>1. UNCHANGED interrupted
    BY <1>4 DEF HostSide, sessionVars
  <2>2. ASSUME NEW t \in Tasks, TaskStep(t) PROVE ServedInv'
    BY <2>1, <2>2, ServedTask
  <2>3. ASSUME NEW t \in Tasks, NEW name \in DOMAIN backups, BeginRestore(t, name)
        PROVE  ServedInv'
    <3>1. /\ UNCHANGED <<svc, running, config>> /\ pc[t] = "idle" /\ ~Past(t)'
          /\ \A u \in Tasks \ {t} : pc'[u] = pc[u] /\ result'[u] = result[u]
      BY <2>3, <1>a DEF BeginRestore, Goto, hostVars, Past
    <3> QED
      BY <1>b, <2>1, <3>1, ServedIdle
  <2>4. CASE ServiceAction \/ (HostStep /\ UNCHANGED taskVars)
    <3>1. UNCHANGED <<config, pc, result>>
      BY <2>4 DEF ServiceAction, HostStep, ServiceCrash, AutoRestart, Tick, taskVars
    <3>2. Served => Served'
      BY <2>4, <3>1, ServiceServes DEF ServiceAction
    <3>3. /\ Unserved' <=> Unserved
          /\ \A t \in Tasks : Past(t)' <=> Past(t)
      BY <3>1 DEF Unserved, Past
    <3>4. interrupted' \/ Served' \/ Unserved'
      BY <2>1, <3>2, <3>3, Zenon DEF ServedInv
    <3>5. \A t \in Tasks : Past(t)' => Served' \/ Unserved'
      BY <3>2, <3>3, Zenon DEF ServedInv
    <3> QED
      BY <1>b, <2>1, <3>4, <3>5 DEF ServedInv
  <2> QED
    BY <1>4, <2>2, <2>3, <2>4 DEF HostSide
<1>5. CASE Edit \/ UNCHANGED activationVars
  BY <1>5, <1>0 DEF Edit, activationVars, deployerVars, hostVars, taskVars, sessionVars
<1>6. CASE Die \/ DieSaving
  <2>1. interrupted' = TRUE
    BY <1>6, <1>b DEF Die, Crash, DieSaving
  <2>2. \A t \in Tasks : ~Past(t)'
    BY <1>6 DEF Die, Crash, DieSaving, End, Past
  <2> QED
    BY <2>1, <2>2 DEF ServedInv
<1> QED
  BY <1>1, <1>2, <1>3, <1>4, <1>5, <1>6 DEF ActivationNext

\* Whatever holds of the tasks, the rows and the loop in every reachable state.
BaseInv == ExclusiveInv /\ DataInv

LEMMA BaseInit == ActivationInit => BaseInv
<1> SUFFICES ASSUME ActivationInit PROVE BaseInv
  OBVIOUS
<1>1. TypeOK
  BY TypeInit DEF ActivationInit
<1>2. lock = None /\ \A t \in Tasks : pc[t] = "idle"
  BY DEF ActivationInit, DeployerInit, TaskInit
<1>3. PipelineExclusive /\ LoopInv
  BY <1>2, DeployerAssumption DEF PipelineExclusive, LoopInv, InPipeline
<1>4. DataInv
  BY <1>2 DEF ActivationInit, DataInv, Saving, At
<1> QED
  BY <1>1, <1>3, <1>4 DEF BaseInv, ExclusiveInv

LEMMA BaseStep == BaseInv /\ [ActivationNext]_activationVars => BaseInv'
<1> SUFFICES ASSUME BaseInv, [ActivationNext]_activationVars PROVE BaseInv'
  OBVIOUS
<1>1. DOMAIN pc = Tasks
  BY DEF BaseInv, ExclusiveInv, TypeOK, TaskTypeOK
<1> QED
  BY <1>1, DataStep, StepOfDeployer, ExclusiveSide DEF BaseInv

\* At rest a running service runs the config file, whatever is restored, edited
\* and pressed while deploys wait, if no helper call is lost; after a crash in a
\* request, again from the next activation that succeeds.
THEOREM ServiceFollowsFile == ASSUME ~HelperFaults
                              PROVE  ActivationSpec => []IdleServiceRunsFile
<1>1. ActivationInit => ServedInv
  BY DEF ActivationInit, DeployerInit, HostInit, TaskInit, ServedInv, Served, Past
<1>2. ServedInv => IdleServiceRunsFile
  BY DEF ServedInv, Served, Unserved, Idle, IdleServiceRunsFile
<1>3. BaseInv /\ ServedInv /\ [ActivationNext]_activationVars => ServedInv'
  BY ServedStep DEF BaseInv
<1> QED
  BY <1>1, <1>2, <1>3, BaseInit, BaseStep, PTL DEF ActivationSpec

-----------------------------------------------------------------------------
(* The active flags and the config file *)

\* Rows are deleted between deploys only.
DeletesWait == ~Overlap \/ Edits \cap {"delete_node", "delete_profile"} = {}

\* What is known of the deployer's transaction outlives the composition.
LEMMA OrderSide ==
  ASSUME ~FastFail, ExclusiveInv, OrderInv, DeployerSide
  PROVE  OrderInv'
<1>1. CASE [DeployerNext]_deployerVars
  BY <1>1, OrderStep DEF ExclusiveInv
<1>2. ASSUME NEW t \in Tasks, Linger(t) \/ Leave(t) PROVE OrderInv'
  <2>1. /\ UNCHANGED <<backups, now>> /\ pc'[t] \in {"saving", "idle"}
        /\ \A u \in Tasks \ {t} : pc'[u] = pc[u] /\ bak'[u] = bak[u] /\ slept'[u] = slept[u]
    BY <1>2 DEF Linger, Leave, At, Goto, End, hostVars, ExclusiveInv, TypeOK, TaskTypeOK
  <2> QED
    BY <2>1 DEF OrderInv, OrderOf, InFlight
<1>3. CASE Vanish
  BY <1>3 DEF Vanish, End, OrderInv, OrderOf, InFlight
<1> QED
  BY <1>1, <1>2, <1>3 DEF DeployerSide

LEMMA FullSide ==
  ASSUME ~FastFail, RestoresWait, FullInv, DeployerSide
  PROVE  FullInv'
<1>0. ExclusiveInv' /\ OrderInv'
  BY ExclusiveSide, OrderSide DEF FullInv
<1>1. CASE [DeployerNext]_deployerVars
  BY <1>0, <1>1, RestoreStep, TxStep DEF FullInv
<1>2. ASSUME NEW t \in Tasks, Linger(t) PROVE FullInv'
  <2>1. /\ UNCHANGED <<config, backups, now, lock, loop, cfg, bak, slept, result, old>>
        /\ pc[t] = "finish" /\ pc'[t] = "saving"
        /\ \A u \in Tasks \ {t} : pc'[u] = pc[u] /\ pc[u] \in {"idle", "sleep"}
    BY <1>2, DeployerAssumption
       DEF Linger, At, Goto, hostVars, FullInv, ExclusiveInv, LoopInv, TypeOK, TaskTypeOK
  <2>2. TxInv'
    BY <2>1 DEF FullInv, TxInv, TxOf, InFlight
  <2>3. RestoreInv'
    BY <2>1 DEF FullInv, RestoreInv, RestoreOf, Restoring
  <2> QED
    BY <1>0, <2>2, <2>3 DEF FullInv
<1>3. ASSUME NEW t \in Tasks, Leave(t) PROVE FullInv'
  <2>1. /\ UNCHANGED <<config, backups, now, lock>>
        /\ pc'[t] = "idle" /\ cfg'[t] = NoFile /\ old'[t] = NoFile
        /\ \A u \in Tasks \ {t} :
             /\ pc'[u] = pc[u] /\ pc[u] \in {"idle", "sleep"} /\ cfg'[u] = cfg[u]
             /\ bak'[u] = bak[u] /\ slept'[u] = slept[u] /\ old'[u] = old[u]
             /\ result'[u] = result[u]
    BY <1>3, DeployerAssumption
       DEF Leave, At, End, hostVars, FullInv, ExclusiveInv, LoopInv
  <2>2. TxInv'
    BY <2>1 DEF FullInv, TxInv, TxOf, InFlight
  <2>3. RestoreInv'
    BY <2>1 DEF FullInv, RestoreInv, RestoreOf, Restoring
  <2> QED
    BY <1>0, <2>2, <2>3 DEF FullInv
<1>4. CASE Vanish
  <2>1. \A t \in Tasks : pc'[t] = "idle" /\ cfg'[t] = NoFile /\ old'[t] = NoFile
    BY <1>4 DEF Vanish, End
  <2> QED
    BY <1>0, <2>1 DEF FullInv, TxInv, TxOf, RestoreInv, RestoreOf, InFlight, Restoring
<1> QED
  BY <1>1, <1>2, <1>3, <1>4 DEF DeployerSide

LEMMA FullInit == ActivationInit => FullInv
<1> SUFFICES ASSUME ActivationInit PROVE FullInv
  OBVIOUS
<1>1. \A t \in Tasks : pc[t] = "idle" /\ cfg[t] = NoFile /\ old[t] = NoFile
  BY DEF ActivationInit, DeployerInit, TaskInit
<1> QED
  BY <1>1, BaseInit DEF BaseInv, FullInv, OrderInv, OrderOf, RestoreInv, RestoreOf, TxInv,
                        TxOf, InFlight, Restoring

\* A rollback never writes to the backup it restores from, although backups are
\* restored by hand and rows edited while the deploy sleeps.
THEOREM ActivationRollbackKeeps ==
  ASSUME ~FastFail
  PROVE  ActivationSpec => RollbackKeepsItsBackup
<1> DEFINE Keeps == \A t \in Tasks :
             Rollback(t) => bak[t] \in DOMAIN backups' /\ backups'[bak[t]] = backups[bak[t]]
<1>1. BaseInv /\ OrderInv => Keeps
  <2> SUFFICES ASSUME BaseInv, OrderInv, NEW t \in Tasks, Rollback(t)
               PROVE  bak[t] \in DOMAIN backups' /\ backups'[bak[t]] = backups[bak[t]]
    OBVIOUS
  <2>1. HostTypeOK /\ bak[t] \in Nat
    BY DEF BaseInv, ExclusiveInv, TypeOK, TaskTypeOK
  <2>2. pc[t] = "rollback" /\ \E ok \in BOOLEAN : HelperRestore(bak[t], ok)
    BY DEF Rollback, At
  <2>3. bak[t] \in DOMAIN backups \ {now}
    BY <2>1, <2>2 DEF OrderInv, OrderOf, InFlight, HostTypeOK, Seconds
  <2> QED
    BY <2>1, <2>2, <2>3, HelperRestoreKeeps
<1>2. ActivationInit => BaseInv /\ OrderInv
  BY BaseInit, FullInit DEF FullInv
<1>3. BaseInv /\ OrderInv /\ [ActivationNext]_activationVars => (BaseInv /\ OrderInv)'
  BY BaseStep, StepOfDeployer, OrderSide DEF BaseInv
<1> QED
  BY <1>1, <1>2, <1>3, PTL DEF ActivationSpec, RollbackKeepsItsBackup

\* The deployer's answers stay true in the composed system: deploys exclude each
\* other, and "rolled back to previous config" is said of that config.
THEOREM ActivationDeploysSound ==
  ASSUME ~FastFail, RestoresWait
  PROVE  ActivationSpec => [](PipelineExclusive /\ RolledBackMeansPrevious)
<1>1. DataInv /\ FullInv => PipelineExclusive /\ RolledBackMeansPrevious
  BY DEF FullInv, ExclusiveInv, TxInv, TxOf, RolledBackMeansPrevious
<1>2. DataInv /\ FullInv /\ [ActivationNext]_activationVars => (DataInv /\ FullInv)'
  BY BaseStep, StepOfDeployer, FullSide DEF BaseInv, FullInv
<1>3. ActivationInit => DataInv /\ FullInv
  BY BaseInit, FullInit DEF BaseInv
<1> QED
  BY <1>1, <1>2, <1>3, PTL DEF ActivationSpec

\* Seen from the config file, whoever goes on to a second commit has its answer
\* and has not delivered it.
LEMMA PromiseSide ==
  ASSUME ~FastFail, RestoresWait, FullInv, DeployerSide
  PROVE  Promise!PromiseNext \/ (UNCHANGED <<config, cfg, old>> /\ Phases' = Phases)
<1>1. CASE [DeployerNext]_deployerVars
  BY <1>1, PromiseStep
<1>2. ASSUME NEW t \in Tasks, Linger(t)
      PROVE  UNCHANGED <<config, cfg, old>> /\ Phases' = Phases
  <2>1. /\ UNCHANGED <<config, cfg, old, result>>
        /\ pc[t] = "finish" /\ pc'[t] = "saving"
        /\ \A u \in Tasks \ {t} : pc'[u] = pc[u]
    BY <1>2 DEF Linger, At, Goto, hostVars, FullInv, ExclusiveInv, TypeOK, TaskTypeOK
  <2>2. \A u \in Tasks : PhaseOf(u)' = PhaseOf(u)
    BY <2>1 DEF PhaseOf
  <2> QED
    BY <2>1, <2>2 DEF Phases
<1>3. ASSUME NEW t \in Tasks, Leave(t) PROVE Promise!PromiseNext
  <2>1. Phases' = [u \in Tasks |-> IF u \in {t} THEN "idle" ELSE Phases[u]]
    BY <1>3 DEF Leave, End, Phases, PhaseOf
  <2>2. Phases[t] \in Promise!Answers
    BY <1>3 DEF Leave, At, Phases, PhaseOf, Promise!Answers
  <2>3. Promise!Deliver(t)
    BY <1>3, <2>1, <2>2 DEF Leave, End, Promise!Deliver, Promise!Forget, Phases, hostVars
  <2> QED
    BY <2>3 DEF Promise!PromiseNext
<1>4. CASE Vanish
  <2>1. Phases' = [u \in Tasks |-> IF u \in Tasks THEN "idle" ELSE Phases[u]]
    BY <1>4 DEF Vanish, End, Phases, PhaseOf
  <2>2. Promise!Forget(Tasks)
    BY <1>4, <2>1 DEF Vanish, End, Promise!Forget, Phases, hostVars
  <2> QED
    BY <2>2 DEF Promise!PromiseNext
<1> QED
  BY <1>1, <1>2, <1>3, <1>4 DEF DeployerSide

\* Activations, with their rows, second commits, edits and crashes between two
\* commits, implement the transaction of DeployPromise: what the panel does
\* around a deploy never touches the config file.
THEOREM ActivationImplementsPromise ==
  ASSUME ~FastFail, RestoresWait
  PROVE  ActivationSpec => ImplementsPromise
<1>1. ActivationInit => Promise!PromiseInit
  BY DEF ActivationInit, DeployerInit, HostInit, TaskInit, Promise!PromiseInit, PhaseOf
<1>2. DataInv /\ FullInv /\ [ActivationNext]_activationVars
        => [Promise!PromiseNext]_(Promise!promiseVars)
  BY StepOfDeployer, PromiseSide DEF Promise!promiseVars, Phases
<1>3. DataInv /\ FullInv /\ [ActivationNext]_activationVars => (DataInv /\ FullInv)'
  BY BaseStep, StepOfDeployer, FullSide DEF BaseInv, FullInv
<1>4. ActivationInit => DataInv /\ FullInv
  BY BaseInit, FullInit DEF BaseInv
<1> QED
  BY <1>1, <1>2, <1>3, <1>4, PTL DEF ActivationSpec, ImplementsPromise, Promise!PromiseSpec

\* The rows marked active describe this config file.
MatchesConfig(c) ==
  /\ \A n \in activeNodes : c \in Configs /\ c.tag = nodes[n]
  /\ activeNodes # {} =>
       \A p \in activeProfiles : c = Generate(profiles[p].tag, profiles[p].preset)

NoTorn == config # Torn /\ \A s \in DOMAIN backups : backups[s] # Torn

\* The rows a deploy has loaded still say what its config was made from.
RowFits(t) ==
  /\ RowsFound(t)
  /\ cfg[t] \in Configs /\ cfg[t].tag = nodes[row[t].node]
  /\ row[t].profile # NoId =>
       cfg[t] = Generate(profiles[row[t].profile].tag, profiles[row[t].profile].preset)
RowsFit == \A t \in Tasks : pc[t] \in InPipeline \cup {"finish"} => RowFits(t)

\* Between the write and the commit that follows it, file and flags differ.
Changing(t) == pc[t] \in InFlight \cup {"restarting", "restored"}
               \/ (pc[t] = "finish" /\ result[t].success)

\* While a deploy may still be rolled back, the flags describe the file of before.
Agreed ==
  /\ \A t \in Tasks : pc[t] \in InFlight => MatchesConfig(old[t])
  /\ (\A t \in Tasks : ~Changing(t)) => MatchesConfig(config)

AgreeInv ==
  /\ NoTorn
  /\ RowsFit
  /\ \A t \in Tasks : pc[t] \in InFlight /\ bak[t] = NoName => old[t] = NoFile
  /\ \A t \in Tasks : pc[t] = "finish" /\ result[t].success
                        => \A u \in Tasks \ {t} : pc[u] = "idle"
  /\ interrupted \in BOOLEAN
  /\ interrupted \/ Agreed

\* The files hold whole configs, whatever the helper is asked to do.
LEMMA TornTask ==
  ASSUME ~HelperFaults, TypeOK, NoTorn, RowsFit, NEW t \in Tasks, TaskStep(t)
  PROVE  NoTorn'
<1>1. ASSUME backups' = BackedUp, config' # Torn PROVE NoTorn'
  BY <1>1 DEF BackedUp, WithBackup, NoTorn
<1>2. ASSUME UNCHANGED <<config, backups>> PROVE NoTorn'
  BY <1>2 DEF NoTorn
<1>3. CASE Deploy(t)
  <2>1. config' = cfg[t] /\ backups' = BackedUp
    BY <1>3, DeployWritten DEF Deploy
  <2>2. cfg[t] \in Configs
    BY <1>3 DEF Deploy, At, RowsFit, RowFits, InPipeline
  <2> QED
    BY <1>1, <2>1, <2>2, HostAssumption
<1>4. CASE Rollback(t) \/ Restore(t)
  <2>1. PICK ok \in BOOLEAN : HelperRestore(bak[t], ok)
    BY <1>4 DEF Rollback, Restore
  <2>2. CASE ~ok
    BY <1>2, <2>1, <2>2, RestoreRefused
  <2>3. CASE ok
    <3>1. backups' = BackedUp /\ config' = BackedUp[bak[t]] /\ bak[t] \in DOMAIN backups
      BY <2>1, <2>3 DEF HelperRestore
    <3>2. BackedUp[bak[t]] # Torn
      BY <3>1 DEF BackedUp, WithBackup, NoTorn
    <3> QED
      BY <1>1, <3>1, <3>2
  <2> QED
    BY <2>2, <2>3
<1>5. CASE Validate(t) \/ Restart(t) \/ HealthCheck(t) \/ Wake(t) \/ RollbackRestart(t)
           \/ RestoreRestart(t)
  BY <1>2, <1>5 DEF Validate, Restart, HealthCheck, Wake, RollbackRestart, RestoreRestart, hostVars
<1> QED
  BY <1>3, <1>4, <1>5 DEF TaskStep, PipelineStep

\* Edits leave what the flags and the loaded rows say as it is.
LEMMA EditAgrees ==
  ASSUME DeletesWait, FlagsInv, DataInv, RowsFit, Edit, NEW c \in Contents \cup {NoFile}
  PROVE  /\ RowsFit'
         /\ MatchesConfig(c) => MatchesConfig(c)'
<1>0. UNCHANGED <<pc, row, cfg>>
  BY DEF Edit, deployerVars, taskVars, sessionVars
<1>1. ASSUME NEW tag \in Tags, AddNode(tag)
      PROVE  RowsFit' /\ (MatchesConfig(c) => MatchesConfig(c)')
  <2>1. /\ DOMAIN nodes \subseteq DOMAIN nodes' /\ \A i \in DOMAIN nodes : nodes'[i] = nodes[i]
        /\ UNCHANGED <<profiles, activeNodes, activeProfiles>>
    BY <1>1, InsertKeeps, InsertKeepsRows DEF AddNode
  <2>2. RowsFit'
    BY <1>0, <2>1 DEF RowsFit, RowFits, RowsFound
  <2>3. MatchesConfig(c) => MatchesConfig(c)'
    BY <2>1 DEF MatchesConfig, FlagsInv
  <2> QED
    BY <2>2, <2>3
<1>2. ASSUME NEW r \in ProfileRows, CreateProfile(r)
      PROVE  RowsFit' /\ (MatchesConfig(c) => MatchesConfig(c)')
  <2>1. /\ DOMAIN profiles \subseteq DOMAIN profiles'
        /\ \A i \in DOMAIN profiles : profiles'[i] = profiles[i]
        /\ UNCHANGED <<nodes, activeNodes, activeProfiles>>
    BY <1>2, InsertKeeps, InsertKeepsRows DEF CreateProfile
  <2>2. RowsFit'
    BY <1>0, <2>1 DEF RowsFit, RowFits, RowsFound
  <2>3. MatchesConfig(c) => MatchesConfig(c)'
    BY <2>1 DEF MatchesConfig, FlagsInv
  <2> QED
    BY <2>2, <2>3
<1>3. ASSUME Edits \cap {"delete_node", "delete_profile"} # {} PROVE RowsFit'
  <2>1. \A t \in Tasks : pc[t] = "idle"
    BY <1>3 DEF Edit, Free, DeletesWait
  <2> QED
    BY <1>0, <2>1 DEF RowsFit, InPipeline
<1>4. ASSUME NEW id \in DOMAIN nodes, DeleteNode(id)
      PROVE  RowsFit' /\ (MatchesConfig(c) => MatchesConfig(c)')
  BY <1>3, <1>4 DEF DeleteNode, Delete, MatchesConfig, FlagsInv
<1>5. ASSUME NEW p \in DOMAIN profiles, DeleteProfile(p)
      PROVE  RowsFit' /\ (MatchesConfig(c) => MatchesConfig(c)')
  BY <1>3, <1>5 DEF DeleteProfile, Delete, MatchesConfig, FlagsInv
<1>6. ASSUME NEW preset \in Presets, SaveSettings(preset)
      PROVE  RowsFit' /\ (MatchesConfig(c) => MatchesConfig(c)')
  BY <1>0, <1>6 DEF SaveSettings, RowsFit, RowFits, RowsFound, MatchesConfig
<1> QED
  BY <1>1, <1>2, <1>4, <1>5, <1>6 DEF Edit

\* Nothing is marked active beside a host without a config file.
LEMMA NothingMatches ==
  ASSUME MatchesConfig(NoFile)
  PROVE  activeNodes = {}
  BY HostAssumption DEF MatchesConfig

\* A step of the only request there is, from a state in which flags and file
\* agree or into one in which they need not.
LEMMA AgreedAlone ==
  ASSUME NEW t \in Tasks, \A u \in Tasks \ {t} : pc'[u] = "idle",
         pc'[t] \in InFlight => MatchesConfig(old[t])',
         ~Changing(t)' => MatchesConfig(config)'
  PROVE  Agreed'
  BY DEF Agreed, Changing, InFlight

LEMMA AgreedTask ==
  ASSUME ~HelperFaults, FullInv, AgreeInv, Agreed, NEW t \in Tasks, TaskStep(t),
         UNCHANGED <<dbVars, row>>
  PROVE  Agreed'
<1>a. /\ pc \in [Tasks -> PCs] /\ bak \in [Tasks -> Nat] /\ HostTypeOK
      /\ old \in [Tasks -> Contents \cup {NoFile}] /\ cfg \in [Tasks -> Configs \cup {NoFile}]
      /\ result \in [Tasks -> [success : BOOLEAN, stage : Stages,
                               rolled_back : BOOLEAN, backup : Nat]]
  BY DEF FullInv, ExclusiveInv, TypeOK, TaskTypeOK
<1>b. UNCHANGED <<nodes, profiles, activeNodes, activeProfiles>>
  BY DEF dbVars
<1>1. CASE Validate(t)
  <2>1. /\ UNCHANGED <<config, old>>
        /\ \A u \in Tasks \ {t} : pc'[u] = pc[u] /\ result'[u] = result[u]
        /\ ~Changing(t) /\ pc'[t] \notin InFlight
    BY <1>1, <1>a DEF Validate, hostVars, At, Goto, Return, Changing, InFlight
  <2> QED
    BY <1>b, <2>1 DEF Agreed, Changing, MatchesConfig
<1>2. CASE Deploy(t)
  <2>1. \A u \in Tasks \ {t} : pc[u] = "idle" /\ pc'[u] = "idle"
    BY <1>2, <1>a, AloneInPipeline DEF Deploy, At, Goto, Return, FullInv, InPipeline
  <2>2. pc'[t] = "restart" /\ old'[t] = config
    <3>1. PICK ok \in BOOLEAN, name \in {NoName, now} :
            HelperDeploy(cfg[t], ok, name) /\ (ok => Goto(t, "restart"))
      BY <1>2 DEF Deploy
    <3>2. ok
      BY <3>1, DeployWritten
    <3> QED
      BY <1>2, <1>a, <3>1, <3>2 DEF Deploy, Goto
  <2>3. \A u \in Tasks : ~Changing(u)
    BY <1>2, <2>1 DEF Deploy, At, Changing, InFlight
  <2>4. MatchesConfig(config)
    BY <2>3 DEF Agreed
  <2>5. MatchesConfig(old[t])'
    BY <1>b, <2>2, <2>4 DEF MatchesConfig
  <2> QED
    BY <2>1, <2>2, <2>5, AgreedAlone DEF Changing, InFlight
<1>3. CASE Restart(t) \/ HealthCheck(t) \/ Wake(t)
  <2>1. /\ UNCHANGED <<config, old>> /\ pc[t] \in InFlight
        /\ \A u \in Tasks \ {t} : pc'[u] = pc[u] /\ result'[u] = result[u]
        /\ \/ pc'[t] \in InFlight
           \/ pc'[t] = "finish" /\ result'[t].success
           \/ pc'[t] = "finish" /\ ~result'[t].success /\ bak[t] = NoName
    BY <1>3, <1>a DEF Restart, HealthCheck, Wake, hostVars, At, Goto, Return, FailStage, InFlight
  <2>2. \A u \in Tasks : pc'[u] \in InFlight => pc[u] \in InFlight
    BY <2>1
  <2>3. \A u \in Tasks : pc'[u] \in InFlight => MatchesConfig(old[u])'
    BY <1>b, <2>1, <2>2 DEF Agreed, MatchesConfig
  <2>4. ASSUME \A u \in Tasks : ~Changing(u)' PROVE MatchesConfig(config)'
    <3>1. old[t] = NoFile /\ MatchesConfig(old[t])
      BY <2>1, <2>4 DEF Changing, AgreeInv, Agreed
    <3>2. activeNodes = {}
      BY <3>1, NothingMatches
    <3> QED
      BY <1>b, <3>2 DEF MatchesConfig
  <2> QED
    BY <2>3, <2>4 DEF Agreed
<1>4. CASE Rollback(t)
  <2>1. \A u \in Tasks \ {t} : pc'[u] = "idle"
    BY <1>4, <1>a, AloneInPipeline DEF Rollback, At, Goto, Return, FullInv, InPipeline
  <2>2. /\ pc[t] = "rollback" /\ old' = old
        /\ bak[t] \in DOMAIN backups /\ bak[t] # now /\ backups[bak[t]] = old[t]
        /\ backups[bak[t]] # Torn
    BY <1>4, <1>a DEF Rollback, At, FullInv, OrderInv, OrderOf, TxInv, TxOf, AgreeInv, NoTorn,
                      InFlight, HostTypeOK, Seconds
  <2>3. PICK ok \in BOOLEAN :
          HelperRestore(bak[t], ok) /\ (ok => Goto(t, "rbrestart"))
    BY <1>4 DEF Rollback
  <2>4. ok
    BY <2>2, <2>3 DEF HelperRestore
  <2>5. config' = old[t] /\ pc'[t] = "rbrestart"
    BY <1>a, <2>2, <2>3, <2>4, HelperRestoreKeeps DEF Goto
  <2>6. MatchesConfig(old[t])
    BY <2>2 DEF Agreed, InFlight
  <2>7. MatchesConfig(config)'
    BY <1>b, <2>5, <2>6 DEF MatchesConfig
  <2> QED
    BY <2>1, <2>5, <2>7, AgreedAlone DEF InFlight
<1>5. CASE RollbackRestart(t)
  <2>1. \A u \in Tasks \ {t} : pc[u] = "idle" /\ pc'[u] = "idle"
    BY <1>5, <1>a, AloneInPipeline DEF RollbackRestart, At, Goto, Return, FullInv, InPipeline
  <2>2. config' = config /\ pc[t] = "rbrestart" /\ pc'[t] = "finish"
    BY <1>5, <1>a DEF RollbackRestart, At, Goto, Return
  <2>3. MatchesConfig(config)
    BY <2>1, <2>2 DEF Agreed, Changing, InFlight
  <2>4. MatchesConfig(config)'
    BY <1>b, <2>2, <2>3 DEF MatchesConfig
  <2> QED
    BY <2>1, <2>2, <2>4, AgreedAlone DEF InFlight
<1>6. CASE Restore(t) \/ RestoreRestart(t)
  <2>1. pc[t] \in {"restoring", "restarting"}
    BY <1>6 DEF Restore, RestoreRestart, At
  <2>2. \A u \in Tasks \ {t} : pc[u] = "idle" /\ pc'[u] = "idle"
    BY <1>6, <1>a, <2>1 DEF Restore, RestoreRestart, Goto, FullInv, RestoreInv, RestoreOf,
                            Restoring
  <2>3. CASE pc'[t] \in {"restarting", "restored"}
    BY <2>2, <2>3, AgreedAlone DEF Changing, InFlight
  <2>4. CASE pc'[t] \notin {"restarting", "restored"}
    <3>1. PICK ok \in BOOLEAN :
            HelperRestore(bak[t], ok) /\ Goto(t, IF ok THEN "restarting" ELSE "refused")
      BY <1>6, <1>a, <2>4 DEF Restore, RestoreRestart, Goto
    <3>2. ~ok /\ pc'[t] = "refused"
      BY <1>a, <2>4, <3>1 DEF Goto
    <3>3. config' = config
      BY <3>1, <3>2, RestoreRefused
    <3>4. pc[t] = "restoring"
      BY <1>6, <1>a, <3>2 DEF Restore, RestoreRestart, At, Goto
    <3>5. MatchesConfig(config)
      BY <2>2, <3>4 DEF Agreed, Changing, InFlight
    <3>6. MatchesConfig(config)'
      BY <1>b, <3>3, <3>5 DEF MatchesConfig
    <3> QED
      BY <2>2, <3>2, <3>6, AgreedAlone DEF InFlight
  <2> QED
    BY <2>3, <2>4
<1> QED
  BY <1>1, <1>2, <1>3, <1>4, <1>5, <1>6 DEF TaskStep, PipelineStep

\* The other parts of AgreeInv: a deploy that has no backup found no file, and
\* one that has succeeded is alone.
BareOf(t) == pc[t] \in InFlight /\ bak[t] = NoName => old[t] = NoFile
AloneOf(t) == pc[t] = "finish" /\ result[t].success => \A u \in Tasks \ {t} : pc[u] = "idle"

LEMMA AgreeTask ==
  ASSUME ~HelperFaults, FullInv, AgreeInv, NEW t \in Tasks, TaskStep(t),
         UNCHANGED <<dbVars, row, interrupted>>
  PROVE  AgreeInv'
<1>a. /\ pc \in [Tasks -> PCs] /\ bak \in [Tasks -> Nat] /\ HostTypeOK
      /\ old \in [Tasks -> Contents \cup {NoFile}]
      /\ result \in [Tasks -> [success : BOOLEAN, stage : Stages,
                               rolled_back : BOOLEAN, backup : Nat]]
      /\ TypeOK
  BY DEF FullInv, ExclusiveInv, TypeOK, TaskTypeOK
<1>1. NoTorn'
  BY <1>a, TornTask DEF AgreeInv
<1>2. RowsFit'
  <2>1. /\ UNCHANGED <<cfg, row, nodes, profiles>>
        /\ \A u \in Tasks \ {t} : pc'[u] = pc[u]
        /\ pc'[t] \in InPipeline \cup {"finish"} => pc[t] \in InPipeline \cup {"finish"}
    BY <1>a DEF TaskStep, PipelineStep, Validate, Deploy, Restart, HealthCheck, Wake,
                Rollback, RollbackRestart, Restore, RestoreRestart, Return, FailStage,
                At, Goto, InPipeline, dbVars
  <2> QED
    BY <2>1 DEF AgreeInv, RowsFit, RowFits, RowsFound
<1>3. \A u \in Tasks : BareOf(u)'
  <2>1. CASE Deploy(t)
    <3>1. \A u \in Tasks \ {t} : pc'[u] = "idle"
      BY <2>1, <1>a, AloneInPipeline DEF Deploy, At, Goto, Return, FullInv, InPipeline
    <3>2. PICK ok \in BOOLEAN, name \in {NoName, now} :
            HelperDeploy(cfg[t], ok, name) /\ bak' = [bak EXCEPT ![t] = name]
      BY <2>1 DEF Deploy
    <3>3. bak'[t] = BackupName /\ old'[t] = config
      BY <2>1, <1>a, <3>2, DeployWritten DEF Deploy
    <3>4. BackupName = NoName => config = NoFile
      BY <1>a DEF BackupName, HostTypeOK, Seconds
    <3> QED
      BY <3>1, <3>3, <3>4 DEF BareOf, InFlight
  <2>2. CASE ~Deploy(t)
    <3>1. /\ UNCHANGED <<bak, old>> /\ \A u \in Tasks \ {t} : pc'[u] = pc[u]
          /\ pc'[t] \in InFlight => pc[t] \in InFlight
      BY <2>2, <1>a DEF TaskStep, PipelineStep, Validate, Restart, HealthCheck, Wake,
                Rollback, RollbackRestart, Restore, RestoreRestart, Return, FailStage,
                At, Goto, InFlight
    <3> QED
      BY <3>1 DEF AgreeInv, BareOf
  <2> QED
    BY <2>1, <2>2
<1>4. \A u \in Tasks : AloneOf(u)'
  <2>1. /\ \A u \in Tasks \ {t} : pc'[u] = pc[u] /\ result'[u] = result[u]
        /\ pc[t] \notin {"idle", "finish"}
    BY <1>a DEF TaskStep, PipelineStep, Validate, Deploy, Restart, HealthCheck, Wake,
                Rollback, RollbackRestart, Restore, RestoreRestart, Return, FailStage,
                At, Goto
  <2>2. ASSUME pc'[t] = "finish", result'[t].success PROVE pc[t] = "health" /\ loop = t
    BY <2>2, <1>a DEF TaskStep, PipelineStep, Validate, Deploy, Restart, HealthCheck, Wake,
                Rollback, RollbackRestart, Restore, RestoreRestart, Return, FailStage,
                At, Goto, NoResult
  <2>3. AloneOf(t)'
    BY <2>1, <2>2, AloneInPipeline DEF AloneOf, FullInv, InPipeline
  <2>4. ASSUME NEW u \in Tasks \ {t} PROVE AloneOf(u)'
    BY <2>1 DEF AgreeInv, AloneOf
  <2> QED
    BY <2>3, <2>4
<1>5. interrupted' \in BOOLEAN /\ (interrupted' \/ Agreed')
  <2>1. Agreed => Agreed'
    BY AgreedTask
  <2> QED
    BY <2>1 DEF AgreeInv
<1> QED
  BY <1>1, <1>2, <1>3, <1>4, <1>5, Zenon DEF AgreeInv, BareOf, AloneOf

\* A request that begins, or that ends without a word on the flags, while the
\* files stay as they are.
LEMMA AgreeQuiet ==
  ASSUME FullInv, AgreeInv, NEW t \in Tasks, loop \in {t, None},
         UNCHANGED <<config, backups, nodes, profiles, activeNodes, activeProfiles>>,
         \A u \in Tasks \ {t} : /\ pc'[u] = pc[u] /\ result'[u] = result[u]
                                /\ bak'[u] = bak[u] /\ old'[u] = old[u]
                                /\ cfg'[u] = cfg[u] /\ row'[u] = row[u],
         ~Changing(t), ~Changing(t)',
         pc'[t] \in InPipeline \cup {"finish"} => RowFits(t)',
         interrupted' \in BOOLEAN, interrupted => interrupted'
  PROVE  AgreeInv'
<1>1. NoTorn'
  BY DEF AgreeInv, NoTorn
<1>2. RowsFit'
  BY DEF AgreeInv, RowsFit, RowFits, RowsFound
<1>3. \A u \in Tasks : BareOf(u)'
  BY DEF AgreeInv, BareOf, Changing
<1>4. \A u \in Tasks : AloneOf(u)'
  <2>1. \A u \in Tasks \ {t} : pc[u] # "finish"
    BY DeployerAssumption DEF FullInv, ExclusiveInv, LoopInv
  <2> QED
    BY <2>1 DEF AloneOf, Changing
<1>5. Agreed => Agreed'
  <2>1. \A u \in Tasks : pc'[u] \in InFlight => pc[u] \in InFlight /\ old'[u] = old[u]
    BY DEF Changing
  <2>2. \A u \in Tasks : Changing(u)' <=> Changing(u)
    BY DEF Changing
  <2> QED
    BY <2>1, <2>2 DEF Agreed, MatchesConfig
<1>6. interrupted' \/ Agreed'
  BY <1>5, Zenon DEF AgreeInv
<1> QED
  BY <1>1, <1>2, <1>3, <1>4, <1>6, Zenon DEF AgreeInv, BareOf, AloneOf

\* Once every request is gone only the flags and the file are left to compare.
LEMMA AgreeRest ==
  ASSUME NoTorn', \A u \in Tasks : pc'[u] \in {"idle", "saving"},
         interrupted' \in BOOLEAN, interrupted' \/ MatchesConfig(config)'
  PROVE  AgreeInv'
<1>1. /\ RowsFit'
      /\ \A u \in Tasks : BareOf(u)' /\ AloneOf(u)' /\ ~(pc'[u] \in InFlight)
  BY DEF RowsFit, BareOf, AloneOf, InPipeline, InFlight
<1>2. MatchesConfig(config)' => Agreed'
  BY <1>1 DEF Agreed
<1>3. interrupted' \/ Agreed'
  BY <1>2, Zenon
<1> QED
  BY <1>1, <1>3, Zenon DEF AgreeInv, BareOf, AloneOf

LEMMA AgreeRecord ==
  ASSUME FullInv, AgreeInv, DataInv, NEW t \in Tasks, Record(t)
  PROVE  AgreeInv'
<1>a. /\ pc \in [Tasks -> PCs]
      /\ result \in [Tasks -> [success : BOOLEAN, stage : Stages,
                               rolled_back : BOOLEAN, backup : Nat]]
  BY DEF FullInv, ExclusiveInv, TypeOK, TaskTypeOK
<1>b. pc[t] = "finish" /\ loop = t /\ UNCHANGED <<config, backups, nodes, profiles>>
  BY DEF Record, At, hostVars
<1>c. RowsFound(t) /\ RowFits(t)
  BY <1>b DEF AgreeInv, RowsFit, RowFits
<1>d. interrupted' = (interrupted /\ ~(result[t].success /\ RowsFound(t)))
  BY DEF Record
<1>1. CASE result[t].success
  <2>1. \A u \in Tasks : pc'[u] \in {"idle", "saving"}
    BY <1>1, <1>a, <1>b DEF Record, Goto, End, AgreeInv
  <2>2. Flags(t)
    BY <1>1, <1>c DEF Record
  <2>3. config = cfg[t]
    BY <1>1, <1>b DEF FullInv, TxInv, TxOf
  <2>4. MatchesConfig(config)'
    BY <1>b, <1>c, <2>2, <2>3 DEF Flags, RowFits, MatchesConfig
  <2>5. NoTorn'
    BY <1>b DEF AgreeInv, NoTorn
  <2>6. interrupted' \in BOOLEAN
    BY <1>d
  <2> QED
    BY <2>1, <2>4, <2>5, <2>6, AgreeRest
<1>2. CASE ~result[t].success
  <2>1. UNCHANGED <<activeNodes, activeProfiles>>
    BY <1>2 DEF Record
  <2>2. interrupted' = interrupted /\ interrupted' \in BOOLEAN
    BY <1>2, <1>d DEF AgreeInv
  <2>3. pc'[t] = "idle" /\ \A u \in Tasks \ {t} :
                               /\ pc'[u] = pc[u] /\ result'[u] = result[u]
                               /\ bak'[u] = bak[u] /\ old'[u] = old[u]
                               /\ cfg'[u] = cfg[u] /\ row'[u] = row[u]
    BY <1>2 DEF Record, End, DataInv
  <2>4. ~Changing(t) /\ ~Changing(t)'
    BY <1>2, <1>b, <2>3 DEF Changing, InFlight
  <2> QED
    BY <1>b, <2>1, <2>2, <2>3, <2>4, AgreeQuiet DEF InPipeline
<1> QED
  BY <1>1, <1>2

LEMMA AgreeStep ==
  ASSUME ~HelperFaults, DeletesWait, FlagsInv, DataInv, FullInv, AgreeInv,
         [ActivationNext]_activationVars
  PROVE  AgreeInv'
<1>a. /\ pc \in [Tasks -> PCs]
      /\ result \in [Tasks -> [success : BOOLEAN, stage : Stages,
                               rolled_back : BOOLEAN, backup : Nat]]
      /\ cfg \in [Tasks -> Configs \cup {NoFile}] /\ bak \in [Tasks -> Nat]
  BY DEF FullInv, ExclusiveInv, TypeOK, TaskTypeOK
<1>b. interrupted \in BOOLEAN
  BY DEF AgreeInv
<1>1. CASE Activate
  <2>1. PICK t \in Tasks : \/ \E id \in DOMAIN nodes : ActivateNode(t, id)
                           \/ \E p \in DOMAIN profiles : ActivateProfile(t, p)
    BY <1>1 DEF Activate
  <2>2. RowFits(t)'
    <3>1. ASSUME NEW id \in DOMAIN nodes, ActivateNode(t, id) PROVE RowFits(t)'
      <4>1. Generate(nodes[id], settings) \in Configs /\ UNCHANGED <<nodes, profiles>>
        BY <3>1, ActivationAssumption DEF DataInv, ActivateNode, dbVars
      <4>2. /\ cfg'[t] = Generate(nodes[id], settings)
            /\ row'[t] = [node |-> id, tag |-> nodes[id], profile |-> NoId]
        BY <3>1, <1>a DEF ActivateNode, BeginDeploy, DataInv
      <4> QED
        BY <4>1, <4>2 DEF RowFits, RowsFound, Generate
    <3>2. ASSUME NEW p \in DOMAIN profiles, ActivateProfile(t, p) PROVE RowFits(t)'
      <4>1. PICK id \in DOMAIN nodes :
              /\ nodes[id] = profiles[p].tag
              /\ BeginDeploy(t, Generate(nodes[id], profiles[p].preset))
              /\ row' = [row EXCEPT ![t] = [node |-> id, tag |-> nodes[id], profile |-> p]]
        BY <3>2 DEF ActivateProfile
      <4>2. Generate(nodes[id], profiles[p].preset) \in Configs /\ UNCHANGED <<nodes, profiles>>
        BY <3>2, ActivationAssumption DEF DataInv, ProfileRows, ActivateProfile, dbVars
      <4>3. /\ cfg'[t] = Generate(nodes[id], profiles[p].preset)
            /\ row'[t] = [node |-> id, tag |-> nodes[id], profile |-> p]
        BY <4>1, <1>a DEF BeginDeploy, DataInv
      <4> QED
        BY <4>1, <4>2, <4>3 DEF RowFits, RowsFound, Generate
    <3> QED
      BY <2>1, <3>1, <3>2
  <2>3. /\ loop = None /\ pc[t] = "idle"
        /\ pc'[t] = "validate" \/ (pc'[t] = "finish" /\ ~result'[t].success)
        /\ \A u \in Tasks \ {t} : /\ pc'[u] = pc[u] /\ result'[u] = result[u]
                                  /\ bak'[u] = bak[u] /\ old'[u] = old[u]
                                  /\ cfg'[u] = cfg[u] /\ row'[u] = row[u]
    BY <2>1, <1>a DEF ActivateNode, ActivateProfile, BeginDeploy, Goto, NoResult, DataInv
  <2>4. UNCHANGED <<config, backups, nodes, profiles, activeNodes, activeProfiles, interrupted>>
    BY <2>1 DEF ActivateNode, ActivateProfile, BeginDeploy, dbVars, hostVars
  <2>5. ~Changing(t) /\ ~Changing(t)'
    BY <2>3 DEF Changing, InFlight
  <2> QED
    BY <1>b, <2>2, <2>3, <2>4, <2>5, AgreeQuiet
<1>2. ASSUME NEW t \in Tasks, Record(t) PROVE AgreeInv'
  BY <1>2, AgreeRecord
<1>3. ASSUME NEW t \in Tasks, SavePresets(t) PROVE AgreeInv'
  <2>1. /\ pc[t] = "saving" /\ pc'[t] = "idle" /\ loop = t
        /\ \A u \in Tasks \ {t} : /\ pc'[u] = pc[u] /\ result'[u] = result[u]
                                  /\ bak'[u] = bak[u] /\ old'[u] = old[u]
                                  /\ cfg'[u] = cfg[u] /\ row'[u] = row[u]
        /\ UNCHANGED <<config, backups, nodes, profiles, activeNodes, activeProfiles, interrupted>>
    BY <1>3 DEF SavePresets, At, End, hostVars, DataInv
  <2> QED
    BY <1>b, <2>1, AgreeQuiet DEF Changing, InFlight, InPipeline
<1>4. ASSUME NEW t \in Tasks, RestoreDone(t) PROVE AgreeInv'
  <2>1. /\ pc[t] \in {"restored", "refused"} /\ pc'[t] = "idle" /\ loop = t
        /\ \A u \in Tasks \ {t} : /\ pc'[u] = pc[u] /\ result'[u] = result[u]
                                  /\ bak'[u] = bak[u] /\ old'[u] = old[u]
                                  /\ cfg'[u] = cfg[u] /\ row'[u] = row[u]
        /\ UNCHANGED <<config, backups, nodes, profiles, activeProfiles, interrupted>>
    BY <1>4 DEF RestoreDone, End, hostVars, sessionVars, DataInv
  <2>2. CASE pc[t] = "refused"
    <3>1. UNCHANGED activeNodes
      BY <1>4, <2>2 DEF RestoreDone
    <3> QED
      BY <1>b, <2>1, <2>2, <3>1, AgreeQuiet DEF Changing, InFlight, InPipeline
  <2>3. CASE pc[t] = "restored"
    <3>1. \A u \in Tasks : pc'[u] = "idle"
      BY <2>1, <2>3 DEF FullInv, RestoreInv, RestoreOf, Restoring
    <3>2. MatchesConfig(config)'
      BY <1>4, <2>3 DEF RestoreDone, MatchesConfig
    <3>3. NoTorn'
      BY <2>1 DEF AgreeInv, NoTorn
    <3> QED
      BY <1>b, <2>1, <3>1, <3>2, <3>3, AgreeRest
  <2> QED
    BY <2>1, <2>2, <2>3
<1>5. CASE HostSide
  <2>1. UNCHANGED <<dbVars, row, interrupted>>
    BY <1>5 DEF HostSide, sessionVars
  <2>2. ASSUME NEW t \in Tasks, TaskStep(t) PROVE AgreeInv'
    BY <2>1, <2>2, AgreeTask
  <2>3. ASSUME NEW t \in Tasks, NEW name \in DOMAIN backups, BeginRestore(t, name)
        PROVE  AgreeInv'
    <3>1. /\ pc[t] = "idle" /\ pc'[t] = "restoring" /\ loop = None
          /\ \A u \in Tasks \ {t} : /\ pc'[u] = pc[u] /\ result'[u] = result[u]
                                    /\ bak'[u] = bak[u] /\ old'[u] = old[u]
                                    /\ cfg'[u] = cfg[u] /\ row'[u] = row[u]
          /\ UNCHANGED <<config, backups>>
      BY <2>1, <2>3, <1>a DEF BeginRestore, Goto, hostVars
    <3> QED
      BY <1>b, <2>1, <3>1, AgreeQuiet DEF Changing, InFlight, InPipeline, dbVars
  <2>4. CASE ServiceAction \/ (HostStep /\ UNCHANGED taskVars)
    <3>1. UNCHANGED <<config, backups, taskVars>>
      BY <2>4 DEF ServiceAction, HostStep, ServiceCrash, AutoRestart, Tick
    <3> QED
      BY <2>1, <3>1 DEF taskVars, dbVars, AgreeInv, NoTorn, RowsFit, RowFits, RowsFound,
                        Agreed, Changing, MatchesConfig
  <2> QED
    BY <1>5, <2>2, <2>3, <2>4 DEF HostSide
<1>6. CASE Edit
  <2>1. UNCHANGED <<config, backups, pc, cfg, bak, old, result, interrupted>>
    BY <1>6 DEF Edit, deployerVars, hostVars, taskVars, sessionVars
  <2>2. /\ config \in Contents \cup {NoFile}
        /\ \A t \in Tasks : old[t] \in Contents \cup {NoFile}
    BY DEF FullInv, ExclusiveInv, TypeOK, HostTypeOK, TaskTypeOK
  <2>3. RowsFit'
    BY <1>6, <2>2, EditAgrees DEF AgreeInv
  <2>4. MatchesConfig(config) => MatchesConfig(config)'
    <3>1. PICK c \in Contents \cup {NoFile} : c = config
      BY <2>2
    <3>2. MatchesConfig(c) => MatchesConfig(c)'
      BY <1>6, EditAgrees DEF AgreeInv
    <3> QED
      BY <2>1, <3>1, <3>2 DEF MatchesConfig
  <2>5. \A t \in Tasks : MatchesConfig(old[t]) => MatchesConfig(old[t])'
    <3> SUFFICES ASSUME NEW t \in Tasks PROVE MatchesConfig(old[t]) => MatchesConfig(old[t])'
      OBVIOUS
    <3>1. PICK c \in Contents \cup {NoFile} : c = old[t]
      BY <2>2
    <3>2. MatchesConfig(c) => MatchesConfig(c)'
      BY <1>6, EditAgrees DEF AgreeInv
    <3> QED
      BY <2>1, <3>1, <3>2 DEF MatchesConfig
  <2>6. Agreed => Agreed'
    BY <2>1, <2>4, <2>5 DEF Agreed, Changing
  <2>7. interrupted' \/ Agreed'
    BY <2>1, <2>6, Zenon DEF AgreeInv
  <2> QED
    BY <1>b, <2>1, <2>3, <2>7 DEF AgreeInv, NoTorn
<1>7. CASE Die \/ DieSaving
  <2>1. interrupted' = TRUE
    BY <1>7, <1>b DEF Die, Crash, DieSaving
  <2>2. \A t \in Tasks : pc'[t] = "idle"
    BY <1>7 DEF Die, Crash, DieSaving, End
  <2>3. NoTorn'
    BY <1>7 DEF Die, Crash, DieSaving, hostVars, AgreeInv, NoTorn
  <2> QED
    BY <2>1, <2>2, <2>3, AgreeRest
<1>8. CASE UNCHANGED activationVars
  BY <1>8 DEF activationVars, deployerVars, hostVars, taskVars, dbVars, sessionVars, AgreeInv,
              NoTorn, RowsFit, RowFits, RowsFound, Agreed, Changing, MatchesConfig
<1> QED
  BY <1>1, <1>2, <1>3, <1>4, <1>5, <1>6, <1>7, <1>8 DEF ActivationNext

\* At rest the node marked active is the one the config file was made for, and
\* the profile beside it the one it was made with, if helper calls are not lost,
\* restarts fail slowly, and restores and deletions wait for deploys; after a
\* crash in a request, again from the next activation that succeeds.
THEOREM FlagsMatchHost ==
  ASSUME ~HelperFaults, ~FastFail, RestoresWait, DeletesWait
  PROVE  ActivationSpec => []ActiveFlagsMatchHost
<1> DEFINE Inv == FlagsInv /\ DataInv /\ FullInv /\ AgreeInv
<1>1. ActivationInit => Inv
  <2> SUFFICES ASSUME ActivationInit PROVE Inv
    OBVIOUS
  <2>1. FlagsInv /\ DataInv /\ FullInv
    BY BaseInit, FullInit DEF ActivationInit, FlagsInv, BaseInv
  <2>2. NoTorn
    BY HostAssumption DEF ActivationInit, DeployerInit, HostInit, NoTorn
  <2>3. \A t \in Tasks : pc[t] = "idle"
    BY DEF ActivationInit, DeployerInit, TaskInit
  <2>4. RowsFit /\ Agreed
    BY <2>3 DEF ActivationInit, RowsFit, Agreed, MatchesConfig, InPipeline, InFlight
  <2>5. interrupted \in BOOLEAN
    BY DEF ActivationInit
  <2>6. \A t \in Tasks : BareOf(t) /\ AloneOf(t)
    BY <2>3 DEF BareOf, AloneOf, InFlight
  <2> QED
    BY <2>1, <2>2, <2>4, <2>5, <2>6, Zenon DEF AgreeInv, BareOf, AloneOf
<1>2. Inv /\ [ActivationNext]_activationVars => Inv'
  <2> SUFFICES ASSUME Inv, [ActivationNext]_activationVars PROVE Inv'
    OBVIOUS
  <2>1. DOMAIN pc = Tasks
    BY DEF FullInv, ExclusiveInv, TypeOK, TaskTypeOK
  <2>2. FlagsInv' /\ DataInv' /\ FullInv'
    BY <2>1, FlagsStep, DataStep, StepOfDeployer, FullSide
  <2>3. AgreeInv'
    BY AgreeStep
  <2> QED
    BY <2>2, <2>3
<1>3. Inv => ActiveFlagsMatchHost
  <2> SUFFICES ASSUME Inv, Idle, ~interrupted PROVE MatchesConfig(config)
    BY DEF ActiveFlagsMatchHost, MatchesConfig
  <2>1. Agreed
    BY DEF AgreeInv
  <2> QED
    BY <2>1 DEF Agreed, Idle, Changing, InFlight
<1> QED
  BY <1>1, <1>2, <1>3, PTL DEF ActivationSpec

=============================================================================
