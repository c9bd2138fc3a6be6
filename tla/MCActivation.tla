---------------------------- MODULE MCActivation ----------------------------
(* Model-checking instances of Activation: the configs are what its nodes
   and presets generate; tasks are interchangeable, and so are tags. *)
EXTENDS Activation, TLC

MCConfigs == {Generate(tag, preset) : tag \in Tags, preset \in Presets}
MCSymmetry == Permutations(Tasks) \cup Permutations(Tags)

\* No step reads the deploy_log row, nor does any property of the runs: states
\* that differ in it alone behave alike
NoAuditRow ==
  <<hostVars, taskVars, nodes, activeNodes, profiles, activeProfiles, settings, row,
    interrupted>>

=============================================================================
