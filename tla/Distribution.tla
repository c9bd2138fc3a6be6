---------------------------- MODULE Distribution ----------------------------
(***************************************************************************)
(* Handing configs to managed Telegram users: config groups, the users     *)
(* assigned to them, the delivery log with its refresh limit, and the      *)
(* notification of a group's members when its config changes               *)
(* (app/services/users.py, app/services/distribution.py and the            *)
(* UserCommandHandler of app/telegram/handlers.py).                        *)
(*                                                                         *)
(* Every handler runs to its end without giving up the event loop, except  *)
(* update_group: after its commit it awaits one Telegram call per member.  *)
(***************************************************************************)
EXTENDS Integers, Sequences, FiniteSetsExt

CONSTANTS
  Users,      \* telegram ids
  Tags,       \* node tags
  Urls,       \* proxy links of the nodes
  Routes,     \* client route presets
  Limits,     \* refresh limits the forms set; 0: no limit set
  Default,    \* DEFAULT_REFRESH_LIMIT_PER_HOUR
  MaxGroups,  \* bound: keys of config groups
  Commands,   \* bot commands the users send
  Workers,    \* concurrent update_group requests
  Edits,      \* which tables the operator edits, a subset of Tables
  StaleForms, \* TRUE: a user form may name a group deleted since it was shown
  Hour,       \* seconds in the window of the refresh limit
  Sub,        \* clock ticks in a second
  MaxTime, MaxCreated, MaxVersion, MaxRows, \* bounds: ticks, groups ever
                                            \* created, versions, log rows
  None        \* an empty column, an absent row

Deliveries == {"/config", "/refresh", "/sbclient"}
Tables == {"nodes", "groups", "users"}
GroupIds == 1..MaxGroups

\* gen (history) tells a group's row from a later row under the same key
GroupRows == [tags : SUBSET Tags, route : Routes, limit : Limits, enabled : BOOLEAN,
              version : 1..MaxVersion, gen : 1..MaxCreated]

ASSUME DistributionAssumption ==
  /\ Limits \subseteq Nat /\ Default \in Nat \ {0}
  /\ Commands \subseteq Deliveries \cup {"/status"}
  /\ Edits \subseteq Tables /\ StaleForms \in BOOLEAN
  /\ Hour \in Nat \ {0} /\ Sub \in Nat \ {0}
  /\ {MaxGroups, MaxTime, MaxCreated, MaxRows} \subseteq Nat /\ MaxVersion \in Nat \ {0}
  /\ None \notin Users \cup Tags \cup Urls \cup Routes \cup GroupRows
  /\ None \notin GroupIds

VARIABLES
  nodes,   \* tag -> raw_url of the node's row, None when there is no row
  groups,  \* id -> row of config_groups, or None
  users,   \* telegram id -> row of managed_users, or None
  log,     \* rows of config_delivery_log written for commands
  notices, \* rows of config_delivery_log written for notifications
  task,    \* what each update_group request still has to notify, or None
  now,     \* clock of the host
  created  \* history: groups ever created

vars == <<nodes, groups, users, log, notices, task, now, created>>

\* granted (history): the gen of the group the operator chose, 0 for none
UserRows == [group : GroupIds \cup {None}, limit : Limits, enabled : BOOLEAN,
             granted : 0..MaxCreated]

\* config_fingerprint hashes the route preset and the nodes it is given, so it
\* is the same exactly when these are
Fingerprint(route, tags) == [route |-> route, urls |-> [tag \in tags |-> nodes[tag]]]
Fingerprints == [route : Routes, urls : UNION {[S -> Urls] : S \in SUBSET Tags}]

LogRows == [user : Users, action : Commands, ok : BOOLEAN, gen : 0..MaxCreated,
            version : 0..MaxVersion, fingerprint : Fingerprints \cup {None},
            at : 0..MaxTime, granted : 0..MaxCreated, limit : Nat]

\* Where nodes are not edited they have been imported before
Init ==
  /\ nodes \in [Tags -> IF "nodes" \in Edits THEN {None} ELSE Urls]
  /\ groups = [g \in GroupIds |-> None]
  /\ users = [u \in Users |-> None]
  /\ log = <<>> /\ notices = {}
  /\ task = [w \in Workers |-> None]
  /\ now = 0 /\ created = 0

Known == {tag \in Tags : nodes[tag] # None}
Existing == {g \in GroupIds : groups[g] # None}
Members(g) == {u \in Users : users[u] # None /\ users[u].group = g /\ users[u].enabled}

-----------------------------------------------------------------------------
(* Operators of the web panel *)

\* add_or_update_node and delete_node, as far as users see them
PutNode(tag, url) ==
  /\ nodes' = [nodes EXCEPT ![tag] = url]
  /\ UNCHANGED <<groups, users, log, notices, task, now, created>>

GroupForms == [tags : SUBSET Known, route : Routes, limit : Limits, enabled : BOOLEAN]

\* INTEGER PRIMARY KEY without AUTOINCREMENT: one more than the largest key
NextKey(g) == (\A h \in Existing : h < g) /\ (g = 1 \/ g - 1 \in Existing)

GroupRow(f) ==
  [tags |-> f.tags, route |-> f.route, limit |-> f.limit, enabled |-> f.enabled,
   version |-> 1, gen |-> created + 1]

CreateGroup(f) ==
  /\ created < MaxCreated
  /\ created' = created + 1
  /\ \E g \in GroupIds : NextKey(g) /\ groups' = [groups EXCEPT ![g] = GroupRow(f)]
  /\ UNCHANGED <<nodes, users, log, notices, task, now>>

Changed(row, f) == row.tags # f.tags \/ row.route # f.route

\* notify_group_config_changed up to its first await: members, version and
\* fingerprint are read once
Notification(g, row) ==
  [gen |-> row.gen, version |-> row.version,
   fingerprint |-> Fingerprint(row.route, row.tags), todo |-> Members(g), rows |-> {}]

UpdateGroup(w, g, f) ==
  LET old == groups[g]
      new == [old EXCEPT !.tags = f.tags, !.route = f.route, !.limit = f.limit,
                         !.enabled = f.enabled,
                         !.version = IF Changed(old, f) THEN @ + 1 ELSE @]
  IN /\ task[w] = None
     /\ new.version <= MaxVersion
     /\ groups' = [groups EXCEPT ![g] = new]
     /\ task' = IF Changed(old, f) /\ f.enabled /\ Members(g) # {}
                THEN [task EXCEPT ![w] = Notification(g, new)] ELSE task
     /\ UNCHANGED <<nodes, users, log, notices, now, created>>

\* Mutant of Delivered: a failed call ends the request
DeliveredOrDropped(w, row) ==
  LET todo == task[w].todo \ {row.user}
      rows == task[w].rows \cup {row}
  IN IF todo = {} \/ ~row.ok
     THEN /\ notices' = notices \cup (IF row.ok THEN rows ELSE {})
          /\ task' = [task EXCEPT ![w] = None]
     ELSE /\ task' = [task EXCEPT ![w].todo = todo, ![w].rows = rows]
          /\ notices' = notices

\* The rows of all members are committed together, after the last call
Delivered(w, row) ==
  LET todo == task[w].todo \ {row.user}
      rows == task[w].rows \cup {row}
  IN IF todo = {}
     THEN notices' = notices \cup rows /\ task' = [task EXCEPT ![w] = None]
     ELSE /\ task' = [task EXCEPT ![w].todo = todo, ![w].rows = rows]
          /\ notices' = notices

\* Mutant of Notify: the version in force when the call returns is logged
NotifyCurrent(w) ==
  /\ task[w] # None
  /\ \E u \in task[w].todo, ok \in BOOLEAN, g \in Existing :
       /\ groups[g].gen = task[w].gen
       /\ Delivered(w, [user |-> u, gen |-> groups[g].gen, version |-> groups[g].version,
                        fingerprint |-> task[w].fingerprint, ok |-> ok])
  /\ UNCHANGED <<nodes, groups, users, log, now, created>>

\* One Telegram call returns or fails; also taken when no bot token is set
Notify(w) ==
  /\ task[w] # None
  /\ \E u \in task[w].todo, ok \in BOOLEAN :
       Delivered(w, [user |-> u, gen |-> task[w].gen, version |-> task[w].version,
                     fingerprint |-> task[w].fingerprint, ok |-> ok])
  /\ UNCHANGED <<nodes, groups, users, log, now, created>>

\* Mutant of DeleteGroup: assignments stay
DeleteGroupOnly(g) ==
  /\ groups' = [groups EXCEPT ![g] = None]
  /\ UNCHANGED <<nodes, users, log, notices, task, now, created>>

DeleteGroup(g) ==
  /\ groups' = [groups EXCEPT ![g] = None]
  /\ users' = [u \in Users |->
       IF users[u] # None /\ users[u].group = g
       THEN [users[u] EXCEPT !.group = None, !.granted = 0] ELSE users[u]]
  /\ UNCHANGED <<nodes, log, notices, task, now, created>>

\* _parse_group_id takes any number: the group need not exist (any more)
GroupChoices == {None} \cup (IF StaleForms THEN GroupIds ELSE Existing)
UserForms == [group : GroupChoices, limit : Limits, enabled : BOOLEAN]

UserRow(f) ==
  [group |-> f.group, limit |-> f.limit, enabled |-> f.enabled,
   granted |-> IF f.group \in Existing THEN groups[f.group].gen ELSE 0]

CreateUser(u, f) ==
  /\ users[u] = None
  /\ users' = [users EXCEPT ![u] = UserRow(f)]
  /\ UNCHANGED <<nodes, groups, log, notices, task, now, created>>

\* The form may give the user another, unused telegram id
UpdateUser(u, v, f) ==
  /\ users[u] # None /\ (v = u \/ users[v] = None)
  /\ users' = [users EXCEPT ![u] = None, ![v] = UserRow(f)]
  /\ UNCHANGED <<nodes, groups, log, notices, task, now, created>>

DeleteUser(u) ==
  /\ users[u] # None
  /\ users' = [users EXCEPT ![u] = None]
  /\ UNCHANGED <<nodes, groups, log, notices, task, now, created>>

-----------------------------------------------------------------------------
(* Commands of managed users *)

\* get_user_assignment finds no error
Assigned(u) ==
  /\ users[u].enabled /\ users[u].group \in Existing
  /\ groups[users[u].group].enabled
  /\ groups[users[u].group].tags # {} /\ groups[users[u].group].tags \subseteq Known

EffectiveLimit(u) ==
  LET group == groups[users[u].group].limit
  IN IF users[u].limit > 0 THEN users[u].limit ELSE IF group > 0 THEN group ELSE Default

Second(t) == t \div Sub

\* Mutant of Counted: deliveries of one kind only
CountedConfigs(u) ==
  {i \in DOMAIN log : /\ log[i].user = u /\ log[i].action = "/config"
                      /\ Second(log[i].at) > Second(now) - Hour}

\* Mutant of Counted: the window is a second too long
CountedLate(u) ==
  {i \in DOMAIN log : /\ log[i].user = u /\ log[i].action \in Deliveries
                      /\ Second(log[i].at) >= Second(now) - Hour}

\* The rows refresh_limit_exceeded counts.  The column holds whole seconds, the
\* cutoff microseconds, and SQLite compares them as text: a row of the cutoff's
\* own second is the shorter string and no longer counts
Counted(u) ==
  {i \in DOMAIN log : /\ log[i].user = u /\ log[i].action \in Deliveries
                      /\ Second(log[i].at) > Second(now) - Hour}

\* record_delivery; an assignment with an error has no version and fingerprint
Row(u, action, ok) ==
  LET known == users[u] # None
      assigned == known /\ Assigned(u)
      g == users[u].group
  IN [user |-> u, action |-> action, ok |-> ok, at |-> now,
      gen |-> IF known /\ users[u].enabled /\ g \in Existing THEN groups[g].gen ELSE 0,
      version |-> IF assigned THEN groups[g].version ELSE 0,
      fingerprint |-> IF assigned
        THEN Fingerprint(groups[g].route, groups[g].tags) ELSE None,
      granted |-> IF known THEN users[u].granted ELSE 0,
      limit |-> IF assigned THEN EffectiveLimit(u) ELSE 0]

Record(u, action, ok) ==
  /\ Len(log) < MaxRows
  /\ log' = Append(log, Row(u, action, ok))
  /\ UNCHANGED <<nodes, groups, users, notices, task, now, created>>

Refused(u) == Assigned(u) /\ Cardinality(Counted(u)) >= EffectiveLimit(u)

\* Unknown senders, and deliveries that cannot or may not be made, are logged
\* as failed; so is one whose document cannot be built
Handle(u, action) ==
  \/ users[u] = None /\ Record(u, action, FALSE)
  \/ /\ users[u] # None /\ action = "/status"
     /\ Record(u, action, Assigned(u))
  \/ /\ users[u] # None /\ action \in Deliveries
     /\ \E built \in BOOLEAN :
          Record(u, action, built /\ Assigned(u) /\ ~Refused(u))

Tick == now < MaxTime /\ now' = now + 1
        /\ UNCHANGED <<nodes, groups, users, log, notices, task, created>>

-----------------------------------------------------------------------------

EditNodes == \E tag \in Tags, url \in Urls \cup {None} : PutNode(tag, url)
EditGroups ==
  \/ \E f \in GroupForms : CreateGroup(f)
  \/ \E w \in Workers, g \in Existing, f \in GroupForms : UpdateGroup(w, g, f)
  \/ \E g \in Existing : DeleteGroup(g)
EditUsers ==
  \/ \E u \in Users, f \in UserForms : CreateUser(u, f)
  \/ \E u, v \in Users, f \in UserForms : UpdateUser(u, v, f)
  \/ \E u \in Users : DeleteUser(u)

Next ==
  \/ "nodes" \in Edits /\ EditNodes
  \/ "groups" \in Edits /\ EditGroups
  \/ "users" \in Edits /\ EditUsers
  \/ \E w \in Workers : Notify(w)
  \/ \E u \in Users, action \in Commands : Handle(u, action)
  \/ Tick

DistributionSpec == Init /\ [][Next]_vars

\* A started update_group request goes on; nothing makes operators or users act
DistributionFairness == \A w \in Workers : WF_vars(Notify(w))

-----------------------------------------------------------------------------
(* Properties *)

Successful(i) == log[i].ok /\ log[i].action \in Deliveries

\* Refresh limits (docs/ops.md:293): a successful delivery is within the limit in
\* force together with the user's other deliveries of the hour before, counted
\* by the second, whatever command they used and whatever changed in between.
WithinLimit ==
  \A i \in DOMAIN log : Successful(i) =>
    Cardinality({j \in 1..i : /\ Successful(j) /\ log[j].user = log[i].user
                              /\ Second(log[i].at) - Second(log[j].at) < Hour})
      <= log[i].limit

\* The same window on the clock itself: less than an hour has gone by.
WithinLimitExactly ==
  \A i \in DOMAIN log : Successful(i) =>
    Cardinality({j \in 1..i : /\ Successful(j) /\ log[j].user = log[i].user
                              /\ log[i].at - log[j].at < Hour * Sub})
      <= log[i].limit

\* A user who asked for the config less often than the limit within the hour is
\* not refused, however often other commands or other users wrote to the log.
NotRefusedEarly ==
  \A u \in Users : users[u] # None /\ Assigned(u)
      /\ Cardinality({i \in DOMAIN log : /\ log[i].user = u /\ log[i].action # "/status"
                                         /\ now - log[i].at < Hour * Sub}) < EffectiveLimit(u)
    => ~Refused(u)

\* What is delivered to a user is the config of the group row the operator chose
\* for that user: not of a later group that got a deleted group's key.
DeliveredAsAssigned == \A i \in DOMAIN log : log[i].ok => log[i].gen = log[i].granted

\* models.py:114 declares the user's group to be a key of config_groups.
GroupReferencesExist ==
  \A u \in Users : users[u] # None => users[u].group \in Existing \cup {None}

\* Rows that carry a version, deliveries and notifications alike
Versioned == {r \in {log[i] : i \in DOMAIN log} \cup notices : r.fingerprint # None}

\* Tracked versions (README.md:49): two log rows with the same version of a group
\* are about the same nodes and the same route preset, also when the row was
\* written by a notification that a later change overtook.
VersionNamesContent ==
  \A r, s \in Versioned : r.gen = s.gen /\ r.version = s.version =>
    /\ r.fingerprint.route = s.fingerprint.route
    /\ DOMAIN r.fingerprint.urls = DOMAIN s.fingerprint.urls

\* docs/ops.md:297: every enabled member of a changed group is notified, and the
\* attempt is logged for the version that was committed, even when calls to
\* other members fail and a second update of the group overlaps.
MembersNotified ==
  \A u \in Users, g \in 1..MaxCreated, v \in 1..MaxVersion :
    (\E w \in Workers : /\ task[w] # None /\ u \in task[w].todo
                        /\ task[w].gen = g /\ task[w].version = v)
      ~> \E r \in notices : r.user = u /\ r.gen = g /\ r.version = v

=============================================================================
