------------------------- MODULE DistributionProofs -------------------------
(***************************************************************************)
(* For any users, groups and edits: users are served the group they were   *)
(* assigned to, as deleting a group clears its assignments and the group   *)
(* that gets its key next inherits no member; the refresh limit is kept    *)
(* and nobody is refused below it; and a version of a group stands for one *)
(* content.                                                                *)
(***************************************************************************)
EXTENDS Distribution, FiniteSetTheorems, TLAPS

USE DistributionAssumption

-----------------------------------------------------------------------------
(* Types *)

\* The operator tables and the clock, without the logs and the notifications.
TablesOK ==
  /\ nodes \in [Tags -> Urls \cup {None}]
  /\ groups \in [GroupIds -> GroupRows \cup {None}]
  /\ users \in [Users -> UserRows \cup {None}]
  /\ now \in 0..MaxTime /\ created \in 0..MaxCreated

\* The fingerprint of nodes that exist is one of Fingerprints.
LEMMA FingerprintType ==
  ASSUME nodes \in [Tags -> Urls \cup {None}], NEW r \in Routes, NEW S \in SUBSET Known
  PROVE  Fingerprint(r, S) \in Fingerprints
<1> DEFINE f == [tag \in S |-> nodes[tag]]
<1>1. S \in SUBSET Tags
  BY DEF Known
<1>2. f \in [S -> Urls]
  BY DEF Known
<1>3. f \in UNION {[T -> Urls] : T \in SUBSET Tags}
  BY <1>1, <1>2
<1>4. Fingerprint(r, S) = [route |-> r, urls |-> f]
  BY DEF Fingerprint
<1> QED
  BY <1>3, <1>4 DEF Fingerprints

\* An existing row is a record.
LEMMA RowTypes ==
  ASSUME TablesOK
  PROVE  /\ \A g \in Existing : g \in GroupIds /\ groups[g] \in GroupRows
         /\ \A u \in Users : users[u] # None => users[u] \in UserRows
  BY DEF TablesOK, Existing

\* What a form turns into is a row of managed_users.
LEMMA UserRowType ==
  ASSUME TablesOK, NEW f \in UserForms
  PROVE  UserRow(f) \in UserRows
<1>1. f.group \in GroupIds \cup {None} /\ f.limit \in Limits /\ f.enabled \in BOOLEAN
  BY DEF UserForms, GroupChoices, Existing
<1>2. f.group \in Existing => groups[f.group].gen \in 1..MaxCreated
  BY RowTypes DEF GroupRows
<1> QED
  BY <1>1, <1>2 DEF UserRow, UserRows

\* The changed row of update_group is a row of config_groups of the same gen.
LEMMA UpdatedRowType ==
  ASSUME TablesOK, NEW g \in Existing, NEW f \in GroupForms, NEW n \in 1..MaxVersion,
         NEW new,
         new = [groups[g] EXCEPT !.tags = f.tags, !.route = f.route,
                  !.limit = f.limit, !.enabled = f.enabled, !.version = n]
  PROVE  /\ new \in GroupRows /\ new.gen = groups[g].gen
         /\ new.tags = f.tags /\ new.route = f.route /\ new.version = n
<1>1. groups[g] \in GroupRows
  BY RowTypes
<1>2. /\ f.tags \in SUBSET Tags /\ f.route \in Routes /\ f.limit \in Limits
      /\ f.enabled \in BOOLEAN
  BY DEF GroupForms, Known
<1> QED
  BY <1>1, <1>2 DEF GroupRows

\* Every step keeps the tables well typed.
LEMMA TablesStep == TablesOK /\ [Next]_vars => TablesOK'
<1> SUFFICES ASSUME TablesOK, [Next]_vars PROVE TablesOK'
  OBVIOUS
<1>1. ASSUME NEW tag \in Tags, NEW url \in Urls \cup {None}, PutNode(tag, url)
      PROVE  TablesOK'
  BY <1>1 DEF PutNode, TablesOK
<1>2. ASSUME NEW f \in GroupForms, CreateGroup(f) PROVE TablesOK'
  <2>1. f.tags \in SUBSET Tags /\ f.route \in Routes /\ f.limit \in Limits
        /\ f.enabled \in BOOLEAN
    BY DEF GroupForms, Known
  <2>2. created + 1 \in 1..MaxCreated /\ 1 \in 1..MaxVersion
    BY <1>2 DEF CreateGroup, TablesOK
  <2>3. GroupRow(f) \in GroupRows
    BY <2>1, <2>2 DEF GroupRow, GroupRows
  <2> QED
    BY <1>2, <2>2, <2>3 DEF CreateGroup, TablesOK
<1>3. ASSUME NEW w \in Workers, NEW g \in Existing, NEW f \in GroupForms, UpdateGroup(w, g, f)
      PROVE  TablesOK'
  <2> DEFINE n == IF Changed(groups[g], f) THEN groups[g].version + 1 ELSE groups[g].version
             new == [groups[g] EXCEPT !.tags = f.tags, !.route = f.route,
                       !.limit = f.limit, !.enabled = f.enabled, !.version = n]
  <2>1. groups[g] \in GroupRows /\ g \in GroupIds
    BY RowTypes
  <2>2. /\ new.version = n /\ new.version <= MaxVersion /\ groups' = [groups EXCEPT ![g] = new]
        /\ UNCHANGED <<nodes, users, now, created>>
    BY <1>3, <2>1 DEF UpdateGroup, GroupRows
  <2>3. n \in 1..MaxVersion
    BY <2>1, <2>2 DEF GroupRows
  <2>4. new \in GroupRows
    BY <2>3, UpdatedRowType
  <2> QED
    BY <2>2, <2>4 DEF TablesOK
<1>4. ASSUME NEW g \in Existing, DeleteGroup(g) PROVE TablesOK'
  <2>1. ASSUME NEW u \in Users PROVE users'[u] \in UserRows \cup {None}
    <3>1. users'[u] = IF users[u] # None /\ users[u].group = g
                      THEN [users[u] EXCEPT !.group = None, !.granted = 0] ELSE users[u]
      BY <1>4 DEF DeleteGroup
    <3>2. users[u] \in UserRows => [users[u] EXCEPT !.group = None, !.granted = 0] \in UserRows
      <4>1. 0 \in 0..MaxCreated
        BY DEF TablesOK
      <4> QED
        BY <4>1 DEF UserRows
    <3> QED
      BY <3>1, <3>2 DEF TablesOK
  <2>2. users' = [u \in Users |-> users'[u]]
    BY <1>4 DEF DeleteGroup
  <2> QED
    BY <1>4, <2>1, <2>2 DEF DeleteGroup, TablesOK
<1>5. ASSUME NEW u \in Users, NEW f \in UserForms, CreateUser(u, f) PROVE TablesOK'
  BY <1>5, UserRowType DEF CreateUser, TablesOK
<1>6. ASSUME NEW u \in Users, NEW v \in Users, NEW f \in UserForms, UpdateUser(u, v, f)
      PROVE  TablesOK'
  BY <1>6, UserRowType DEF UpdateUser, TablesOK
<1>7. ASSUME NEW u \in Users, DeleteUser(u) PROVE TablesOK'
  BY <1>7 DEF DeleteUser, TablesOK
<1>8. ASSUME NEW w \in Workers, Notify(w) PROVE TablesOK'
  BY <1>8 DEF Notify, TablesOK
<1>9. ASSUME NEW u \in Users, NEW action \in Commands, Handle(u, action) PROVE TablesOK'
  BY <1>9 DEF Handle, Record, TablesOK
<1>10. CASE Tick
  BY <1>10 DEF Tick, TablesOK
<1>11. CASE UNCHANGED vars
  BY <1>11 DEF vars, TablesOK
<1> QED
  BY <1>1, <1>2, <1>3, <1>4, <1>5, <1>6, <1>7, <1>8, <1>9, <1>10, <1>11
  DEF Next, EditNodes, EditGroups, EditUsers, Existing

\* The row a command writes has the types of the log.
LEMMA LogRowType ==
  ASSUME TablesOK, NEW u \in Users, NEW action \in Commands, NEW ok \in BOOLEAN
  PROVE  Row(u, action, ok) \in LogRows
<1> DEFINE r == Row(u, action, ok)
           g == users[u].group
           assigned == users[u] # None /\ Assigned(u)
<1>1. /\ users[u] # None => users[u] \in UserRows
      /\ g \in Existing => groups[g] \in GroupRows
  BY RowTypes
<1>2. r.gen \in 0..MaxCreated /\ r.granted \in 0..MaxCreated
  BY <1>1 DEF Row, UserRows, GroupRows
<1>3. assigned => g \in Existing /\ groups[g].tags \in SUBSET Known
  BY DEF Assigned
<1>4. r.version \in 0..MaxVersion
  BY <1>1, <1>3 DEF Row, GroupRows
<1>5. r.fingerprint \in Fingerprints \cup {None}
  <2>1. CASE assigned
    <3>1. groups[g].route \in Routes
      BY <1>1, <1>3, <2>1 DEF GroupRows
    <3>2. Fingerprint(groups[g].route, groups[g].tags) \in Fingerprints
      BY <1>3, <2>1, <3>1, FingerprintType DEF TablesOK
    <3> QED
      BY <2>1, <3>2 DEF Row
  <2>2. CASE ~assigned
    BY <2>2 DEF Row
  <2> QED
    BY <2>1, <2>2
<1>6. r.limit \in Nat
  <2>1. CASE assigned
    <3>1. users[u].limit \in Nat /\ groups[g].limit \in Nat
      BY <1>1, <1>3, <2>1 DEF UserRows, GroupRows
    <3>2. EffectiveLimit(u) \in Nat
      BY <3>1 DEF EffectiveLimit
    <3> QED
      BY <2>1, <3>2 DEF Row
  <2>2. CASE ~assigned
    BY <2>2 DEF Row
  <2> QED
    BY <2>1, <2>2
<1>7. now \in 0..MaxTime
  BY DEF TablesOK
<1>8. r = [user |-> u, action |-> action, ok |-> ok, at |-> now, gen |-> r.gen,
           version |-> r.version, fingerprint |-> r.fingerprint, granted |-> r.granted,
           limit |-> r.limit]
  BY DEF Row
<1> HIDE DEF r
<1>9. r \in LogRows
  BY <1>2, <1>4, <1>5, <1>6, <1>7, <1>8 DEF LogRows
<1> QED
  BY <1>9 DEF r

-----------------------------------------------------------------------------
(* Assignments *)

\* Why nobody inherits a group: the group of a user exists, and is the one that was
\* chosen.
Assignment(u) ==
  users[u] # None =>
    \/ users[u].group = None
    \/ users[u].group \in Existing /\ users[u].granted = groups[users[u].group].gen
AssignedInv == TablesOK /\ \A u \in Users : Assignment(u)

\* With forms that name existing groups only, every step keeps the assignments.
LEMMA AssignmentStep ==
  ASSUME ~StaleForms, AssignedInv, [Next]_vars
  PROVE  AssignedInv'
<1> SUFFICES ASSUME NEW x \in Users, users'[x] # None PROVE Assignment(x)'
  BY TablesStep DEF AssignedInv, Assignment
<1>0. TablesOK /\ (users[x] # None => Assignment(x))
  BY DEF AssignedInv
<1> USE DEF Assignment
<1>1. ASSUME UNCHANGED <<users, groups>> PROVE Assignment(x)'
  BY <1>0, <1>1 DEF Existing
<1>2. ASSUME NEW f \in GroupForms, CreateGroup(f) PROVE Assignment(x)'
  <2>1. PICK g \in GroupIds : NextKey(g) /\ groups' = [groups EXCEPT ![g] = GroupRow(f)]
    BY <1>2 DEF CreateGroup
  <2>2. g \notin Existing
    BY <2>1 DEF NextKey, GroupIds
  <2>3. \A h \in Existing : h \in Existing' /\ groups'[h] = groups[h]
    BY <1>0, <2>1, <2>2 DEF Existing, TablesOK
  <2>4. users' = users
    BY <1>2 DEF CreateGroup
  <2> QED
    BY <1>0, <2>3, <2>4
<1>3. ASSUME NEW w \in Workers, NEW g \in Existing, NEW f \in GroupForms, UpdateGroup(w, g, f)
      PROVE  Assignment(x)'
  <2> DEFINE n == IF Changed(groups[g], f) THEN groups[g].version + 1 ELSE groups[g].version
             new == [groups[g] EXCEPT !.tags = f.tags, !.route = f.route,
                       !.limit = f.limit, !.enabled = f.enabled, !.version = n]
  <2>1. groups[g] \in GroupRows /\ g \in GroupIds
    BY <1>0, RowTypes
  <2>2. /\ new.version = n /\ new.version <= MaxVersion /\ groups' = [groups EXCEPT ![g] = new]
        /\ users' = users
    BY <1>3, <2>1 DEF UpdateGroup, GroupRows
  <2>3. n \in 1..MaxVersion
    BY <2>1, <2>2 DEF GroupRows
  <2>4. new # None /\ new.gen = groups[g].gen
    <3>1. /\ f.tags \in SUBSET Tags /\ f.route \in Routes /\ f.limit \in Limits
          /\ f.enabled \in BOOLEAN
      BY DEF GroupForms, Known
    <3>2. new \in GroupRows
      BY <2>1, <2>3, <3>1 DEF GroupRows
    <3>3. new.gen = groups[g].gen
      BY <2>1 DEF GroupRows
    <3> QED
      BY <3>2, <3>3
  <2> HIDE DEF n, new
  <2>5. \A h \in Existing : h \in Existing' /\ groups'[h].gen = groups[h].gen
    BY <1>0, <2>2, <2>4 DEF Existing, TablesOK
  <2> QED
    BY <1>0, <2>2, <2>5
<1>4. ASSUME NEW g \in Existing, DeleteGroup(g) PROVE Assignment(x)'
  <2>1. users'[x] = IF users[x] # None /\ users[x].group = g
                    THEN [users[x] EXCEPT !.group = None, !.granted = 0] ELSE users[x]
    BY <1>4 DEF DeleteGroup
  <2>2. CASE users[x] # None /\ users[x].group = g
    BY <1>0, <2>1, <2>2, RowTypes DEF UserRows
  <2>3. CASE ~(users[x] # None /\ users[x].group = g)
    <3>1. \A h \in Existing : h # g => h \in Existing' /\ groups'[h] = groups[h]
      BY <1>0, <1>4 DEF DeleteGroup, Existing, TablesOK
    <3> QED
      BY <1>0, <2>1, <2>3, <3>1
  <2> QED
    BY <2>2, <2>3
<1>5. ASSUME NEW f \in UserForms PROVE LET r == UserRow(f) IN
        \/ r.group = None
        \/ r.group \in Existing /\ r.granted = groups[r.group].gen
  BY DEF UserForms, GroupChoices, UserRow
<1>6. ASSUME NEW u \in Users, NEW f \in UserForms, CreateUser(u, f) PROVE Assignment(x)'
  BY <1>0, <1>5, <1>6 DEF CreateUser, TablesOK, Existing
<1>7. ASSUME NEW u \in Users, NEW v \in Users, NEW f \in UserForms, UpdateUser(u, v, f)
      PROVE  Assignment(x)'
  BY <1>0, <1>5, <1>7 DEF UpdateUser, TablesOK, Existing
<1>8. ASSUME NEW u \in Users, DeleteUser(u) PROVE Assignment(x)'
  BY <1>0, <1>8 DEF DeleteUser, TablesOK, Existing
<1>9. ASSUME \/ \E tag \in Tags, url \in Urls \cup {None} : PutNode(tag, url)
             \/ \E w \in Workers : Notify(w)
             \/ \E u \in Users, action \in Commands : Handle(u, action)
             \/ Tick \/ UNCHANGED vars
      PROVE  UNCHANGED <<users, groups>>
  BY <1>9 DEF PutNode, Notify, Handle, Record, Tick, vars
<1> QED
  BY <1>1, <1>2, <1>3, <1>4, <1>6, <1>7, <1>8, <1>9
  DEF Next, EditNodes, EditGroups, EditUsers

-----------------------------------------------------------------------------
(* Deliveries *)

\* A row of a delivery that was made is about the group that was chosen.
HonestRows == {r \in LogRows : r.ok => r.gen = r.granted}
DeliveryInv == AssignedInv /\ log \in Seq(HonestRows)

\* A command of a user with an intact assignment writes an honest row.
LEMMA HandledHonestly ==
  ASSUME AssignedInv, NEW u \in Users, NEW action \in Commands, Handle(u, action)
  PROVE  \E r \in HonestRows : log' = Append(log, r)
<1>0. TablesOK /\ Assignment(u)
  BY DEF AssignedInv
<1>1. PICK ok \in BOOLEAN : Record(u, action, ok) /\ (ok => users[u] # None /\ Assigned(u))
  <2>1. CASE users[u] = None /\ Record(u, action, FALSE)
    BY <2>1
  <2>2. CASE users[u] # None /\ action = "/status" /\ Record(u, action, Assigned(u))
    <3>1. Assigned(u) \in BOOLEAN
      BY DEF Assigned
    <3> QED
      BY <2>2, <3>1
  <2>3. CASE \E built \in BOOLEAN : users[u] # None
                                    /\ Record(u, action, built /\ Assigned(u) /\ ~Refused(u))
    <3>1. PICK built \in BOOLEAN : users[u] # None
                                   /\ Record(u, action, built /\ Assigned(u) /\ ~Refused(u))
      BY <2>3
    <3> DEFINE ok == built /\ Assigned(u) /\ ~Refused(u)
    <3>2. ok \in BOOLEAN /\ (ok => Assigned(u)) /\ Record(u, action, ok)
      BY <3>1
    <3> HIDE DEF ok
    <3> QED
      BY <3>1, <3>2
  <2> QED
    BY <2>1, <2>2, <2>3 DEF Handle
<1> DEFINE r == Row(u, action, ok)
<1>2. r \in LogRows
  BY <1>0, LogRowType
<1>3. log' = Append(log, r)
  BY <1>1 DEF Record
<1>4. ASSUME ok PROVE r.gen = r.granted
  <2>1. /\ users[u] # None /\ users[u].enabled /\ users[u].group \in Existing
        /\ users[u].granted = groups[users[u].group].gen
    <3>1. users[u].group \in GroupIds
      BY <1>1, <1>4 DEF Assigned, Existing
    <3>2. users[u].group # None
      BY <1>0, <1>1, <1>4, <3>1 DEF Assigned, Assignment
    <3> QED
      BY <1>0, <1>1, <1>4, <3>2 DEF Assigned, Assignment
  <2> QED
    BY <2>1 DEF Row
<1>5. r.ok = ok
  BY DEF Row
<1> HIDE DEF r
<1>6. r \in HonestRows
  BY <1>2, <1>4, <1>5 DEF HonestRows
<1> QED
  BY <1>3, <1>6

\* With forms that name existing groups only, every step keeps the log honest.
LEMMA DeliveryStep ==
  ASSUME ~StaleForms, DeliveryInv, [Next]_vars
  PROVE  DeliveryInv'
<1>1. AssignedInv'
  BY AssignmentStep DEF DeliveryInv
<1>2. CASE \E u \in Users, action \in Commands : Handle(u, action)
  <2>1. PICK r \in HonestRows : log' = Append(log, r)
    BY <1>2, HandledHonestly DEF DeliveryInv
  <2> QED
    BY <1>1, <2>1 DEF DeliveryInv
<1>3. CASE ~\E u \in Users, action \in Commands : Handle(u, action)
  <2>1. log' = log
    BY <1>3 DEF Next, EditNodes, EditGroups, EditUsers, PutNode, CreateGroup, UpdateGroup,
      DeleteGroup, CreateUser, UpdateUser, DeleteUser, Notify, Tick, vars
  <2> QED
    BY <1>1, <2>1 DEF DeliveryInv, HonestRows, LogRows
<1> QED
  BY <1>2, <1>3

\* The empty tables and the empty log satisfy the invariant.
LEMMA DeliveryInit == Init => DeliveryInv
<1> SUFFICES ASSUME Init PROVE DeliveryInv
  OBVIOUS
<1>1. nodes \in [Tags -> Urls \cup {None}]
  BY DEF Init
<1>2. TablesOK
  BY <1>1 DEF Init, TablesOK
<1>3. \A u \in Users : Assignment(u)
  BY DEF Init, Assignment
<1>4. log \in Seq(HonestRows)
  BY DEF Init
<1> QED
  BY <1>2, <1>3, <1>4 DEF DeliveryInv, AssignedInv

\* Nobody is served the config of a group they were not assigned to, in particular
\* not that of a group which took over the key of a deleted one (users.py:150-160).
THEOREM ServedAsAssigned ==
  ASSUME ~StaleForms
  PROVE  DistributionSpec => []DeliveredAsAssigned
<1>1. Init => DeliveryInv
  BY DeliveryInit
<1>2. DeliveryInv /\ [Next]_vars => DeliveryInv'
  BY DeliveryStep
<1>3. DeliveryInv => DeliveredAsAssigned
  <2> SUFFICES ASSUME DeliveryInv, NEW i \in DOMAIN log, log[i].ok
               PROVE  log[i].gen = log[i].granted
    BY DEF DeliveredAsAssigned
  <2>1. log[i] \in HonestRows
    BY DEF DeliveryInv
  <2> QED
    BY <2>1 DEF HonestRows
<1> QED
  BY <1>1, <1>2, <1>3, PTL DEF DistributionSpec

\* With forms that name existing groups only, the group of a user's row always
\* exists: delete_group leaves no reference behind (users.py:150-160).
THEOREM ReferencesKept ==
  ASSUME ~StaleForms
  PROVE  DistributionSpec => []GroupReferencesExist
<1>1. DeliveryInv => GroupReferencesExist
  BY DEF DeliveryInv, AssignedInv, Assignment, GroupReferencesExist
<1> QED
  BY <1>1, DeliveryInit, DeliveryStep, PTL DEF DistributionSpec

-----------------------------------------------------------------------------
(* The refresh limit *)

LogOK == TablesOK /\ log \in Seq(LogRows)

\* A command writes its row for the outcome it has: a delivery is made only to a
\* user with an intact assignment whose limit is not used up.
LEMMA HandleRow ==
  ASSUME NEW u \in Users, NEW action \in Commands, Handle(u, action)
  PROVE  \E ok \in BOOLEAN :
           /\ log' = Append(log, Row(u, action, ok))
           /\ ok => users[u] # None /\ Assigned(u)
           /\ ok /\ action \in Deliveries => ~Refused(u)
<1>1. CASE users[u] = None /\ Record(u, action, FALSE)
  BY <1>1 DEF Record
<1>2. CASE users[u] # None /\ action = "/status" /\ Record(u, action, Assigned(u))
  <2>1. Assigned(u) \in BOOLEAN /\ action \notin Deliveries
    BY <1>2 DEF Assigned, Deliveries
  <2> QED
    BY <1>2, <2>1 DEF Record
<1>3. CASE \E built \in BOOLEAN : users[u] # None
                                  /\ Record(u, action, built /\ Assigned(u) /\ ~Refused(u))
  <2>1. PICK built \in BOOLEAN : users[u] # None
                                 /\ Record(u, action, built /\ Assigned(u) /\ ~Refused(u))
    BY <1>3
  <2> DEFINE ok == built /\ Assigned(u) /\ ~Refused(u)
  <2>2. /\ ok \in BOOLEAN /\ (ok => Assigned(u)) /\ (ok => ~Refused(u))
        /\ log' = Append(log, Row(u, action, ok))
    BY <2>1 DEF Record
  <2> HIDE DEF ok
  <2> QED
    BY <2>1, <2>2
<1> QED
  BY <1>1, <1>2, <1>3 DEF Handle

\* The log is written by commands only.
LEMMA LogWritten ==
  ASSUME [Next]_vars
  PROVE  log' = log \/ \E u \in Users, action \in Commands : Handle(u, action)
  BY DEF Next, EditNodes, EditGroups, EditUsers, PutNode, CreateGroup, UpdateGroup,
         DeleteGroup, CreateUser, UpdateUser, DeleteUser, Notify, Tick, vars

LEMMA LogStep == LogOK /\ [Next]_vars => LogOK'
<1> SUFFICES ASSUME LogOK, [Next]_vars PROVE log' \in Seq(LogRows')
  BY TablesStep DEF LogOK
<1>0. LogRows' = LogRows
  BY DEF LogRows
<1>1. ASSUME NEW u \in Users, NEW action \in Commands, Handle(u, action)
      PROVE  log' \in Seq(LogRows)
  <2>1. PICK ok \in BOOLEAN : log' = Append(log, Row(u, action, ok))
    BY <1>1, HandleRow
  <2>2. Row(u, action, ok) \in LogRows
    BY LogRowType DEF LogOK
  <2> QED
    BY <2>1, <2>2 DEF LogOK
<1> QED
  BY <1>0, <1>1, LogWritten DEF LogOK

\* A set of positions in the log is finite, and no smaller than a part of it.
LEMMA PositionsCount ==
  ASSUME log \in Seq(LogRows), NEW S, NEW T \in SUBSET S, S \subseteq 1..Len(log) + 1
  PROVE  /\ IsFiniteSet(S) /\ IsFiniteSet(T)
         /\ Cardinality(S) \in Nat /\ Cardinality(T) \in Nat
         /\ Cardinality(T) <= Cardinality(S)
<1>1. IsFiniteSet(1..Len(log) + 1)
  BY FS_Interval, Len(log) \in Nat
<1>2. IsFiniteSet(S)
  BY <1>1, FS_Subset
<1>3. IsFiniteSet(T) /\ Cardinality(T) <= Cardinality(S)
  BY <1>2, FS_Subset
<1> QED
  BY <1>2, <1>3, FS_CardinalityType

\* The successful deliveries up to row i that fall into the same window as row i.
Window(i) == {j \in 1..i : /\ Successful(j) /\ log[j].user = log[i].user
                           /\ Second(log[i].at) - Second(log[j].at) < Hour}

LEMMA SecondInt ==
  ASSUME NEW t \in Nat
  PROVE  Second(t) \in Int
  BY DEF Second

\* The row of a delivery completes a window of which the limit has left room.
LEMMA DeliveryWithin ==
  ASSUME LogOK, NEW u \in Users, NEW action \in Commands, NEW ok \in BOOLEAN,
         log' = Append(log, Row(u, action, ok)),
         ok => users[u] # None /\ Assigned(u),
         ok /\ action \in Deliveries => ~Refused(u),
         NEW n, n = Len(log) + 1, Successful(n)'
  PROVE  Cardinality(Window(n)') <= log'[n].limit
<1> DEFINE W == Window(n)'
<1>1. /\ Len(log) \in Nat /\ n \in DOMAIN log' /\ log'[n] = Row(u, action, ok)
      /\ \A j \in 1..Len(log) : log'[j] = log[j]
  BY DEF LogOK
<1>2. ok /\ action \in Deliveries /\ log'[n].user = u /\ log'[n].at = now
  BY <1>1 DEF Successful, Row
<1>3. log'[n].limit = EffectiveLimit(u)
  BY <1>1, <1>2 DEF Row
<1>4. Row(u, action, ok) \in LogRows
  BY LogRowType DEF LogOK
<1>5. log'[n].limit \in Nat
  BY <1>1, <1>4 DEF LogRows
<1>6. W \ {n} \subseteq Counted(u)
  <2> SUFFICES ASSUME NEW j \in W, j # n PROVE j \in Counted(u)
    OBVIOUS
  <2>1. /\ j \in 1..n /\ Successful(j)' /\ log'[j].user = u
        /\ Second(now) - Second(log'[j].at) < Hour
    BY <1>1, <1>2 DEF Window, Second
  <2>2. j \in 1..Len(log) /\ log'[j] = log[j] /\ log[j] \in LogRows
    BY <1>1, <2>1 DEF LogOK
  <2>3. Second(now) \in Int /\ Second(log[j].at) \in Int
    <3>1. now \in Nat /\ log[j].at \in Nat
      <4>1. now \in 0..MaxTime /\ log[j].at \in 0..MaxTime
        BY <2>2 DEF LogRows, LogOK, TablesOK
      <4> QED
        BY <4>1
    <3> QED
      BY <3>1, SecondInt
  <2>4. log[j].action \in Deliveries
    BY <2>1, <2>2 DEF Successful
  <2> QED
    BY <2>1, <2>2, <2>3, <2>4 DEF Counted
<1>7. Cardinality(Counted(u)) < EffectiveLimit(u)
  <2>1. ~Refused(u) /\ Assigned(u)
    BY <1>2
  <2>2. Cardinality(Counted(u)) \in Nat
    <3>1. Counted(u) \subseteq 1..Len(log) + 1
      BY <1>1 DEF Counted, LogOK
    <3> QED
      BY <3>1, PositionsCount DEF LogOK
  <2> QED
    BY <1>3, <1>5, <2>1, <2>2 DEF Refused
<1>8. Cardinality(W \ {n}) <= Cardinality(Counted(u)) /\ Cardinality(Counted(u)) \in Nat
      /\ Cardinality(W \ {n}) \in Nat
  <2>1. Counted(u) \subseteq 1..Len(log) + 1
    BY <1>1 DEF Counted, LogOK
  <2> QED
    BY <1>6, <2>1, PositionsCount DEF LogOK
<1>9. IsFiniteSet(W) /\ Cardinality(W) \in Nat
  <2>1. W \subseteq 1..Len(log) + 1
    BY DEF Window
  <2> QED
    BY <2>1, PositionsCount DEF LogOK
<1>10. Cardinality(W \ {n}) >= Cardinality(W) - 1
  <2> HIDE DEF W
  <2>1. Cardinality(W \ {n}) = IF n \in W THEN Cardinality(W) - 1 ELSE Cardinality(W)
    BY <1>9, FS_RemoveElement, Zenon
  <2> QED
    BY <1>9, <2>1
<1> HIDE DEF W
<1>11. Cardinality(W) <= log'[n].limit
  BY <1>3, <1>5, <1>7, <1>8, <1>9, <1>10
<1> QED
  BY <1>11 DEF W

LEMMA WithinStep ==
  ASSUME LogOK, WithinLimit, [Next]_vars
  PROVE  WithinLimit'
<1>1. CASE log' = log
  BY <1>1 DEF WithinLimit, Successful, Second
<1>2. ASSUME NEW u \in Users, NEW action \in Commands, Handle(u, action) PROVE WithinLimit'
  <2>1. PICK ok \in BOOLEAN :
          /\ log' = Append(log, Row(u, action, ok))
          /\ ok => users[u] # None /\ Assigned(u)
          /\ ok /\ action \in Deliveries => ~Refused(u)
    BY <1>2, HandleRow
  <2>2. /\ Len(log) \in Nat /\ DOMAIN log' = 1..Len(log) + 1
        /\ \A j \in 1..Len(log) : log'[j] = log[j]
    BY <2>1 DEF LogOK
  <2> SUFFICES ASSUME NEW i \in DOMAIN log', Successful(i)'
               PROVE  Cardinality(Window(i)') <= log'[i].limit
    BY DEF WithinLimit, Window
  <2>3. CASE i = Len(log) + 1
    BY <2>1, <2>3, DeliveryWithin
  <2>4. CASE i \in 1..Len(log)
    <3>1. \A j \in 1..i : log'[j] = log[j] /\ (Successful(j)' <=> Successful(j))
      BY <2>2, <2>4 DEF Successful
    <3>2. Window(i)' = Window(i) /\ Successful(i)
      BY <3>1, <2>4 DEF Window, Second
    <3>3. Cardinality(Window(i)) <= log[i].limit
      BY <2>4, <3>2 DEF WithinLimit, Window, LogOK
    <3> QED
      BY <2>2, <2>4, <3>2, <3>3
  <2> QED
    BY <2>2, <2>3, <2>4
<1> QED
  BY <1>1, <1>2, LogWritten

LEMMA LogInit == Init => LogOK
<1> SUFFICES ASSUME Init PROVE LogOK
  OBVIOUS
<1>1. nodes \in [Tags -> Urls \cup {None}]
  BY DEF Init
<1> QED
  BY <1>1 DEF Init, LogOK, TablesOK

\* Nobody is served more often in an hour than the limit that was in force when
\* the row was written, by whatever commands, users, limits and edits.
THEOREM LimitKept == DistributionSpec => []WithinLimit
<1>1. Init => WithinLimit
  BY DEF Init, WithinLimit
<1>2. LogOK /\ WithinLimit /\ [Next]_vars => (LogOK /\ WithinLimit)'
  BY LogStep, WithinStep
<1> QED
  BY <1>1, <1>2, LogInit, PTL DEF DistributionSpec

\* Whole seconds that are less than an hour apart are less than an hour apart on
\* the clock.
LEMMA SecondsApart ==
  ASSUME NEW a \in Nat, NEW b \in Nat, Second(b) > Second(a) - Hour
  PROVE  a - b < Hour * Sub
<1> DEFINE x == Second(a)
           y == Second(b)
<1>1. /\ x \in Int /\ y \in Int
      /\ a < Sub * x + Sub /\ Sub * y <= b
  BY DEF Second
<1> HIDE DEF x, y
<1>2. x - y + 1 <= Hour
  BY <1>1 DEF x, y
<1>3. Sub * (x - y + 1) <= Sub * Hour
  BY <1>1, <1>2
<1>4. a - b < Sub * (x - y + 1)
  BY <1>1
<1> QED
  BY <1>1, <1>3, <1>4

\* Nobody who asked less often than the limit in the last hour is turned away:
\* the rows counted are the user's own, of deliveries, and none of them is older
\* than an hour.
THEOREM NobodyRefusedEarly == DistributionSpec => []NotRefusedEarly
<1>1. LogOK => NotRefusedEarly
  <2> SUFFICES ASSUME LogOK, NEW u \in Users, users[u] # None, Assigned(u),
                      Cardinality({i \in DOMAIN log : /\ log[i].user = u
                                                      /\ log[i].action # "/status"
                                                      /\ now - log[i].at < Hour * Sub})
                        < EffectiveLimit(u)
               PROVE  ~Refused(u)
    BY DEF NotRefusedEarly
  <2> DEFINE asked == {i \in DOMAIN log : /\ log[i].user = u /\ log[i].action # "/status"
                                          /\ now - log[i].at < Hour * Sub}
  <2>1. Counted(u) \subseteq asked
    <3> SUFFICES ASSUME NEW i \in Counted(u) PROVE i \in asked
      OBVIOUS
    <3>1. i \in DOMAIN log /\ log[i] \in LogRows
      BY DEF Counted, LogOK
    <3>2. now \in Nat /\ log[i].at \in Nat
      <4>1. now \in 0..MaxTime /\ log[i].at \in 0..MaxTime
        BY <3>1 DEF LogRows, LogOK, TablesOK
      <4> QED
        BY <4>1
    <3>3. now - log[i].at < Hour * Sub
      BY <3>2, SecondsApart DEF Counted
    <3> QED
      BY <3>1, <3>3 DEF Counted, Deliveries
  <2>2. asked \subseteq 1..Len(log) + 1
    BY DEF LogOK
  <2> HIDE DEF asked
  <2>3. /\ Cardinality(Counted(u)) <= Cardinality(asked)
        /\ Cardinality(Counted(u)) \in Nat /\ Cardinality(asked) \in Nat
    BY <2>1, <2>2, PositionsCount DEF LogOK
  <2>4. EffectiveLimit(u) \in Nat
    <3>1. users[u].limit \in Nat /\ groups[users[u].group].limit \in Nat
      BY RowTypes DEF LogOK, Assigned, UserRows, GroupRows
    <3> QED
      BY <3>1 DEF EffectiveLimit
  <2>5. Cardinality(asked) < EffectiveLimit(u)
    BY DEF asked
  <2> QED
    BY <2>3, <2>4, <2>5 DEF Refused
<1> QED
  BY <1>1, LogStep, LogInit, PTL DEF DistributionSpec

-----------------------------------------------------------------------------
(* Versions *)

\* What a row of a group, of the log or of a notification under way says of a
\* version: the route preset and the tags it stands for.
Claim(r) == [gen |-> r.gen, version |-> r.version, route |-> r.fingerprint.route,
             tags |-> DOMAIN r.fingerprint.urls]
GroupClaim(row) == [gen |-> row.gen, version |-> row.version, route |-> row.route,
                    tags |-> row.tags]

Notifying == {w \in Workers : task[w] # None}
Claims == {Claim(r) : r \in Versioned \cup notices}
          \cup {Claim(task[w]) : w \in Notifying}
          \cup {GroupClaim(groups[g]) : g \in Existing}

\* No two claims about a version differ, and no group goes back behind what was
\* claimed of it.  A gen is never given to two groups.
ClaimsOK ==
  /\ \A c, d \in Claims : c.gen = d.gen /\ c.version = d.version => c = d
  /\ \A c \in Claims, g \in Existing : c.gen = groups[g].gen => c.version <= groups[g].version
  /\ \A c \in Claims : c.gen \in 0..created /\ c.version \in Nat
GensDiffer == \A g, h \in Existing : groups[g].gen = groups[h].gen => g = h
OwnRows == \A w \in Notifying : \A r \in task[w].rows : Claim(r) = Claim(task[w])

\* The state of update_group while it notifies.
NoticeRows == [user : Users, gen : Nat, version : Nat, fingerprint : Fingerprints,
               ok : BOOLEAN]
TaskOK ==
  /\ DOMAIN task = Workers
  /\ \A w \in Notifying :
       task[w] \in [gen : Nat, version : Nat, fingerprint : Fingerprints,
                   todo : SUBSET Users, rows : SUBSET NoticeRows]

VersionInv == LogOK /\ TaskOK /\ ClaimsOK /\ GensDiffer /\ OwnRows

\* The claim of a fingerprint is what it was taken from.
LEMMA FingerprintClaim ==
  ASSUME NEW r, NEW route, NEW tags, r.fingerprint = Fingerprint(route, tags)
  PROVE  Claim(r) = [gen |-> r.gen, version |-> r.version, route |-> route, tags |-> tags]
  BY DEF Claim, Fingerprint

\* A step that claims nothing new and leaves the groups it keeps as they are.
LEMMA ClaimsKept ==
  ASSUME TablesOK, TablesOK', ClaimsOK, GensDiffer, Claims' \subseteq Claims,
         created' = created,
         \A g \in Existing' : /\ g \in Existing /\ groups'[g].gen = groups[g].gen
                              /\ groups'[g].version = groups[g].version
  PROVE  ClaimsOK' /\ GensDiffer'
  BY DEF ClaimsOK, GensDiffer

\* A row that a command writes claims what the group's row says.
LEMMA HandledClaims ==
  ASSUME LogOK, NEW u \in Users, NEW action \in Commands, Handle(u, action)
  PROVE  Claims' \subseteq Claims
<1>1. PICK ok \in BOOLEAN : log' = Append(log, Row(u, action, ok))
  BY HandleRow
<1> DEFINE r == Row(u, action, ok)
<1>2. UNCHANGED <<notices, task, groups>>
  BY DEF Handle, Record
<1>3. Versioned' \subseteq Versioned \cup {r} \cup notices
  <2>1. \A i \in DOMAIN log' : log'[i] = r \/ (i \in DOMAIN log /\ log'[i] = log[i])
    BY <1>1 DEF LogOK
  <2> HIDE DEF r
  <2> QED
    BY <1>2, <2>1 DEF Versioned
<1>4. r \in Versioned' => Claim(r) \in {GroupClaim(groups[g]) : g \in Existing}
  <2> SUFFICES ASSUME r \in Versioned' PROVE \E g \in Existing : Claim(r) = GroupClaim(groups[g])
    OBVIOUS
  <2>1. r.fingerprint # None
    BY DEF Versioned
  <2>2. users[u] # None /\ Assigned(u)
    BY <2>1 DEF Row
  <2> DEFINE g == users[u].group
  <2>3. /\ g \in Existing /\ r.gen = groups[g].gen /\ r.version = groups[g].version
        /\ r.fingerprint = Fingerprint(groups[g].route, groups[g].tags)
    BY <2>2 DEF Row, Assigned
  <2> HIDE DEF r, g
  <2>4. Claim(r) = [gen |-> groups[g].gen, version |-> groups[g].version,
                    route |-> groups[g].route, tags |-> groups[g].tags]
    BY <2>3, FingerprintClaim
  <2> QED
    BY <2>3, <2>4 DEF GroupClaim
<1> HIDE DEF r
<1>5. Claims' = {Claim(s) : s \in Versioned' \cup notices}
                \cup {Claim(task[w]) : w \in Notifying}
                \cup {GroupClaim(groups[g]) : g \in Existing}
  BY <1>2 DEF Claims, Notifying, Existing, Claim, GroupClaim
<1> QED
  BY <1>3, <1>4, <1>5 DEF Claims

\* A notification claims what was read before its first call, however the calls
\* end and whatever is edited in between.
LEMMA NotifyClaims ==
  ASSUME VersionInv, NEW w \in Workers, Notify(w)
  PROVE  Claims' \subseteq Claims /\ OwnRows' /\ TaskOK'
<1>1. PICK u \in task[w].todo, ok \in BOOLEAN :
        Delivered(w, [user |-> u, gen |-> task[w].gen, version |-> task[w].version,
                      fingerprint |-> task[w].fingerprint, ok |-> ok])
  BY DEF Notify
<1> DEFINE row == [user |-> u, gen |-> task[w].gen, version |-> task[w].version,
                   fingerprint |-> task[w].fingerprint, ok |-> ok]
           rows == task[w].rows \cup {row}
           todo == task[w].todo \ {u}
<1>2. w \in Notifying /\ UNCHANGED <<groups, log>>
  BY DEF Notify, Notifying
<1>3. task[w] \in [gen : Nat, version : Nat, fingerprint : Fingerprints,
                   todo : SUBSET Users, rows : SUBSET NoticeRows]
  BY <1>2 DEF VersionInv, TaskOK
<1>4. \A r \in rows : Claim(r) = Claim(task[w])
  <2>1. \A r \in task[w].rows : Claim(r) = Claim(task[w])
    BY <1>2 DEF VersionInv, OwnRows
  <2>2. /\ row.gen = task[w].gen /\ row.version = task[w].version
        /\ row.fingerprint = task[w].fingerprint
    OBVIOUS
  <2>3. Claim(row) = Claim(task[w])
    BY <2>2 DEF Claim
  <2> QED
    BY <2>1, <2>3
<1>5. row \in NoticeRows /\ rows \subseteq NoticeRows
  <2>1. row \in NoticeRows
    BY <1>3 DEF NoticeRows
  <2> QED
    BY <1>3, <2>1
<1>6. \/ notices' = notices \cup rows /\ task' = [task EXCEPT ![w] = None]
      \/ /\ task' = [task EXCEPT ![w].todo = todo, ![w].rows = rows]
         /\ notices' = notices
  BY <1>1 DEF Delivered
<1> HIDE DEF row
<1> DEFINE sofar == {log[i] : i \in DOMAIN log}
<1>7. Versioned' \cup notices' = {r \in sofar : r.fingerprint # None} \cup notices'
  BY <1>2 DEF Versioned
<1>8. Versioned \cup notices = {r \in sofar : r.fingerprint # None} \cup notices
  BY DEF Versioned
<1> HIDE DEF sofar
<1>9. CASE notices' = notices \cup rows /\ task' = [task EXCEPT ![w] = None]
  <2>1. /\ DOMAIN task = Workers
        /\ \A v \in Notifying' : v \in Notifying /\ task'[v] = task[v]
    BY <1>9 DEF VersionInv, TaskOK, Notifying
  <2>2. OwnRows' /\ TaskOK'
    BY <1>9, <2>1 DEF VersionInv, OwnRows, TaskOK, Claim, NoticeRows, Fingerprints
  <2>3. \A c \in Claims' :
          \/ \E r \in Versioned' \cup notices' : c = Claim(r)
          \/ \E v \in Notifying' : c = Claim(task'[v])
          \/ \E g \in Existing : c = GroupClaim(groups[g])
    BY <1>2 DEF Claims, Existing, Claim, GroupClaim
  <2>4. \A r \in Versioned' \cup notices' : r \in Versioned \cup notices \cup rows
    BY <1>7, <1>8, <1>9
  <2>5. Claims' \subseteq Claims
    BY <1>2, <1>4, <2>1, <2>3, <2>4 DEF Claims
  <2> QED
    BY <2>2, <2>5
<1>10. CASE /\ task' = [task EXCEPT ![w].todo = todo, ![w].rows = rows]
            /\ notices' = notices
  <2> DEFINE next == [task[w] EXCEPT !.todo = todo, !.rows = rows]
  <2>1. /\ next \in [gen : Nat, version : Nat, fingerprint : Fingerprints,
                     todo : SUBSET Users, rows : SUBSET NoticeRows]
        /\ next.gen = task[w].gen /\ next.version = task[w].version
        /\ next.fingerprint = task[w].fingerprint /\ next.rows = rows
    BY <1>3, <1>5
  <2>2. Claim(next) = Claim(task[w])
    BY <2>1 DEF Claim
  <2>3. task' = [task EXCEPT ![w] = next]
    BY <1>10
  <2> HIDE DEF next
  <2>4. /\ DOMAIN task' = Workers /\ task'[w] = next
        /\ \A v \in Workers \ {w} : task'[v] = task[v]
        /\ Notifying' \subseteq Notifying
    BY <1>2, <2>3 DEF VersionInv, TaskOK, Notifying
  <2>5. TaskOK'
    BY <2>1, <2>4 DEF VersionInv, TaskOK, Notifying, NoticeRows, Fingerprints
  <2>6. OwnRows'
    <3> SUFFICES ASSUME NEW v \in Notifying', NEW r \in task'[v].rows
                 PROVE  Claim(r) = Claim(task'[v])
      BY DEF OwnRows, Claim
    <3>1. CASE v = w
      BY <1>4, <2>1, <2>2, <2>4, <3>1
    <3>2. CASE v # w
      BY <2>4, <3>2 DEF VersionInv, OwnRows, Notifying
    <3> QED
      BY <3>1, <3>2
  <2>7. \A c \in Claims' :
          \/ \E r \in Versioned \cup notices : c = Claim(r)
          \/ \E v \in Notifying' : c = Claim(task'[v])
          \/ \E g \in Existing : c = GroupClaim(groups[g])
    BY <1>2, <1>7, <1>8, <1>10 DEF Claims, Existing, Claim, GroupClaim
  <2>8. Claims' \subseteq Claims
    BY <1>2, <2>2, <2>4, <2>7 DEF Claims, Notifying
  <2> QED
    BY <2>5, <2>6, <2>8
<1> QED
  BY <1>6, <1>9, <1>10

\* The first row of a group opens a gen of which nothing has been claimed.
LEMMA CreateClaims ==
  ASSUME VersionInv, TablesOK', NEW f \in GroupForms, CreateGroup(f)
  PROVE  ClaimsOK' /\ GensDiffer' /\ OwnRows' /\ TaskOK'
<1>1. PICK g \in GroupIds : NextKey(g) /\ groups' = [groups EXCEPT ![g] = GroupRow(f)]
  BY DEF CreateGroup
<1>2. UNCHANGED <<log, notices, task, nodes>> /\ created' = created + 1
  BY DEF CreateGroup
<1> DEFINE d == GroupClaim(GroupRow(f))
<1>3. /\ g \notin Existing /\ groups'[g] = GroupRow(f)
      /\ \A h \in Existing' : h = g \/ (h \in Existing /\ groups'[h] = groups[h])
  BY <1>1 DEF NextKey, GroupIds, VersionInv, LogOK, TablesOK, Existing
<1>4. d.gen = created + 1 /\ d.version = 1 /\ groups'[g].gen = created + 1
      /\ groups'[g].version = 1 /\ d = GroupClaim(groups'[g])
  BY <1>3 DEF GroupClaim, GroupRow
<1>5. Claims' \subseteq Claims \cup {d}
  BY <1>2, <1>3 DEF Claims, Claim, GroupClaim, Versioned, Notifying
<1> HIDE DEF d
<1>6. /\ \A h \in Existing : GroupClaim(groups[h]) \in Claims
      /\ \A h \in Existing : GroupClaim(groups[h]).gen = groups[h].gen
  BY DEF Claims, GroupClaim
<1>7. created \in Nat /\ \A c \in Claims : c.gen \in 0..created /\ c.version \in Nat
  BY DEF VersionInv, LogOK, TablesOK, ClaimsOK
<1>8. \A h \in Existing : groups[h].gen \in 0..created
  BY <1>6, <1>7
<1>9. GensDiffer'
  BY <1>3, <1>4, <1>7, <1>8 DEF VersionInv, GensDiffer
<1>10. ClaimsOK'
  BY <1>2, <1>3, <1>4, <1>5, <1>7, <1>8 DEF VersionInv, ClaimsOK
<1> QED
  BY <1>2, <1>9, <1>10 DEF VersionInv, OwnRows, TaskOK, Notifying, Claim, NoticeRows, Fingerprints

\* An update that changes what a group's config is made of claims it for a version
\* that nothing has been claimed of; any other update claims nothing new.
LEMMA UpdateClaims ==
  ASSUME VersionInv, TablesOK', NEW w \in Workers, NEW g \in Existing, NEW f \in GroupForms,
         UpdateGroup(w, g, f)
  PROVE  ClaimsOK' /\ GensDiffer' /\ OwnRows' /\ TaskOK'
<1> DEFINE old == groups[g]
           n == IF Changed(old, f) THEN old.version + 1 ELSE old.version
           new == [old EXCEPT !.tags = f.tags, !.route = f.route,
                     !.limit = f.limit, !.enabled = f.enabled, !.version = n]
           note == Notification(g, new)
<1>1. old \in GroupRows /\ g \in GroupIds
  BY RowTypes DEF VersionInv, LogOK
<1>2. /\ new.version = n /\ n <= MaxVersion /\ groups' = [groups EXCEPT ![g] = new]
      /\ UNCHANGED <<nodes, log, notices, created>> /\ task[w] = None
      /\ task' = task \/ (Changed(old, f) /\ task' = [task EXCEPT ![w] = note])
  BY <1>1 DEF UpdateGroup, GroupRows
<1>3. n \in 1..MaxVersion
  BY <1>1, <1>2 DEF GroupRows
<1>4. /\ new \in GroupRows /\ new.gen = old.gen
      /\ new.tags = f.tags /\ new.route = f.route /\ new.version = n
  <2>1. /\ f.tags \in SUBSET Tags /\ f.route \in Routes /\ f.limit \in Limits
        /\ f.enabled \in BOOLEAN
    BY DEF GroupForms, Known
  <2> HIDE DEF n, old
  <2> QED
    BY <1>1, <1>3, <2>1 DEF GroupRows
<1>5. /\ f.tags \in SUBSET Known /\ f.route \in Routes
  BY DEF GroupForms
<1>6. note \in [gen : Nat, version : Nat, fingerprint : Fingerprints,
                todo : SUBSET Users, rows : SUBSET NoticeRows]
      /\ note.rows = {}
  <2>1. Fingerprint(new.route, new.tags) \in Fingerprints
    BY <1>4, <1>5, FingerprintType DEF VersionInv, LogOK, TablesOK
  <2>2. new.gen \in Nat /\ new.version \in Nat /\ Members(g) \in SUBSET Users
    <3> HIDE DEF new
    <3>1. new.gen \in 1..MaxCreated /\ new.version \in 1..MaxVersion
      BY <1>4 DEF GroupRows
    <3> QED
      BY <3>1 DEF Members
  <2> QED
    BY <2>1, <2>2 DEF Notification
<1>7. Claim(note) = GroupClaim(new)
  <2>1. note.fingerprint = Fingerprint(new.route, new.tags) /\ note.gen = new.gen
        /\ note.version = new.version
    BY DEF Notification
  <2> HIDE DEF note, new
  <2> QED
    BY <2>1, FingerprintClaim DEF GroupClaim
<1>8. /\ old.gen \in Nat /\ old.version \in Nat /\ new # None
      /\ ~Changed(old, f) => n = old.version /\ f.tags = old.tags /\ f.route = old.route
      /\ Changed(old, f) => n = old.version + 1
  <2>1. old.gen \in 1..MaxCreated /\ old.version \in 1..MaxVersion
    BY <1>1 DEF GroupRows
  <2>2. new # None
    <3> HIDE DEF new
    <3> QED
      BY <1>4
  <2> HIDE DEF old, new
  <2> QED
    BY <2>1, <2>2 DEF Changed
<1> DEFINE d == GroupClaim(new)
<1>9. d.gen = old.gen /\ d.version = n
  BY <1>4 DEF GroupClaim
<1>10. ~Changed(old, f) => d = GroupClaim(old)
  BY <1>4, <1>8 DEF GroupClaim
<1> HIDE DEF old, n, new, note
<1>11. groups'[g] = new /\ \A h \in Existing' : h \in Existing /\ (h # g => groups'[h] = groups[h])
  BY <1>1, <1>2 DEF VersionInv, LogOK, TablesOK, Existing
<1>12. /\ DOMAIN task' = Workers
       /\ \A v \in Notifying' : \/ v \in Notifying /\ task'[v] = task[v]
                                \/ task'[v] = note /\ Changed(old, f)
  BY <1>2 DEF VersionInv, TaskOK, Notifying
<1>13. TaskOK'
  BY <1>6, <1>12 DEF VersionInv, TaskOK, NoticeRows, Fingerprints
<1>14. OwnRows'
  <2> SUFFICES ASSUME NEW v \in Notifying', NEW r \in task'[v].rows
               PROVE  Claim(r) = Claim(task'[v])
    BY DEF OwnRows, Claim
  <2> QED
    BY <1>6, <1>12 DEF VersionInv, OwnRows
<1>15. Claims' \subseteq Claims \cup {d}
  <2>1. \A c \in Claims' :
          \/ \E r \in Versioned \cup notices : c = Claim(r)
          \/ \E v \in Notifying' : c = Claim(task'[v])
          \/ \E h \in Existing' : c = GroupClaim(groups'[h])
    BY <1>2 DEF Claims, Claim, GroupClaim, Versioned
  <2> QED
    BY <1>7, <1>11, <1>12, <2>1 DEF Claims
<1>16. old = groups[g] /\ GroupClaim(groups[g]) \in Claims
  BY DEF old, Claims
<1>17. GroupClaim(old).gen = old.gen /\ GroupClaim(old).version = old.version
  BY DEF GroupClaim
<1>18. created \in Nat
  BY DEF VersionInv, LogOK, TablesOK
<1>19. groups'[g].gen = old.gen /\ groups'[g].version = n
  BY <1>4, <1>11
<1> HIDE DEF d
<1>20. GensDiffer'
  BY <1>11, <1>16, <1>19 DEF VersionInv, GensDiffer
<1>21. \A c \in Claims : c.gen \in 0..created /\ c.version \in Nat
                         /\ (c.gen = old.gen => c.version <= old.version)
  BY <1>16 DEF VersionInv, ClaimsOK
<1>22. \A c, e \in Claims' : c.gen = e.gen /\ c.version = e.version => c = e
  <2>1. CASE Changed(old, f)
    BY <1>8, <1>9, <1>15, <1>21, <2>1 DEF VersionInv, ClaimsOK
  <2>2. CASE ~Changed(old, f)
    BY <1>10, <1>15, <1>16, <2>2 DEF VersionInv, ClaimsOK
  <2> QED
    BY <2>1, <2>2
<1>23. \A c \in Claims', h \in Existing' : c.gen = groups'[h].gen => c.version <= groups'[h].version
  <2> SUFFICES ASSUME NEW c \in Claims', NEW h \in Existing', c.gen = groups'[h].gen
               PROVE  c.version <= groups'[h].version
    OBVIOUS
  <2>1. CASE h = g
    BY <1>8, <1>9, <1>15, <1>19, <1>21, <2>1
  <2>2. CASE h # g
    <3>1. c \in Claims
      BY <1>9, <1>11, <1>15, <1>16, <2>2 DEF VersionInv, GensDiffer
    <3> QED
      BY <1>11, <2>2, <3>1 DEF VersionInv, ClaimsOK
  <2> QED
    BY <2>1, <2>2
<1>24. \A c \in Claims' : c.gen \in 0..created' /\ c.version \in Nat
  BY <1>2, <1>3, <1>9, <1>15, <1>16, <1>17, <1>21
<1>25. ClaimsOK'
  BY <1>22, <1>23, <1>24 DEF ClaimsOK
<1> QED
  BY <1>13, <1>14, <1>20, <1>25

\* Steps that write no row, start no notification and put no group in place of
\* another: the claims are among those there were.
LEMMA QuietClaims ==
  ASSUME VersionInv, TablesOK', UNCHANGED <<log, notices, task, created>>,
         \A g \in Existing' : g \in Existing /\ groups'[g] = groups[g]
  PROVE  ClaimsOK' /\ GensDiffer' /\ OwnRows' /\ TaskOK'
<1>1. Claims' \subseteq Claims
  BY DEF Claims, Claim, GroupClaim, Versioned, Notifying
<1>2. ClaimsOK' /\ GensDiffer'
  BY <1>1, ClaimsKept DEF VersionInv, LogOK
<1> QED
  BY <1>2 DEF VersionInv, OwnRows, TaskOK, Notifying, Claim, NoticeRows, Fingerprints

\* VersionInv is inductive.
LEMMA VersionStep == VersionInv /\ [Next]_vars => VersionInv'
<1> SUFFICES ASSUME VersionInv, [Next]_vars PROVE VersionInv'
  OBVIOUS
<1>1. LogOK' /\ TablesOK' /\ TablesOK
  BY LogStep DEF VersionInv, LogOK
<1> SUFFICES ClaimsOK' /\ GensDiffer' /\ OwnRows' /\ TaskOK'
  BY <1>1 DEF VersionInv
<1>2. CASE EditNodes
  BY <1>1, <1>2, QuietClaims DEF EditNodes, PutNode, Existing
<1>3. ASSUME NEW f \in GroupForms, CreateGroup(f)
      PROVE  ClaimsOK' /\ GensDiffer' /\ OwnRows' /\ TaskOK'
  BY <1>1, <1>3, CreateClaims
<1>4. ASSUME NEW w \in Workers, NEW g \in Existing, NEW f \in GroupForms, UpdateGroup(w, g, f)
      PROVE  ClaimsOK' /\ GensDiffer' /\ OwnRows' /\ TaskOK'
  BY <1>1, <1>4, UpdateClaims
<1>5. ASSUME NEW g \in Existing, DeleteGroup(g)
      PROVE  ClaimsOK' /\ GensDiffer' /\ OwnRows' /\ TaskOK'
  <2>1. UNCHANGED <<log, notices, task, created>> /\ groups' = [groups EXCEPT ![g] = None]
    BY <1>5 DEF DeleteGroup
  <2>2. \A h \in Existing' : h \in Existing /\ groups'[h] = groups[h]
    BY <1>1, <2>1 DEF Existing, TablesOK
  <2> QED
    BY <1>1, <2>1, <2>2, QuietClaims
<1>6. CASE EditUsers
  BY <1>1, <1>6, QuietClaims DEF EditUsers, CreateUser, UpdateUser, DeleteUser, Existing
<1>7. ASSUME NEW w \in Workers, Notify(w)
      PROVE  ClaimsOK' /\ GensDiffer' /\ OwnRows' /\ TaskOK'
  <2>1. Claims' \subseteq Claims /\ OwnRows' /\ TaskOK'
    BY <1>7, NotifyClaims
  <2>2. UNCHANGED <<groups, created>>
    BY <1>7 DEF Notify
  <2>3. ClaimsOK' /\ GensDiffer'
    BY <1>1, <2>1, <2>2, ClaimsKept DEF VersionInv, Existing
  <2> QED
    BY <2>1, <2>3
<1>8. ASSUME NEW u \in Users, NEW action \in Commands, Handle(u, action)
      PROVE  ClaimsOK' /\ GensDiffer' /\ OwnRows' /\ TaskOK'
  <2>1. Claims' \subseteq Claims
    BY <1>8, HandledClaims DEF VersionInv
  <2>2. UNCHANGED <<groups, created, task>>
    BY <1>8 DEF Handle, Record
  <2>3. ClaimsOK' /\ GensDiffer'
    BY <1>1, <2>1, <2>2, ClaimsKept DEF VersionInv, Existing
  <2>4. OwnRows' /\ TaskOK'
    BY <2>2 DEF VersionInv, OwnRows, TaskOK, Notifying, Claim, NoticeRows, Fingerprints
  <2> QED
    BY <2>3, <2>4
<1>9. CASE Tick
  BY <1>1, <1>9, QuietClaims DEF Tick, Existing
<1>10. CASE UNCHANGED vars
  BY <1>1, <1>10, QuietClaims DEF vars, Existing
<1> QED
  BY <1>2, <1>3, <1>4, <1>5, <1>6, <1>7, <1>8, <1>9, <1>10 DEF Next, EditGroups

\* Tracked versions (README.md:49): a version of a group stands for one set of
\* nodes and one route preset in every row that names it, however deliveries,
\* updates and the calls of notifications interleave.
THEOREM VersionsStandForContent == DistributionSpec => []VersionNamesContent
<1>1. Init => VersionInv
  <2> SUFFICES ASSUME Init PROVE VersionInv
    OBVIOUS
  <2>1. LogOK
    BY LogInit
  <2>2. Notifying = {} /\ Existing = {} /\ Versioned \cup notices = {}
    BY DEF Init, Notifying, Existing, Versioned
  <2>3. Claims = {}
    BY <2>2 DEF Claims
  <2> QED
    BY <2>1, <2>2, <2>3 DEF VersionInv, ClaimsOK, GensDiffer, OwnRows, TaskOK, Init
<1>2. VersionInv => VersionNamesContent
  <2> SUFFICES ASSUME VersionInv, NEW r \in Versioned, NEW s \in Versioned,
                      r.gen = s.gen, r.version = s.version
               PROVE  /\ r.fingerprint.route = s.fingerprint.route
                      /\ DOMAIN r.fingerprint.urls = DOMAIN s.fingerprint.urls
    BY DEF VersionNamesContent
  <2>1. Claim(r) \in Claims /\ Claim(s) \in Claims
    BY DEF Claims
  <2>2. Claim(r) = Claim(s)
    BY <2>1 DEF VersionInv, ClaimsOK, Claim
  <2> QED
    BY <2>2 DEF Claim
<1> QED
  BY <1>1, <1>2, VersionStep, PTL DEF DistributionSpec

=============================================================================
