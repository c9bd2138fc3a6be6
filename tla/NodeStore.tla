----------------------------- MODULE NodeStore -----------------------------
(***************************************************************************)
(* The table of proxy nodes: adding, importing, refreshing, editing and    *)
(* deleting nodes (app/services/nodes.py), with the geo lookup             *)
(* (app/geo.py) that add, import and refresh await between reading a row   *)
(* and committing it.                                                      *)
(*                                                                         *)
(* A request works on its own ORM session: the objects it loaded are       *)
(* snapshots, queries do not see its pending rows (autoflush is off), and  *)
(* the commit updates, by primary key, the columns whose value differs     *)
(* from the loaded one, all rows or none.                                  *)
(***************************************************************************)
EXTENDS Integers, SequencesExt, FiniteSetsExt

CONSTANTS
  Links,      \* proxy links as parsed: records with tag, protocol and server
  Geos,       \* what a lookup finds, or an operator enters
  Roles,      \* TOPOLOGY_ROLES
  Payloads,   \* what is imported: sequences of items
  Requests,   \* concurrent requests that await a lookup
  Calls,      \* which handlers the operator uses
  DeleteRaces,\* TRUE: nodes may be deleted while a request is under way
  MaxNodes,   \* bound: primary keys
  Absent, Bad,\* an item without topology_role, with an unknown one
  None        \* an empty column, an absent row

Keys == 1..MaxNodes
Tags == {link.tag : link \in Links}
Handlers == {"add", "import", "refresh", "metadata", "delete"}

Rows == [tag : Tags, link : Links, protocol : {link.protocol : link \in Links},
         geo : Geos \cup {None}, role : Roles \cup {None}]
Items == [link : Links, geo : Geos \cup {None}, role : Roles \cup {None, Absent, Bad}]

\* loaded, held: rows as loaded and as assigned to since; fresh: rows to insert;
\* waits: the key of the row whose lookup is awaited, 0: the last of fresh; named
\* (history): rows whose items name a role; skipped: links reported as skipped; raced
\* (history): the table was written by others meanwhile
Sessions == [todo : Seq(Items), loaded : [Keys -> Rows \cup {None}],
             held : [Keys -> Rows \cup {None}], fresh : Seq(Rows),
             waits : Keys \cup {0, None}, named : SUBSET Keys, skipped : SUBSET Links,
             raced : BOOLEAN]

ASSUME NodeAssumption ==
  /\ MaxNodes \in Nat /\ Calls \subseteq Handlers /\ DeleteRaces \in BOOLEAN
  /\ Payloads \subseteq Seq(Items)
  /\ None \notin Geos \cup Roles \cup Rows \cup Keys \cup Requests \cup {0}
  /\ None \notin Sessions
  /\ Absent \notin Roles \cup {None} /\ Bad \notin Roles \cup {None, Absent}

VARIABLES
  nodes,  \* primary key -> row of nodes, or None
  req,    \* the session of each request, or None
  turn    \* the request that holds the event loop, None between two awaits

vars == <<nodes, req, turn>>

\* Type invariant: the table with its unique tags, and the sessions.
NodeTypeOK ==
  /\ nodes \in [Keys -> Rows \cup {None}]
  /\ \A k, l \in Keys : nodes[k] # None /\ nodes[l] # None /\ nodes[k].tag = nodes[l].tag
       => k = l
  /\ req \in [Requests -> Sessions \cup {None}]
  /\ turn \in Requests \cup {None}

Init ==
  /\ nodes = [k \in Keys |-> None]
  /\ req = [r \in Requests |-> None]
  /\ turn = None

-----------------------------------------------------------------------------

Stored == {k \in Keys : nodes[k] # None}
LastKey == IF Stored = {} THEN 0 ELSE Max(Stored)

\* Mutant of Found: a node is recognised by its server
FoundByServer(link) == {k \in Stored : nodes[k].link.server = link.server}

\* Mutant of Found: by the whole link
FoundByLink(link) == {k \in Stored : nodes[k].link = link}

\* NodeRepository.get_by_tag
Found(link) == {k \in Stored : nodes[k].tag = link.tag}

NewRow(link, geo, role) ==
  [tag |-> link.tag, link |-> link, protocol |-> link.protocol, geo |-> geo, role |-> role]

NoRows == [k \in Keys |-> None]
Session(todo, fresh, waits) ==
  [todo |-> todo, loaded |-> NoRows, held |-> NoRows, fresh |-> fresh, waits |-> waits,
   named |-> {}, skipped |-> {}, raced |-> FALSE]
Hold(s, k, row) ==
  [s EXCEPT !.loaded[k] = IF s.held[k] = None THEN nodes[k] ELSE @, !.held[k] = row]

\* Bound: every row that is still to be inserted gets a key
Pending(r) == IF req[r] = None THEN 0
              ELSE Len(req[r].todo) + Len(req[r].fresh)
Room(n) == LastKey + MapThenSumSet(Pending, Requests) + n <= MaxNodes

Idle(r, handler) == turn = None /\ req[r] = None /\ handler \in Calls

\* add_or_update_node up to its await
Add(r, link) ==
  /\ Idle(r, "add") /\ Room(1)
  /\ \/ \E k \in Found(link) :
          req' = [req EXCEPT ![r] = Hold(Session(<<>>, <<>>, k), k,
                    [nodes[k] EXCEPT !.link = link, !.protocol = link.protocol])]
     \/ /\ Found(link) = {}
        /\ req' = [req EXCEPT ![r] = Session(<<>>, <<NewRow(link, None, None)>>, 0)]
  /\ UNCHANGED <<nodes, turn>>

\* refresh_geo_by_id up to its await
RefreshGeo(r, k) ==
  /\ Idle(r, "refresh") /\ k \in Stored
  /\ req' = [req EXCEPT ![r] = Hold(Session(<<>>, <<>>, k), k, nodes[k])]
  /\ UNCHANGED <<nodes, turn>>

Import(r, items) ==
  /\ Idle(r, "import") /\ Room(Len(items))
  /\ req' = [req EXCEPT ![r] = Session(items, <<>>, None)]
  /\ turn' = r
  /\ UNCHANGED nodes

\* Mutant of Applied: an item that names no role takes the row's role away
AppliedAlways(row, item) ==
  [row EXCEPT !.link = item.link, !.protocol = item.link.protocol,
              !.geo = IF item.geo = None THEN @ ELSE item.geo,
              !.role = IF item.role \in Roles THEN item.role ELSE None]

\* _apply_import_update: the link is assigned before the role is looked at
Applied(row, item) ==
  [row EXCEPT !.link = item.link, !.protocol = item.link.protocol,
              !.geo = IF item.geo = None THEN @ ELSE item.geo,
              !.role = IF item.role \in {Absent, Bad} THEN @ ELSE item.role]

\* One item of the loop of import_nodes_payload
Imported(s, item) ==
  LET rest == [s EXCEPT !.todo = Tail(@),
                        !.skipped = IF item.role = Bad THEN @ \cup {item.link} ELSE @]
      row == NewRow(item.link, item.geo, IF item.role = Absent THEN None ELSE item.role)
  IN IF Found(item.link) # {}
     THEN LET k == CHOOSE k \in Found(item.link) : TRUE
             named == IF item.role \in {Absent, Bad} THEN {} ELSE {k}
          IN Hold([rest EXCEPT !.named = @ \cup named], k,
                  Applied(IF s.held[k] = None THEN nodes[k] ELSE s.held[k], item))
     ELSE IF item.role = Bad THEN rest
     ELSE [rest EXCEPT !.fresh = Append(@, row), !.waits = IF item.geo = None THEN 0 ELSE None]

Running(r) == turn = r /\ req[r].waits = None

ImportItem(r) ==
  /\ Running(r) /\ req[r].todo # <<>>
  /\ LET s == Imported(req[r], Head(req[r].todo))
     IN req' = [req EXCEPT ![r] = s] /\ turn' = IF s.waits = None THEN r ELSE None
  /\ UNCHANGED nodes

\* Mutant of LookedUp: a failed lookup drops the new node
LookedUpOrDropped(s, geo) ==
  IF geo # None THEN
    IF s.waits = 0 THEN [s EXCEPT !.fresh[Len(s.fresh)].geo = geo, !.waits = None]
                   ELSE [s EXCEPT !.held[s.waits].geo = geo, !.waits = None]
  ELSE IF s.waits = 0 THEN [s EXCEPT !.fresh = Front(@), !.waits = None]
  ELSE [s EXCEPT !.waits = None]

\* refresh_node_geo after its await
LookedUp(s, geo) ==
  IF geo = None THEN [s EXCEPT !.waits = None]
  ELSE IF s.waits = 0 THEN [s EXCEPT !.fresh[Len(s.fresh)].geo = geo, !.waits = None]
  ELSE [s EXCEPT !.held[s.waits].geo = geo, !.waits = None]

\* The lookup answers, or fails (geo = None), at the latest after its timeout
Lookup(r, geo) ==
  /\ turn = None /\ req[r] # None /\ req[r].waits # None
  /\ req' = [req EXCEPT ![r] = LookedUp(req[r], geo)]
  /\ turn' = r
  /\ UNCHANGED nodes

Ready(r) == turn = r /\ req[r].todo = <<>> /\ req[r].waits = None

Duplicate(s) == \E i, j \in DOMAIN s.fresh : i # j /\ s.fresh[i].tag = s.fresh[j].tag

\* Mutant of Conflict: no unique index on the tag
ConflictUnindexed(r) ==
  \E k \in Keys \ Stored : req[r].held[k] # req[r].loaded[k]

\* An INSERT breaks the unique tag, or an UPDATE finds no row any more
Conflict(r) ==
  LET s == req[r] IN
  \/ \E i \in DOMAIN s.fresh, k \in Stored : nodes[k].tag = s.fresh[i].tag
  \/ Duplicate(s)
  \/ \E k \in Keys \ Stored : s.held[k] # s.loaded[k]

\* What the commit leaves in row k: columns that were assigned another value
Flushed(s, k) ==
  IF s.held[k] = s.loaded[k] THEN nodes[k]
  ELSE [column \in DOMAIN nodes[k] |->
          IF s.held[k][column] # s.loaded[k][column] THEN s.held[k][column]
          ELSE nodes[k][column]]

\* The others' sessions now work on a table that has changed
Raced(sessions) ==
  [r \in Requests |-> IF sessions[r] = None THEN None ELSE [sessions[r] EXCEPT !.raced = TRUE]]

\* The commit and the answer; on a conflict it raises and all is rolled back
Finish(r) ==
  /\ Ready(r)
  /\ LET s == req[r]
         last == LastKey
     IN nodes' = IF Conflict(r) THEN nodes
                 ELSE [k \in Keys |-> IF k \in last + 1..last + Len(s.fresh)
                                      THEN s.fresh[k - last] ELSE Flushed(s, k)]
  /\ LET rest == [req EXCEPT ![r] = None]
     IN req' = IF nodes' = nodes THEN rest ELSE Raced(rest)
  /\ turn' = None

\* update_node_metadata with a known topology role
Metadata(k, geo, role) ==
  /\ turn = None /\ "metadata" \in Calls /\ k \in Stored
  /\ nodes' = [nodes EXCEPT ![k].geo = geo, ![k].role = role]
  /\ req' = Raced(req)
  /\ UNCHANGED turn

DeleteNode(k) ==
  /\ turn = None /\ "delete" \in Calls /\ k \in Stored
  /\ DeleteRaces \/ \A r \in Requests : req[r] = None
  /\ nodes' = [nodes EXCEPT ![k] = None]
  /\ req' = Raced(req)
  /\ UNCHANGED turn

-----------------------------------------------------------------------------

Proceed(r) ==
  \/ ImportItem(r)
  \/ \E geo \in Geos \cup {None} : Lookup(r, geo)
  \/ Finish(r)

Next ==
  \/ \E r \in Requests :
       \/ \E link \in Links : Add(r, link)
       \/ \E k \in Keys : RefreshGeo(r, k)
       \/ \E items \in Payloads : Import(r, items)
       \/ Proceed(r)
  \/ \E k \in Keys, geo \in Geos \cup {None}, role \in Roles \cup {None} : Metadata(k, geo, role)
  \/ \E k \in Keys : DeleteNode(k)

NodeSpec == Init /\ [][Next]_vars

\* A lookup returns or times out, and the event loop resumes waiting requests in turn,
\* however often others run in between
FairNodes == NodeSpec /\ \A r \in Requests : SF_vars(Proceed(r))

-----------------------------------------------------------------------------
(* Properties *)

\* A row holds the link of its own tag: what is deployed and handed out under a
\* node's name is that node (docs/architecture.md:48).
LinkMatchesTag == \A k \in Stored : nodes[k].link.tag = nodes[k].tag

\* The columns parsed from a link belong to the link in the row
\* (docs/architecture.md:60).
ProtocolOfLink == \A k \in Stored : nodes[k].protocol = nodes[k].link.protocol

\* An operator's topology label survives lookups, re-added links and imports that do
\* not name it, however these overlap with the edit.
RoleKept ==
  [][\A k \in Stored : nodes'[k] # None /\ nodes'[k].role # nodes[k].role =>
       \/ \E geo \in Geos \cup {None}, role \in Roles \cup {None} : Metadata(k, geo, role)
       \/ \E r \in Requests : Finish(r) /\ k \in req[r].named]_vars

\* A commit is refused only when others wrote the table since the request began, or
\* when a payload names a new tag twice.
RefusedForCause == \A r \in Requests : Ready(r) /\ Conflict(r) => req[r].raced \/ Duplicate(req[r])

\* Adding a node twice updates it (tests/e2e/test_smoke.py): also while the first
\* request still waits for its lookup, the second commit is not refused.
AddsSucceed == \A r \in Requests : Ready(r) => ~Conflict(r)

\* An item reported as skipped (nodes.py:231) is not stored by that import.
SkippedNotStored ==
  [][\A r \in Requests, k \in Keys : Finish(r) /\ nodes'[k] # nodes[k]
       => nodes'[k].link \notin req[r].skipped \/ nodes'[k].link = nodes[k].link]_vars

\* Failure of a lookup must not block node creation (geo.py:21): a tag that is being
\* added or imported will be in the table, or its request is refused for a conflict.
CreatedWithoutGeo ==
  \A r \in Requests, tag \in Tags :
    (req[r] # None /\ req[r].waits = 0 /\ Last(req[r].fresh).tag = tag)
      ~> \/ \E k \in Stored : nodes[k].tag = tag
         \/ Ready(r) /\ Conflict(r)

=============================================================================
