-------------------------- MODULE NodeStoreProofs --------------------------
(***************************************************************************)
(* The table of nodes, for any links, payloads, requests and lookups: its  *)
(* types and unique tags, no commit refused without a cause, topology      *)
(* labels kept, and, as long as no node is deleted under a request that    *)
(* has loaded it, the link of every row being one of the row's own tag.    *)
(***************************************************************************)
EXTENDS NodeStore, WellFoundedInduction, TLAPS

USE NodeAssumption

-----------------------------------------------------------------------------
(* Sessions *)

Ongoing == {r \in Requests : req[r] # None}

\* A session holds the rows it has loaded, under their tags; it changes a label
\* only for an item that names one, and waits for a row that it has.
SessionOK(s) ==
  /\ s.waits \in Keys => s.held[s.waits] # None
  /\ s.waits = 0 => s.fresh # <<>>
  /\ \A k \in Keys : s.held[k] = None <=> s.loaded[k] = None
  /\ \A k \in Keys : s.held[k] # None =>
       /\ s.held[k].tag = s.loaded[k].tag
       /\ s.held[k].role # s.loaded[k].role => k \in s.named

\* As long as nobody else wrote the table, what a session has loaded is what the
\* table holds, and the tags it is about to insert are not in it.
Current(s) ==
  /\ \A k \in Keys : s.held[k] # None => s.loaded[k] = nodes[k]
  /\ \A i \in DOMAIN s.fresh, k \in Stored : nodes[k].tag # s.fresh[i].tag

SessionsOK ==
  \A r \in Ongoing : SessionOK(req[r]) /\ (~req[r].raced => Current(req[r]))

\* The request that holds the event loop is under way
TurnOK == turn # None => turn \in Ongoing

StoreInv == NodeTypeOK /\ TurnOK /\ SessionsOK

-----------------------------------------------------------------------------
(* Operators *)

\* A nonempty set of keys has a largest one.
LEMMA LargestKey ==
  ASSUME NEW S, S \subseteq Keys, S # {}
  PROVE  Max(S) \in S /\ \A k \in S : k <= Max(S)
<1> DEFINE T == {MaxNodes - k : k \in S}
           Less == {pair \in Nat \X Nat : pair[1] < pair[2]}
<1>1. \A k \in S : k \in 1..MaxNodes /\ MaxNodes - k \in Nat
  BY DEF Keys
<1>2. T \subseteq Nat /\ T # {}
  BY <1>1
<1>3. IsWellFoundedOn(Less, Nat)
  BY NatLessThanWellFounded DEF OpToRel
<1>4. \A k \in S : MaxNodes - k \in T
  OBVIOUS
<1>5. \A m \in T : \E k \in S : m = MaxNodes - k
  OBVIOUS
<1> HIDE DEF T
<1>6. PICK m \in T : \A n \in T : <<n, m>> \notin Less
  <2> HIDE DEF Less
  <2> QED
    BY <1>2, <1>3, WFMin
<1>7. ASSUME NEW n \in T PROVE m <= n
  <2>1. n \in Nat /\ m \in Nat /\ <<n, m>> \notin Less
    BY <1>2, <1>6
  <2> QED
    BY <2>1
<1>8. PICK k \in S : m = MaxNodes - k
  BY <1>5
<1>9. ASSUME NEW l \in S PROVE k >= l
  <2>1. m <= MaxNodes - l
    BY <1>4, <1>7
  <2> QED
    BY <1>1, <1>8, <2>1
<1> QED
  BY <1>9 DEF Max

\* Rows that are inserted get keys behind those of all stored rows.
LEMMA LastKeyIs == LastKey \in Nat /\ \A k \in Stored : k <= LastKey
<1>1. Stored \subseteq Keys /\ \A k \in Keys : k \in Nat
  BY DEF Stored, Keys
<1>2. CASE Stored = {}
  BY <1>2 DEF LastKey
<1>3. CASE Stored # {}
  <2>1. LastKey = Max(Stored)
    BY <1>3 DEF LastKey
  <2>2. LastKey \in Stored /\ \A k \in Stored : k <= LastKey
    BY <1>1, <1>3, <2>1, LargestKey
  <2> QED
    BY <1>1, <2>2
<1> QED
  BY <1>2, <1>3

\* A new session has loaded nothing.
LEMMA SessionType ==
  ASSUME NEW todo \in Seq(Items), NEW fresh \in Seq(Rows), NEW waits \in {0, None},
         waits = 0 => fresh # <<>>
  PROVE  /\ Session(todo, fresh, waits) \in Sessions
         /\ SessionOK(Session(todo, fresh, waits))
         /\ Session(todo, fresh, waits).fresh = fresh
         /\ \A k \in Keys : Session(todo, fresh, waits).held[k] = None
<1> DEFINE s == Session(todo, fresh, waits)
<1>1. s = [todo |-> todo, loaded |-> NoRows, held |-> NoRows, fresh |-> fresh,
           waits |-> waits, named |-> {}, skipped |-> {}, raced |-> FALSE]
  BY DEF Session
<1>2. NoRows \in [Keys -> Rows \cup {None}] /\ \A k \in Keys : NoRows[k] = None
  BY DEF NoRows
<1>3. waits \notin Keys
  BY DEF Keys
<1> HIDE DEF s
<1>4. s \in Sessions /\ s.fresh = fresh /\ s.held = NoRows /\ s.loaded = NoRows
      /\ s.waits = waits
  BY <1>1, <1>2 DEF Sessions
<1>5. SessionOK(s)
  BY <1>2, <1>3, <1>4 DEF SessionOK
<1> QED
  BY <1>2, <1>4, <1>5 DEF s

\* Holding a row changes only what is held, and loads the row the first time.
LEMMA HoldFields ==
  ASSUME NEW s \in Sessions, NEW k \in Keys, NEW row \in Rows, nodes[k] \in Rows
  PROVE  /\ Hold(s, k, row) \in Sessions
         /\ Hold(s, k, row).held = [s.held EXCEPT ![k] = row]
         /\ Hold(s, k, row).loaded =
              [s.loaded EXCEPT ![k] = IF s.held[k] = None THEN nodes[k] ELSE @]
         /\ Hold(s, k, row).fresh = s.fresh /\ Hold(s, k, row).waits = s.waits
         /\ Hold(s, k, row).named = s.named /\ Hold(s, k, row).raced = s.raced
<1> DEFINE load == [s.loaded EXCEPT ![k] = IF s.held[k] = None THEN nodes[k] ELSE @]
           hold == [s.held EXCEPT ![k] = row]
<1>1. load \in [Keys -> Rows \cup {None}] /\ hold \in [Keys -> Rows \cup {None}]
  BY DEF Sessions
<1> DEFINE t == Hold(s, k, row)
<1>2. t = [s EXCEPT !.loaded = load, !.held = hold]
  BY DEF Hold, Sessions
<1> HIDE DEF load, hold, t
<1>3. /\ t \in Sessions /\ t.held = hold /\ t.loaded = load
      /\ t.fresh = s.fresh /\ t.waits = s.waits /\ t.named = s.named /\ t.raced = s.raced
  BY <1>1, <1>2 DEF Sessions
<1> QED
  BY <1>3 DEF load, hold, t

\* Holding a row under the tag it was loaded with, with a label that is the
\* loaded one unless the session has a name for it.
LEMMA HoldOK ==
  ASSUME NEW s \in Sessions, NEW k \in Keys, NEW row \in Rows, nodes[k] \in Rows,
         \A l \in Keys : s.held[l] = None <=> s.loaded[l] = None,
         \A l \in Keys : s.held[l] # None =>
           /\ s.held[l].tag = s.loaded[l].tag
           /\ s.held[l].role # s.loaded[l].role => l \in s.named,
         s.waits = 0 => s.fresh # <<>>, s.waits \in Keys => s.waits = k,
         LET old == IF s.held[k] = None THEN nodes[k] ELSE s.held[k] IN
           row.tag = old.tag /\ (row.role = old.role \/ k \in s.named)
  PROVE  /\ Hold(s, k, row) \in Sessions /\ Hold(s, k, row).raced = s.raced
         /\ Hold(s, k, row).fresh = s.fresh /\ SessionOK(Hold(s, k, row))
         /\ Current(s) => Current(Hold(s, k, row))
<1> DEFINE t == Hold(s, k, row)
<1>1. /\ t.held = [s.held EXCEPT ![k] = row]
      /\ t.loaded = [s.loaded EXCEPT ![k] = IF s.held[k] = None THEN nodes[k] ELSE @]
      /\ t.fresh = s.fresh /\ t.waits = s.waits /\ t.named = s.named
      /\ t \in Sessions /\ t.raced = s.raced
  BY HoldFields
<1> HIDE DEF t
<1>2. /\ s.held \in [Keys -> Rows \cup {None}] /\ s.loaded \in [Keys -> Rows \cup {None}]
      /\ row # None /\ nodes[k] # None
  BY DEF Sessions
<1>3. /\ t.held[k] = row /\ t.loaded[k] = IF s.held[k] = None THEN nodes[k] ELSE s.loaded[k]
      /\ \A l \in Keys \ {k} : t.held[l] = s.held[l] /\ t.loaded[l] = s.loaded[l]
  BY <1>1, <1>2
<1>4. SessionOK(t)
  BY <1>1, <1>2, <1>3 DEF SessionOK
<1>5. Current(s) => Current(t)
  BY <1>1, <1>2, <1>3 DEF Current
<1> QED
  BY <1>1, <1>4, <1>5 DEF t

\* An import item changes the link of a row and, if it names one, the label.
LEMMA AppliedRow ==
  ASSUME NEW row \in Rows, NEW item \in Items
  PROVE  LET t == Applied(row, item) IN
         /\ t \in Rows /\ t.tag = row.tag /\ t.link = item.link
         /\ item.role \in {Absent, Bad} => t.role = row.role
<1>1. /\ item.link \in Links /\ item.link.protocol \in {link.protocol : link \in Links}
      /\ item.geo \in Geos \cup {None} /\ item.role \in Roles \cup {None, Absent, Bad}
  BY DEF Items
<1> QED
  BY <1>1 DEF Applied, Rows

\* A new row has the tag of its link.
LEMMA NewRowType ==
  ASSUME NEW link \in Links, NEW geo \in Geos \cup {None}, NEW role \in Roles \cup {None}
  PROVE  LET row == NewRow(link, geo, role) IN
         row \in Rows /\ row.tag = link.tag /\ row.link = link
<1>1. link.tag \in Tags /\ link.protocol \in {l.protocol : l \in Links}
  BY DEF Tags
<1> QED
  BY <1>1 DEF NewRow, Rows

\* The rows that exist have keys and are rows.
LEMMA StoredRow ==
  ASSUME NodeTypeOK, NEW k \in Stored
  PROVE  k \in Keys /\ nodes[k] \in Rows
  BY DEF NodeTypeOK, Stored

\* One item of an import: the row of its tag is held, or a new row is prepared
\* whose tag is not in the table, or the item is skipped.
LEMMA ImportedOK ==
  ASSUME NodeTypeOK, NEW s \in Sessions, SessionOK(s), s.waits = None, s.todo # <<>>,
         NEW item, item = Head(s.todo)
  PROVE  LET t == Imported(s, item) IN
         /\ t \in Sessions /\ SessionOK(t) /\ t.raced = s.raced
         /\ Current(s) => Current(t)
<1> DEFINE t == Imported(s, item)
           rest == [s EXCEPT !.todo = Tail(@),
                      !.skipped = IF item.role = Bad THEN @ \cup {item.link} ELSE @]
           row == NewRow(item.link, item.geo, IF item.role = Absent THEN None ELSE item.role)
<1>1. item \in Items /\ Tail(s.todo) \in Seq(Items) /\ item.link \in Links
  <2>1. s.todo \in Seq(Items)
    BY DEF Sessions
  <2>2. item \in Items /\ Tail(s.todo) \in Seq(Items)
    BY <2>1
  <2> QED
    BY <2>2 DEF Items
<1>2. /\ rest \in Sessions /\ rest.held = s.held /\ rest.loaded = s.loaded
      /\ rest.fresh = s.fresh /\ rest.waits = s.waits /\ rest.named = s.named
      /\ rest.raced = s.raced
  BY <1>1 DEF Sessions
<1> HIDE DEF rest
<1>3. SessionOK(rest) /\ (Current(s) => Current(rest))
  BY <1>2 DEF SessionOK, Current
<1>4. CASE Found(item.link) # {}
  <2> DEFINE k == CHOOSE k \in Found(item.link) : TRUE
             named == IF item.role \in {Absent, Bad} THEN {} ELSE {k}
             old == IF s.held[k] = None THEN nodes[k] ELSE s.held[k]
             u == [rest EXCEPT !.named = @ \cup named]
  <2>1. k \in Found(item.link)
    BY <1>4
  <2> HIDE DEF k
  <2>2. k \in Keys /\ nodes[k] \in Rows
    BY <2>1, StoredRow DEF Found
  <2>3. old \in Rows
    BY <2>2 DEF Sessions
  <2>4. t = Hold(u, k, Applied(old, item))
    BY <1>4 DEF Imported, rest, k
  <2>5. /\ u \in Sessions /\ u.held = s.held /\ u.loaded = s.loaded
        /\ u.fresh = s.fresh /\ u.waits = None /\ u.raced = s.raced
        /\ u.named = s.named \cup named
    BY <1>2, <2>2 DEF Sessions
  <2>6. item.role \notin {Absent, Bad} => k \in named
    OBVIOUS
  <2> HIDE DEF t, u, old, named
  <2>7. Applied(old, item) \in Rows /\ Applied(old, item).tag = old.tag
        /\ (Applied(old, item).role = old.role \/ k \in u.named)
    BY <1>1, <2>3, <2>5, <2>6, AppliedRow
  <2>8. t \in Sessions /\ t.raced = s.raced /\ SessionOK(t) /\ (Current(u) => Current(t))
    <3>1. /\ \A l \in Keys : u.held[l] = None <=> u.loaded[l] = None
          /\ \A l \in Keys : u.held[l] # None =>
               /\ u.held[l].tag = u.loaded[l].tag
               /\ u.held[l].role # u.loaded[l].role => l \in u.named
          /\ u.waits = 0 => u.fresh # <<>>
          /\ u.waits \notin Keys
      BY <2>5 DEF SessionOK
    <3>2. old = IF u.held[k] = None THEN nodes[k] ELSE u.held[k]
      BY <2>5 DEF old
    <3> QED
      BY <2>2, <2>4, <2>5, <2>7, <3>1, <3>2, HoldOK
  <2>9. Current(s) => Current(u)
    BY <2>5 DEF Current
  <2> QED
    BY <2>8, <2>9 DEF t
<1>5. CASE Found(item.link) = {} /\ item.role = Bad
  <2>1. t = rest
    BY <1>5 DEF Imported, rest
  <2> QED
    BY <1>2, <1>3, <2>1
<1>6. CASE Found(item.link) = {} /\ item.role # Bad
  <2> DEFINE waits == IF item.geo = None THEN 0 ELSE None
             fresh == Append(s.fresh, row)
  <2>1. t = [rest EXCEPT !.fresh = fresh, !.waits = waits]
    BY <1>2, <1>6 DEF Imported, rest
  <2>2. row \in Rows /\ row.tag = item.link.tag
    BY <1>1, <1>6, NewRowType DEF Items
  <2> HIDE DEF row
  <2>3. /\ s.fresh \in Seq(Rows) /\ fresh \in Seq(Rows)
        /\ fresh # <<>>
        /\ \A i \in DOMAIN fresh :
             \/ i \in DOMAIN s.fresh /\ fresh[i] = s.fresh[i]
             \/ fresh[i] = row
    <3>1. s.fresh \in Seq(Rows)
      BY DEF Sessions
    <3> QED
      BY <2>2, <3>1
  <2>4a. waits \in {0, None}
    OBVIOUS
  <2> HIDE DEF fresh, waits, t
  <2>4. /\ t \in Sessions /\ t.held = s.held /\ t.loaded = s.loaded
        /\ t.fresh = fresh /\ t.waits = waits /\ t.raced = s.raced
        /\ t.named = s.named
    BY <1>2, <2>1, <2>3, <2>4a DEF Sessions
  <2>5. SessionOK(t)
    BY <2>3, <2>4 DEF SessionOK, Keys, waits
  <2>6. \A k \in Stored : nodes[k].tag # row.tag
    BY <1>6, <2>2 DEF Found
  <2>7. Current(s) => Current(t)
    BY <2>3, <2>4, <2>6 DEF Current
  <2> QED
    BY <2>4, <2>5, <2>7 DEF t
<1> QED
  BY <1>4, <1>5, <1>6

\* An answered lookup changes only the geo of the row it was made for.
LEMMA LookedUpOK ==
  ASSUME NEW s \in Sessions, SessionOK(s), s.waits # None, NEW geo \in Geos \cup {None}
  PROVE  LET t == LookedUp(s, geo) IN
         /\ t \in Sessions /\ SessionOK(t) /\ t.raced = s.raced
         /\ Current(s) => Current(t)
         /\ t.loaded = s.loaded
         /\ \A k \in Keys : /\ t.held[k] = None <=> s.held[k] = None
                            /\ t.held[k] # None => t.held[k].tag = s.held[k].tag
                                                   /\ t.held[k].link = s.held[k].link
         /\ DOMAIN t.fresh = DOMAIN s.fresh
         /\ \A i \in DOMAIN s.fresh : /\ t.fresh[i].tag = s.fresh[i].tag
                                      /\ t.fresh[i].link = s.fresh[i].link
<1> DEFINE t == LookedUp(s, geo)
<1>1. /\ s.held \in [Keys -> Rows \cup {None}] /\ s.fresh \in Seq(Rows)
      /\ s.waits \in Keys \cup {0}
  BY DEF Sessions
<1>2. CASE geo = None
  <2>1. t = [s EXCEPT !.waits = None]
    BY <1>2 DEF LookedUp
  <2>2. /\ t \in Sessions /\ t.held = s.held /\ t.loaded = s.loaded /\ t.fresh = s.fresh
        /\ t.waits = None /\ t.raced = s.raced /\ t.named = s.named
    BY <2>1 DEF Sessions
  <2> HIDE DEF t
  <2>3. SessionOK(t) /\ (Current(s) => Current(t))
    BY <2>2 DEF SessionOK, Current
  <2> QED
    BY <2>2, <2>3 DEF t
<1>3. CASE geo # None /\ s.waits = 0
  <2> DEFINE n == Len(s.fresh)
             row == [s.fresh[n] EXCEPT !.geo = geo]
             fresh == [s.fresh EXCEPT ![n] = row]
  <2>1. n \in DOMAIN s.fresh /\ s.fresh[n] \in Rows
    <3>1. s.fresh # <<>>
      BY <1>3 DEF SessionOK
    <3> QED
      BY <1>1, <3>1
  <2>2. row \in Rows /\ row.tag = s.fresh[n].tag /\ row.link = s.fresh[n].link
    BY <2>1 DEF Rows
  <2>3. t = [s EXCEPT !.fresh = fresh, !.waits = None]
    BY <1>1, <1>3, <2>1 DEF LookedUp, Rows, Sessions
  <2> HIDE DEF row
  <2>4. /\ fresh \in Seq(Rows) /\ DOMAIN fresh = DOMAIN s.fresh /\ fresh # <<>>
        /\ \A i \in DOMAIN fresh : fresh[i] = IF i = n THEN row ELSE s.fresh[i]
    BY <1>1, <2>1, <2>2
  <2> HIDE DEF fresh, n
  <2>5. /\ t \in Sessions /\ t.held = s.held /\ t.loaded = s.loaded /\ t.fresh = fresh
        /\ t.waits = None /\ t.raced = s.raced /\ t.named = s.named
    BY <2>3, <2>4 DEF Sessions
  <2> HIDE DEF t
  <2>6. SessionOK(t) /\ (Current(s) => Current(t))
    BY <2>2, <2>4, <2>5 DEF SessionOK, Current
  <2> QED
    BY <2>2, <2>4, <2>5, <2>6 DEF t
<1>4. CASE geo # None /\ s.waits \in Keys
  <2> DEFINE k == s.waits
             row == [s.held[k] EXCEPT !.geo = geo]
             held == [s.held EXCEPT ![k] = row]
  <2>1. k \in Keys /\ s.held[k] \in Rows /\ s.held[k] # None
    BY <1>1, <1>4 DEF SessionOK
  <2>2. /\ row \in Rows /\ row.tag = s.held[k].tag /\ row.link = s.held[k].link
        /\ row.role = s.held[k].role /\ row # None
    BY <1>4, <2>1 DEF Rows
  <2>3. t = [s EXCEPT !.held = held, !.waits = None]
    BY <1>1, <1>4, <2>1 DEF LookedUp, Rows, Sessions, Keys
  <2> HIDE DEF row
  <2>4. /\ held \in [Keys -> Rows \cup {None}]
        /\ \A l \in Keys : held[l] = IF l = k THEN row ELSE s.held[l]
    BY <1>1, <2>1, <2>2
  <2> HIDE DEF held, k
  <2>5. /\ t \in Sessions /\ t.held = held /\ t.loaded = s.loaded /\ t.fresh = s.fresh
        /\ t.waits = None /\ t.raced = s.raced /\ t.named = s.named
    BY <2>3, <2>4 DEF Sessions
  <2> HIDE DEF t
  <2>6. SessionOK(t) /\ (Current(s) => Current(t))
    BY <2>1, <2>2, <2>4, <2>5 DEF SessionOK, Current
  <2> QED
    BY <2>1, <2>2, <2>4, <2>5, <2>6 DEF t
<1> QED
  BY <1>1, <1>2, <1>3, <1>4

-----------------------------------------------------------------------------
(* Steps of one session, which leave the table alone *)

\* The session of r goes on as t.
LEMMA SessionGoesOn ==
  ASSUME StoreInv, NEW r \in Requests, NEW t \in Sessions, SessionOK(t),
         ~t.raced => Current(t), req' = [req EXCEPT ![r] = t], nodes' = nodes,
         turn' \in {turn, r, None}
  PROVE  StoreInv'
<1>1. /\ req' \in [Requests -> Sessions \cup {None}] /\ req'[r] = t
      /\ \A q \in Requests \ {r} : req'[q] = req[q]
  BY DEF StoreInv, NodeTypeOK
<1>2. t # None
  OBVIOUS
<1>3. Ongoing' = Ongoing \cup {r}
  BY <1>1, <1>2 DEF Ongoing
<1>4. turn' \in Requests \cup {None} /\ (turn' # None => turn' \in Ongoing')
  BY <1>3 DEF StoreInv, NodeTypeOK, TurnOK
<1>5. NodeTypeOK'
  BY <1>1, <1>4 DEF StoreInv, NodeTypeOK
<1>6. SessionsOK'
  <2> SUFFICES ASSUME NEW q \in Ongoing'
               PROVE  (SessionOK(req[q]) /\ (~req[q].raced => Current(req[q])))'
    BY DEF SessionsOK
  <2>1. CASE q = r
    BY <1>1, <2>1 DEF SessionOK, Current, Stored
  <2>2. CASE q # r
    <3>1. q \in Ongoing /\ req'[q] = req[q]
      BY <1>1, <1>3, <2>2
    <3> QED
      BY <3>1 DEF StoreInv, SessionsOK, SessionOK, Current, Stored
  <2> QED
    BY <2>1, <2>2
<1> QED
  BY <1>4, <1>5, <1>6 DEF StoreInv, TurnOK

\* A session that begins by holding a stored row, of the same tag and label, and
\* looks it up.
LEMMA BeginHeld ==
  ASSUME StoreInv, NEW r \in Requests, NEW k \in Keys, nodes[k] \in Rows, NEW row \in Rows,
         row.tag = nodes[k].tag, row.role = nodes[k].role,
         req' = [req EXCEPT ![r] = Hold(Session(<<>>, <<>>, k), k, row)],
         nodes' = nodes, turn' = turn
  PROVE  StoreInv'
<1> DEFINE s == Session(<<>>, <<>>, k)
           t == Hold(s, k, row)
<1>1. NoRows \in [Keys -> Rows \cup {None}] /\ \A l \in Keys : NoRows[l] = None
  BY DEF NoRows
<1>2. s = [todo |-> <<>>, loaded |-> NoRows, held |-> NoRows, fresh |-> <<>>,
           waits |-> k, named |-> {}, skipped |-> {}, raced |-> FALSE]
  BY DEF Session
<1> HIDE DEF s
<1>3. /\ s \in Sessions /\ s.held = NoRows /\ s.loaded = NoRows /\ s.fresh = <<>>
      /\ s.waits = k
  BY <1>1, <1>2 DEF Sessions
<1>4. k # 0
  BY DEF Keys
<1>5. t \in Sessions /\ SessionOK(t) /\ (Current(s) => Current(t))
  BY <1>1, <1>3, <1>4, HoldOK
<1>6. Current(s)
  BY <1>1, <1>3 DEF Current
<1> HIDE DEF t
<1> QED
  BY <1>5, <1>6, SessionGoesOn DEF t, s

\* Add, RefreshGeo and Import begin a session; ImportItem and Lookup go on with it.
LEMMA QuietStep ==
  ASSUME StoreInv, NEW r \in Requests,
         \/ \E link \in Links : Add(r, link)
         \/ \E k \in Keys : RefreshGeo(r, k)
         \/ \E items \in Payloads : Import(r, items)
         \/ ImportItem(r)
         \/ \E geo \in Geos \cup {None} : Lookup(r, geo)
  PROVE  StoreInv' /\ nodes' = nodes
<1>1. ASSUME NEW link \in Links, Add(r, link) PROVE StoreInv' /\ nodes' = nodes
  <2>1. nodes' = nodes /\ turn' = turn
    BY <1>1 DEF Add
  <2>2. ASSUME NEW k \in Found(link),
               req' = [req EXCEPT ![r] = Hold(Session(<<>>, <<>>, k), k,
                         [nodes[k] EXCEPT !.link = link, !.protocol = link.protocol])]
        PROVE  StoreInv'
    <3> DEFINE s == Session(<<>>, <<>>, k)
               row == [nodes[k] EXCEPT !.link = link, !.protocol = link.protocol]
    <3>1. k \in Keys /\ nodes[k] \in Rows /\ nodes[k].tag = link.tag
      BY StoredRow DEF Found, StoreInv
    <3>2. row \in Rows /\ row.tag = nodes[k].tag /\ row.role = nodes[k].role
      BY <3>1 DEF Rows
    <3> HIDE DEF row
    <3> QED
      BY <2>1, <2>2, <3>1, <3>2, BeginHeld DEF row
  <2>3. ASSUME Found(link) = {},
               req' = [req EXCEPT ![r] = Session(<<>>, <<NewRow(link, None, None)>>, 0)]
        PROVE  StoreInv'
    <3> DEFINE row == NewRow(link, None, None)
               s == Session(<<>>, <<row>>, 0)
    <3>1. row \in Rows /\ row.tag = link.tag
      BY NewRowType
    <3> HIDE DEF row
    <3>2. <<>> \in Seq(Items) /\ <<row>> \in Seq(Rows) /\ <<row>> # <<>>
      BY <3>1
    <3>3. /\ s \in Sessions /\ SessionOK(s) /\ s.fresh = <<row>>
          /\ \A k \in Keys : s.held[k] = None
      BY <3>2, SessionType
    <3> HIDE DEF s
    <3>4. Current(s)
      BY <2>3, <3>1, <3>3 DEF Current, Found
    <3> QED
      BY <2>1, <2>3, <3>3, <3>4, SessionGoesOn DEF s, row
  <2> QED
    BY <1>1, <2>1, <2>2, <2>3 DEF Add
<1>2. ASSUME NEW k \in Keys, RefreshGeo(r, k) PROVE StoreInv' /\ nodes' = nodes
  BY <1>2, StoredRow, BeginHeld DEF RefreshGeo, StoreInv
<1>3. ASSUME NEW items \in Payloads, Import(r, items) PROVE StoreInv' /\ nodes' = nodes
  <2> DEFINE s == Session(items, <<>>, None)
  <2>1. /\ s \in Sessions /\ SessionOK(s) /\ s.fresh = <<>>
        /\ \A k \in Keys : s.held[k] = None
    <3>1. <<>> \in Seq(Rows) /\ items \in Seq(Items)
      OBVIOUS
    <3> QED
      BY <3>1, SessionType
  <2>2. req' = [req EXCEPT ![r] = s] /\ nodes' = nodes /\ turn' = r
    BY <1>3 DEF Import
  <2> HIDE DEF s
  <2>3. Current(s)
    BY <2>1 DEF Current
  <2> QED
    BY <2>1, <2>2, <2>3, SessionGoesOn
<1>4. CASE ImportItem(r)
  <2> DEFINE s == req[r]
             t == Imported(s, Head(s.todo))
  <2>1. /\ req' = [req EXCEPT ![r] = t] /\ nodes' = nodes /\ turn' \in {r, None}
        /\ s.waits = None /\ s.todo # <<>> /\ turn = r
    BY <1>4 DEF ImportItem, Running
  <2>2. s \in Sessions /\ SessionOK(s) /\ (~s.raced => Current(s))
    BY <2>1 DEF StoreInv, NodeTypeOK, TurnOK, SessionsOK, Ongoing
  <2> HIDE DEF s
  <2>3. t \in Sessions /\ SessionOK(t) /\ (~t.raced => Current(t))
    BY <2>1, <2>2, ImportedOK DEF StoreInv
  <2> HIDE DEF t
  <2> QED
    BY <2>1, <2>3, SessionGoesOn
<1>5. ASSUME NEW geo \in Geos \cup {None}, Lookup(r, geo) PROVE StoreInv' /\ nodes' = nodes
  <2> DEFINE s == req[r]
             t == LookedUp(s, geo)
  <2>1. /\ req' = [req EXCEPT ![r] = t] /\ nodes' = nodes /\ turn' = r
        /\ s.waits # None /\ s # None
    BY <1>5 DEF Lookup
  <2>2. s \in Sessions /\ SessionOK(s) /\ (~s.raced => Current(s))
    BY <2>1 DEF StoreInv, NodeTypeOK, SessionsOK, Ongoing
  <2> HIDE DEF s
  <2>3. t \in Sessions /\ SessionOK(t) /\ (~t.raced => Current(t))
    BY <2>1, <2>2, LookedUpOK
  <2> HIDE DEF t
  <2> QED
    BY <2>1, <2>3, SessionGoesOn
<1> QED
  BY <1>1, <1>2, <1>3, <1>4, <1>5

-----------------------------------------------------------------------------
(* Steps that write the table *)

UniqueTags(table) ==
  \A k, l \in Keys : table[k] # None /\ table[l] # None /\ table[k].tag = table[l].tag => k = l

\* The sessions that are left go on with a table that others have written.
LEMMA OthersRaced ==
  ASSUME StoreInv, NEW rest \in [Requests -> Sessions \cup {None}],
         \A q \in Requests : rest[q] \in {req[q], None},
         req' = Raced(rest), turn' = None,
         nodes' \in [Keys -> Rows \cup {None}], UniqueTags(nodes')
  PROVE  StoreInv'
<1>1. ASSUME NEW q \in Requests, rest[q] # None
      PROVE  /\ req'[q] \in Sessions /\ req'[q].raced /\ req[q] # None
             /\ SessionOK(req[q]) => SessionOK(req'[q])
  <2> DEFINE s == rest[q]
             t == [s EXCEPT !.raced = TRUE]
  <2>1. req'[q] = t /\ s = req[q] /\ s \in Sessions
    BY <1>1 DEF Raced
  <2> HIDE DEF s
  <2>2. /\ t \in Sessions /\ t.raced /\ t.held = s.held /\ t.loaded = s.loaded
        /\ t.fresh = s.fresh /\ t.waits = s.waits /\ t.named = s.named
    BY <2>1 DEF Sessions
  <2> HIDE DEF t
  <2>3. SessionOK(s) => SessionOK(t)
    BY <2>2 DEF SessionOK
  <2> QED
    BY <1>1, <2>1, <2>2, <2>3 DEF s
<1>2. \A q \in Requests : rest[q] = None => req'[q] = None
  BY DEF Raced
<1>3. req' \in [Requests -> Sessions \cup {None}]
  <2>1. DOMAIN req' = Requests /\ req' = [q \in Requests |-> req'[q]]
    BY DEF Raced
  <2> QED
    BY <1>1, <1>2, <2>1
<1>4. NodeTypeOK'
  BY <1>3 DEF NodeTypeOK, UniqueTags
<1>5. \A q \in Ongoing' : /\ q \in Ongoing /\ req'[q].raced
                          /\ SessionOK(req[q]) => SessionOK(req'[q])
  BY <1>1, <1>2 DEF Ongoing
<1>6. \A q \in Ongoing' : SessionOK(req'[q]) /\ req'[q].raced
  BY <1>5 DEF StoreInv, SessionsOK
<1>7. SessionsOK'
  BY <1>6 DEF SessionsOK, SessionOK
<1> QED
  BY <1>4, <1>7 DEF StoreInv, TurnOK

\* What a commit leaves of a row it does not insert: its tag, its label unless an
\* item named one, and its link unless the session holds another.
LEMMA FlushedRow ==
  ASSUME NodeTypeOK, NEW s \in Sessions, SessionOK(s), NEW k \in Keys,
         k \in Stored \/ s.held[k] = s.loaded[k]
  PROVE  /\ k \notin Stored => Flushed(s, k) = None
         /\ k \in Stored =>
              /\ Flushed(s, k) \in Rows /\ Flushed(s, k).tag = nodes[k].tag
              /\ Flushed(s, k).role # nodes[k].role => k \in s.named
              /\ \/ Flushed(s, k).link = nodes[k].link
                 \/ s.held[k] # None /\ Flushed(s, k).link = s.held[k].link
<1>1. CASE s.held[k] = s.loaded[k]
  <2>1. Flushed(s, k) = nodes[k]
    BY <1>1 DEF Flushed
  <2> QED
    BY <2>1 DEF NodeTypeOK, Stored
<1>2. CASE s.held[k] # s.loaded[k]
  <2> DEFINE row == nodes[k]
             held == s.held[k]
             loaded == s.loaded[k]
             f == Flushed(s, k)
  <2>1. k \in Stored /\ row \in Rows
    BY <1>2 DEF NodeTypeOK, Stored
  <2>2. /\ held \in Rows /\ loaded \in Rows /\ held # None /\ held.tag = loaded.tag
        /\ held.role # loaded.role => k \in s.named
    BY <1>2 DEF SessionOK, Sessions
  <2>3. f = [column \in DOMAIN row |->
               IF held[column] # loaded[column] THEN held[column] ELSE row[column]]
    BY <1>2 DEF Flushed
  <2> HIDE DEF row, held, loaded, f
  <2>4. f \in Rows
    BY <2>1, <2>2, <2>3 DEF Rows
  <2>5. /\ f.tag = (IF held.tag # loaded.tag THEN held.tag ELSE row.tag)
        /\ f.role = (IF held.role # loaded.role THEN held.role ELSE row.role)
        /\ f.link = (IF held.link # loaded.link THEN held.link ELSE row.link)
    BY <2>1, <2>3 DEF Rows
  <2> QED
    BY <2>1, <2>2, <2>4, <2>5 DEF f, row, held
<1> QED
  BY <1>1, <1>2

\* A commit without a conflict: the session's rows behind the last key, and what it
\* flushes of all others.
LEMMA Committed ==
  ASSUME StoreInv, NEW r \in Requests, Finish(r), ~Conflict(r)
  PROVE  /\ req[r] \in Sessions /\ SessionOK(req[r])
         /\ nodes' \in [Keys -> Rows \cup {None}]
         /\ \A k \in Keys :
              \/ /\ k > LastKey /\ k \notin Stored
                 /\ k - LastKey \in DOMAIN req[r].fresh
                 /\ nodes'[k] = req[r].fresh[k - LastKey]
              \/ nodes'[k] = Flushed(req[r], k)
         /\ \A k \in Stored : nodes'[k] = Flushed(req[r], k)
         /\ \A k \in Keys : k \in Stored \/ req[r].held[k] = req[r].loaded[k]
<1> DEFINE s == req[r]
           last == LastKey
<1>1. s \in Sessions /\ SessionOK(s)
  BY DEF Finish, Ready, StoreInv, NodeTypeOK, TurnOK, SessionsOK, Ongoing
<1>2. nodes' = [k \in Keys |-> IF k \in last + 1..last + Len(s.fresh)
                               THEN s.fresh[k - last] ELSE Flushed(s, k)]
  BY DEF Finish
<1>3. \A k \in Keys : k \in Stored \/ s.held[k] = s.loaded[k]
  BY DEF Conflict
<1> HIDE DEF s
<1>4. last \in Nat /\ \A k \in Stored : k <= last
  BY LastKeyIs
<1> HIDE DEF last
<1>5. s.fresh \in Seq(Rows)
  BY <1>1 DEF Sessions
<1>6. \A k \in Keys : k \in Int
  BY DEF Keys
<1>7. \A k \in Keys :
        \/ /\ k > last /\ k \notin Stored /\ k - last \in DOMAIN s.fresh
           /\ nodes'[k] = s.fresh[k - last]
        \/ nodes'[k] = Flushed(s, k)
  BY <1>2, <1>4, <1>5, <1>6
<1>8. \A k \in Stored : k \in Keys /\ nodes'[k] = Flushed(s, k)
  BY <1>4, <1>6, <1>7 DEF Stored
<1>9. \A k \in Keys : nodes'[k] \in Rows \cup {None}
  BY <1>1, <1>3, <1>5, <1>7, FlushedRow DEF StoreInv
<1>10. nodes' \in [Keys -> Rows \cup {None}]
  <2>1. DOMAIN nodes' = Keys /\ nodes' = [k \in Keys |-> nodes'[k]]
    BY <1>2
  <2> QED
    BY <1>9, <2>1
<1> QED
  BY <1>1, <1>3, <1>7, <1>8, <1>10 DEF s, last

\* A commit keeps the tags unique, as it is refused when a tag it inserts is there.
LEMMA CommittedTags ==
  ASSUME StoreInv, NEW r \in Requests, Finish(r), ~Conflict(r)
  PROVE  UniqueTags(nodes')
<1> DEFINE s == req[r]
<1>1. /\ s \in Sessions /\ SessionOK(s)
      /\ \A k \in Keys : k \in Stored \/ s.held[k] = s.loaded[k]
      /\ \A k \in Keys :
           \/ /\ k > LastKey /\ k \notin Stored /\ k - LastKey \in DOMAIN s.fresh
              /\ nodes'[k] = s.fresh[k - LastKey]
           \/ nodes'[k] = Flushed(s, k)
  BY Committed
<1>2. /\ \A i \in DOMAIN s.fresh, k \in Stored : nodes[k].tag # s.fresh[i].tag
      /\ \A i, j \in DOMAIN s.fresh : s.fresh[i].tag = s.fresh[j].tag => i = j
  BY DEF Conflict, Duplicate
<1> HIDE DEF s
<1>3. \A k \in Keys : nodes'[k] # None =>
        \/ k - LastKey \in DOMAIN s.fresh /\ nodes'[k].tag = s.fresh[k - LastKey].tag
        \/ k \in Stored /\ nodes'[k].tag = nodes[k].tag
  BY <1>1, FlushedRow DEF StoreInv
<1>4. LastKey \in Nat /\ \A k \in Keys : k \in Int
  BY LastKeyIs DEF Keys
<1>5. \A k, l \in Stored : nodes[k].tag = nodes[l].tag => k = l
  BY DEF StoreInv, NodeTypeOK, Stored
<1> SUFFICES ASSUME NEW k \in Keys, NEW l \in Keys, nodes'[k] # None, nodes'[l] # None,
                    nodes'[k].tag = nodes'[l].tag
             PROVE  k = l
  BY DEF UniqueTags
<1>6. CASE k - LastKey \in DOMAIN s.fresh /\ nodes'[k].tag = s.fresh[k - LastKey].tag
  <2>1. CASE l - LastKey \in DOMAIN s.fresh /\ nodes'[l].tag = s.fresh[l - LastKey].tag
    <3>1. k - LastKey = l - LastKey
      BY <1>2, <1>6, <2>1
    <3> QED
      BY <1>4, <3>1
  <2>2. CASE l \in Stored /\ nodes'[l].tag = nodes[l].tag
    BY <1>2, <1>6, <2>2
  <2> QED
    BY <1>3, <2>1, <2>2
<1>7. CASE k \in Stored /\ nodes'[k].tag = nodes[k].tag
  <2>1. CASE l - LastKey \in DOMAIN s.fresh /\ nodes'[l].tag = s.fresh[l - LastKey].tag
    BY <1>2, <1>7, <2>1
  <2>2. CASE l \in Stored /\ nodes'[l].tag = nodes[l].tag
    BY <1>5, <1>7, <2>2
  <2> QED
    BY <1>3, <2>1, <2>2
<1> QED
  BY <1>3, <1>6, <1>7

\* Requests that end, with the table as it was.
LEMMA EndedQuietly ==
  ASSUME StoreInv, NEW r \in Requests, req' = [req EXCEPT ![r] = None], turn' = None,
         nodes' = nodes
  PROVE  StoreInv'
<1>1. /\ req' \in [Requests -> Sessions \cup {None}]
      /\ \A q \in Ongoing' : q \in Ongoing /\ req'[q] = req[q]
  BY DEF StoreInv, NodeTypeOK, Ongoing
<1>2. NodeTypeOK'
  BY <1>1 DEF StoreInv, NodeTypeOK
<1>3. SessionsOK'
  BY <1>1 DEF StoreInv, SessionsOK, SessionOK, Current, Stored
<1> QED
  BY <1>2, <1>3 DEF StoreInv, TurnOK

LEMMA FinishStep ==
  ASSUME StoreInv, NEW r \in Requests, Finish(r)
  PROVE  StoreInv'
<1> DEFINE rest == [req EXCEPT ![r] = None]
<1>1. /\ rest \in [Requests -> Sessions \cup {None}]
      /\ \A q \in Requests : rest[q] \in {req[q], None}
  BY DEF StoreInv, NodeTypeOK
<1>2. turn' = None /\ req' = IF nodes' = nodes THEN rest ELSE Raced(rest)
  BY DEF Finish
<1>3. CASE nodes' = nodes
  BY <1>2, <1>3, EndedQuietly
<1>4. CASE nodes' # nodes
  <2>1. ~Conflict(r)
    BY <1>4 DEF Finish
  <2>2. nodes' \in [Keys -> Rows \cup {None}] /\ UniqueTags(nodes')
    BY <2>1, Committed, CommittedTags
  <2> HIDE DEF rest
  <2> QED
    BY <1>1, <1>2, <1>4, <2>2, OthersRaced
<1> QED
  BY <1>3, <1>4

LEMMA EditStep ==
  ASSUME StoreInv, NEW k \in Keys,
         \/ \E geo \in Geos \cup {None}, role \in Roles \cup {None} : Metadata(k, geo, role)
         \/ DeleteNode(k)
  PROVE  /\ StoreInv'
         /\ nodes'[k] # None => nodes'[k].tag = nodes[k].tag /\ nodes'[k].link = nodes[k].link
         /\ \A l \in Keys \ {k} : nodes'[l] = nodes[l]
<1>1. nodes \in [Keys -> Rows \cup {None}] /\ nodes[k] \in Rows /\ UniqueTags(nodes)
  BY StoredRow DEF Metadata, DeleteNode, StoreInv, NodeTypeOK, UniqueTags
<1>2. req' = Raced(req) /\ turn' = None
  BY DEF Metadata, DeleteNode
<1>3. PICK row \in Rows \cup {None} :
        nodes' = [nodes EXCEPT ![k] = row] /\ (row # None => row.tag = nodes[k].tag
                                                             /\ row.link = nodes[k].link)
  <2>1. ASSUME NEW geo \in Geos \cup {None}, NEW role \in Roles \cup {None}, Metadata(k, geo, role)
        PROVE  \E row \in Rows \cup {None} :
                 nodes' = [nodes EXCEPT ![k] = row] /\ (row # None => row.tag = nodes[k].tag
                                                                      /\ row.link = nodes[k].link)
    <3> DEFINE row == [nodes[k] EXCEPT !.geo = geo, !.role = role]
    <3>1. row \in Rows /\ row.tag = nodes[k].tag /\ row.link = nodes[k].link
      BY <1>1 DEF Rows
    <3>2. nodes' = [nodes EXCEPT ![k] = row]
      BY <1>1, <2>1 DEF Metadata, Rows
    <3> HIDE DEF row
    <3> QED
      BY <3>1, <3>2
  <2>2. CASE DeleteNode(k)
    BY <2>2 DEF DeleteNode
  <2> QED
    BY <2>1, <2>2
<1>4. nodes' \in [Keys -> Rows \cup {None}] /\ nodes'[k] = row
      /\ \A l \in Keys \ {k} : nodes'[l] = nodes[l]
  BY <1>1, <1>3
<1>5. UniqueTags(nodes')
  <2>1. \A l \in Keys : nodes'[l] # None => nodes[l] # None /\ nodes'[l].tag = nodes[l].tag
    BY <1>1, <1>3, <1>4
  <2> QED
    BY <1>1, <2>1 DEF UniqueTags
<1>6. req \in [Requests -> Sessions \cup {None}] /\ \A q \in Requests : req[q] \in {req[q], None}
  BY DEF StoreInv, NodeTypeOK
<1>7. StoreInv'
  BY <1>2, <1>4, <1>5, <1>6, OthersRaced
<1> QED
  BY <1>1, <1>3, <1>4, <1>7

\* StoreInv is inductive.
LEMMA StoreStep == StoreInv /\ [Next]_vars => StoreInv'
<1> SUFFICES ASSUME StoreInv, [Next]_vars PROVE StoreInv'
  OBVIOUS
<1>1. ASSUME NEW r \in Requests,
             \/ \E link \in Links : Add(r, link)
             \/ \E k \in Keys : RefreshGeo(r, k)
             \/ \E items \in Payloads : Import(r, items)
             \/ ImportItem(r)
             \/ \E geo \in Geos \cup {None} : Lookup(r, geo)
      PROVE  StoreInv'
  BY <1>1, QuietStep
<1>2. ASSUME NEW r \in Requests, Finish(r) PROVE StoreInv'
  BY <1>2, FinishStep
<1>3. ASSUME NEW k \in Keys, \/ \E geo \in Geos \cup {None}, role \in Roles \cup {None} :
                                  Metadata(k, geo, role)
                             \/ DeleteNode(k)
      PROVE  StoreInv'
  BY <1>3, EditStep
<1>4. CASE UNCHANGED vars
  BY <1>4 DEF vars, StoreInv, NodeTypeOK, TurnOK, SessionsOK, SessionOK, Current, Stored, Ongoing
<1> QED
  BY <1>1, <1>2, <1>3, <1>4 DEF Next, Proceed

LEMMA StoreInit == Init => StoreInv
  BY DEF Init, StoreInv, NodeTypeOK, TurnOK, SessionsOK, Ongoing

\* The unique index of models.py holds: tags are unique and rows and sessions are
\* what the code takes them for, however requests, edits and lookups interleave.
THEOREM NodeTypes == NodeSpec => []NodeTypeOK
<1>1. StoreInv => NodeTypeOK
  BY DEF StoreInv
<1> QED
  BY <1>1, StoreInit, StoreStep, PTL DEF NodeSpec

\* A commit is refused only for what others wrote meanwhile, or for a new tag that
\* its own payload names twice: alone, no add, import or refresh fails.
THEOREM CommitsRefusedForCause == NodeSpec => []RefusedForCause
<1>1. StoreInv => RefusedForCause
  <2> SUFFICES ASSUME StoreInv, NEW r \in Requests, Ready(r), Conflict(r), ~req[r].raced,
                      ~Duplicate(req[r])
               PROVE  FALSE
    BY DEF RefusedForCause
  <2> DEFINE s == req[r]
  <2>1. SessionOK(s) /\ Current(s)
    BY DEF Ready, StoreInv, TurnOK, SessionsOK, Ongoing
  <2>2. \A k \in Keys : s.held[k] # s.loaded[k] => k \in Stored
    BY <2>1 DEF SessionOK, Current, Stored
  <2> QED
    BY <2>1, <2>2 DEF Conflict, Current
<1> QED
  BY <1>1, StoreInit, StoreStep, PTL DEF NodeSpec

\* A topology label changes only by an edit of it, or by an import whose item for
\* that row names one.
THEOREM LabelsKept == NodeSpec => RoleKept
<1> DEFINE Kept ==
      \A k \in Stored : nodes'[k] # None /\ nodes'[k].role # nodes[k].role =>
        \/ \E geo \in Geos \cup {None}, role \in Roles \cup {None} : Metadata(k, geo, role)
        \/ \E r \in Requests : Finish(r) /\ k \in req[r].named
<1>1. StoreInv /\ [Next]_vars => [Kept]_vars
  <2> SUFFICES ASSUME StoreInv, [Next]_vars, NEW k \in Stored, nodes'[k] # None,
                      nodes'[k].role # nodes[k].role
               PROVE  \/ \E geo \in Geos \cup {None}, role \in Roles \cup {None} :
                           Metadata(k, geo, role)
                      \/ \E r \in Requests : Finish(r) /\ k \in req[r].named
    OBVIOUS
  <2>1. nodes' # nodes /\ k \in Keys
    BY DEF Stored
  <2>2. ASSUME NEW r \in Requests, Finish(r) PROVE k \in req[r].named
    <3>1. ~Conflict(r)
      BY <2>1, <2>2 DEF Finish
    <3>2. /\ nodes'[k] = Flushed(req[r], k)
          /\ req[r] \in Sessions /\ SessionOK(req[r])
      BY <2>2, <3>1, Committed
    <3> QED
      BY <2>1, <3>2, FlushedRow DEF StoreInv
  <2>3. ASSUME NEW l \in Keys, NEW geo \in Geos \cup {None}, NEW role \in Roles \cup {None},
               Metadata(l, geo, role)
        PROVE  l = k
    BY <2>1, <2>3, EditStep
  <2>4. ASSUME NEW l \in Keys, DeleteNode(l) PROVE FALSE
    <3>1. l = k
      BY <2>1, <2>4, EditStep
    <3> QED
      BY <3>1, <2>4 DEF DeleteNode, StoreInv, NodeTypeOK
  <2>5. CASE UNCHANGED vars
    BY <2>1, <2>5 DEF vars
  <2>6. ASSUME NEW r \in Requests,
               \/ \E link \in Links : Add(r, link)
               \/ \E l \in Keys : RefreshGeo(r, l)
               \/ \E items \in Payloads : Import(r, items)
               \/ ImportItem(r)
               \/ \E geo \in Geos \cup {None} : Lookup(r, geo)
        PROVE  FALSE
    BY <2>1, <2>6, QuietStep
  <2> QED
    BY <2>2, <2>3, <2>4, <2>5, <2>6 DEF Next, Proceed
<1> QED
  BY <1>1, StoreInit, StoreStep, PTL DEF NodeSpec, RoleKept

-----------------------------------------------------------------------------
(* Links and tags *)

\* What a session holds is a stored row of the same tag with a link of that tag;
\* what it is about to insert has the tag of its link.
LinksHeld(s) ==
  /\ \A k \in Keys : s.held[k] # None =>
       /\ k \in Stored /\ s.held[k].tag = nodes[k].tag
       /\ s.held[k].link.tag = s.held[k].tag
  /\ \A i \in DOMAIN s.fresh : s.fresh[i].link.tag = s.fresh[i].tag

\* The link of the row is one of the row's tag
OwnLink(row) == row.link.tag = row.tag

LinkInv == StoreInv /\ LinkMatchesTag /\ \A r \in Ongoing : LinksHeld(req[r])

\* Nodes are deleted only while no request is under way
DeletesWait == ~DeleteRaces \/ "delete" \notin Calls

LEMMA HoldLinks ==
  ASSUME NEW s \in Sessions, LinksHeld(s), NEW k \in Keys, nodes[k] \in Rows, NEW row \in Rows,
         row.tag = nodes[k].tag, OwnLink(row)
  PROVE  LinksHeld(Hold(s, k, row))
<1> DEFINE t == Hold(s, k, row)
<1>1. /\ t.held = [s.held EXCEPT ![k] = row] /\ t.fresh = s.fresh
      /\ t.loaded = [s.loaded EXCEPT ![k] = IF s.held[k] = None THEN nodes[k] ELSE @]
  BY HoldFields
<1> HIDE DEF t
<1>2. t.held[k] = row /\ \A l \in Keys \ {k} : t.held[l] = s.held[l]
  BY <1>1 DEF Sessions
<1>3. k \in Stored
  BY DEF Stored
<1>4. LinksHeld(t)
  BY <1>1, <1>2, <1>3 DEF LinksHeld, OwnLink
<1> QED
  BY <1>4 DEF t

LEMMA ImportedLinks ==
  ASSUME LinkInv, NEW s \in Sessions, LinksHeld(s), s.todo # <<>>, NEW item, item = Head(s.todo)
  PROVE  LinksHeld(Imported(s, item))
<1> DEFINE t == Imported(s, item)
           rest == [s EXCEPT !.todo = Tail(@),
                      !.skipped = IF item.role = Bad THEN @ \cup {item.link} ELSE @]
<1>1. item \in Items /\ Tail(s.todo) \in Seq(Items) /\ item.link \in Links
  <2>1. s.todo \in Seq(Items)
    BY DEF Sessions
  <2>2. item \in Items /\ Tail(s.todo) \in Seq(Items)
    BY <2>1
  <2> QED
    BY <2>2 DEF Items
<1>2. rest \in Sessions /\ rest.held = s.held /\ rest.fresh = s.fresh
  BY <1>1 DEF Sessions
<1> HIDE DEF rest
<1>3. LinksHeld(rest)
  BY <1>2 DEF LinksHeld
<1>4. CASE Found(item.link) # {}
  <2> DEFINE k == CHOOSE k \in Found(item.link) : TRUE
             named == IF item.role \in {Absent, Bad} THEN {} ELSE {k}
             old == IF s.held[k] = None THEN nodes[k] ELSE s.held[k]
             u == [rest EXCEPT !.named = @ \cup named]
  <2>1. k \in Found(item.link)
    BY <1>4
  <2> HIDE DEF k
  <2>2. k \in Keys /\ nodes[k] \in Rows /\ nodes[k].tag = item.link.tag
    BY <2>1, StoredRow DEF Found, LinkInv, StoreInv
  <2>3. old \in Rows /\ old.tag = nodes[k].tag
    BY <2>2 DEF Sessions, LinksHeld
  <2>4. t = Hold(u, k, Applied(old, item))
    BY <1>4 DEF Imported, rest, k
  <2>5. u \in Sessions /\ u.held = s.held /\ u.fresh = s.fresh
    BY <1>2, <2>2 DEF Sessions
  <2> HIDE DEF t, u, old, named
  <2>6. Applied(old, item) \in Rows /\ Applied(old, item).tag = old.tag
        /\ Applied(old, item).link = item.link
    BY <1>1, <2>3, AppliedRow
  <2>7. LinksHeld(u)
    BY <2>5 DEF LinksHeld
  <2> DEFINE new == Applied(old, item)
  <2> HIDE DEF new
  <2>8. new \in Rows /\ new.tag = nodes[k].tag /\ new.link.tag = new.tag
    BY <2>2, <2>3, <2>6 DEF new
  <2>9. LinksHeld(Hold(u, k, new))
    BY <2>2, <2>5, <2>7, <2>8, HoldLinks DEF OwnLink
  <2> QED
    BY <2>4, <2>9 DEF t, new
<1>5. CASE Found(item.link) = {} /\ item.role = Bad
  BY <1>3, <1>5 DEF Imported, rest
<1>6. CASE Found(item.link) = {} /\ item.role # Bad
  <2> DEFINE row == NewRow(item.link, item.geo, IF item.role = Absent THEN None ELSE item.role)
             waits == IF item.geo = None THEN 0 ELSE None
             fresh == Append(s.fresh, row)
  <2>1. t = [rest EXCEPT !.fresh = fresh, !.waits = waits]
    BY <1>2, <1>6 DEF Imported, rest
  <2>2. row \in Rows /\ row.link.tag = row.tag
    BY <1>1, <1>6, NewRowType DEF Items
  <2> HIDE DEF row
  <2>3. \A i \in DOMAIN fresh : \/ i \in DOMAIN s.fresh /\ fresh[i] = s.fresh[i]
                                \/ fresh[i] = row
    <3>1. s.fresh \in Seq(Rows)
      BY DEF Sessions
    <3> QED
      BY <2>2, <3>1
  <2> HIDE DEF fresh, waits, t
  <2>4. t.held = s.held /\ t.fresh = fresh
    BY <1>2, <2>1 DEF Sessions
  <2>5. LinksHeld(t)
    BY <2>2, <2>3, <2>4 DEF LinksHeld
  <2> QED
    BY <2>5 DEF t
<1> QED
  BY <1>4, <1>5, <1>6

\* The session of r goes on as t, and the table stays.
LEMMA LinksGoOn ==
  ASSUME LinkInv, StoreInv', NEW r \in Requests, NEW t, LinksHeld(t),
         req' = [req EXCEPT ![r] = t], nodes' = nodes
  PROVE  LinkInv'
<1>1. /\ req'[r] = t /\ \A q \in Requests \ {r} : req'[q] = req[q]
  BY DEF LinkInv, StoreInv, NodeTypeOK
<1>2. ASSUME NEW q \in Ongoing' PROVE LinksHeld(req[q])'
  <2>1. CASE q = r
    BY <1>1, <2>1 DEF LinksHeld, Stored
  <2>2. CASE q # r
    <3>1. q \in Ongoing /\ req'[q] = req[q]
      BY <1>1, <2>2 DEF Ongoing
    <3> QED
      BY <3>1 DEF LinkInv, LinksHeld, Stored
  <2> QED
    BY <2>1, <2>2
<1> QED
  BY <1>2 DEF LinkInv, LinkMatchesTag, Stored

LEMMA QuietLinks ==
  ASSUME LinkInv, StoreInv', NEW r \in Requests,
         \/ \E link \in Links : Add(r, link)
         \/ \E k \in Keys : RefreshGeo(r, k)
         \/ \E items \in Payloads : Import(r, items)
         \/ ImportItem(r)
         \/ \E geo \in Geos \cup {None} : Lookup(r, geo)
  PROVE  LinkInv'
<1>0. nodes' = nodes
  BY DEF Add, RefreshGeo, Import, ImportItem, Lookup
<1>1. ASSUME NEW k \in Keys, nodes[k] \in Rows, NEW row \in Rows, row.tag = nodes[k].tag,
             row.link.tag = row.tag,
             req' = [req EXCEPT ![r] = Hold(Session(<<>>, <<>>, k), k, row)]
      PROVE  LinkInv'
  <2> DEFINE s == Session(<<>>, <<>>, k)
  <2>1. NoRows \in [Keys -> Rows \cup {None}] /\ \A l \in Keys : NoRows[l] = None
    BY DEF NoRows
  <2>2. s = [todo |-> <<>>, loaded |-> NoRows, held |-> NoRows, fresh |-> <<>>,
             waits |-> k, named |-> {}, skipped |-> {}, raced |-> FALSE]
    BY DEF Session
  <2> HIDE DEF s
  <2>3. s \in Sessions /\ s.held = NoRows /\ s.fresh = <<>>
    BY <2>1, <2>2 DEF Sessions
  <2>4. LinksHeld(s)
    BY <2>1, <2>3 DEF LinksHeld
  <2>5. LinksHeld(Hold(s, k, row))
    BY <1>1, <2>3, <2>4, HoldLinks DEF OwnLink
  <2> QED
    BY <1>0, <1>1, <2>5, LinksGoOn DEF s
<1>2. ASSUME NEW link \in Links, Add(r, link) PROVE LinkInv'
  <2>1. ASSUME NEW k \in Found(link),
               req' = [req EXCEPT ![r] = Hold(Session(<<>>, <<>>, k), k,
                         [nodes[k] EXCEPT !.link = link, !.protocol = link.protocol])]
        PROVE  LinkInv'
    <3> DEFINE row == [nodes[k] EXCEPT !.link = link, !.protocol = link.protocol]
    <3>1. k \in Keys /\ nodes[k] \in Rows /\ nodes[k].tag = link.tag
      BY StoredRow DEF Found, LinkInv, StoreInv
    <3>2. row \in Rows /\ row.tag = nodes[k].tag /\ row.link = link
      BY <3>1 DEF Rows
    <3> HIDE DEF row
    <3> QED
      BY <1>1, <2>1, <3>1, <3>2 DEF row
  <2>2. ASSUME Found(link) = {},
               req' = [req EXCEPT ![r] = Session(<<>>, <<NewRow(link, None, None)>>, 0)]
        PROVE  LinkInv'
    <3> DEFINE row == NewRow(link, None, None)
               s == Session(<<>>, <<row>>, 0)
    <3>1. row \in Rows /\ row.link.tag = row.tag
      BY NewRowType
    <3> HIDE DEF row
    <3>2. <<>> \in Seq(Items) /\ <<row>> \in Seq(Rows) /\ <<row>> # <<>>
      BY <3>1
    <3>3. s.fresh = <<row>> /\ \A k \in Keys : s.held[k] = None
      BY <3>2, SessionType
    <3> HIDE DEF s
    <3>4. LinksHeld(s)
      BY <3>1, <3>3 DEF LinksHeld
    <3> QED
      BY <1>0, <2>2, <3>4, LinksGoOn DEF s, row
  <2> QED
    BY <1>2, <2>1, <2>2 DEF Add
<1>3. ASSUME NEW k \in Keys, RefreshGeo(r, k) PROVE LinkInv'
  <2>1. k \in Stored /\ req' = [req EXCEPT ![r] = Hold(Session(<<>>, <<>>, k), k, nodes[k])]
    BY <1>3 DEF RefreshGeo
  <2>2. nodes[k] \in Rows /\ nodes[k].link.tag = nodes[k].tag
    BY <2>1, StoredRow DEF LinkInv, StoreInv, LinkMatchesTag
  <2> QED
    BY <1>1, <2>1, <2>2
<1>4. ASSUME NEW items \in Payloads, Import(r, items) PROVE LinkInv'
  <2> DEFINE s == Session(items, <<>>, None)
  <2>1. s.fresh = <<>> /\ \A k \in Keys : s.held[k] = None
    <3>1. <<>> \in Seq(Rows) /\ items \in Seq(Items)
      OBVIOUS
    <3> QED
      BY <3>1, SessionType
  <2>2. req' = [req EXCEPT ![r] = s]
    BY <1>4 DEF Import
  <2> HIDE DEF s
  <2>3. LinksHeld(s)
    BY <2>1 DEF LinksHeld
  <2> QED
    BY <1>0, <2>2, <2>3, LinksGoOn
<1>5. CASE ImportItem(r)
  <2> DEFINE s == req[r]
             t == Imported(s, Head(s.todo))
  <2>1. req' = [req EXCEPT ![r] = t] /\ s.todo # <<>> /\ turn = r
    BY <1>5 DEF ImportItem, Running
  <2>2. s \in Sessions /\ LinksHeld(s)
    BY <2>1 DEF LinkInv, StoreInv, NodeTypeOK, TurnOK, Ongoing
  <2> HIDE DEF s
  <2>3. LinksHeld(t)
    BY <2>1, <2>2, ImportedLinks
  <2> HIDE DEF t
  <2> QED
    BY <1>0, <2>1, <2>3, LinksGoOn
<1>6. ASSUME NEW geo \in Geos \cup {None}, Lookup(r, geo) PROVE LinkInv'
  <2> DEFINE s == req[r]
             t == LookedUp(s, geo)
  <2>1. req' = [req EXCEPT ![r] = t] /\ s.waits # None /\ s # None
    BY <1>6 DEF Lookup
  <2>2. s \in Sessions /\ SessionOK(s) /\ LinksHeld(s)
    BY <2>1 DEF LinkInv, StoreInv, NodeTypeOK, SessionsOK, Ongoing
  <2> HIDE DEF s
  <2>3. /\ \A k \in Keys : /\ t.held[k] = None <=> s.held[k] = None
                           /\ t.held[k] # None => t.held[k].tag = s.held[k].tag
                                                  /\ t.held[k].link = s.held[k].link
        /\ DOMAIN t.fresh = DOMAIN s.fresh
        /\ \A i \in DOMAIN s.fresh : /\ t.fresh[i].tag = s.fresh[i].tag
                                     /\ t.fresh[i].link = s.fresh[i].link
    BY <2>1, <2>2, LookedUpOK
  <2> HIDE DEF t
  <2>4. LinksHeld(t)
    BY <2>2, <2>3 DEF LinksHeld
  <2> QED
    BY <1>0, <2>1, <2>4, LinksGoOn
<1> QED
  BY <1>2, <1>3, <1>4, <1>5, <1>6

\* Sessions that are left hold the same rows, which are stored under the same tags.
LEMMA LinksSurvive ==
  ASSUME LinkInv, StoreInv', LinkMatchesTag', NEW rest \in [Requests -> Sessions \cup {None}],
         \A q \in Requests : rest[q] \in {req[q], None}, req' \in {rest, Raced(rest)},
         \A k \in Stored : k \in Stored' /\ nodes'[k].tag = nodes[k].tag
  PROVE  LinkInv'
<1>1. ASSUME NEW q \in Ongoing'
      PROVE  q \in Ongoing /\ req'[q].held = req[q].held /\ req'[q].fresh = req[q].fresh
  <2>1. rest[q] # None
    BY <1>1 DEF Ongoing, Raced
  <2>2. rest[q] = req[q] /\ rest[q] \in Sessions
    BY <1>1, <2>1 DEF Ongoing
  <2>3. req'[q] = rest[q] \/ req'[q] = [rest[q] EXCEPT !.raced = TRUE]
    BY <1>1, <2>1 DEF Raced, Ongoing
  <2>4. req'[q].held = rest[q].held /\ req'[q].fresh = rest[q].fresh
    BY <2>2, <2>3 DEF Sessions
  <2> QED
    BY <1>1, <2>1, <2>2, <2>4 DEF Ongoing
<1>2. ASSUME NEW q \in Ongoing' PROVE LinksHeld(req[q])'
  BY <1>1, <1>2 DEF LinkInv, LinksHeld
<1> QED
  BY <1>2 DEF LinkInv

LEMMA FinishLinks ==
  ASSUME LinkInv, StoreInv', NEW r \in Requests, Finish(r)
  PROVE  LinkInv'
<1> DEFINE rest == [req EXCEPT ![r] = None]
<1>1. /\ rest \in [Requests -> Sessions \cup {None}]
      /\ \A q \in Requests : rest[q] \in {req[q], None}
  BY DEF LinkInv, StoreInv, NodeTypeOK
<1>2. req' \in {rest, Raced(rest)}
  BY DEF Finish
<1> HIDE DEF rest
<1>3. CASE Conflict(r)
  <2>1. nodes' = nodes
    BY <1>3 DEF Finish
  <2> QED
    BY <1>1, <1>2, <2>1, LinksSurvive DEF LinkInv, LinkMatchesTag, Stored
<1>4. CASE ~Conflict(r)
  <2> DEFINE s == req[r]
  <2>1. /\ s \in Sessions /\ SessionOK(s)
        /\ \A k \in Keys :
             \/ k - LastKey \in DOMAIN s.fresh /\ nodes'[k] = s.fresh[k - LastKey]
             \/ nodes'[k] = Flushed(s, k)
        /\ \A k \in Stored : nodes'[k] = Flushed(s, k)
        /\ \A k \in Keys : k \in Stored \/ s.held[k] = s.loaded[k]
    BY <1>4, Committed DEF LinkInv
  <2>2. LinksHeld(s)
    BY DEF LinkInv, StoreInv, TurnOK, Finish, Ready, Ongoing
  <2> HIDE DEF s
  <2>3. \A k \in Stored : /\ k \in Keys /\ nodes'[k] \in Rows /\ nodes'[k].tag = nodes[k].tag
                          /\ \/ nodes'[k].link = nodes[k].link
                             \/ s.held[k] # None /\ nodes'[k].link = s.held[k].link
    BY <2>1, FlushedRow DEF LinkInv, StoreInv, Stored
  <2>4. \A k \in Stored : k \in Stored' /\ nodes'[k].link.tag = nodes'[k].tag
    BY <2>2, <2>3 DEF LinkInv, LinkMatchesTag, LinksHeld, Stored
  <2>5. \A k \in Keys \ Stored : nodes'[k] # None =>
          k - LastKey \in DOMAIN s.fresh /\ nodes'[k] = s.fresh[k - LastKey]
    BY <2>1, FlushedRow DEF LinkInv, StoreInv
  <2>6. LinkMatchesTag'
    BY <2>2, <2>4, <2>5 DEF LinkMatchesTag, LinksHeld, Stored
  <2> QED
    BY <1>1, <1>2, <2>3, <2>4, <2>6, LinksSurvive
<1> QED
  BY <1>3, <1>4

\* LinkInv is inductive when deletes wait for requests.
LEMMA LinkStep ==
  ASSUME DeletesWait
  PROVE  LinkInv /\ [Next]_vars => LinkInv'
<1> SUFFICES ASSUME LinkInv, [Next]_vars PROVE LinkInv'
  OBVIOUS
<1>1. StoreInv'
  BY StoreStep DEF LinkInv
<1>2. ASSUME NEW r \in Requests,
             \/ \E link \in Links : Add(r, link)
             \/ \E k \in Keys : RefreshGeo(r, k)
             \/ \E items \in Payloads : Import(r, items)
             \/ ImportItem(r)
             \/ \E geo \in Geos \cup {None} : Lookup(r, geo)
      PROVE  LinkInv'
  BY <1>1, <1>2, QuietLinks
<1>3. ASSUME NEW r \in Requests, Finish(r) PROVE LinkInv'
  BY <1>1, <1>3, FinishLinks
<1>4. ASSUME NEW k \in Keys, NEW geo \in Geos \cup {None}, NEW role \in Roles \cup {None},
             Metadata(k, geo, role)
      PROVE  LinkInv'
  <2>1. /\ nodes'[k] # None => nodes'[k].tag = nodes[k].tag /\ nodes'[k].link = nodes[k].link
        /\ \A l \in Keys \ {k} : nodes'[l] = nodes[l]
    BY <1>4, EditStep DEF LinkInv
  <2>2. nodes'[k] # None
    <3> DEFINE row == [nodes[k] EXCEPT !.geo = geo, !.role = role]
    <3>1. nodes[k] \in Rows /\ nodes'[k] = row
      BY <1>4, StoredRow DEF Metadata, LinkInv, StoreInv, NodeTypeOK
    <3>2. row \in Rows
      BY <3>1 DEF Rows
    <3> HIDE DEF row
    <3> QED
      BY <3>1, <3>2
  <2>3. k \in Stored
    BY <1>4 DEF Metadata
  <2>4. \A l \in Stored : /\ l \in Stored' /\ nodes'[l].tag = nodes[l].tag
                          /\ nodes'[l].link = nodes[l].link
    <3> SUFFICES ASSUME NEW l \in Stored
                 PROVE  nodes'[l] # None /\ nodes'[l].tag = nodes[l].tag
                                         /\ nodes'[l].link = nodes[l].link
      BY DEF Stored
    <3>1. l = k \/ nodes'[l] = nodes[l]
      BY <2>1 DEF Stored
    <3> QED
      BY <2>1, <2>2, <3>1 DEF Stored
  <2>5. Stored' = Stored
    BY <2>1, <2>3, <2>4 DEF Stored
  <2>6. LinkMatchesTag'
    BY <2>4, <2>5 DEF LinkInv, LinkMatchesTag
  <2>7. /\ req \in [Requests -> Sessions \cup {None}] /\ req' = Raced(req)
        /\ \A q \in Requests : req[q] \in {req[q], None}
    BY <1>4 DEF Metadata, LinkInv, StoreInv, NodeTypeOK
  <2> QED
    BY <1>1, <2>4, <2>6, <2>7, LinksSurvive
<1>5. ASSUME NEW k \in Keys, DeleteNode(k) PROVE LinkInv'
  <2>1. \A q \in Requests : req[q] = None
    BY <1>5 DEF DeleteNode, DeletesWait
  <2>2. Ongoing' = {}
    BY <1>5, <2>1 DEF Ongoing, DeleteNode, Raced
  <2>3. \A l \in Stored' : l \in Stored /\ nodes'[l] = nodes[l]
    BY <1>5 DEF DeleteNode, Stored, LinkInv, StoreInv, NodeTypeOK
  <2> QED
    BY <1>1, <2>2, <2>3 DEF LinkInv, LinkMatchesTag
<1>6. CASE UNCHANGED vars
  BY <1>1, <1>6 DEF vars, LinkInv, LinkMatchesTag, LinksHeld, Stored, Ongoing
<1> QED
  BY <1>2, <1>3, <1>4, <1>5, <1>6 DEF Next, Proceed

\* The row of a tag always holds a link of that tag, so that what is deployed and
\* handed out under a node's name is that node, although requests write back what
\* they loaded before a lookup, column by column.
THEOREM LinksMatchTags ==
  ASSUME DeletesWait
  PROVE  NodeSpec => []LinkMatchesTag
<1>1. Init => LinkInv
  <2>1. Init => Ongoing = {} /\ Stored = {}
    BY DEF Init, Ongoing, Stored
  <2> QED
    BY <2>1, StoreInit DEF LinkInv, LinkMatchesTag
<1>2. LinkInv => LinkMatchesTag
  BY DEF LinkInv
<1> QED
  BY <1>1, <1>2, LinkStep, PTL DEF NodeSpec

=============================================================================
