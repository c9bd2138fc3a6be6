------------------------------ MODULE AppBypass ------------------------------
(***************************************************************************)
(* The Apps page (app/routes/apps.py, services/app_bypass.py): which       *)
(* processes of the managed host go around the tunnel.                     *)
(*                                                                         *)
(* The stored list is shown as ticked tiles for the applications that are  *)
(* installed and as lines of text for the rest; saving parses all of it    *)
(* again and replaces the list, while applications come and go and other   *)
(* tabs save.  Activation turns the list into the first route rules.       *)
(***************************************************************************)
EXTENDS Generator

CONSTANTS
  Apps,        \* ids of desktop entries
  Bad,         \* a match that does not parse, the empty one included
  Custom,      \* the id of a line of text
  NoPath,      \* entry without a path
  StoredNodes, \* rows of nodes: their link, and what was parsed from it once
  Nodes,       \* nodes that can be assigned
  Tabs,        \* browser tabs with the page
  None,        \* no page
  MaxCustom,   \* _MAX_CUSTOM_LINES
  MaxEntries   \* _MAX_ENTRIES

Matches == Paths \cup Names

ASSUME AppBypassAssumption ==
  /\ {Bad, NoPath} \cap Matches = {}
  /\ Custom \notin Apps
  /\ MaxCustom \in Nat /\ MaxEntries \in Nat
  /\ IsFiniteSet(Nodes) /\ IsFiniteSet(Apps)
  /\ IsFiniteSet(Matches)  \* at most 240 characters

VARIABLES
  installed, \* the applications list_desktop_apps finds
  stored,    \* rows of app_bypass_json
  page,      \* tab -> the form in it
  chosen     \* history: the matches of the form saved last

vars == <<installed, stored, page, chosen>>

-----------------------------------------------------------------------------
(* Entries *)

\* Mutant of Parsed: a path stands for every process of its name
ParsedAsName(match) ==
  [name |-> IF match \in Paths THEN NameOf[match] ELSE match, path |-> NoPath]

\* _parse_process_match of a match that is not Bad
Parsed(match) ==
  IF match \in Paths THEN [name |-> NameOf[match], path |-> match]
  ELSE [name |-> match, path |-> NoPath]

Entry(app, match) == [app |-> app, match |-> Parsed(match)]

\* entry.process_path or entry.process_name
MatchOf(entry) == IF entry.match.path # NoPath THEN entry.match.path ELSE entry.match.name

\* load_bypass_entries parses every stored row again
Loaded == {Entry(row.app, MatchOf(row)) : row \in stored}

\* process_bypass_for_config: an entry with a path gives the path alone
Bypass ==
  [paths |-> {entry.match.path : entry \in Loaded} \ {NoPath},
   names |-> {entry.match.name : entry \in {e \in Loaded : e.match.path = NoPath}}]

-----------------------------------------------------------------------------
(* The page *)

Selected == {entry.app : entry \in Loaded} \ {Custom}

\* Mutant of Unavailable: what has no tile is not shown
UnavailableDropped == {}

\* Matches of entries whose application is not installed any more
Unavailable == {MatchOf(e) : e \in {e \in Loaded : e.app \in Selected \ installed}}

\* Mutant of Lines: custom_process_text of all entries
AllLines == {MatchOf(e) : e \in Loaded}

\* The text box
Lines == {MatchOf(e) : e \in {e \in Loaded : e.app = Custom}} \cup Unavailable

\* GET /apps: tiles with their match, and the text box
Form ==
  [tiles |-> [app \in Selected \cap installed |->
                MatchOf(CHOOSE entry \in Loaded : entry.app = app)],
   lines |-> Lines,
   offered |-> installed, listed |-> Selected, basis |-> Bypass, edited |-> FALSE]

OpenPage(t) ==
  /\ page' = [page EXCEPT ![t] = Form]
  /\ UNCHANGED <<installed, stored, chosen>>

Edited(t, tiles, lines) ==
  /\ page' = [page EXCEPT ![t] =
       [@ EXCEPT !.tiles = tiles, !.lines = lines,
                 !.listed = {}, !.basis = NoBypass, !.edited = TRUE]]
  /\ UNCHANGED <<installed, stored, chosen>>

Ticked(tiles, app, match) ==
  [a \in DOMAIN tiles \cup {app} |-> IF a = app THEN match ELSE tiles[a]]

\* The operator ticks a tile, with the match it suggests or another one, unticks
\* it, or writes and removes lines; what was shown is then of no further use
EditForm(t) ==
  /\ page[t] # None
  /\ \/ \E app \in page[t].offered, match \in Matches \cup {Bad} :
          Edited(t, Ticked(page[t].tiles, app, match), page[t].lines)
     \/ \E app \in DOMAIN page[t].tiles :
          Edited(t, [a \in DOMAIN page[t].tiles \ {app} |-> page[t].tiles[a]], page[t].lines)
     \/ \E match \in Matches \cup {Bad} :
          \/ Edited(t, page[t].tiles, page[t].lines \cup {match})
          \/ Edited(t, page[t].tiles, page[t].lines \ {match})

WithinLimits(form) ==
  /\ Cardinality(form.lines) <= MaxCustom
  /\ Cardinality(form.lines) + Cardinality(DOMAIN form.tiles) <= MaxEntries

\* build_entries_from_form does not raise, for the applications installed now
Acceptable(form) ==
  /\ DOMAIN form.tiles \subseteq installed
  /\ Bad \notin form.lines
  /\ \A app \in DOMAIN form.tiles : form.tiles[app] # Bad
  /\ WithinLimits(form)

\* save_bypass_entries: the rows the form stands for
StoredRows(form) ==
  {Entry(app, form.tiles[app]) : app \in DOMAIN form.tiles}
    \cup {Entry(Custom, match) : match \in form.lines}

\* POST /apps: the whole list is replaced
SavePage(t) ==
  /\ page[t] # None /\ Acceptable(page[t])
  /\ stored' = StoredRows(page[t])
  /\ chosen' = {page[t].tiles[app] : app \in DOMAIN page[t].tiles} \cup page[t].lines
  /\ page' = [page EXCEPT ![t] = None]
  /\ UNCHANGED installed

\* POST /apps answers with the error; nothing is stored
RefusePage(t) ==
  /\ page[t] # None /\ ~Acceptable(page[t])
  /\ page' = [page EXCEPT ![t] = None]
  /\ UNCHANGED <<installed, stored, chosen>>

\* An application is installed or removed; what its desktop entry suggests as
\* a match is one of those an operator may tick it with
CatalogChanges ==
  /\ \E app \in Apps :
       \/ installed' = installed \cup {app}
       \/ installed' = installed \ {app}
  /\ UNCHANGED <<stored, page, chosen>>

Init ==
  /\ installed = {}
  /\ stored = {}
  /\ page = [t \in Tabs |-> None]
  /\ chosen = {}

Next ==
  \/ \E t \in Tabs : OpenPage(t) \/ EditForm(t) \/ SavePage(t) \/ RefusePage(t)
  \/ CatalogChanges

AppBypassSpec == Init /\ [][Next]_vars

-----------------------------------------------------------------------------
(* Properties *)

\* docs/ops.md:91-117: where a connection has to go
Expected(process, lists, preset) ==
  IF process \in chosen \/ NameOf[process] \in chosen THEN "direct"
  ELSE IF "port 53" \in lists THEN "hijack-dns"
  ELSE IF lists \cap {"messenger", "ip echo"} # {} THEN "block"
  ELSE IF "ru suffix" \in lists THEN "direct"
  ELSE IF preset # "full_tunnel" /\ "private" \in lists THEN "direct"
  ELSE IF preset = "bypass_ru" /\ "ru rule set" \in lists THEN "direct"
  ELSE "final"

\* In the config an activation would make now, with every preset, exactly the
\* connections of the processes chosen in the form saved last go around DNS
\* interception and guards, and all others go as documented: a path never
\* stands for its name, and no rule is shadowed by an earlier one.
SelectionRouted ==
  \A preset \in RoutePresets :
    LET rules == RouteConfig(preset, Bypass)
    IN  \A process \in Paths, lists \in Destinations :
          Decision(rules, "final", {process, NameOf[process]} \cup lists)
            = Expected(process, lists, preset)

\* docs/ops.md:38-51, docs/client-contract.md:75-79: what a link is dialled with
\* that has this headerType; nothing for a transport that is not listed, and for
\* headerType=http
DocumentedFor(link, header) ==
  IF Protocol[link.scheme] = "hysteria2"
  THEN {Dial(link.server, port, secret, "", "tls") :
          port \in {IF link.port = 0 THEN 443 ELSE link.port},
          secret \in {link.user, link.password} \ {""}}
  ELSE {Dial(link.server, link.port, link.user, pair[2],
             IF link.security \in {"tls", "reality"} THEN link.security ELSE "none") :
          pair \in {p \in ({"", "tcp"} \X {"tcp"}) \cup ({"http", "h2", "http2"} \X {"http"})
                            \cup ({"ws", "websocket"} \X {"ws"})
                            \cup {<<"grpc", "grpc">>, <<"httpupgrade", "httpupgrade">>} :
                    /\ p[1] = link.type /\ header # "http"
                    /\ link.security = "reality" => link.pbk # ""}}
Documented(link) == DocumentedFor(link, link.header)

\* The documents, but for headerType=http on another transport than TCP: it is
\* not looked at, and the link dialled as if it had none
Tolerated(link) ==
  DocumentedFor(link, IF link.type \in {"", "tcp"} THEN link.header ELSE "")

\* The config an activation would make now dials a node as the docs say of its
\* link, whatever version of the panel stored the node, and for a link they do
\* not support no config is made rather than one that dials something else; the
\* one exception is the headerType that HeaderTypeRefused is about.  Nodes
\* tagged like a fixed outbound are left out: sing-box refuses their config.
DialledAsDocumented ==
  \A row \in StoredNodes :
    Parses(row.link) =>
      LET node == Deserialized(row)
          config == HostConfig(node, "full_tunnel", Bypass)
      IN  /\ Buildable(node) <=> Tolerated(row.link) # {}
          /\ Buildable(node) /\ TagsValid({node}) =>
               \A out \in config.outbounds :
                 out.tag = config.final =>
                   /\ out.dial \in Tolerated(row.link)
                   /\ Documented(row.link) # {} => out.dial \in Documented(row.link)

\* docs/ops.md:125: saving the page as it was shown keeps every bypass rule,
\* although applications were removed since their entries were saved.
PageKeepsBypass ==
  [][\A t \in Tabs :
       SavePage(t) /\ ~page[t].edited => Bypass' = page[t].basis]_vars

\* The page as it was shown is refused only when applications of the list were
\* removed: one since it was shown, which takes a tile away, or some before, when
\* their entries have become lines and the lines too many.  The limit on all
\* entries never refuses a list again that it once passed.
RefusedForRemovedApps ==
  [][\A t \in Tabs :
       RefusePage(t) /\ ~page[t].edited =>
         LET tiles == DOMAIN page[t].tiles
         IN  \/ tiles \ installed # {}
             \/ page[t].listed # tiles /\ Cardinality(page[t].lines) > MaxCustom]_vars

References(config) ==
  ({config.final} \cup config.choices \cup {config.rules[i].to : i \in DOMAIN config.rules})
    \ {"hijack-dns"}

\* Proxies that connections can be sent through, the selector's choices included
Reachable(config) ==
  {config.final} \cup {tag \in config.choices : Outbound("selector", config.final) \in config.outbounds}

Groups == {nodes \in SUBSET {node \in Nodes : Buildable(node)} : ClientBuildable(nodes)}

\* The config of a managed user, for every group of nodes and preset: each
\* outbound it names is there exactly once, every node of the group can be
\* reached, and nothing of the host's process bypass list is in it
\* (docs/client-contract.md:19-31).
UserConfigSound ==
  \A nodes \in Groups, preset \in RoutePresets :
    LET config == ClientConfig(nodes, preset)
    IN  /\ \A tag \in References(config) :
             Cardinality({out \in config.outbounds : out.tag = tag}) = 1
        /\ TagsOf(nodes) \subseteq Reachable(config)
        /\ \A i \in DOMAIN config.rules : config.rules[i].marks \cap chosen = {}

-----------------------------------------------------------------------------
(* Definitions the code does not keep; README.md, section 6 *)

\* docs/ops.md:49 and docs/client-contract.md:75-79: no config is made for a
\* VLESS link with headerType=http.  The code refuses it for TCP only.
HeaderTypeRefused ==
  \A row \in StoredNodes :
    Parses(row.link) /\ Protocol[row.link.scheme] = "vless" /\ row.link.header = "http"
      => ~Buildable(Deserialized(row))

\* A page can be saved as it was shown as long as its tiles are still there.
\* Entries of applications removed before it was shown count as lines of text,
\* and these have a limit of their own.
SavableAsShown ==
  [][\A t \in Tabs :
       RefusePage(t) /\ ~page[t].edited => DOMAIN page[t].tiles \ installed # {}]_vars

=============================================================================
