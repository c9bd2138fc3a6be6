------------------------------ MODULE Generator ------------------------------
(***************************************************************************)
(* The configs the panel makes: outbounds and route rules                  *)
(* (app/singbox/generator.py, routes.py) and the document a managed user   *)
(* gets (client_generator.py).                                             *)
(*                                                                         *)
(* A connection is the set of its marks: the path and the name of the      *)
(* process that opened it and the lists its destination is on.  A rule     *)
(* takes the connections that have one of its marks.                       *)
(***************************************************************************)
EXTENDS Links, FiniteSets

CONSTANTS
  Paths,   \* absolute executable paths
  Names,   \* process names
  NameOf   \* path -> the last component of the path

\* The lists a destination can be on: the domains of the two blocking guards,
\* .ru/.su/gosuslugi.ru, the sets geoip-ru and geosite-ru, RFC 1918; and DNS
Lists == {"port 53", "private", "ip echo", "messenger", "ru suffix", "ru rule set"}

ASSUME GeneratorAssumption ==
  /\ Paths \cap Names = {} /\ (Paths \cup Names) \cap Lists = {}
  /\ NameOf \in [Paths -> Names]

\* Where a connection can go: gosuslugi.ru and the messenger's domains are on
\* several lists
Places ==
  {{}, {"private"}, {"ip echo"}, {"messenger"}, {"messenger", "ru suffix", "ru rule set"},
   {"ru suffix"}, {"ru rule set"}, {"ru suffix", "ru rule set"}}
Destinations == Places \cup {place \cup {"port 53"} : place \in Places}

-----------------------------------------------------------------------------
(* Route rules *)

Rule(marks, to) == [marks |-> marks, to |-> to]

DnsHijack == <<Rule({"port 53"}, "hijack-dns")>>

RouteGuards ==
  <<Rule({"messenger"}, "block"), Rule({"ip echo"}, "block"), Rule({"ru suffix"}, "direct")>>

PresetRules ==
  [full_tunnel |-> <<>>,
   bypass_lan  |-> <<Rule({"private"}, "direct")>>,
   bypass_ru   |-> <<Rule({"ru rule set"}, "direct"), Rule({"private"}, "direct")>>]
RoutePresets == DOMAIN PresetRules

\* A list that is empty gives no rule
RuleFor(marks) == IF marks = {} THEN <<>> ELSE <<Rule(marks, "direct")>>
ProcessRules(bypass) == RuleFor(bypass.paths) \o RuleFor(bypass.names)

\* Mutant of RouteConfig: process rules come after the shared rules
ProcessRulesLast(preset, bypass) ==
  DnsHijack \o RouteGuards \o ProcessRules(bypass) \o PresetRules[preset]

RouteConfig(preset, bypass) ==
  ProcessRules(bypass) \o DnsHijack \o RouteGuards \o PresetRules[preset]

\* sing-box: the first rule that takes a connection decides, else "final"
Decision(rules, final, marks) ==
  LET taken == {i \in DOMAIN rules : rules[i].marks \cap marks # {}}
  IN  IF taken = {} THEN final
      ELSE rules[CHOOSE i \in taken : \A j \in taken : i <= j].to

NoBypass == [paths |-> {}, names |-> {}]

-----------------------------------------------------------------------------
(* Outbounds *)

\* Transports a VLESS outbound can be made for; xhttp, splithttp, quic and
\* unknown ones raise
Transports == {"tcp", "http", "grpc", "ws", "httpupgrade"}

\* build_outbound: raises for what sing-box does not speak and for Reality
\* without its public key
Buildable(node) ==
  \/ node.protocol = "hysteria2"
  \/ /\ node.protocol = "vless"
     /\ node.transport \in Transports
     /\ ~(node.transport = "tcp" /\ node.header = "http")
     /\ node.security = "reality" => node.key

\* How a proxy is dialled; a fixed outbound dials nobody
Dial(server, port, secret, transport, tls) ==
  [server |-> server, port |-> port, secret |-> secret, transport |-> transport, tls |-> tls]
Outbound(type, tag) == [type |-> type, tag |-> tag, dial |-> Dial("", 0, "", "", "")]

\* _build_vless_outbound and _build_hysteria2_outbound: any other security is none
Proxy(node) ==
  [type |-> node.protocol, tag |-> node.tag,
   dial |-> Dial(node.server, node.port, node.secret, node.transport,
                 IF node.security \in {"tls", "reality"} THEN node.security ELSE "none")]

Fixed == {Outbound("direct", "direct"), Outbound("block", "block")}

\* generate_config, for a node that is Buildable: the config of the managed host
HostConfig(node, preset, bypass) ==
  [rules |-> RouteConfig(preset, bypass), final |-> node.tag, choices |-> {},
   outbounds |-> {Proxy(node)} \cup Fixed]

-----------------------------------------------------------------------------
(* Documents for the nodes of a group *)

Reserved == {"direct", "block", "proxy"}
TagsOf(nodes) == {node.tag : node \in nodes}
DistinctTags(nodes) == Cardinality(TagsOf(nodes)) = Cardinality(nodes)

\* Mutant of TagsValid: reserved tags are let through
ReservedTagsValid(nodes) == DistinctTags(nodes)

\* _validate_node_tags
TagsValid(nodes) == DistinctTags(nodes) /\ TagsOf(nodes) \cap Reserved = {}

\* generate_client_config does not raise
ClientBuildable(nodes) ==
  nodes # {} /\ TagsValid(nodes) /\ \A node \in nodes : Buildable(node)

\* A selector only where there is something to select
NeedsSelector(nodes) == Cardinality(nodes) > 1
FirstTag(nodes) == (CHOOSE node \in nodes : TRUE).tag

FinalTag(nodes) == IF NeedsSelector(nodes) THEN "proxy" ELSE FirstTag(nodes)

\* generate_client_config: all nodes of a group, never the host's bypass list
ClientConfig(nodes, preset) ==
  [rules |-> RouteConfig(preset, NoBypass),
   final |-> FinalTag(nodes),
   choices |-> IF NeedsSelector(nodes) THEN TagsOf(nodes) ELSE {},
   outbounds |->
     {Proxy(node) : node \in nodes}
       \cup (IF NeedsSelector(nodes) THEN {Outbound("selector", "proxy")} ELSE {})
       \cup Fixed]

=============================================================================
