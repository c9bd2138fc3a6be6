-------------------------------- MODULE Links --------------------------------
(***************************************************************************)
(* From a share link to a node (app/parsers) and from a stored row back to *)
(* it (deserialize_node).  A part that a link does not have is "", a port  *)
(* 0; names of transports are equal up to case and blanks.                 *)
(***************************************************************************)
EXTENDS Naturals, Sequences

Protocol == [vless |-> "vless", hysteria2 |-> "hysteria2", hy2 |-> "hysteria2"]

\* _TRANSPORT_ALIASES; a value with no entry stays as it is
SpeltAs ==
  [tcp |-> {"", "tcp"}, http |-> {"http", "h2", "http2"}, ws |-> {"ws", "websocket"},
   xhttp |-> {"xhttp", "splithttp"}]

NormalizedTransport(type) ==
  IF \E name \in DOMAIN SpeltAs : type \in SpeltAs[name]
  THEN CHOOSE name \in DOMAIN SpeltAs : type \in SpeltAs[name]
  ELSE type

\* A name of blanks is empty once it is stripped
Stripped(name) == IF name = " " THEN "" ELSE name
TagOf(link, default) == IF link.name = "" THEN default \o link.server ELSE Stripped(link.name)

ParseVless(link) ==
  [protocol |-> "vless", tag |-> TagOf(link, "vless-"),
   server |-> link.server, port |-> link.port, secret |-> link.user,
   transport |-> NormalizedTransport(link.type), header |-> link.header,
   security |-> IF link.security = "" THEN "none" ELSE link.security,
   key |-> link.pbk # ""]

\* The secret may stand in either half of the link's user info
ParseHysteria2(link) ==
  [protocol |-> "hysteria2", tag |-> TagOf(link, "hy2-"),
   server |-> link.server, port |-> IF link.port = 0 THEN 443 ELSE link.port,
   secret |-> IF link.user # "" THEN link.user ELSE link.password,
   transport |-> "", header |-> "", security |-> "tls", key |-> FALSE]

\* parse_url does not raise
Parses(link) ==
  /\ link.scheme \in DOMAIN Protocol
  /\ link.server # ""
  /\ IF Protocol[link.scheme] = "vless" THEN link.user # "" /\ link.port # 0
     ELSE link.user # "" \/ link.password # ""

ParseUrl(link) ==
  IF Protocol[link.scheme] = "vless" THEN ParseVless(link) ELSE ParseHysteria2(link)

\* Mutant of Deserialized: a row is what was parsed when it was stored
DeserializedAsStored(row) == row.data

\* deserialize_node: the link is parsed again, so that nodes stored by an earlier
\* version get what later parsers understand; the stored data is the fallback
Deserialized(row) ==
  IF Parses(row.link) /\ Protocol[row.link.scheme] = row.data.protocol
  THEN ParseUrl(row.link) ELSE row.data

=============================================================================
