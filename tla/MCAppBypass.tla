---------------------------- MODULE MCAppBypass ----------------------------
(* Model-checking instance of AppBypass: two executables of the same name, two
   applications, links of every spelling, and nodes of every kind; executables
   are interchangeable, and so are applications. *)
EXTENDS AppBypass, TLC

CONSTANTS p1, p2, n1

MCNameOf == (p1 :> n1) @@ (p2 :> n1)
MCSymmetry == Permutations(Paths) \cup Permutations(Apps) \cup Permutations(Tabs)

Link(scheme, name, type, header, security, pbk) ==
  [scheme |-> scheme, user |-> "u", password |-> "", server |-> "s", port |-> 0,
   name |-> name, type |-> type, header |-> header, security |-> security, pbk |-> pbk]
Vless(name, type, header, security, pbk) ==
  [Link("vless", name, type, header, security, pbk) EXCEPT !.port = 8443]

Types == {"", "tcp", "http", "h2", "http2", "ws", "websocket", "grpc", "httpupgrade",
          "xhttp", "splithttp", "quic", "kcp"}

MCLinks ==
  {Vless("n", type, header, "tls", "") : type \in Types, header \in {"", "http"}}
    \cup {Vless(name, "ws", "", security, pbk) :
            name \in {"", " ", "direct"}, security \in {"", "tls", "reality", "xtls"},
            pbk \in {"", "k"}}
    \cup {Link(scheme, "", "", "", "", "") : scheme \in {"vless", "hysteria2", "hy2", "ss"}}
    \cup {[Link("hy2", "n", "", "", "", "") EXCEPT !.user = user, !.password = password] :
            user \in {"", "u"}, password \in {"", "q"}}
    \cup {[Vless("n", "ws", "", "tls", "") EXCEPT !.server = ""]}

\* What an earlier version, that knew of no transports, stored for a link
Earlier(link) ==
  [protocol |-> IF link.scheme = "vless" THEN "vless" ELSE "hysteria2",
   tag |-> "n", server |-> "s", port |-> 8443, secret |-> "u",
   transport |-> "tcp", header |-> "", security |-> "tls", key |-> FALSE]

MCStoredNodes == {[link |-> link, data |-> Earlier(link)] : link \in MCLinks}

MCNodes ==
  {ParseUrl(link) : link \in {
     Link("hy2", "hy", "", "", "", ""), Link("hysteria2", "proxy", "", "", "", ""),
     Vless("ws", "websocket", "", "tls", ""), Vless("", "", "", "reality", "k"),
     Vless("keyless", "", "", "reality", ""), Vless("x", "splithttp", "", "tls", ""),
     Vless("direct", "grpc", "", "", "")}}

=============================================================================
