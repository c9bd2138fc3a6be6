---------------------------- MODULE MCNodeStore ----------------------------
(***************************************************************************)
(* Small node tables: two tags, one of them with links of two protocols.   *)
(***************************************************************************)
EXTENDS NodeStore

CONSTANTS a, b, kz, relay

LinkA == [tag |-> a, protocol |-> "vless", server |-> 1]
LinkB == [tag |-> b, protocol |-> "vless", server |-> 1]
LinkA2 == [tag |-> a, protocol |-> "hysteria2", server |-> 2]

MCLinks == {LinkA, LinkB, LinkA2}

Item(link, geo, role) == [link |-> link, geo |-> geo, role |-> role]

\* A changed link and a new one that needs a lookup; a label and a geo set, and left alone
MCPayloads ==
  {<<Item(LinkA2, None, relay), Item(LinkB, None, Absent)>>,
   <<Item(LinkB, kz, None), Item(LinkA, None, Bad)>>}

=============================================================================
