--------------------------- MODULE AppBypassProofs ---------------------------
(***************************************************************************)
(* The Apps page and the configs, for any applications, processes, tabs    *)
(* and nodes.                                                              *)
(***************************************************************************)
EXTENDS AppBypass, FiniteSetTheorems, SequenceTheorems, WellFoundedInduction, TLAPS

-----------------------------------------------------------------------------
(* Route rules *)

Marks == Paths \cup Names \cup Lists
Targets == {"direct", "block", "hijack-dns"}
Rules == [marks : SUBSET Marks, to : Targets]

\* Of the rules that take a connection there is a first one.
LEMMA FirstTaken ==
  ASSUME NEW rules \in Seq(Rules), NEW marks,
         \E i \in DOMAIN rules : rules[i].marks \cap marks # {}
  PROVE  \E m \in DOMAIN rules :
           /\ rules[m].marks \cap marks # {}
           /\ \A j \in DOMAIN rules : rules[j].marks \cap marks # {} => m <= j
<1> DEFINE Less == {pair \in Nat \X Nat : pair[1] < pair[2]}
           taken == {i \in DOMAIN rules : rules[i].marks \cap marks # {}}
<1>1. IsWellFoundedOn(Less, Nat)
  BY NatLessThanWellFounded DEF OpToRel
<1>2. taken \subseteq Nat /\ taken # {}
  OBVIOUS
<1>3. PICK m \in taken : \A j \in taken : <<j, m>> \notin Less
  <2> HIDE DEF Less, taken
  <2> QED
    BY <1>1, <1>2, WFMin
<1>4. \A j \in taken : m <= j
  <2> HIDE DEF taken
  <2> TAKE j \in taken
  <2>1. j \in Nat /\ m \in Nat /\ <<j, m>> \notin Less
    BY <1>2, <1>3
  <2> QED
    BY <2>1
<1> QED
  BY <1>3, <1>4

\* The first rule that takes a connection decides.
LEMMA FirstDecides ==
  ASSUME NEW rules \in Seq(Rules), NEW final, NEW marks, NEW i \in DOMAIN rules,
         rules[i].marks \cap marks # {},
         \A j \in DOMAIN rules : rules[j].marks \cap marks # {} => i <= j
  PROVE  Decision(rules, final, marks) = rules[i].to
<1> DEFINE taken == {j \in DOMAIN rules : rules[j].marks \cap marks # {}}
           first == CHOOSE k \in taken : \A j \in taken : k <= j
<1>1. i \in taken /\ \A j \in taken : i <= j
  OBVIOUS
<1>2. first \in taken /\ first <= i
  BY <1>1
<1>3. i <= first /\ i \in Nat /\ first \in Nat
  BY <1>1, <1>2
<1>4. first = i
  BY <1>2, <1>3
<1> QED
  BY <1>1, <1>4 DEF Decision

LEMMA NoneDecides ==
  ASSUME NEW rules, NEW final, NEW marks,
         \A j \in DOMAIN rules : rules[j].marks \cap marks = {}
  PROVE  Decision(rules, final, marks) = final
  BY DEF Decision

\* Of two lists of rules after each other, the second decides what the first does not.
LEMMA DecisionInTurn ==
  ASSUME NEW s \in Seq(Rules), NEW t \in Seq(Rules), NEW final, NEW marks
  PROVE  /\ s \o t \in Seq(Rules)
         /\ Decision(s \o t, final, marks) = Decision(s, Decision(t, final, marks), marks)
<1> DEFINE u == s \o t
           Takes(list, i) == list[i].marks \cap marks # {}
<1>1. /\ u \in Seq(Rules) /\ Len(s) \in Nat /\ Len(t) \in Nat
      /\ DOMAIN s = 1..Len(s) /\ DOMAIN t = 1..Len(t) /\ DOMAIN u = 1..(Len(s) + Len(t))
      /\ \A i \in DOMAIN s : u[i] = s[i]
      /\ \A i \in DOMAIN u : i > Len(s) => i - Len(s) \in DOMAIN t /\ u[i] = t[i - Len(s)]
      /\ \A i \in DOMAIN t : Len(s) + i \in DOMAIN u /\ u[Len(s) + i] = t[i]
  OBVIOUS
<1>0. u \in Seq(Rules)
  OBVIOUS
<1> HIDE DEF u
<1>2. ASSUME NEW m \in DOMAIN s, Takes(s, m), \A j \in DOMAIN s : Takes(s, j) => m <= j
      PROVE  Decision(u, final, marks) = Decision(s, Decision(t, final, marks), marks)
  <2>1. Decision(s, Decision(t, final, marks), marks) = s[m].to
    BY <1>2, FirstDecides
  <2>2. m \in DOMAIN u /\ u[m] = s[m]
    BY <1>1
  <2>3. ASSUME NEW j \in DOMAIN u, Takes(u, j) PROVE m <= j
    <3>1. CASE j <= Len(s)
      <4>1. j \in DOMAIN s /\ u[j] = s[j]
        BY <1>1, <3>1
      <4> QED
        BY <1>2, <2>3, <4>1
    <3>2. CASE j > Len(s)
      BY <1>1, <3>2
    <3> QED
      BY <1>1, <3>1, <3>2
  <2>4. Takes(u, m)
    BY <1>2, <2>2
  <2>5. Decision(u, final, marks) = u[m].to
    BY <1>0, <2>2, <2>3, <2>4, FirstDecides
  <2> QED
    BY <2>1, <2>2, <2>5
<1>3. ASSUME \A i \in DOMAIN s : ~Takes(s, i),
             NEW m \in DOMAIN t, Takes(t, m), \A j \in DOMAIN t : Takes(t, j) => m <= j
      PROVE  Decision(u, final, marks) = Decision(s, Decision(t, final, marks), marks)
  <2> DEFINE k == Len(s) + m
  <2>1. Decision(s, Decision(t, final, marks), marks) = Decision(t, final, marks)
    BY <1>3, NoneDecides
  <2>2. Decision(t, final, marks) = t[m].to
    BY <1>3, FirstDecides
  <2>3. k \in DOMAIN u /\ u[k] = t[m]
    BY <1>1
  <2>4. ASSUME NEW j \in DOMAIN u, Takes(u, j) PROVE k <= j
    <3>1. j \notin DOMAIN s
      BY <1>1, <1>3, <2>4
    <3>2. j > Len(s) /\ j \in Nat
      BY <1>1, <3>1
    <3>3. j - Len(s) \in DOMAIN t /\ u[j] = t[j - Len(s)]
      BY <1>1, <3>2
    <3>4. m <= j - Len(s)
      BY <1>3, <2>4, <3>3
    <3> QED
      BY <1>1, <3>2, <3>4
  <2>5. Takes(u, k)
    BY <1>3, <2>3
  <2> HIDE DEF k
  <2>6. Decision(u, final, marks) = u[k].to
    BY <1>0, <2>3, <2>4, <2>5, FirstDecides
  <2> QED
    BY <2>1, <2>2, <2>3, <2>6
<1>4. ASSUME \A i \in DOMAIN s : ~Takes(s, i), \A i \in DOMAIN t : ~Takes(t, i)
      PROVE  Decision(u, final, marks) = Decision(s, Decision(t, final, marks), marks)
  <2>1. Decision(s, Decision(t, final, marks), marks) = Decision(t, final, marks)
    BY <1>4, NoneDecides
  <2>2. Decision(t, final, marks) = final
    BY <1>4, NoneDecides
  <2>3. ASSUME NEW j \in DOMAIN u PROVE u[j].marks \cap marks = {}
    <3>1. CASE j \in DOMAIN s
      BY <1>1, <1>4, <3>1
    <3>2. CASE j \notin DOMAIN s
      <4>1. j > Len(s)
        BY <1>1, <3>2
      <4> QED
        BY <1>1, <1>4, <4>1
    <3> QED
      BY <3>1, <3>2
  <2>4. Decision(u, final, marks) = final
    BY <2>3, NoneDecides
  <2> QED
    BY <2>1, <2>2, <2>4
<1>5. CASE \E i \in DOMAIN s : Takes(s, i)
  <2>1. PICK m \in DOMAIN s : Takes(s, m) /\ \A j \in DOMAIN s : Takes(s, j) => m <= j
    BY <1>5, FirstTaken
  <2> QED
    BY <1>1, <1>2, <2>1 DEF u
<1>6. CASE (\A i \in DOMAIN s : ~Takes(s, i)) /\ \E i \in DOMAIN t : Takes(t, i)
  <2>1. PICK m \in DOMAIN t : Takes(t, m) /\ \A j \in DOMAIN t : Takes(t, j) => m <= j
    BY <1>6, FirstTaken
  <2> QED
    BY <1>1, <1>3, <1>6, <2>1 DEF u
<1>7. CASE (\A i \in DOMAIN s : ~Takes(s, i)) /\ (\A i \in DOMAIN t : ~Takes(t, i))
  BY <1>1, <1>4, <1>7 DEF u
<1> QED
  BY <1>5, <1>6, <1>7

\* One rule
LEMMA RuleDecides ==
  ASSUME NEW M \in SUBSET Marks, NEW to \in Targets, NEW final, NEW marks
  PROVE  /\ <<Rule(M, to)>> \in Seq(Rules)
         /\ Decision(<<Rule(M, to)>>, final, marks) = IF M \cap marks # {} THEN to ELSE final
<1>1. Rule(M, to) \in Rules /\ Rule(M, to).marks = M /\ Rule(M, to).to = to
  BY DEF Rule, Rules
<1> DEFINE list == <<Rule(M, to)>>
<1>2. list \in Seq(Rules) /\ DOMAIN list = {1} /\ list[1] = Rule(M, to)
  BY <1>1
<1> HIDE DEF list
<1>3. ASSUME M \cap marks # {} PROVE Decision(list, final, marks) = to
  <2>1. 1 \in DOMAIN list /\ list[1].marks \cap marks # {}
    BY <1>1, <1>2, <1>3
  <2>2. \A j \in DOMAIN list : list[j].marks \cap marks # {} => 1 <= j
    BY <1>2
  <2>3. Decision(list, final, marks) = list[1].to
    BY <1>2, <2>1, <2>2, FirstDecides
  <2> QED
    BY <1>1, <1>2, <2>3
<1>4. ASSUME M \cap marks = {} PROVE Decision(list, final, marks) = final
  BY <1>1, <1>2, <1>4, NoneDecides
<1>5. Decision(list, final, marks) = IF M \cap marks # {} THEN to ELSE final
  BY <1>3, <1>4
<1> QED
  BY <1>2, <1>5 DEF list

LEMMA NoRuleDecides ==
  ASSUME NEW final, NEW marks
  PROVE  <<>> \in Seq(Rules) /\ Decision(<<>>, final, marks) = final
<1>1. <<>> \in Seq(Rules) /\ DOMAIN <<>> = {}
  OBVIOUS
<1> QED
  BY <1>1, NoneDecides

LEMMA RuleForDecides ==
  ASSUME NEW M \in SUBSET Marks, NEW final, NEW marks
  PROVE  /\ RuleFor(M) \in Seq(Rules)
         /\ Decision(RuleFor(M), final, marks) = IF M \cap marks # {} THEN "direct" ELSE final
<1>1. CASE M = {}
  <2>1. RuleFor(M) = <<>> /\ M \cap marks = {}
    BY <1>1 DEF RuleFor
  <2> QED
    BY <2>1, NoRuleDecides
<1>2. CASE M # {}
  <2> DEFINE to == "direct"
             list == <<Rule(M, to)>>
  <2>1. RuleFor(M) = list
    BY <1>2, Zenon DEF RuleFor
  <2>2. to \in Targets
    BY DEF Targets
  <2>3. list \in Seq(Rules) /\ Decision(list, final, marks) = IF M \cap marks # {} THEN to ELSE final
    <3> HIDE DEF to
    <3> QED
      BY <2>2, RuleDecides
  <2> HIDE DEF list
  <2> QED
    BY <2>1, <2>3 DEF to
<1> QED
  BY <1>1, <1>2

LEMMA ListDecides ==
  ASSUME NEW list \in Lists, NEW to \in Targets, NEW final, NEW marks
  PROVE  /\ <<Rule({list}, to)>> \in Seq(Rules)
         /\ Decision(<<Rule({list}, to)>>, final, marks) = IF list \in marks THEN to ELSE final
<1> DEFINE M == {list}
<1>1. M \in SUBSET Marks /\ (M \cap marks # {} <=> list \in marks)
  BY DEF Marks
<1> HIDE DEF M
<1>2. /\ <<Rule(M, to)>> \in Seq(Rules)
      /\ Decision(<<Rule(M, to)>>, final, marks) = IF M \cap marks # {} THEN to ELSE final
  BY <1>1, RuleDecides
<1>3. Decision(<<Rule(M, to)>>, final, marks) = IF list \in marks THEN to ELSE final
  BY <1>1, <1>2
<1> QED
  BY <1>2, <1>3 DEF M

\* Lists of rules written one by one
LEMMA TwoRules ==
  ASSUME NEW a \in Rules, NEW b \in Rules
  PROVE  <<a>> \o <<b>> = <<a, b>>
<1> DEFINE s == <<a>> \o <<b>>
           t == <<a, b>>
<1>1. s \in Seq(Rules) /\ t \in Seq(Rules) /\ Len(s) = 2 /\ Len(t) = 2
  OBVIOUS
<1>2. s[1] = t[1] /\ s[2] = t[2]
  OBVIOUS
<1>3. \A i \in 1..Len(s) : s[i] = t[i]
  BY <1>1, <1>2
<1> HIDE DEF s, t
<1>4. s = t
  BY <1>1, <1>3, SeqEqual
<1> QED
  BY <1>4 DEF s, t

LEMMA ThreeRules ==
  ASSUME NEW a \in Rules, NEW b \in Rules, NEW c \in Rules
  PROVE  (<<a>> \o <<b>>) \o <<c>> = <<a, b, c>>
<1> DEFINE s == (<<a>> \o <<b>>) \o <<c>>
           t == <<a, b, c>>
<1>1. s \in Seq(Rules) /\ t \in Seq(Rules) /\ Len(s) = 3 /\ Len(t) = 3
  OBVIOUS
<1>2. s[1] = t[1] /\ s[2] = t[2] /\ s[3] = t[3]
  OBVIOUS
<1>3. \A i \in 1..Len(s) : s[i] = t[i]
  BY <1>1, <1>2
<1> HIDE DEF s, t
<1>4. s = t
  BY <1>1, <1>3, SeqEqual
<1> QED
  BY <1>4 DEF s, t

LEMMA ListRule ==
  ASSUME NEW list \in Lists, NEW to \in Targets
  PROVE  Rule({list}, to) \in Rules
<1>1. {list} \in SUBSET Marks
  BY DEF Marks
<1> QED
  BY <1>1 DEF Rule, Rules

LEMMA GuardsDecide ==
  ASSUME NEW final, NEW marks
  PROVE  /\ RouteGuards \in Seq(Rules)
         /\ Decision(RouteGuards, final, marks)
              = IF "messenger" \in marks THEN "block"
                ELSE IF "ip echo" \in marks THEN "block"
                ELSE IF "ru suffix" \in marks THEN "direct" ELSE final
<1> DEFINE messenger == "messenger"
           echo == "ip echo"
           suffix == "ru suffix"
           block == "block"
           direct == "direct"
           a == Rule({messenger}, block)
           b == Rule({echo}, block)
           c == Rule({suffix}, direct)
           A == <<a>>
           B == <<b>>
           C == <<c>>
           AB == A \o B
           last == Decision(C, final, marks)
           second == Decision(B, last, marks)
<1>1. messenger \in Lists /\ echo \in Lists /\ suffix \in Lists /\ block \in Targets /\ direct \in Targets
  BY DEF Lists, Targets
<1>2. RouteGuards = <<a, b, c>>
  BY DEF RouteGuards
<1> HIDE DEF messenger, echo, suffix, block, direct
<1>3. a \in Rules /\ b \in Rules /\ c \in Rules
  BY <1>1, ListRule
<1>4. /\ A \in Seq(Rules)
      /\ Decision(A, second, marks) = IF messenger \in marks THEN block ELSE second
  BY <1>1, ListDecides
<1>5. B \in Seq(Rules) /\ second = IF echo \in marks THEN block ELSE last
  BY <1>1, ListDecides
<1>6. C \in Seq(Rules) /\ last = IF suffix \in marks THEN direct ELSE final
  BY <1>1, ListDecides
<1> HIDE DEF a, b, c
<1>7. RouteGuards = AB \o C
  BY <1>2, <1>3, ThreeRules
<1> HIDE DEF A, B, C
<1>8. AB \in Seq(Rules) /\ Decision(AB, last, marks) = Decision(A, second, marks)
  BY <1>4, <1>5, DecisionInTurn
<1> HIDE DEF AB
<1>9. AB \o C \in Seq(Rules) /\ Decision(AB \o C, final, marks) = Decision(AB, last, marks)
  BY <1>6, <1>8, DecisionInTurn
<1> HIDE DEF last, second
<1>10. Decision(RouteGuards, final, marks)
         = IF messenger \in marks THEN block
           ELSE IF echo \in marks THEN block
           ELSE IF suffix \in marks THEN direct ELSE final
  BY <1>4, <1>5, <1>6, <1>7, <1>8, <1>9
<1> QED
  BY <1>7, <1>9, <1>10 DEF messenger, echo, suffix, block, direct

LEMMA PresetDecides ==
  ASSUME NEW preset \in RoutePresets, NEW final, NEW marks
  PROVE  /\ PresetRules[preset] \in Seq(Rules)
         /\ Decision(PresetRules[preset], final, marks)
              = IF preset = "bypass_ru" /\ "ru rule set" \in marks THEN "direct"
                ELSE IF preset # "full_tunnel" /\ "private" \in marks THEN "direct" ELSE final
<1> DEFINE set == "ru rule set"
           private == "private"
           direct == "direct"
           a == Rule({set}, direct)
           b == Rule({private}, direct)
           A == <<a>>
           B == <<b>>
           lan == Decision(B, final, marks)
<1>1. set \in Lists /\ private \in Lists /\ direct \in Targets
  BY DEF Lists, Targets
<1>2. /\ PresetRules["full_tunnel"] = <<>> /\ PresetRules["bypass_lan"] = B
      /\ PresetRules["bypass_ru"] = <<a, b>>
  BY DEF PresetRules
<1> HIDE DEF set, private, direct
<1>3. a \in Rules /\ b \in Rules
  BY <1>1, ListRule
<1>4. B \in Seq(Rules) /\ lan = IF private \in marks THEN direct ELSE final
  BY <1>1, ListDecides
<1>5. /\ A \in Seq(Rules)
      /\ Decision(A, lan, marks) = IF set \in marks THEN direct ELSE lan
  BY <1>1, ListDecides
<1> HIDE DEF a, b
<1>6. PresetRules["bypass_ru"] = A \o B
  BY <1>2, <1>3, TwoRules
<1> HIDE DEF A, B
<1>7. /\ A \o B \in Seq(Rules)
      /\ Decision(A \o B, final, marks) = Decision(A, lan, marks)
  BY <1>4, <1>5, DecisionInTurn
<1>8. <<>> \in Seq(Rules) /\ Decision(<<>>, final, marks) = final
  BY NoRuleDecides
<1> HIDE DEF lan
<1>9. /\ PresetRules["full_tunnel"] \in Seq(Rules)
      /\ Decision(PresetRules["full_tunnel"], final, marks) = final
  BY <1>2, <1>8
<1>10. /\ PresetRules["bypass_lan"] \in Seq(Rules)
       /\ Decision(PresetRules["bypass_lan"], final, marks) = IF private \in marks THEN direct ELSE final
  BY <1>2, <1>4 DEF lan
<1>11. /\ PresetRules["bypass_ru"] \in Seq(Rules)
       /\ Decision(PresetRules["bypass_ru"], final, marks)
            = IF set \in marks THEN direct ELSE IF private \in marks THEN direct ELSE final
  BY <1>4, <1>5, <1>6, <1>7
<1>12. preset \in {"full_tunnel", "bypass_lan", "bypass_ru"}
  BY DEF RoutePresets, PresetRules
<1> QED
  BY <1>9, <1>10, <1>11, <1>12 DEF set, private, direct

DecisionOf(preset, bypass, marks) ==
  IF (bypass.paths \cup bypass.names) \cap marks # {} THEN "direct"
  ELSE IF "port 53" \in marks THEN "hijack-dns"
  ELSE IF marks \cap {"messenger", "ip echo"} # {} THEN "block"
  ELSE IF "ru suffix" \in marks THEN "direct"
  ELSE IF preset = "bypass_ru" /\ "ru rule set" \in marks THEN "direct"
  ELSE IF preset # "full_tunnel" /\ "private" \in marks THEN "direct"
  ELSE "final"

\* What the rules of a config decide, read off in their order.
LEMMA RouteDecides ==
  ASSUME NEW preset \in RoutePresets, NEW bypass, NEW marks,
         bypass.paths \in SUBSET Paths, bypass.names \in SUBSET Names
  PROVE  Decision(RouteConfig(preset, bypass), "final", marks) = DecisionOf(preset, bypass, marks)
<1> DEFINE final == "final"
           port53 == "port 53"
           hijack == "hijack-dns"
           one == RuleFor(bypass.paths)
           two == RuleFor(bypass.names)
           rest == PresetRules[preset]
           upto2 == one \o two
           upto3 == upto2 \o DnsHijack
           upto4 == upto3 \o RouteGuards
           fifth == Decision(rest, final, marks)
           fourth == Decision(RouteGuards, fifth, marks)
           third == Decision(DnsHijack, fourth, marks)
           second == Decision(two, third, marks)
<1>1. port53 \in Lists /\ hijack \in Targets
  BY DEF Lists, Targets
<1>2. DnsHijack = <<Rule({port53}, hijack)>>
  BY DEF DnsHijack
<1>3. RouteConfig(preset, bypass) = upto4 \o rest
  BY DEF RouteConfig, ProcessRules
<1> HIDE DEF final, port53, hijack
<1>4. bypass.paths \in SUBSET Marks /\ bypass.names \in SUBSET Marks
  BY DEF Marks
<1>5. one \in Seq(Rules) /\ Decision(one, second, marks) = IF bypass.paths \cap marks # {} THEN "direct" ELSE second
  BY <1>4, RuleForDecides
<1>6. two \in Seq(Rules) /\ second = IF bypass.names \cap marks # {} THEN "direct" ELSE third
  BY <1>4, RuleForDecides
<1>7. DnsHijack \in Seq(Rules) /\ third = IF port53 \in marks THEN hijack ELSE fourth
  <2> HIDE DEF fourth
  <2> QED
    BY <1>1, <1>2, ListDecides
<1>8. RouteGuards \in Seq(Rules)
  BY GuardsDecide
<1>9. fourth = IF "messenger" \in marks THEN "block"
               ELSE IF "ip echo" \in marks THEN "block"
               ELSE IF "ru suffix" \in marks THEN "direct" ELSE fifth
  BY GuardsDecide
<1>10. rest \in Seq(Rules)
  BY PresetDecides
<1>11. fifth = IF preset = "bypass_ru" /\ "ru rule set" \in marks THEN "direct"
               ELSE IF preset # "full_tunnel" /\ "private" \in marks THEN "direct" ELSE final
  BY PresetDecides
<1> HIDE DEF one, two, rest
<1>12. upto2 \in Seq(Rules) /\ Decision(upto2, third, marks) = Decision(one, second, marks)
  BY <1>5, <1>6, DecisionInTurn
<1> HIDE DEF upto2
<1>13. upto3 \in Seq(Rules) /\ Decision(upto3, fourth, marks) = Decision(upto2, third, marks)
  BY <1>7, <1>12, DecisionInTurn
<1> HIDE DEF upto3
<1>14. upto4 \in Seq(Rules) /\ Decision(upto4, fifth, marks) = Decision(upto3, fourth, marks)
  BY <1>8, <1>13, DecisionInTurn
<1> HIDE DEF upto4
<1>15. Decision(upto4 \o rest, final, marks) = Decision(upto4, fifth, marks)
  BY <1>10, <1>14, DecisionInTurn
<1> HIDE DEF second, third, fourth, fifth
<1>16. Decision(RouteConfig(preset, bypass), final, marks)
         = IF bypass.paths \cap marks # {} THEN "direct" ELSE second
  BY <1>3, <1>5, <1>12, <1>13, <1>14, <1>15
<1>17. (bypass.paths \cup bypass.names) \cap marks # {}
         <=> bypass.paths \cap marks # {} \/ bypass.names \cap marks # {}
  OBVIOUS
<1>18. marks \cap {"messenger", "ip echo"} # {} <=> "messenger" \in marks \/ "ip echo" \in marks
  OBVIOUS
<1> QED
  BY <1>6, <1>7, <1>9, <1>11, <1>16, <1>17, <1>18 DEF DecisionOf, final, port53, hijack

\* Rules that every config has, whatever processes were chosen
Common(preset) == (DnsHijack \o RouteGuards) \o PresetRules[preset]
CommonRules == [marks : SUBSET Lists, to : Targets]

LEMMA CommonType ==
  ASSUME NEW preset \in RoutePresets
  PROVE  Common(preset) \in Seq(CommonRules)
<1>1. ASSUME NEW list \in Lists, NEW to \in Targets PROVE Rule({list}, to) \in CommonRules
  <2>1. {list} \in SUBSET Lists
    OBVIOUS
  <2> QED
    BY <2>1 DEF Rule, CommonRules
<1>2. DnsHijack \in Seq(CommonRules)
  <2> DEFINE a == Rule({"port 53"}, "hijack-dns")
  <2>1. a \in CommonRules /\ DnsHijack = <<a>>
    BY <1>1 DEF Lists, Targets, DnsHijack
  <2> HIDE DEF a
  <2> QED
    BY <2>1
<1>3. RouteGuards \in Seq(CommonRules)
  <2> DEFINE a == Rule({"messenger"}, "block")
             b == Rule({"ip echo"}, "block")
             c == Rule({"ru suffix"}, "direct")
  <2>1. a \in CommonRules /\ b \in CommonRules /\ c \in CommonRules
    BY <1>1 DEF Lists, Targets
  <2>2. RouteGuards = <<a, b, c>>
    BY DEF RouteGuards
  <2> HIDE DEF a, b, c
  <2> QED
    BY <2>1, <2>2
<1>4. PresetRules[preset] \in Seq(CommonRules)
  <2> DEFINE a == Rule({"ru rule set"}, "direct")
             b == Rule({"private"}, "direct")
  <2>1. a \in CommonRules /\ b \in CommonRules
    BY <1>1 DEF Lists, Targets
  <2>2. /\ PresetRules["full_tunnel"] = <<>> /\ PresetRules["bypass_lan"] = <<b>>
        /\ PresetRules["bypass_ru"] = <<a, b>>
    BY DEF PresetRules
  <2> HIDE DEF a, b
  <2>3. <<>> \in Seq(CommonRules) /\ <<b>> \in Seq(CommonRules) /\ <<a, b>> \in Seq(CommonRules)
    BY <2>1
  <2>4. preset \in {"full_tunnel", "bypass_lan", "bypass_ru"}
    BY DEF RoutePresets, PresetRules
  <2> QED
    BY <2>2, <2>3, <2>4
<1> DEFINE rest == PresetRules[preset]
<1> HIDE DEF rest
<1> QED
  BY <1>2, <1>3, <1>4 DEF Common, rest

\* The rules of chosen processes come first, and the common rules after them.
LEMMA ChosenFirst ==
  ASSUME NEW preset \in RoutePresets, NEW bypass,
         bypass.paths \in SUBSET Paths, bypass.names \in SUBSET Names
  PROVE  /\ ProcessRules(bypass) \in Seq(Rules) /\ Common(preset) \in Seq(Rules)
         /\ RouteConfig(preset, bypass) = ProcessRules(bypass) \o Common(preset)
<1> DEFINE own == ProcessRules(bypass)
           rest == PresetRules[preset]
<1>1. own \in Seq(Rules)
  <2>1. bypass.paths \in SUBSET Marks /\ bypass.names \in SUBSET Marks
    BY DEF Marks
  <2>2. RuleFor(bypass.paths) \in Seq(Rules) /\ RuleFor(bypass.names) \in Seq(Rules)
    BY <2>1, RuleForDecides
  <2> QED
    BY <2>2 DEF ProcessRules
<1>2. DnsHijack \in Seq(Rules) /\ RouteGuards \in Seq(Rules) /\ rest \in Seq(Rules)
  <2>1. RouteGuards \in Seq(Rules)
    BY GuardsDecide
  <2>2. rest \in Seq(Rules)
    BY PresetDecides
  <2> DEFINE port53 == "port 53"
             hijack == "hijack-dns"
  <2>3. port53 \in Lists /\ hijack \in Targets /\ DnsHijack = <<Rule({port53}, hijack)>>
    BY DEF Lists, Targets, DnsHijack
  <2> HIDE DEF port53, hijack
  <2>4. DnsHijack \in Seq(Rules)
    BY <2>3, ListDecides
  <2> QED
    BY <2>1, <2>2, <2>4
<1>3. RouteConfig(preset, bypass) = ((own \o DnsHijack) \o RouteGuards) \o rest
  BY DEF RouteConfig
<1>4. Common(preset) = (DnsHijack \o RouteGuards) \o rest
  BY DEF Common
<1> HIDE DEF own, rest
<1>5. Common(preset) \in Seq(Rules) /\ DnsHijack \o RouteGuards \in Seq(Rules)
  BY <1>2, <1>4
<1> DEFINE fixed == DnsHijack \o RouteGuards
<1>6. (own \o DnsHijack) \o RouteGuards = own \o fixed
  BY <1>1, <1>2, ConcatAssociative
<1>7. (own \o fixed) \o rest = own \o (fixed \o rest)
  <2> HIDE DEF fixed
  <2>1. fixed \in Seq(Rules)
    BY <1>5 DEF fixed
  <2> QED
    BY <1>1, <1>2, <2>1, ConcatAssociative
<1> QED
  BY <1>1, <1>3, <1>4, <1>5, <1>6, <1>7 DEF own

LEMMA NothingChosen ==
  ASSUME NEW preset \in RoutePresets
  PROVE  RouteConfig(preset, NoBypass) = Common(preset)
<1>1. NoBypass.paths = {} /\ NoBypass.names = {}
  BY DEF NoBypass
<1>2. RuleFor({}) = <<>>
  BY DEF RuleFor
<1>3. ProcessRules(NoBypass) = <<>> \o <<>>
  BY <1>1, <1>2 DEF ProcessRules
<1>4. <<>> \in Seq(Rules) /\ Common(preset) \in Seq(Rules)
  BY <1>1, ChosenFirst
<1>5. <<>> \o <<>> = <<>> /\ <<>> \o Common(preset) = Common(preset)
  BY <1>4, ConcatEmptySeq
<1>6. RouteConfig(preset, NoBypass) = ProcessRules(NoBypass) \o Common(preset)
  BY <1>1, ChosenFirst
<1> QED
  BY <1>3, <1>5, <1>6

-----------------------------------------------------------------------------
(* The stored list *)

USE AppBypassAssumption, GeneratorAssumption

\* A stored row stands for the match it was made of, and parsing it again when it
\* is loaded gives the row itself.
LEMMA EntryOfMatch ==
  ASSUME NEW app, NEW match \in Matches
  PROVE  /\ Entry(app, match).app = app /\ MatchOf(Entry(app, match)) = match
         /\ match \in Paths => /\ Entry(app, match).match.path = match
                               /\ Entry(app, match).match.path # NoPath
         /\ match \in Names => /\ Entry(app, match).match.path = NoPath
                               /\ Entry(app, match).match.name = match
  BY DEF Entry, Parsed, MatchOf, Matches

StoredLines == {MatchOf(row) : row \in {row \in stored : row.app = Custom}}
StoredApps == {row.app : row \in stored} \ {Custom}

\* The list is one that a form stands for, within the limits; one row for an
\* application, and together the matches chosen last.
StoredOK ==
  /\ \A row \in stored : \E app \in Apps \cup {Custom}, match \in Matches : row = Entry(app, match)
  /\ \A row, other \in stored : row.app = other.app /\ row.app # Custom => row = other
  /\ chosen = {MatchOf(row) : row \in stored}
  /\ Cardinality(StoredLines) <= MaxCustom
  /\ Cardinality(StoredLines) + Cardinality(StoredApps) <= MaxEntries

LEMMA LoadedIsStored == StoredOK => Loaded = stored
<1> SUFFICES ASSUME StoredOK PROVE Loaded = stored
  OBVIOUS
<1>1. \A row \in stored : Entry(row.app, MatchOf(row)) = row
  BY EntryOfMatch DEF StoredOK
<1> QED
  BY <1>1 DEF Loaded

\* The rules of the config are those of the chosen processes: a path never stands
\* for its name.
BypassOK ==
  /\ chosen \subseteq Matches
  /\ Bypass = [paths |-> chosen \cap Paths, names |-> chosen \cap Names]

LEMMA BypassOfChosen == StoredOK => BypassOK
<1> SUFFICES ASSUME StoredOK PROVE BypassOK
  OBVIOUS
<1>1. Loaded = stored
  BY LoadedIsStored
<1>2. \A row \in stored :
        /\ MatchOf(row) \in Matches
        /\ MatchOf(row) \in Paths => row.match.path = MatchOf(row) /\ row.match.path # NoPath
        /\ MatchOf(row) \in Names => row.match.path = NoPath /\ row.match.name = MatchOf(row)
  BY EntryOfMatch DEF StoredOK
<1>3. chosen = {MatchOf(row) : row \in stored} /\ chosen \subseteq Matches
  BY <1>2 DEF StoredOK
<1>4. {row.match.path : row \in stored} \ {NoPath} = chosen \cap Paths
  <2>1. \A row \in stored : row.match.path # NoPath <=> MatchOf(row) \in Paths
    BY <1>2 DEF Matches
  <2>2. \A row \in stored : MatchOf(row) \in Paths => row.match.path = MatchOf(row)
    BY <1>2
  <2> QED
    BY <1>3, <2>1, <2>2
<1>5. {row.match.name : row \in {r \in stored : r.match.path = NoPath}} = chosen \cap Names
  <2>1. \A row \in stored : row.match.path = NoPath <=> MatchOf(row) \in Names
    BY <1>2 DEF Matches
  <2>2. \A row \in stored : MatchOf(row) \in Names => row.match.name = MatchOf(row)
    BY <1>2
  <2> QED
    BY <1>3, <2>1, <2>2
<1> QED
  BY <1>1, <1>3, <1>4, <1>5 DEF Bypass, BypassOK

-----------------------------------------------------------------------------
(* The page *)

Tiles == UNION {[S -> Matches \cup {Bad}] : S \in SUBSET Apps}
Forms == [tiles : Tiles, lines : SUBSET (Matches \cup {Bad}), offered : SUBSET Apps,
          listed : SUBSET Apps, basis : [paths : SUBSET Paths, names : SUBSET Names],
          edited : BOOLEAN]

\* What the form has the list replaced by
MatchesOf(form) == {form.tiles[app] : app \in DOMAIN form.tiles} \cup form.lines

\* A form that was not edited stands for the bypass it was made from, and stays
\* within the limit on all entries; also within the one on lines unless
\* applications of the list had no tile.
Shown(form) ==
  /\ MatchesOf(form) \subseteq Matches
  /\ form.basis = [paths |-> MatchesOf(form) \cap Paths, names |-> MatchesOf(form) \cap Names]
  /\ Cardinality(form.lines) + Cardinality(DOMAIN form.tiles) <= MaxEntries
  /\ form.listed = DOMAIN form.tiles => Cardinality(form.lines) <= MaxCustom

PageInv ==
  /\ StoredOK /\ installed \subseteq Apps
  /\ DOMAIN page = Tabs
  /\ \A t \in Tabs : page[t] # None => page[t] \in Forms /\ (~page[t].edited => Shown(page[t]))

LEMMA TilesType ==
  ASSUME NEW f
  PROVE  f \in Tiles <=> f = [app \in DOMAIN f |-> f[app]] /\ DOMAIN f \subseteq Apps
                         /\ \A app \in DOMAIN f : f[app] \in Matches \cup {Bad}
<1>1. ASSUME f \in Tiles
      PROVE  f = [app \in DOMAIN f |-> f[app]] /\ DOMAIN f \subseteq Apps
             /\ \A app \in DOMAIN f : f[app] \in Matches \cup {Bad}
  BY <1>1 DEF Tiles
<1>2. ASSUME f = [app \in DOMAIN f |-> f[app]], DOMAIN f \subseteq Apps,
             \A app \in DOMAIN f : f[app] \in Matches \cup {Bad}
      PROVE  f \in Tiles
  <2>1. f \in [DOMAIN f -> Matches \cup {Bad}]
    BY <1>2
  <2> QED
    BY <1>2, <2>1 DEF Tiles
<1> QED
  BY <1>1, <1>2

\* Applications that lost their tile give at most one line each.
LEMMA LinesOfRemoved ==
  ASSUME StoredOK
  PROVE  LET gone == StoredApps \ installed
             lines == {MatchOf(row) : row \in {row \in stored : row.app \in gone}}
         IN  IsFiniteSet(gone) /\ IsFiniteSet(lines) /\ Cardinality(lines) <= Cardinality(gone)
<1> DEFINE gone == StoredApps \ installed
           lines == {MatchOf(row) : row \in {row \in stored : row.app \in gone}}
           line == [app \in gone |-> MatchOf(CHOOSE row \in stored : row.app = app)]
<1>1. IsFiniteSet(gone)
  <2>1. gone \in SUBSET Apps
    BY EntryOfMatch DEF StoredOK, StoredApps
  <2> QED
    BY <2>1, FS_Subset
<1>2. \A row \in stored : row.app \in gone => line[row.app] = MatchOf(row)
  <2> SUFFICES ASSUME NEW row \in stored, row.app \in gone PROVE line[row.app] = MatchOf(row)
    OBVIOUS
  <2> DEFINE other == CHOOSE other \in stored : other.app = row.app
  <2>1. other \in stored /\ other.app = row.app
    OBVIOUS
  <2>2. other = row
    BY <2>1 DEF StoredOK, StoredApps
  <2> QED
    BY <2>2
<1>3. \A app \in gone : \E row \in stored : row.app = app
  BY DEF StoredApps
<1>4. line \in Surjection(gone, lines)
  <2>1. DOMAIN line = gone /\ line = [app \in gone |-> line[app]]
    OBVIOUS
  <2> HIDE DEF line
  <2>2. \A app \in gone : line[app] \in lines
    BY <1>2, <1>3
  <2>3. \A match \in lines : \E app \in gone : line[app] = match
    BY <1>2
  <2> HIDE DEF lines, gone
  <2> QED
    BY <2>1, <2>2, <2>3 DEF Surjection
<1> QED
  BY <1>1, <1>4, FS_Surjection

\* GET /apps
LEMMA FormShown ==
  ASSUME PageInv
  PROVE  Form \in Forms /\ ~Form.edited /\ Shown(Form)
<1> DEFINE tiles == [app \in Selected \cap installed |->
                       MatchOf(CHOOSE entry \in Loaded : entry.app = app)]
<1>1. Loaded = stored /\ Selected = StoredApps
  BY LoadedIsStored DEF PageInv, Selected, StoredApps
<1>2. StoredApps \subseteq Apps /\ \A row \in stored : MatchOf(row) \in Matches
  BY EntryOfMatch DEF PageInv, StoredOK, StoredApps
<1>3. ASSUME NEW row \in stored, row.app \in Selected \cap installed
      PROVE  tiles[row.app] = MatchOf(row)
  <2> DEFINE entry == CHOOSE entry \in Loaded : entry.app = row.app
  <2>1. entry \in stored /\ entry.app = row.app
    BY <1>1
  <2>2. entry = row
    BY <1>1, <1>3, <2>1 DEF PageInv, StoredOK, StoredApps
  <2> QED
    BY <1>3, <2>2
<1>4. \A app \in Selected \cap installed : \E row \in stored : row.app = app
  BY <1>1 DEF StoredApps
<1>5. DOMAIN tiles = Selected \cap installed /\ tiles = [app \in DOMAIN tiles |-> tiles[app]]
  OBVIOUS
<1> HIDE DEF tiles
<1>6. \A app \in DOMAIN tiles : tiles[app] \in Matches
  BY <1>2, <1>3, <1>4, <1>5
<1>7. tiles \in Tiles
  BY <1>1, <1>2, <1>5, <1>6, TilesType
<1>8. Lines = StoredLines \cup {MatchOf(row) : row \in {row \in stored : row.app \in Selected \ installed}}
  BY <1>1 DEF Lines, Unavailable, StoredLines
<1>9. {tiles[app] : app \in DOMAIN tiles}
        = {MatchOf(row) : row \in {row \in stored : row.app \in Selected \cap installed}}
  BY <1>3, <1>4, <1>5
<1>10. {tiles[app] : app \in DOMAIN tiles} \cup Lines = chosen
  <2>1. chosen = {MatchOf(row) : row \in stored}
    BY DEF PageInv, StoredOK
  <2>2. \A row \in stored : row.app = Custom \/ row.app \in Selected
    BY <1>1 DEF StoredApps
  <2> QED
    BY <1>8, <1>9, <2>1, <2>2 DEF StoredLines
<1>11. Lines \subseteq Matches
  BY <1>2, <1>8 DEF StoredLines
<1>12. chosen \subseteq Matches
       /\ Bypass = [paths |-> chosen \cap Paths, names |-> chosen \cap Names]
  BY BypassOfChosen DEF PageInv, BypassOK
<1>13. Form = [tiles |-> tiles, lines |-> Lines, offered |-> installed, listed |-> Selected,
               basis |-> Bypass, edited |-> FALSE]
  BY DEF Form, tiles
<1>14. Form \in Forms /\ ~Form.edited
  <2>1. Bypass \in [paths : SUBSET Paths, names : SUBSET Names]
    BY <1>12
  <2>2. Selected \in SUBSET Apps /\ installed \in SUBSET Apps
    BY <1>1, <1>2 DEF PageInv
  <2>3. Lines \in SUBSET (Matches \cup {Bad})
    BY <1>11
  <2> QED
    BY <1>7, <1>13, <2>1, <2>2, <2>3 DEF Forms
<1>15. MatchesOf(Form) = chosen
  BY <1>10, <1>13 DEF MatchesOf
<1>16. Cardinality(Form.lines) + Cardinality(DOMAIN Form.tiles) <= MaxEntries
  <2> DEFINE gone == StoredApps \ installed
             lines == {MatchOf(row) : row \in {row \in stored : row.app \in gone}}
  <2>1. IsFiniteSet(gone) /\ IsFiniteSet(lines) /\ Cardinality(lines) <= Cardinality(gone)
    BY LinesOfRemoved DEF PageInv
  <2>2. Lines = StoredLines \cup lines /\ DOMAIN tiles = StoredApps \cap installed
    BY <1>1, <1>5, <1>8
  <2>3. IsFiniteSet(StoredLines) /\ IsFiniteSet(StoredApps)
    <3>1. StoredLines \in SUBSET Matches /\ StoredApps \in SUBSET Apps
      BY <1>2 DEF StoredLines
    <3> QED
      BY <3>1, FS_Subset
  <2> HIDE DEF lines, gone
  <2>4. Cardinality(Lines) <= Cardinality(StoredLines) + Cardinality(lines)
    <3>1. Cardinality(Lines)
            = Cardinality(StoredLines) + Cardinality(lines) - Cardinality(StoredLines \cap lines)
      BY <2>1, <2>2, <2>3, FS_Union
    <3>2. IsFiniteSet(StoredLines \cap lines)
      BY <2>3, FS_Subset
    <3> QED
      BY <3>1, <3>2, <2>1, <2>3, FS_CardinalityType
  <2>5. Cardinality(gone) = Cardinality(StoredApps) - Cardinality(StoredApps \cap installed)
    BY <2>3, FS_Difference DEF gone
  <2>6. Cardinality(StoredLines) + Cardinality(StoredApps) <= MaxEntries
    BY DEF PageInv, StoredOK
  <2>7. IsFiniteSet(Lines) /\ IsFiniteSet(DOMAIN tiles)
    <3>1. Lines \in SUBSET Matches /\ DOMAIN tiles \in SUBSET Apps
      BY <1>2, <1>11, <2>2
    <3> QED
      BY <3>1, FS_Subset
  <2>8. /\ Cardinality(Lines) \in Nat /\ Cardinality(DOMAIN tiles) \in Nat
        /\ Cardinality(StoredLines) \in Nat /\ Cardinality(StoredApps) \in Nat
        /\ Cardinality(lines) \in Nat /\ Cardinality(gone) \in Nat
    BY <2>1, <2>3, <2>7, FS_CardinalityType
  <2>9. Form.lines = Lines /\ Form.tiles = tiles
    BY <1>13
  <2> QED
    BY <2>1, <2>2, <2>4, <2>5, <2>6, <2>8, <2>9
<1>17. Form.listed = DOMAIN Form.tiles => Cardinality(Form.lines) <= MaxCustom
  <2> SUFFICES ASSUME Selected = DOMAIN tiles PROVE Cardinality(Lines) <= MaxCustom
    BY <1>13
  <2>1. Lines = StoredLines
    BY <1>5, <1>8
  <2> QED
    BY <2>1 DEF PageInv, StoredOK
<1> QED
  BY <1>12, <1>13, <1>14, <1>15, <1>16, <1>17 DEF Shown

\* POST /apps: the list is what the form stands for.
LEMMA Saved ==
  ASSUME PageInv, NEW t \in Tabs, SavePage(t)
  PROVE  StoredOK' /\ chosen' = MatchesOf(page[t])
<1> DEFINE form == page[t]
<1>1. form \in Forms /\ Acceptable(form)
  BY DEF PageInv, SavePage
<1>2. stored' = StoredRows(form) /\ chosen' = MatchesOf(form)
  BY DEF SavePage, MatchesOf
<1> HIDE DEF form
<1>3. /\ DOMAIN form.tiles \subseteq Apps /\ \A app \in DOMAIN form.tiles : form.tiles[app] \in Matches
      /\ form.lines \subseteq Matches
  <2>1. form.tiles \in Tiles /\ form.lines \subseteq Matches \cup {Bad}
    BY <1>1 DEF Forms
  <2> QED
    BY <1>1, <2>1, TilesType DEF Acceptable
<1>4. \A row \in stored' :
        \/ \E app \in DOMAIN form.tiles : row = Entry(app, form.tiles[app])
        \/ \E match \in form.lines : row = Entry(Custom, match)
  BY <1>2 DEF StoredRows
<1>5. /\ \A app \in DOMAIN form.tiles : Entry(app, form.tiles[app]) \in stored'
      /\ \A match \in form.lines : Entry(Custom, match) \in stored'
  BY <1>2 DEF StoredRows
<1>6. /\ \A app \in DOMAIN form.tiles : /\ Entry(app, form.tiles[app]).app = app
                                        /\ MatchOf(Entry(app, form.tiles[app])) = form.tiles[app]
      /\ \A match \in form.lines : /\ Entry(Custom, match).app = Custom
                                   /\ MatchOf(Entry(Custom, match)) = match
  BY <1>3, EntryOfMatch
<1>7. \A row \in stored' : \E app \in Apps \cup {Custom}, match \in Matches : row = Entry(app, match)
  BY <1>3, <1>4
<1>8. \A row, other \in stored' : row.app = other.app /\ row.app # Custom => row = other
  BY <1>4, <1>6
<1>9. chosen' = {MatchOf(row) : row \in stored'}
  BY <1>2, <1>4, <1>5, <1>6 DEF MatchesOf
<1>10. {MatchOf(row) : row \in {row \in stored' : row.app = Custom}} = form.lines
  BY <1>3, <1>4, <1>5, <1>6
<1>11. {row.app : row \in stored'} \ {Custom} = DOMAIN form.tiles
  BY <1>3, <1>4, <1>5, <1>6
<1>12. StoredLines' = form.lines /\ StoredApps' = DOMAIN form.tiles
  BY <1>10, <1>11 DEF StoredLines, StoredApps, MatchOf
<1>13. StoredOK'
  BY <1>1, <1>7, <1>8, <1>9, <1>12 DEF StoredOK, Acceptable, WithinLimits, MatchOf
<1> QED
  BY <1>2, <1>13 DEF form

\* An edit makes another form of the page.
LEMMA EditedForm ==
  ASSUME NEW form \in Forms, NEW tiles \in Tiles, NEW lines \in SUBSET (Matches \cup {Bad})
  PROVE  LET new == [form EXCEPT !.tiles = tiles, !.lines = lines,
                       !.listed = {}, !.basis = NoBypass, !.edited = TRUE]
         IN  new \in Forms /\ new.edited
  BY DEF Forms, NoBypass

\* The tab of t gets a form, or none; nothing else changes but what is installed.
LEMMA PageChanges ==
  ASSUME PageInv, NEW t \in Tabs, NEW form, page' = [page EXCEPT ![t] = form],
         form # None => form \in Forms /\ (~form.edited => Shown(form)),
         StoredOK', installed' = installed
  PROVE  PageInv'
<1>1. DOMAIN page' = Tabs /\ \A s \in Tabs : page'[s] = IF s = t THEN form ELSE page[s]
  BY DEF PageInv
<1>2. ASSUME NEW s \in Tabs, page'[s] # None
      PROVE  (page[s] \in Forms /\ (~page[s].edited => Shown(page[s])))'
  <2>1. CASE s = t
    <3>1. form # None /\ page'[s] = form
      BY <1>1, <1>2, <2>1
    <3> QED
      BY <3>1 DEF Shown, MatchesOf
  <2>2. CASE s # t
    <3>1. page[s] # None /\ page'[s] = page[s]
      BY <1>1, <1>2, <2>2
    <3> QED
      BY <3>1 DEF PageInv, Shown, MatchesOf
  <2> QED
    BY <2>1, <2>2
<1> QED
  BY <1>1, <1>2 DEF PageInv

LEMMA PageStep == PageInv /\ [Next]_vars => PageInv'
<1> SUFFICES ASSUME PageInv, [Next]_vars PROVE PageInv'
  OBVIOUS
<1>1. ASSUME UNCHANGED stored, UNCHANGED chosen PROVE StoredOK'
  BY <1>1 DEF PageInv, StoredOK, StoredLines, StoredApps, MatchOf, Entry, Parsed
<1>2. ASSUME NEW t \in Tabs, OpenPage(t) PROVE PageInv'
  BY <1>1, <1>2, FormShown, PageChanges DEF OpenPage
<1>3. ASSUME NEW t \in Tabs, EditForm(t) PROVE PageInv'
  <2> DEFINE form == page[t]
  <2>1. page[t] # None /\ form \in Forms
    BY <1>3 DEF EditForm, PageInv
  <2>2. /\ form.tiles \in Tiles /\ form.lines \subseteq Matches \cup {Bad}
        /\ form.offered \subseteq Apps
    BY <2>1 DEF Forms
  <2>3. ASSUME NEW tiles \in Tiles, NEW lines \in SUBSET (Matches \cup {Bad}), Edited(t, tiles, lines)
        PROVE  PageInv'
    <3> DEFINE new == [form EXCEPT !.tiles = tiles, !.lines = lines,
                         !.listed = {}, !.basis = NoBypass, !.edited = TRUE]
    <3>1. page' = [page EXCEPT ![t] = new] /\ UNCHANGED <<installed, stored, chosen>>
      BY <2>3 DEF Edited
    <3>2. new \in Forms /\ new.edited
      BY <2>1, EditedForm
    <3> HIDE DEF new
    <3> QED
      BY <1>1, <3>1, <3>2, PageChanges
  <2>4. ASSUME NEW app \in form.offered, NEW match \in Matches \cup {Bad},
               Edited(t, Ticked(form.tiles, app, match), form.lines)
        PROVE  PageInv'
    <3> DEFINE tiles == Ticked(form.tiles, app, match)
    <3>1. tiles = [a \in DOMAIN form.tiles \cup {app} |-> IF a = app THEN match ELSE form.tiles[a]]
      BY DEF Ticked
    <3> HIDE DEF tiles
    <3>2. tiles \in Tiles
      BY <2>2, <3>1, TilesType
    <3> QED
      BY <2>2, <2>3, <2>4, <3>2 DEF tiles
  <2>5. ASSUME NEW app \in DOMAIN form.tiles,
               Edited(t, [a \in DOMAIN form.tiles \ {app} |-> form.tiles[a]], form.lines)
        PROVE  PageInv'
    <3> DEFINE tiles == [a \in DOMAIN form.tiles \ {app} |-> form.tiles[a]]
    <3>1. tiles = [a \in DOMAIN tiles |-> tiles[a]] /\ DOMAIN tiles \subseteq DOMAIN form.tiles
          /\ \A a \in DOMAIN tiles : tiles[a] = form.tiles[a]
      OBVIOUS
    <3> HIDE DEF tiles
    <3>2. tiles \in Tiles
      BY <2>2, <3>1, TilesType
    <3> QED
      BY <2>2, <2>3, <2>5, <3>2 DEF tiles
  <2>6. ASSUME NEW match \in Matches \cup {Bad},
               Edited(t, form.tiles, form.lines \cup {match}) \/ Edited(t, form.tiles, form.lines \ {match})
        PROVE  PageInv'
    BY <2>2, <2>3, <2>6
  <2> QED
    BY <1>3, <2>4, <2>5, <2>6 DEF EditForm
<1>4. ASSUME NEW t \in Tabs, SavePage(t) PROVE PageInv'
  BY <1>4, Saved, PageChanges DEF SavePage
<1>5. ASSUME NEW t \in Tabs, RefusePage(t) PROVE PageInv'
  BY <1>1, <1>5, PageChanges DEF RefusePage
<1>6. CASE CatalogChanges
  <2>1. installed' \subseteq Apps /\ UNCHANGED <<stored, page, chosen>>
    BY <1>6 DEF CatalogChanges, PageInv
  <2> QED
    BY <1>1, <2>1 DEF PageInv, Shown, MatchesOf
<1>7. CASE UNCHANGED vars
  BY <1>1, <1>7 DEF vars, PageInv, Shown, MatchesOf
<1> QED
  BY <1>2, <1>3, <1>4, <1>5, <1>6, <1>7 DEF Next

LEMMA PageInit == Init => PageInv
<1> SUFFICES ASSUME Init PROVE PageInv
  OBVIOUS
<1>1. StoredLines = {} /\ StoredApps = {}
  BY DEF Init, StoredLines, StoredApps
<1> QED
  BY <1>1, FS_EmptySet DEF Init, PageInv, StoredOK

LEMMA BypassHolds == AppBypassSpec => [](PageInv /\ BypassOK)
<1>1. PageInv => BypassOK
  BY BypassOfChosen DEF PageInv
<1> QED
  BY <1>1, PageInit, PageStep, PTL DEF AppBypassSpec

\* docs/ops.md:125: a page that is saved as it was shown keeps every bypass rule,
\* for any applications that come and go and however many tabs save.
THEOREM UnchangedPageKeepsBypass == AppBypassSpec => PageKeepsBypass
<1>1. PageInv /\ BypassOK' /\ [Next]_vars =>
        [\A t \in Tabs : SavePage(t) /\ ~page[t].edited => Bypass' = page[t].basis]_vars
  <2> SUFFICES ASSUME PageInv, BypassOK', NEW t \in Tabs, SavePage(t), ~page[t].edited
               PROVE  Bypass' = page[t].basis
    OBVIOUS
  <2>1. StoredOK' /\ chosen' = MatchesOf(page[t])
    BY Saved
  <2>2. Bypass' = [paths |-> chosen' \cap Paths, names |-> chosen' \cap Names]
    BY DEF BypassOK
  <2>3. Shown(page[t])
    BY DEF SavePage, PageInv
  <2> QED
    BY <2>1, <2>2, <2>3 DEF Shown
<1> QED
  BY <1>1, BypassHolds, PTL DEF AppBypassSpec, PageKeepsBypass

\* A page as it was shown is refused only for applications removed since, or when
\* the entries of those removed before made its lines too many; the limit on all
\* entries, once passed, never refuses it.
THEOREM RefusedOnlyForRemovedApps == AppBypassSpec => RefusedForRemovedApps
<1>1. PageInv /\ [Next]_vars =>
        [\A t \in Tabs :
           RefusePage(t) /\ ~page[t].edited =>
             LET tiles == DOMAIN page[t].tiles
             IN  \/ tiles \ installed # {}
                 \/ page[t].listed # tiles /\ Cardinality(page[t].lines) > MaxCustom]_vars
  <2> SUFFICES ASSUME PageInv, NEW t \in Tabs, RefusePage(t), ~page[t].edited,
                      DOMAIN page[t].tiles \subseteq installed,
                      page[t].listed = DOMAIN page[t].tiles
                        \/ ~(Cardinality(page[t].lines) > MaxCustom)
               PROVE  Acceptable(page[t])
    BY DEF RefusePage
  <2>1. page[t] \in Forms /\ Shown(page[t])
    BY DEF RefusePage, PageInv
  <2>2. Bad \notin MatchesOf(page[t])
    BY <2>1 DEF Shown
  <2>3. Cardinality(page[t].lines) <= MaxCustom
    <3>1. IsFiniteSet(page[t].lines)
      <4>1. page[t].lines \in SUBSET Matches
        BY <2>1 DEF Shown, MatchesOf
      <4> QED
        BY <4>1, FS_Subset
    <3>2. Cardinality(page[t].lines) \in Nat
      BY <3>1, FS_CardinalityType
    <3> QED
      BY <2>1, <3>2 DEF Shown
  <2>4. WithinLimits(page[t])
    BY <2>1, <2>3 DEF Shown, WithinLimits
  <2> QED
    BY <2>2, <2>4 DEF Acceptable, MatchesOf
<1> QED
  BY <1>1, BypassHolds, PTL DEF AppBypassSpec, RefusedForRemovedApps

\* In the config an activation would make, exactly the connections of the processes
\* chosen last go around DNS interception and guards, whatever was saved before.
THEOREM ChosenProcessesRouted == AppBypassSpec => []SelectionRouted
<1>1. BypassOK => SelectionRouted
  <2> SUFFICES ASSUME BypassOK, NEW preset \in RoutePresets, NEW process \in Paths,
                      NEW lists \in Destinations
               PROVE  Decision(RouteConfig(preset, Bypass), "final",
                               {process, NameOf[process]} \cup lists)
                        = Expected(process, lists, preset)
    BY DEF SelectionRouted
  <2> DEFINE marks == {process, NameOf[process]} \cup lists
             P == chosen \cap Paths
             N == chosen \cap Names
  <2>1. Bypass = [paths |-> P, names |-> N] /\ chosen \subseteq Matches
    BY DEF BypassOK
  <2>2. Decision(RouteConfig(preset, Bypass), "final", marks) = DecisionOf(preset, Bypass, marks)
    <3> HIDE DEF marks, P, N
    <3>1. Bypass.paths \in SUBSET Paths /\ Bypass.names \in SUBSET Names
      BY <2>1 DEF P, N
    <3> QED
      BY <3>1, RouteDecides
  <2>3. lists \subseteq Lists
    BY DEF Destinations, Places, Lists
  <2>4. NameOf[process] \in Names /\ process \notin Names
    OBVIOUS
  <2>5. (Bypass.paths \cup Bypass.names) \cap marks # {}
          <=> process \in chosen \/ NameOf[process] \in chosen
    <3>1. Bypass.paths \cup Bypass.names = chosen
      BY <2>1 DEF Matches
    <3>2. lists \cap chosen = {}
      BY <2>1, <2>3 DEF Matches
    <3> QED
      BY <3>1, <3>2
  <2>6. \A list \in Lists : list \in marks <=> list \in lists
    BY <2>3, <2>4
  <2>7. marks \cap {"messenger", "ip echo"} # {} <=> lists \cap {"messenger", "ip echo"} # {}
    BY <2>6 DEF Lists
  <2>8. \A list \in {"port 53", "ru suffix", "ru rule set", "private"} : list \in marks <=> list \in lists
    BY <2>6 DEF Lists
  <2> HIDE DEF marks
  <2>9. DecisionOf(preset, Bypass, marks) = Expected(process, lists, preset)
    BY <2>5, <2>7, <2>8 DEF DecisionOf, Expected
  <2> QED
    BY <2>2, <2>9 DEF marks
<1> QED
  BY <1>1, BypassHolds, PTL
-----------------------------------------------------------------------------
(* Documents of a group *)

\* Nodes of a document are told apart by their tags.
LEMMA TagsTellApart ==
  ASSUME NEW nodes, IsFiniteSet(nodes), DistinctTags(nodes)
  PROVE  \A node, other \in nodes : node.tag = other.tag => node = other
<1> DEFINE tag == [node \in nodes |-> node.tag]
<1>1. tag \in Surjection(nodes, TagsOf(nodes))
  BY DEF Surjection, TagsOf
<1>2. tag \in Injection(nodes, TagsOf(nodes))
  BY <1>1, FS_Surjection DEF DistinctTags
<1>3. \A node, other \in nodes : tag[node] = tag[other] => node = other
  BY <1>2 DEF Injection, IsInjective
<1> QED
  BY <1>3

LEMMA GroupNodes ==
  ASSUME NEW nodes \in Groups
  PROVE  /\ IsFiniteSet(nodes) /\ nodes # {} /\ Cardinality(nodes) \in Nat
         /\ \A node, other \in nodes : node.tag = other.tag => node = other
         /\ \A node \in nodes : node.tag \notin Reserved
<1>1. nodes \subseteq Nodes /\ ClientBuildable(nodes)
  BY DEF Groups
<1>2. IsFiniteSet(nodes) /\ Cardinality(nodes) \in Nat
  BY <1>1, FS_Subset, FS_CardinalityType
<1>3. DistinctTags(nodes) /\ TagsOf(nodes) \cap Reserved = {} /\ nodes # {}
  BY <1>1 DEF ClientBuildable, TagsValid
<1> QED
  BY <1>2, <1>3, TagsTellApart DEF TagsOf

\* The outbounds of a document, by their tags
LEMMA OutboundsByTag ==
  ASSUME NEW nodes \in Groups, NEW preset
  PROVE  LET outbounds == ClientConfig(nodes, preset).outbounds
             Of(tag) == {out \in outbounds : out.tag = tag}
         IN  /\ \A node \in nodes : Of(node.tag) = {Proxy(node)}
             /\ Of("direct") = {Outbound("direct", "direct")}
             /\ Of("block") = {Outbound("block", "block")}
             /\ NeedsSelector(nodes) => Of("proxy") = {Outbound("selector", "proxy")}
<1> DEFINE proxies == {Proxy(node) : node \in nodes}
           selector == IF NeedsSelector(nodes) THEN {Outbound("selector", "proxy")} ELSE {}
           outbounds == proxies \cup selector \cup Fixed
<1>1. ClientConfig(nodes, preset).outbounds = outbounds
  BY DEF ClientConfig
<1>2. \A node \in nodes : Proxy(node).tag = node.tag
  BY DEF Proxy
<1>3. \A type, tag : Outbound(type, tag).tag = tag
  BY DEF Outbound
<1>4. \A node \in nodes : node.tag # "direct" /\ node.tag # "block" /\ node.tag # "proxy"
  BY GroupNodes DEF Reserved
<1>5. \A out \in outbounds :
        \/ \E node \in nodes : out = Proxy(node)
        \/ NeedsSelector(nodes) /\ out = Outbound("selector", "proxy")
        \/ out = Outbound("direct", "direct")
        \/ out = Outbound("block", "block")
  BY DEF Fixed
<1>6. /\ \A node \in nodes : Proxy(node) \in outbounds
      /\ NeedsSelector(nodes) => Outbound("selector", "proxy") \in outbounds
      /\ Outbound("direct", "direct") \in outbounds /\ Outbound("block", "block") \in outbounds
  BY DEF Fixed
<1>7. \A node, other \in nodes : node.tag = other.tag => node = other
  BY GroupNodes
<1> HIDE DEF outbounds
<1>8. \A node \in nodes : {out \in outbounds : out.tag = node.tag} = {Proxy(node)}
  BY <1>2, <1>3, <1>4, <1>5, <1>6, <1>7
<1>9. /\ {out \in outbounds : out.tag = "direct"} = {Outbound("direct", "direct")}
      /\ {out \in outbounds : out.tag = "block"} = {Outbound("block", "block")}
  BY <1>2, <1>3, <1>4, <1>5, <1>6
<1>10. NeedsSelector(nodes) =>
         {out \in outbounds : out.tag = "proxy"} = {Outbound("selector", "proxy")}
  BY <1>2, <1>3, <1>4, <1>5, <1>6
<1> QED
  BY <1>1, <1>8, <1>9, <1>10

\* Tags that a document refers to are of its nodes, or fixed
LEMMA TagsReferredTo ==
  ASSUME NEW nodes \in Groups, NEW preset \in RoutePresets,
         NEW tag \in References(ClientConfig(nodes, preset))
  PROVE  \/ \E node \in nodes : tag = node.tag
         \/ tag = "direct" \/ tag = "block"
         \/ tag = "proxy" /\ NeedsSelector(nodes)
<1> DEFINE config == ClientConfig(nodes, preset)
           rules == config.rules
<1>1. /\ config.final = FinalTag(nodes) /\ rules = Common(preset)
      /\ config.choices = IF NeedsSelector(nodes) THEN TagsOf(nodes) ELSE {}
  BY NothingChosen DEF ClientConfig
<1>2. rules \in Seq(CommonRules)
  BY <1>1, CommonType
<1>3. \A i \in DOMAIN rules : rules[i].to \in Targets
  <2> HIDE DEF rules
  <2>1. \A i \in DOMAIN rules : rules[i] \in CommonRules
    BY <1>2
  <2> QED
    BY <2>1 DEF CommonRules
<1>4. FirstTag(nodes) \in TagsOf(nodes)
  <2>1. (CHOOSE node \in nodes : TRUE) \in nodes
    BY GroupNodes
  <2> QED
    BY <2>1 DEF FirstTag, TagsOf
<1>5. \/ tag = FinalTag(nodes) \/ (NeedsSelector(nodes) /\ tag \in TagsOf(nodes))
      \/ tag \in Targets \ {"hijack-dns"}
  BY <1>1, <1>3 DEF References
<1> QED
  BY <1>4, <1>5 DEF FinalTag, TagsOf, Targets
\* The config of a managed user names only outbounds it contains once, reaches every
\* node of the group, and holds nothing of the host's process bypass list.
THEOREM UserConfigsSound == AppBypassSpec => []UserConfigSound
<1>1. BypassOK => UserConfigSound
  <2> SUFFICES ASSUME BypassOK, NEW nodes \in Groups, NEW preset \in RoutePresets
               PROVE  LET config == ClientConfig(nodes, preset)
                      IN  /\ \A tag \in References(config) :
                               Cardinality({out \in config.outbounds : out.tag = tag}) = 1
                          /\ TagsOf(nodes) \subseteq Reachable(config)
                          /\ \A i \in DOMAIN config.rules : config.rules[i].marks \cap chosen = {}
    BY DEF UserConfigSound
  <2> DEFINE config == ClientConfig(nodes, preset)
             Of(tag) == {out \in config.outbounds : out.tag = tag}
  <2>1. ASSUME NEW tag \in References(config)
        PROVE  Cardinality(Of(tag)) = 1
    <3>1. \E out : Of(tag) = {out}
      <4>1. /\ \A node \in nodes : Of(node.tag) = {Proxy(node)}
            /\ Of("direct") = {Outbound("direct", "direct")}
            /\ Of("block") = {Outbound("block", "block")}
            /\ NeedsSelector(nodes) => Of("proxy") = {Outbound("selector", "proxy")}
        BY OutboundsByTag
      <4>2. \/ \E node \in nodes : tag = node.tag
            \/ tag = "direct" \/ tag = "block"
            \/ tag = "proxy" /\ NeedsSelector(nodes)
        BY TagsReferredTo
      <4> HIDE DEF Of
      <4> QED
        BY <4>1, <4>2
    <3> HIDE DEF config
    <3>2. PICK out : Of(tag) = {out}
      BY <3>1
    <3> QED
      BY <3>2, FS_Singleton
  <2>2. TagsOf(nodes) \subseteq Reachable(config)
    <3>1. /\ config.final = FinalTag(nodes)
          /\ config.choices = IF NeedsSelector(nodes) THEN TagsOf(nodes) ELSE {}
      BY DEF ClientConfig
    <3>2. CASE NeedsSelector(nodes)
      <4>1. Outbound("selector", "proxy") \in config.outbounds
        BY <3>2, OutboundsByTag
      <4>2. config.final = "proxy" /\ config.choices = TagsOf(nodes)
        BY <3>1, <3>2 DEF FinalTag
      <4> HIDE DEF config
      <4> QED
        BY <4>1, <4>2 DEF Reachable
    <3>3. CASE ~NeedsSelector(nodes)
      <4>1. IsFiniteSet(nodes) /\ nodes # {} /\ Cardinality(nodes) \in Nat
        BY GroupNodes
      <4>2. Cardinality(nodes) # 0
        BY <4>1, FS_EmptySet
      <4>3. Cardinality(nodes) = 1
        BY <3>3, <4>1, <4>2 DEF NeedsSelector
      <4>4. PICK node : nodes = {node}
        BY <4>1, <4>3, FS_Singleton
      <4>5. FirstTag(nodes) = node.tag /\ TagsOf(nodes) = {node.tag}
        BY <4>4 DEF FirstTag, TagsOf
      <4>6. config.final = node.tag
        BY <3>1, <3>3, <4>5 DEF FinalTag
      <4> HIDE DEF config
      <4> QED
        BY <4>5, <4>6 DEF Reachable
    <3> QED
      BY <3>2, <3>3
  <2>3. ASSUME NEW i \in DOMAIN config.rules
        PROVE  config.rules[i].marks \cap chosen = {}
    <3> DEFINE rules == config.rules
    <3>1. rules \in Seq(CommonRules)
      BY NothingChosen, CommonType DEF ClientConfig
    <3> HIDE DEF rules
    <3>2. \A k \in DOMAIN rules : rules[k] \in CommonRules
      BY <3>1
    <3>3. rules[i].marks \subseteq Lists
      BY <3>2 DEF CommonRules, rules
    <3>4. chosen \cap Lists = {}
      BY DEF BypassOK, Matches
    <3> QED
      BY <3>3, <3>4 DEF rules
  <2> HIDE DEF config
  <2> QED
    BY <2>1, <2>2, <2>3 DEF config
<1> QED
  BY <1>1, BypassHolds, PTL

-----------------------------------------------------------------------------
(* Links *)

Spellings ==
  ({"", "tcp"} \X {"tcp"}) \cup ({"http", "h2", "http2"} \X {"http"})
    \cup ({"ws", "websocket"} \X {"ws"}) \cup {<<"grpc", "grpc">>, <<"httpupgrade", "httpupgrade">>}

LEMMA SpellingsList ==
  ASSUME NEW p \in Spellings
  PROVE  \/ p[1] \in {"", "tcp"} /\ p[2] = "tcp"
         \/ p[1] \in {"http", "h2", "http2"} /\ p[2] = "http"
         \/ p[1] \in {"ws", "websocket"} /\ p[2] = "ws"
         \/ p[1] = "grpc" /\ p[2] = "grpc"
         \/ p[1] = "httpupgrade" /\ p[2] = "httpupgrade"
<1>1. <<"grpc", "grpc">>[1] = "grpc" /\ <<"grpc", "grpc">>[2] = "grpc"
  OBVIOUS
<1>2. <<"httpupgrade", "httpupgrade">>[1] = "httpupgrade" /\ <<"httpupgrade", "httpupgrade">>[2] = "httpupgrade"
  OBVIOUS
<1>3. \/ p \in {"", "tcp"} \X {"tcp"} \/ p \in {"http", "h2", "http2"} \X {"http"}
      \/ p \in {"ws", "websocket"} \X {"ws"}
      \/ p = <<"grpc", "grpc">> \/ p = <<"httpupgrade", "httpupgrade">>
  BY DEF Spellings
<1>4. CASE p \in {"", "tcp"} \X {"tcp"}
  BY <1>4
<1>5. CASE p \in {"http", "h2", "http2"} \X {"http"}
  BY <1>5
<1>6. CASE p \in {"ws", "websocket"} \X {"ws"}
  BY <1>6
<1>7. CASE p = <<"grpc", "grpc">> \/ p = <<"httpupgrade", "httpupgrade">>
  BY <1>1, <1>2, <1>7
<1> QED
  BY <1>3, <1>4, <1>5, <1>6, <1>7

\* Every spelling of a transport the docs name is normalized to it, and what is
\* normalized to one of them is such a spelling.
LEMMA SpellingsNormalized ==
  ASSUME NEW type
  PROVE  /\ \A p \in Spellings : p[1] = type => p[2] = NormalizedTransport(type)
         /\ NormalizedTransport(type) \in Transports => <<type, NormalizedTransport(type)>> \in Spellings
<1>1. /\ DOMAIN SpeltAs = {"tcp", "http", "ws", "xhttp"}
      /\ SpeltAs["tcp"] = {"", "tcp"} /\ SpeltAs["http"] = {"http", "h2", "http2"}
      /\ SpeltAs["ws"] = {"ws", "websocket"} /\ SpeltAs["xhttp"] = {"xhttp", "splithttp"}
  BY DEF SpeltAs
<1> DEFINE S == Spellings
<1>9. \A p \in S : \/ p[1] \in {"", "tcp"} /\ p[2] = "tcp"
                   \/ p[1] \in {"http", "h2", "http2"} /\ p[2] = "http"
                   \/ p[1] \in {"ws", "websocket"} /\ p[2] = "ws"
                   \/ p[1] = "grpc" /\ p[2] = "grpc"
                   \/ p[1] = "httpupgrade" /\ p[2] = "httpupgrade"
  BY SpellingsList
<1>10. /\ <<"", "tcp">> \in S /\ <<"tcp", "tcp">> \in S
       /\ <<"http", "http">> \in S /\ <<"h2", "http">> \in S /\ <<"http2", "http">> \in S
       /\ <<"ws", "ws">> \in S /\ <<"websocket", "ws">> \in S
       /\ <<"grpc", "grpc">> \in S /\ <<"httpupgrade", "httpupgrade">> \in S
  BY DEF Spellings
<1> HIDE DEF S
<1> SUFFICES /\ \A p \in S : p[1] = type => p[2] = NormalizedTransport(type)
             /\ NormalizedTransport(type) \in Transports => <<type, NormalizedTransport(type)>> \in S
  BY DEF S
<1> DEFINE Fits(name) == type \in SpeltAs[name]
           chosenName == CHOOSE name \in DOMAIN SpeltAs : Fits(name)
<1>2. (\E name \in DOMAIN SpeltAs : Fits(name))
        => chosenName \in DOMAIN SpeltAs /\ Fits(chosenName) /\ NormalizedTransport(type) = chosenName
  BY DEF NormalizedTransport
<1>3. (\A name \in DOMAIN SpeltAs : ~Fits(name)) => NormalizedTransport(type) = type
  BY DEF NormalizedTransport
<1> HIDE DEF chosenName
<1>4. CASE type \in {"", "tcp"}
  <2>1. NormalizedTransport(type) = "tcp"
    BY <1>1, <1>2, <1>4
  <2> QED
    BY <1>4, <1>9, <1>10, <2>1
<1>5. CASE type \in {"http", "h2", "http2"}
  <2>1. NormalizedTransport(type) = "http"
    BY <1>1, <1>2, <1>5
  <2> QED
    BY <1>5, <1>9, <1>10, <2>1
<1>6. CASE type \in {"ws", "websocket"}
  <2>1. NormalizedTransport(type) = "ws"
    BY <1>1, <1>2, <1>6
  <2> QED
    BY <1>6, <1>9, <1>10, <2>1
<1>7. CASE type \in {"xhttp", "splithttp"}
  <2>1. NormalizedTransport(type) = "xhttp"
    BY <1>1, <1>2, <1>7
  <2> QED
    BY <1>7, <1>9, <1>10, <2>1 DEF Transports
<1>8. CASE \A name \in DOMAIN SpeltAs : ~Fits(name)
  <2>1. NormalizedTransport(type) = type
    BY <1>3, <1>8
  <2>2. /\ type # "" /\ type # "tcp" /\ type # "http" /\ type # "h2" /\ type # "http2"
        /\ type # "ws" /\ type # "websocket"
    BY <1>1, <1>8
  <2> QED
    BY <2>1, <2>2, <1>9, <1>10 DEF Transports
<1> QED
  BY <1>1, <1>4, <1>5, <1>6, <1>7, <1>8
\* A VLESS link gives a config exactly when it is documented once a headerType
\* that the generator does not look at is left out.
LEMMA VlessDialled ==
  ASSUME NEW link, Protocol[link.scheme] = "vless"
  PROVE  LET node == ParseVless(link)
         IN  /\ Buildable(node) <=> Tolerated(link) # {}
             /\ Buildable(node) => Proxy(node).dial \in Tolerated(link)
<1> DEFINE node == ParseVless(link)
           name == NormalizedTransport(link.type)
           tls == IF link.security \in {"tls", "reality"} THEN link.security ELSE "none"
           dial(p) == Dial(link.server, link.port, link.user, p[2], tls)
           Ok(p) == /\ p[1] = link.type
                    /\ link.type \in {"", "tcp"} => link.header # "http"
                    /\ link.security = "reality" => link.pbk # ""
<1>1. Tolerated(link) = {dial(p) : p \in {p \in Spellings : Ok(p)}}
  <2> DEFINE header == IF link.type \in {"", "tcp"} THEN link.header ELSE ""
             All(p) == /\ p[1] = link.type /\ header # "http"
                       /\ link.security = "reality" => link.pbk # ""
  <2>1. header # "http" <=> (link.type \in {"", "tcp"} => link.header # "http")
    OBVIOUS
  <2> HIDE DEF header
  <2>2. DocumentedFor(link, header) = {dial(p) : p \in {p \in Spellings : All(p)}}
    BY DEF DocumentedFor, Spellings
  <2>3. Tolerated(link) = DocumentedFor(link, header)
    BY DEF Tolerated, header
  <2>4. \A p \in Spellings : All(p) <=> Ok(p)
    BY <2>1
  <2> HIDE DEF All, Ok, dial
  <2> QED
    BY <2>2, <2>3, <2>4
<1>2. /\ node.protocol = "vless" /\ node.transport = name /\ node.header = link.header
      /\ node.security = (IF link.security = "" THEN "none" ELSE link.security)
      /\ node.key <=> link.pbk # ""
      /\ node.server = link.server /\ node.port = link.port /\ node.secret = link.user
  BY DEF ParseVless
<1> DEFINE Fine == /\ name \in Transports /\ ~(name = "tcp" /\ link.header = "http")
                   /\ link.security = "reality" => link.pbk # ""
<1>3. Buildable(node) <=> Fine
  <2> HIDE DEF node
  <2>1. node.security = "reality" <=> link.security = "reality"
    BY <1>2
  <2>2. node.protocol # "hysteria2"
    BY <1>2
  <2>3. /\ node.transport \in Transports <=> name \in Transports
        /\ ~(node.transport = "tcp" /\ node.header = "http") <=> ~(name = "tcp" /\ link.header = "http")
    BY <1>2
  <2> QED
    BY <1>2, <2>1, <2>2, <2>3, Zenon DEF Buildable
<1>4. Proxy(node).dial = Dial(link.server, link.port, link.user, name, tls)
  <2> HIDE DEF node
  <2>1. (IF node.security \in {"tls", "reality"} THEN node.security ELSE "none") = tls
    BY <1>2
  <2>2. Proxy(node).dial = Dial(node.server, node.port, node.secret, node.transport,
          IF node.security \in {"tls", "reality"} THEN node.security ELSE "none")
    BY DEF Proxy
  <2> QED
    BY <1>2, <2>1, <2>2
<1>5. /\ \A p \in Spellings : p[1] = link.type => p[2] = name
      /\ name \in Transports => <<link.type, name>> \in Spellings
  BY SpellingsNormalized
<1>6. \A p \in Spellings : p[2] \in Transports
  BY SpellingsList DEF Transports
<1> HIDE DEF node, name, tls
<1>13. \A p \in Spellings : p[1] \in {"", "tcp"} <=> p[2] = "tcp"
  BY SpellingsList
<1>7. \A p \in Spellings : Ok(p) => Fine
  BY <1>5, <1>6, <1>13
<1>8. ASSUME Fine PROVE dial(<<link.type, name>>) \in Tolerated(link)
  <2>1. <<link.type, name>> \in Spellings /\ Ok(<<link.type, name>>)
    BY <1>5, <1>8, <1>13
  <2> HIDE DEF Ok
  <2> QED
    BY <1>1, <2>1
<1>9. dial(<<link.type, name>>) = Dial(link.server, link.port, link.user, name, tls)
  OBVIOUS
<1>10. Tolerated(link) # {} => Fine
  <2> HIDE DEF Ok, Fine
  <2> QED
    BY <1>1, <1>7
<1> HIDE DEF Fine, dial
<1>11. Buildable(node) <=> Tolerated(link) # {}
  BY <1>3, <1>8, <1>10
<1>12. Buildable(node) => Proxy(node).dial \in Tolerated(link)
  BY <1>3, <1>4, <1>8, <1>9
<1> QED
  BY <1>11, <1>12 DEF node

\* Where the docs say something of a link, it is what is tolerated for it.
LEMMA DocumentedTolerated ==
  ASSUME NEW link
  PROVE  /\ Protocol[link.scheme] = "hysteria2" => Tolerated(link) = Documented(link)
         /\ Documented(link) # {} => Tolerated(link) = Documented(link)
<1>1. CASE Protocol[link.scheme] = "hysteria2"
  BY <1>1 DEF Tolerated, Documented, DocumentedFor
<1>2. ASSUME Protocol[link.scheme] # "hysteria2", Documented(link) # {}
      PROVE  Tolerated(link) = Documented(link)
  <2> DEFINE Ok(p, header) == /\ p[1] = link.type /\ header # "http"
                              /\ link.security = "reality" => link.pbk # ""
             dial(p) == Dial(link.server, link.port, link.user, p[2],
               IF link.security \in {"tls", "reality"} THEN link.security ELSE "none")
  <2>1. \A header : DocumentedFor(link, header) = {dial(p) : p \in {p \in Spellings : Ok(p, header)}}
    BY <1>2 DEF DocumentedFor, Spellings
  <2> HIDE DEF dial
  <2>2. link.header # "http"
    <3>1. {dial(p) : p \in {p \in Spellings : Ok(p, link.header)}} # {}
      BY <1>2, <2>1 DEF Documented
    <3>2. PICK p \in Spellings : Ok(p, link.header)
      BY <3>1
    <3> QED
      BY <3>2
  <2>3. \A p \in Spellings : \A header : header # "http" => (Ok(p, header) <=> Ok(p, link.header))
    BY <2>2
  <2> HIDE DEF Ok
  <2>4. \A header : header # "http" => DocumentedFor(link, header) = DocumentedFor(link, link.header)
    BY <2>1, <2>3
  <2> QED
    BY <2>2, <2>4 DEF Tolerated, Documented
<1> QED
  BY <1>1, <1>2

LEMMA Hysteria2Dialled ==
  ASSUME NEW link, Protocol[link.scheme] = "hysteria2", Parses(link)
  PROVE  LET node == ParseHysteria2(link)
         IN  Buildable(node) /\ Proxy(node).dial \in Documented(link)
<1> DEFINE node == ParseHysteria2(link)
           port == IF link.port = 0 THEN 443 ELSE link.port
           secret == IF link.user # "" THEN link.user ELSE link.password
           dial(number, word) == Dial(link.server, number, word, "", "tls")
<1>1. node.protocol = "hysteria2" /\ node.server = link.server /\ node.port = port
      /\ node.secret = secret /\ node.transport = "" /\ node.security = "tls"
  BY DEF ParseHysteria2
<1>2. secret \in {link.user, link.password} \ {""}
  BY DEF Parses
<1> DEFINE ports == {port}
           secrets == {link.user, link.password} \ {""}
<1>3. Documented(link) = {dial(number, word) : number \in ports, word \in secrets}
  BY DEF Documented, DocumentedFor
<1>7. port \in ports /\ secret \in secrets
  BY <1>2
<1> HIDE DEF node, port, secret, ports, secrets
<1>4. Buildable(node)
  BY <1>1 DEF Buildable
<1>5. Proxy(node).dial = dial(port, secret)
  BY <1>1 DEF Proxy
<1> HIDE DEF dial
<1>6. dial(port, secret) \in Documented(link)
  BY <1>3, <1>7
<1> QED
  BY <1>4, <1>5, <1>6 DEF node

\* What connections leave by
LEMMA FinalOutbound ==
  ASSUME NEW node, NEW preset, NEW bypass, TagsValid({node}),
         NEW out \in HostConfig(node, preset, bypass).outbounds,
         out.tag = HostConfig(node, preset, bypass).final
  PROVE  out = Proxy(node)
<1>1. out.tag = node.tag /\ (out = Proxy(node) \/ out \in Fixed)
  BY DEF HostConfig
<1>2. node.tag # "direct" /\ node.tag # "block"
  BY DEF TagsValid, TagsOf, Reserved
<1>3. \A fixed \in Fixed : fixed.tag = "direct" \/ fixed.tag = "block"
  <2>1. Outbound("direct", "direct").tag = "direct" /\ Outbound("block", "block").tag = "block"
    BY DEF Outbound
  <2> QED
    BY <2>1 DEF Fixed
<1> QED
  BY <1>1, <1>2, <1>3

\* The rows were parsed once from the links they hold.
OneProtocol ==
  \A row \in StoredNodes : Parses(row.link) => row.data.protocol = Protocol[row.link.scheme]

\* The config an activation would make dials a stored node as the docs say of its
\* link, whatever version of the panel stored it, and no config is made for a link
\* they do not support; except that headerType=http is refused for TCP only, and
\* ignored elsewhere.  A row whose link and data are of different protocols, which
\* two racing edits of one tag can leave, is used as it was stored.
THEOREM NodesDialledAsDocumented ==
  ASSUME OneProtocol
  PROVE  AppBypassSpec => []DialledAsDocumented
<1>1. DialledAsDocumented
  <2> SUFFICES ASSUME NEW row \in StoredNodes, Parses(row.link)
               PROVE  LET node == Deserialized(row)
                          config == HostConfig(node, "full_tunnel", Bypass)
                      IN  /\ Buildable(node) <=> Tolerated(row.link) # {}
                          /\ Buildable(node) /\ TagsValid({node}) =>
                               \A out \in config.outbounds :
                                 out.tag = config.final =>
                                   /\ out.dial \in Tolerated(row.link)
                                   /\ Documented(row.link) # {} => out.dial \in Documented(row.link)
    BY DEF DialledAsDocumented
  <2> DEFINE link == row.link
             node == Deserialized(row)
             config == HostConfig(node, "full_tunnel", Bypass)
  <2>1. node = ParseUrl(link)
    BY DEF Deserialized, OneProtocol
  <2>2. Protocol[link.scheme] = "vless" \/ Protocol[link.scheme] = "hysteria2"
    <3>1. \A scheme \in DOMAIN Protocol : Protocol[scheme] = "vless" \/ Protocol[scheme] = "hysteria2"
      BY DEF Protocol
    <3> QED
      BY <3>1 DEF Parses
  <2>3. /\ Buildable(node) <=> Tolerated(link) # {}
        /\ Buildable(node) => Proxy(node).dial \in Tolerated(link)
    <3>1. CASE Protocol[link.scheme] = "vless"
      <4>1. node = ParseVless(link)
        BY <2>1, <3>1 DEF ParseUrl
      <4> HIDE DEF node, link
      <4> QED
        BY <3>1, <4>1, VlessDialled
    <3>2. CASE Protocol[link.scheme] = "hysteria2"
      <4>1. node = ParseHysteria2(link)
        BY <2>1, <3>2 DEF ParseUrl
      <4>2. Parses(link)
        OBVIOUS
      <4> HIDE DEF node, link
      <4>3. Buildable(node) /\ Proxy(node).dial \in Documented(link)
        BY <3>2, <4>1, <4>2, Hysteria2Dialled
      <4> QED
        BY <3>2, <4>3, DocumentedTolerated
    <3> QED
      BY <2>2, <3>1, <3>2
  <2>4. TagsValid({node}) => \A out \in config.outbounds : out.tag = config.final => out = Proxy(node)
    <3> HIDE DEF node
    <3> QED
      BY FinalOutbound
  <2> HIDE DEF node, config, link
  <2>5. Documented(link) # {} => Tolerated(link) = Documented(link)
    BY DocumentedTolerated
  <2>6. Buildable(node) /\ TagsValid({node}) =>
          \A out \in config.outbounds :
            out.tag = config.final =>
              /\ out.dial \in Tolerated(link)
              /\ Documented(link) # {} => out.dial \in Documented(link)
    BY <2>3, <2>4, <2>5
  <2> QED
    BY <2>3, <2>6 DEF node, config, link
<1> QED
  BY <1>1, PTL

=============================================================================
