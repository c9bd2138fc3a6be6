--------------------------- MODULE MCDistribution ---------------------------
(* Model-checking instances of Distribution: tags, links and users are
   interchangeable, and so are requests. *)
EXTENDS Distribution, TLC

MCSymmetry == UNION {Permutations(S) : S \in {Users, Tags, Urls, Workers}}

\* Where the members of a group matter and not how they were assigned: the
\* states after the operator has imported the nodes, created a group and
\* entered every user, assigned and enabled or not
MembersEntered ==
  /\ created = 1 /\ now = 0 /\ log = <<>> /\ notices = {}
  /\ task = [w \in Workers |-> None]
  /\ nodes \in [Tags -> Urls]
  /\ \E f \in GroupForms :
       groups = [g \in GroupIds |-> IF g = 1 THEN [GroupRow(f) EXCEPT !.gen = created]
                                            ELSE None]
  /\ users \in [Users -> {UserRow(f) : f \in UserForms}]

MembersSpec == MembersEntered /\ [][Next]_vars /\ DistributionFairness

=============================================================================
