----------------------------- MODULE LoginLimit -----------------------------
(***************************************************************************)
(* What the login form promises of one run of the manager, without the     *)
(* table it keeps: of one address, an attempt is let through exactly when  *)
(* fewer than RateMax were let through in the Window before it.  Refused   *)
(* attempts do not prolong the wait.                                       *)
(***************************************************************************)
EXTENDS Integers, FiniteSets

CONSTANTS Addresses, RateMax, Window

VARIABLES
  now,     \* monotonic clock
  passed,  \* address -> times of the attempts let through
  verdict  \* what the last attempt was told

limitVars == <<now, passed, verdict>>

NoVerdict == [by |-> {}, ok |-> FALSE]
Verdict(a, ok) == [by |-> {a}, ok |-> ok]
Within(times) == {t \in times : now - t < Window}

LimitInit ==
  /\ now \in Int
  /\ passed = [a \in Addresses |-> {}]
  /\ verdict = NoVerdict

Pass(a) ==
  /\ Cardinality(Within(passed[a])) < RateMax
  /\ passed' = [passed EXCEPT ![a] = @ \cup {now}]
  /\ verdict' = Verdict(a, TRUE)

Refuse(a) ==
  /\ ~(Cardinality(Within(passed[a])) < RateMax)
  /\ verdict' = Verdict(a, FALSE)
  /\ UNCHANGED passed

\* Time goes on, or another run of the manager begins
Quiet ==
  /\ verdict' = NoVerdict
  /\ passed' \in {passed, [a \in Addresses |-> {}]}

LimitNext ==
  /\ \/ \E a \in Addresses : Pass(a) \/ Refuse(a)
     \/ Quiet
  /\ now' \in {now, now + 1}

LimitSpec == LimitInit /\ [][LimitNext]_limitVars

=============================================================================
