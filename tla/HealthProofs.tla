---------------------------- MODULE HealthProofs ----------------------------
(***************************************************************************)
(* Proof that the health loop's notifications follow its state, and its    *)
(* state the newest stored samples, for any checks, tags, retention and    *)
(* number of restarts.                                                     *)
(***************************************************************************)
EXTENDS HealthLoop, TLAPS

States == {"connected", "degraded", "failed"}

\* What a stored round says of the tunnel.
Says(s, state) ==
  /\ s.age = 0
  /\ state = "failed" <=> s.passed \cap ConnectivityChecks = {}
  /\ state = "connected" <=> s.passed = Checks

\* The notices end with the state, if there are any.
Follows(list, state) ==
  /\ list \in Seq(States) /\ Len(list) <= 2
  /\ Len(list) = 2 => list[1] # list[2]
  /\ Len(list) > 0 => list[Len(list)] = state

\* As the property, in the middle of a round too: a round that is under way has
\* touched neither the state nor the samples.
NoticesInv ==
  /\ last \in States \cup {"unknown"}
  /\ Follows(notices, last)
  /\ last # "unknown" => \E s \in samples : Says(s, last)

\* The state of a round is one of three, and is what its row says.
LEMMA OverallSays ==
  ASSUME NEW ok, NEW t, NEW n
  PROVE  /\ Overall(ok) \in States
         /\ Says([age |-> 0, tag |-> t, passed |-> ok, active |-> n], Overall(ok))
<1>1. CASE ok = Checks
  BY <1>1, HealthAssumption DEF Overall, Says, States, Checks
<1>2. CASE ok # Checks
  BY <1>2 DEF Overall, Says, States
<1> QED
  BY <1>1, <1>2

\* An announced change leaves the notices as they should be.
LEMMA AnnounceFollows ==
  ASSUME NEW state \in States, Follows(notices, last), state # last
  PROVE  Follows(Announce(state), state)
<1>1. CASE Len(notices) = 2
  BY <1>1 DEF Announce, Follows
<1>2. CASE Len(notices) # 2
  <2>1. Announce(state) = Append(notices, state)
    BY <1>2 DEF Announce
  <2>2. notices \in Seq(States) /\ Len(notices) <= 2
    BY DEF Follows
  <2>3. Len(notices) = 0 \/ Len(notices) = 1
    <3>1. Len(notices) \in Nat
      BY <2>2
    <3>2. \A n \in Nat : n <= 2 /\ n # 2 => n = 0 \/ n = 1
      OBVIOUS
    <3> QED
      BY <3>1, <3>2, <2>2, <1>2, Zenon
  <2>4. /\ Append(notices, state) \in Seq(States)
        /\ Len(Append(notices, state)) = Len(notices) + 1
        /\ Append(notices, state)[Len(notices) + 1] = state
        /\ Len(notices) = 1 => Append(notices, state)[1] = notices[1]
    BY <2>2
  <2> QED
    BY <2>1, <2>3, <2>4 DEF Follows
<1> QED
  BY <1>1, <1>2

\* A round that is stored brings state, notices and samples forward together.
LEMMA StoreStep == NoticesInv /\ Store => NoticesInv'
<1> SUFFICES ASSUME NoticesInv, Store PROVE NoticesInv'
  OBVIOUS
<1> DEFINE state == Overall(passed)
           row == [age |-> 0, tag |-> tag, passed |-> passed, active |-> active]
<1>1. state \in States /\ Says(row, state)
  BY OverallSays
<1>2. last' = state
  BY DEF Store, NotifyChange
<1>3. row \in samples'
  BY DEF Store, Stored
<1>4. Follows(notices', last')
  <2>1. CASE last = state
    BY <2>1, <1>2 DEF Store, NotifyChange, NoticesInv
  <2>2. CASE last = "unknown"
    <3>1. Len(notices) = 0
      BY <2>2 DEF NoticesInv, Follows, States
    <3>2. notices' = notices
      BY <2>2 DEF Store, NotifyChange
    <3> QED
      BY <3>1, <3>2 DEF NoticesInv, Follows
  <2>3. CASE last # state /\ last # "unknown"
    <3>1. notices' = Announce(state)
      BY <2>3 DEF Store, NotifyChange
    <3> QED
      BY <3>1, <2>3, <1>1, <1>2, AnnounceFollows DEF NoticesInv
  <2> QED
    BY <2>1, <2>2, <2>3
<1> QED
  BY <1>1, <1>2, <1>3, <1>4 DEF NoticesInv

LEMMA NoticesStep == NoticesInv /\ [Next]_vars => NoticesInv'
<1> SUFFICES ASSUME NoticesInv, [Next]_vars PROVE NoticesInv'
  OBVIOUS
<1>1. CASE Begin
  BY <1>1 DEF Begin, NoticesInv
<1>2. ASSUME NEW c \in Checks, Check(c) PROVE NoticesInv'
  BY <1>2 DEF Check, NoticesInv
<1>3. CASE Store
  BY <1>3, StoreStep
<1>4. CASE StoreFails
  BY <1>4 DEF StoreFails, NoticesInv
<1>5. CASE NetChanges \/ Activate
  BY <1>5 DEF NetChanges, Activate, NoticesInv
<1>6. CASE Restart
  BY <1>6 DEF Restart, NoticesInv, Follows
<1>7. CASE UNCHANGED vars
  BY <1>7 DEF vars, NoticesInv
<1> QED
  BY <1>1, <1>2, <1>3, <1>4, <1>5, <1>6, <1>7 DEF Next, Step

\* No two notices that follow each other say the same, the last one is the state
\* the loop holds, and that is what the newest stored samples say, whatever
\* rounds, commits and restarts come in between.
THEOREM NoticesFollow == HealthSpec => []NoticesFollowState
<1>1. Init => NoticesInv
  BY DEF Init, NoticesInv, Follows
<1>2. NoticesInv => NoticesFollowState
  <2> SUFFICES ASSUME NoticesInv PROVE NoticesFollowState
    OBVIOUS
  <2>1. notices # <<>> => Len(notices) > 0
    BY DEF NoticesInv, Follows
  <2> QED
    BY <2>1 DEF Follows, NoticesInv, NoticesFollowState, Says
<1> QED
  BY <1>1, <1>2, NoticesStep, PTL DEF HealthSpec

=============================================================================
