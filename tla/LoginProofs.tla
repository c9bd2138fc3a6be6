----------------------------- MODULE LoginProofs -----------------------------
(***************************************************************************)
(* Theorems about Login for every set of addresses, every limit, window    *)
(* and cleanup threshold, every age of sessions and every course of the    *)
(* two clocks.                                                             *)
(***************************************************************************)
EXTENDS Login, FiniteSetTheorems, TLAPS

USE LoginAssumption DEF LoginAssumption

-----------------------------------------------------------------------------
(* The limiter *)

\* What rate_limit_ok finds under an address.
Known(a) == IF a \in DOMAIN attempts THEN Recent(attempts[a]) ELSE {}

\* The table remembers of each address exactly the attempts of the last window
\* that were let through, although entries are dropped from it.
LimitTypes ==
  /\ now \in Int /\ run \in Int
  /\ passed \in [Addresses -> SUBSET Int]
  /\ DOMAIN attempts \subseteq Addresses
  /\ attempts \in [DOMAIN attempts -> SUBSET Int]
  /\ IsFiniteSet(DOMAIN attempts)
Remembers == \A a \in Addresses : Known(a) = Recent(passed[a])
LimitInv == LimitTypes /\ Remembers

\* The cleanup drops no recent attempt.
LEMMA CleanedKeeps ==
  ASSUME LimitTypes
  PROVE  /\ DOMAIN Cleaned \subseteq DOMAIN attempts
         /\ \A a \in DOMAIN Cleaned : Cleaned[a] = attempts[a]
         /\ \A a \in DOMAIN attempts \ DOMAIN Cleaned : Recent(attempts[a]) = {}
  BY DEF LimitTypes, Cleaned

\* What an attempt leaves in the table under each address.
LEMMA RateLimitEffect ==
  ASSUME LimitInv, NEW a \in Addresses, NEW ok \in BOOLEAN, RateLimitOk(a, ok)
  PROVE  /\ ok = (Cardinality(Recent(passed[a])) < RateMax)
         /\ DOMAIN attempts' = DOMAIN Cleaned \cup {a}
         /\ attempts'[a] = IF ok THEN Recent(passed[a]) \cup {now} ELSE Recent(passed[a])
         /\ \A b \in DOMAIN Cleaned \ {a} : attempts'[b] = attempts[b]
  <1>1. (IF a \in DOMAIN Cleaned THEN Recent(Cleaned[a]) ELSE {}) = Recent(passed[a])
    BY CleanedKeeps DEF LimitInv, Remembers, Known
  <1> QED
    BY <1>1, CleanedKeeps DEF RateLimitOk, LimitInv

\* As time goes on the window only loses attempts.
LEMMA RecentShrinks ==
  ASSUME now \in Int, now' \in {now, now + 1}, NEW S \in SUBSET Int
  PROVE  {t \in S : now' - t < Window} = {t \in Recent(S) : now' - t < Window}
  <1>1. ASSUME NEW t \in S, now' - t < Window PROVE now - t < Window
    <2>1. t \in Int /\ Window \in Int
      BY DEF LoginAssumption
    <2>2. now' - t < Window
      BY <1>1
    <2>3. \A i, w, x \in Int : \A d \in {i, i + 1} : d - x < w => i - x < w
      OBVIOUS
    <2> QED
      BY <2>1, <2>2, <2>3
  <1> QED
    BY <1>1 DEF Recent

LEMMA LimitStep ==
  ASSUME LimitInv, [LoginNext]_loginVars
  PROVE  LimitInv'
  <1> USE DEF LimitInv
  <1>1. ASSUME NEW a \in Addresses, NEW right \in BOOLEAN, LoginPost(a, right)
        PROVE  LimitInv'
    <2>1. PICK ok \in BOOLEAN :
            /\ RateLimitOk(a, ok)
            /\ passed' = IF ok THEN [passed EXCEPT ![a] = @ \cup {now}] ELSE passed
      BY <1>1 DEF LoginPost
    <2>2. now' = now + 1
      BY <1>1 DEF LoginPost, Pass
    <2>3. /\ DOMAIN attempts' = DOMAIN Cleaned \cup {a}
          /\ attempts'[a] = IF ok THEN Recent(passed[a]) \cup {now} ELSE Recent(passed[a])
          /\ \A b \in DOMAIN Cleaned \ {a} : attempts'[b] = attempts[b]
      BY <2>1, RateLimitEffect
    <2>4. LimitTypes'
      <3>1. IsFiniteSet(DOMAIN Cleaned)
        BY CleanedKeeps, FS_Subset DEF LimitTypes
      <3>2. IsFiniteSet(DOMAIN Cleaned \cup {a})
        BY <3>1, FS_AddElement
      <3>3. Recent(passed[a]) \subseteq Int
        BY DEF LimitTypes, Recent
      <3>4. attempts' = [b \in DOMAIN attempts' |-> attempts'[b]]
        BY <2>1 DEF RateLimitOk
      <3>5. \A b \in DOMAIN attempts' : attempts'[b] \in SUBSET Int
        BY <2>3, <3>3, CleanedKeeps DEF LimitTypes
      <3>6. attempts' \in [DOMAIN attempts' -> SUBSET Int]
        BY <3>4, <3>5
      <3> QED
        BY <1>1, <2>1, <2>2, <2>3, <3>2, <3>6, CleanedKeeps DEF LoginPost, LimitTypes
    <2>5. ASSUME NEW b \in Addresses PROVE Known(b)' = Recent(passed[b])'
      <3>1. passed[b] \in SUBSET Int /\ now \in Int
        BY DEF LimitTypes
      <3>2. CASE b = a
        <4>1. {t \in passed[a] : now' - t < Window} = {t \in Recent(passed[a]) : now' - t < Window}
          BY <2>2, <3>1, <3>2, RecentShrinks
        <4> QED
          BY <2>1, <2>2, <2>3, <3>1, <3>2, <4>1 DEF Known, Recent, LimitTypes
      <3>3. CASE b # a /\ b \in DOMAIN Cleaned
        <4>1. Recent(attempts[b]) = Recent(passed[b]) /\ attempts[b] \in SUBSET Int
          BY <3>3, CleanedKeeps DEF Remembers, Known, LimitTypes
        <4>2. passed'[b] = passed[b] /\ attempts'[b] = attempts[b] /\ b \in DOMAIN attempts'
          BY <2>1, <2>3, <3>3 DEF LimitTypes
        <4> QED
          BY <2>2, <3>1, <4>1, <4>2 DEF Known, Recent
      <3>4. CASE b # a /\ b \notin DOMAIN Cleaned
        <4>1. Recent(passed[b]) = {}
          BY <3>4, CleanedKeeps DEF Remembers, Known
        <4>2. passed'[b] = passed[b] /\ b \notin DOMAIN attempts'
          BY <2>1, <2>3, <3>4 DEF LimitTypes
        <4> QED
          BY <2>2, <3>1, <4>1, <4>2 DEF Known, Recent
      <3> QED
        BY <3>2, <3>3, <3>4
    <2> QED
      BY <2>4, <2>5 DEF Remembers
  <1>2. ASSUME now' \in {now, now + 1}, UNCHANGED <<attempts, passed, run>>
        PROVE  LimitInv'
    <2>1. LimitTypes'
      BY <1>2 DEF LimitTypes
    <2>2. ASSUME NEW b \in Addresses PROVE Known(b)' = Recent(passed[b])'
      BY <1>2 DEF LimitTypes, Remembers, Known, Recent
    <2> QED
      BY <2>1, <2>2 DEF Remembers
  <1>3. CASE Restart
    BY <1>3, FS_EmptySet DEF Restart, clockVars, NoTable, LimitTypes, Remembers, Known, Recent
  <1>4. CASE LogoutPost \/ BrowserDrops \/ Elapse \/ SetClock \/ UNCHANGED loginVars
    BY <1>2, <1>4 DEF LogoutPost, BrowserDrops, Drop, Elapse, Pass, SetClock, loginVars, clockVars
  <1> QED
    BY <1>1, <1>3, <1>4 DEF LoginNext

LEMMA LimitInvHolds == LoginSpec => []LimitInv
  <1>1. LoginInit => LimitInv
    BY FS_EmptySet DEF LoginInit, NoTable, LimitInv, LimitTypes, Remembers, Known, Recent
  <1> QED
    BY <1>1, LimitStep, PTL DEF LoginSpec

\* The limiter with its table and cleanup implements the promise that speaks of
\* the attempts alone.
THEOREM LoginImplementsLimit == LoginSpec => ImplementsLimit
  <1>1. LoginInit => Limit!LimitInit
    BY DEF LoginInit, Limit!LimitInit
  <1>2. LimitInv /\ [LoginNext]_loginVars => [Limit!LimitNext]_(Limit!limitVars)
    <2> SUFFICES ASSUME LimitInv, [LoginNext]_loginVars
                 PROVE  Limit!LimitNext \/ UNCHANGED Limit!limitVars
      OBVIOUS
    <2>1. ASSUME NEW a \in Addresses, NEW right \in BOOLEAN, LoginPost(a, right)
          PROVE  Limit!LimitNext
      <3>1. PICK ok \in BOOLEAN :
              /\ RateLimitOk(a, ok)
              /\ verdict' = Limit!Verdict(a, ok)
              /\ passed' = IF ok THEN [passed EXCEPT ![a] = @ \cup {now}] ELSE passed
        BY <2>1 DEF LoginPost
      <3>2. now' = now + 1
        BY <2>1 DEF LoginPost, Pass
      <3>3. ok = (Cardinality(Limit!Within(passed[a])) < RateMax)
        BY <3>1, RateLimitEffect DEF Recent, Limit!Within
      <3>4. CASE ok
        <4>1. passed' = [passed EXCEPT ![a] = @ \cup {now}] /\ verdict' = Limit!Verdict(a, TRUE)
          BY <3>1, <3>4
        <4>2. Cardinality(Limit!Within(passed[a])) < RateMax
          BY <3>3, <3>4
        <4>3. Limit!Pass(a)
          BY <4>1, <4>2 DEF Limit!Pass, Cardinality, Limit!Cardinality
        <4> QED
          BY <3>2, <4>3 DEF Limit!LimitNext
      <3>5. CASE ~ok
        <4>1. passed' = passed /\ verdict' = Limit!Verdict(a, FALSE)
          BY <3>1, <3>5
        <4>2. ~(Cardinality(Limit!Within(passed[a])) < RateMax)
          BY <3>3, <3>5
        <4>3. Limit!Refuse(a)
          BY <4>1, <4>2 DEF Limit!Refuse, Cardinality, Limit!Cardinality
        <4> QED
          BY <3>2, <4>3 DEF Limit!LimitNext
      <3> QED
        BY <3>4, <3>5
    <2>2. CASE LogoutPost \/ BrowserDrops \/ Elapse \/ SetClock \/ Restart
      BY <2>2 DEF LogoutPost, BrowserDrops, Drop, Elapse, Pass, SetClock, Restart, clockVars,
                  Limit!LimitNext, Limit!Quiet
    <2>3. CASE UNCHANGED loginVars
      BY <2>3 DEF loginVars, clockVars, Limit!limitVars
    <2> QED
      BY <2>1, <2>2, <2>3 DEF LoginNext
  <1> QED
    BY <1>1, <1>2, LimitInvHolds, PTL DEF LoginSpec, ImplementsLimit, Limit!LimitSpec

-----------------------------------------------------------------------------
(* The size of the table *)

LEMMA TableStep ==
  ASSUME LimitInv, LoginNext, run' = run, attempts' # attempts
  PROVE  \/ Cardinality(DOMAIN attempts') <= Threshold + 1
         \/ \A a \in DOMAIN attempts' : Recent(attempts'[a]) # {}
  <1>1. PICK a \in Addresses, right \in BOOLEAN : LoginPost(a, right)
    BY DEF LoginNext, LogoutPost, BrowserDrops, Drop, Elapse, SetClock, Restart, LimitInv, LimitTypes
  <1>2. PICK ok \in BOOLEAN : RateLimitOk(a, ok)
    BY <1>1 DEF LoginPost
  <1>3. /\ DOMAIN attempts' = DOMAIN Cleaned \cup {a}
        /\ \A b \in DOMAIN Cleaned \ {a} : attempts'[b] = attempts[b]
        /\ attempts'[a] = IF ok THEN Recent(passed[a]) \cup {now} ELSE Recent(passed[a])
        /\ ok = (Cardinality(Recent(passed[a])) < RateMax)
    BY <1>2, RateLimitEffect
  <1>4. IsFiniteSet(DOMAIN attempts) /\ Cardinality(DOMAIN attempts) \in Nat
    BY FS_CardinalityType DEF LimitInv, LimitTypes
  <1>5. CASE ~(Cardinality(DOMAIN attempts) > Threshold)
    <2>1. DOMAIN Cleaned = DOMAIN attempts
      BY <1>5 DEF Cleaned
    <2>2. Cardinality(DOMAIN attempts') <= Cardinality(DOMAIN attempts) + 1
      BY <1>3, <1>4, <2>1, FS_AddElement
    <2> QED
      BY <1>4, <1>5, <2>2, FS_CardinalityType, FS_AddElement, <1>3, <2>1 DEF LoginAssumption
  <1>6. CASE Cardinality(DOMAIN attempts) > Threshold
    <2>1. \A b \in DOMAIN Cleaned : Recent(attempts[b]) # {}
      BY <1>6 DEF Cleaned
    <2>2. Recent(attempts'[a]) # {}
      <3>1. CASE ok
        <4>1. now \in attempts'[a] /\ now - now < Window
          BY <1>3, <3>1 DEF LimitInv, LimitTypes, LoginAssumption
        <4> QED
          BY <4>1 DEF Recent
      <3>2. CASE ~ok
        <4>1. Recent(passed[a]) # {}
          <5>1. ~(Cardinality(Recent(passed[a])) < RateMax)
            BY <1>3, <3>2
          <5>2. 0 < RateMax
            BY DEF LoginAssumption
          <5> QED
            BY <5>1, <5>2, FS_EmptySet
        <4> QED
          BY <1>3, <3>2, <4>1 DEF Recent
      <3> QED
        BY <3>1, <3>2
    <2> QED
      BY <1>3, <2>1, <2>2
  <1> QED
    BY <1>5, <1>6

\* An attempt adds one address to a table at the threshold, and leaves a larger
\* one with recent attempts under every address.
THEOREM LoginTableBounded == LoginSpec => TableBounded
  <1>1. LimitInv /\ [LoginNext]_loginVars =>
          [run' = run /\ attempts' # attempts =>
             \/ Cardinality(DOMAIN attempts') <= Threshold + 1
             \/ \A a \in DOMAIN attempts' : Recent(attempts'[a]) # {}]_loginVars
    BY TableStep DEF loginVars
  <1> QED
    BY <1>1, LimitInvHolds, PTL DEF LoginSpec, TableBounded

-----------------------------------------------------------------------------
(* Sessions *)

\* What a cookie says of the login it comes from.
SessionInv ==
  /\ now \in Int /\ wall \in Int /\ run \in Nat \ {0}
  /\ issued \in [at : Int, run : 0..run]
  /\ cookie.there \in BOOLEAN
  /\ cookie.there =>
       /\ cookie.ts = (issued.at \div Second) * Second
       /\ cookie.key = IF secretSet THEN 0 ELSE issued.run

\* A time rounded down to a second is less than a second early.
LEMMA RoundedDown ==
  ASSUME NEW t \in Int
  PROVE  /\ (t \div Second) * Second \in Int
         /\ (t \div Second) * Second <= t
         /\ t - Second < (t \div Second) * Second
  BY SMTT(60) DEF LoginAssumption

LEMMA SessionInvHolds == LoginSpec => []SessionInv
  <1>1. LoginInit => SessionInv
    BY DEF LoginInit, NoCookie, SessionInv
  <1>2. ASSUME SessionInv, [LoginNext]_loginVars
        PROVE  SessionInv'
    <2>1. ASSUME NEW a \in Addresses, NEW right \in BOOLEAN, LoginPost(a, right)
          PROVE  SessionInv'
      <3>1. \/ cookie' = CreateToken /\ issued' = [at |-> wall, run |-> run]
            \/ UNCHANGED <<cookie, issued>>
        BY <2>1 DEF LoginPost, sessionVars
      <3>2. now' \in Int /\ wall' \in Int /\ UNCHANGED <<run, secretSet>>
        BY <1>2, <2>1 DEF LoginPost, Pass, SessionInv, settingVars
      <3>3. CASE cookie' = CreateToken /\ issued' = [at |-> wall, run |-> run]
        <4>1. issued' \in [at : Int, run : 0..run'] /\ issued'.at = wall /\ issued'.run = run
          BY <1>2, <3>2, <3>3 DEF SessionInv
        <4>2. /\ cookie'.there = TRUE
              /\ cookie'.ts = (wall \div Second) * Second
              /\ cookie'.key = IF secretSet THEN 0 ELSE run
          BY <3>3 DEF CreateToken, Key
        <4>3. cookie'.there \in BOOLEAN
          BY <4>2
        <4>4. now' \in Int /\ wall' \in Int /\ run' \in Nat \ {0}
          BY <1>2, <3>2 DEF SessionInv
        <4> QED
          BY <3>2, <4>1, <4>2, <4>3, <4>4 DEF SessionInv
      <3>4. CASE UNCHANGED <<cookie, issued>>
        BY <1>2, <3>2, <3>4 DEF SessionInv
      <3> QED
        BY <3>1, <3>3, <3>4
    <2>2. CASE LogoutPost \/ BrowserDrops
      <3>1. cookie'.there = FALSE
        BY <2>2 DEF LogoutPost, BrowserDrops, Drop, NoCookie
      <3>2. UNCHANGED <<now, wall, run, issued, secretSet>>
        BY <2>2 DEF LogoutPost, BrowserDrops, Drop, clockVars, settingVars
      <3>3. cookie'.there \in BOOLEAN /\ ~cookie'.there
        BY <3>1
      <3> QED
        BY <1>2, <3>2, <3>3 DEF SessionInv
    <2>3. CASE Elapse
      BY <1>2, <2>3 DEF Elapse, Pass, SessionInv, settingVars, sessionVars
    <2>4. CASE SetClock
      BY <1>2, <2>4 DEF SetClock, SessionInv, settingVars, sessionVars, LoginAssumption
    <2>5. CASE Restart
      BY <1>2, <2>5 DEF Restart, SessionInv, clockVars, settingVars, sessionVars
    <2>6. CASE UNCHANGED loginVars
      BY <1>2, <2>6 DEF loginVars, SessionInv, clockVars, settingVars, sessionVars
    <2> QED
      BY <1>2, <2>1, <2>2, <2>3, <2>4, <2>5, <2>6 DEF LoginNext
  <1> QED
    BY <1>1, <1>2, PTL DEF LoginSpec

\* A login is good for its age less a second, and never longer, whatever the
\* clock does and however often the manager is started again.
THEOREM LoginSessionServes == LoginSpec => []SessionServes
  <1>1. ASSUME SessionInv PROVE SessionServes
    <2> DEFINE signed == cookie.there /\ (secretSet \/ issued.run = run)
               age == wall - issued.at
    <2> SUFFICES ASSUME enabled
                 PROVE  /\ signed /\ age \in 0..(MaxAge - Second) =>
                             \A r \in Requests : r.own => Dispatch(r) = "handled"
                        /\ ~signed \/ age > MaxAge =>
                             \A r \in Requests : Dispatch(r) = "handled" => r.path = "open"
      BY DEF SessionServes
    <2>1. issued.at \in Int /\ wall \in Int /\ age \in Int /\ MaxAge \in Int /\ Second \in Int
      BY <1>1 DEF SessionInv, LoginAssumption
    <2>2. ASSUME cookie.there
          PROVE  /\ cookie.ts \in Int
                 /\ cookie.ts <= issued.at /\ issued.at - Second < cookie.ts
      BY <1>1, <2>1, <2>2, RoundedDown DEF SessionInv
    <2>3. cookie.there => (cookie.key = Key <=> secretSet \/ issued.run = run)
      BY <1>1 DEF SessionInv, Key
    <2>4. ASSUME signed, age \in 0..(MaxAge - Second)
          PROVE  IsAuthenticated
      <3>1. wall - cookie.ts \in 0..MaxAge
        BY <2>1, <2>2, <2>4
      <3> QED
        BY <2>3, <2>4, <3>1 DEF IsAuthenticated, VerifyToken
    <2>5. ASSUME ~signed \/ age > MaxAge
          PROVE  ~IsAuthenticated
      <3>1. ASSUME cookie.there, age > MaxAge PROVE wall - cookie.ts \notin 0..MaxAge
        BY <2>1, <2>2, <3>1
      <3> QED
        BY <2>3, <2>5, <3>1 DEF IsAuthenticated, VerifyToken
    <2>6. ASSUME IsAuthenticated, NEW r \in Requests, r.own
          PROVE  Dispatch(r) = "handled"
      BY <2>6 DEF Dispatch, CheckCsrf, Requests
    <2>7. ASSUME ~IsAuthenticated, NEW r \in Requests, Dispatch(r) = "handled"
          PROVE  r.path = "open"
      BY <2>7 DEF Dispatch
    <2> QED
      BY <2>4, <2>5, <2>6, <2>7
  <1> QED
    BY <1>1, SessionInvHolds, PTL

=============================================================================
