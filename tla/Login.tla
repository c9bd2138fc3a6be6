-------------------------------- MODULE Login --------------------------------
(***************************************************************************)
(* The administrator's login (app/auth.py and the login routes of          *)
(* app/routes/system.py): attempts per address with a cleanup of the       *)
(* table, sessions signed with a secret and dated by the wall clock, and   *)
(* what the middleware makes of a request.                                 *)
(*                                                                         *)
(* The limiter reads the monotonic clock, so two attempts never share a    *)
(* reading and each takes a tick.  A token carries whole seconds of the    *)
(* wall clock, which operators and NTP set back and forth.  The table and  *)
(* a secret that is not configured end with the process.                   *)
(***************************************************************************)
EXTENDS Integers, FiniteSets

CONSTANTS
  Addresses,  \* addresses that attempts come from
  RateMax,    \* _RATE_MAX
  Window,     \* _RATE_WINDOW, in ticks
  Threshold,  \* _CLEANUP_THRESHOLD
  Second,     \* ticks of a second
  MaxAge,     \* SESSION_MAX_AGE, in ticks
  MaxTime,    \* bound: last tick of both clocks
  MaxRuns     \* bound: runs of the manager

ASSUME LoginAssumption ==
  /\ RateMax \in Nat \ {0}
  /\ Window \in Nat \ {0}
  /\ Threshold \in Nat
  /\ Second \in Nat \ {0}
  /\ MaxAge \in Nat
  /\ MaxTime \in Nat
  /\ MaxRuns \in Nat \ {0}

VARIABLES
  now,       \* time.monotonic()
  wall,      \* time.time()
  attempts,  \* _login_attempts: address -> times
  run,       \* which run of the manager this is
  secretSet, \* SESSION_SECRET is configured
  enabled,   \* AUTH_ENABLED: a password is configured
  cookie,    \* the browser's sb_session
  issued,    \* history: wall clock and run of the cookie's login
  passed,    \* history: attempts let through in this run
  verdict    \* history: what the last attempt was told

clockVars == <<now, wall>>
settingVars == <<secretSet, enabled>>
sessionVars == <<cookie, issued>>
loginVars == <<clockVars, attempts, run, settingVars, sessionVars, passed, verdict>>

Limit == INSTANCE LoginLimit

NoTable == [a \in {} |-> {}]
NoCookie == [there |-> FALSE, ts |-> 0, key |-> 0]

\* The secret of this run: the configured one, or a new random one
Key == IF secretSet THEN 0 ELSE run

LoginInit ==
  /\ now = 0 /\ wall = 0
  /\ attempts = NoTable
  /\ run = 1
  /\ secretSet \in BOOLEAN /\ enabled \in BOOLEAN
  /\ cookie = NoCookie
  /\ issued = [at |-> 0, run |-> 0]
  /\ passed = [a \in Addresses |-> {}]
  /\ verdict = Limit!NoVerdict

-----------------------------------------------------------------------------
(* Attempts *)

Recent(times) == {t \in times : now - t < Window}

\* Mutant of Cleaned: an address with any old attempt is stale
CleanedOfOld ==
  IF Cardinality(DOMAIN attempts) > Threshold
  THEN [a \in {b \in DOMAIN attempts : Recent(attempts[b]) = attempts[b]} |-> attempts[a]]
  ELSE attempts

\* Mutant of Cleaned: the table is cleaned of empty entries only
CleanedOfEmpty ==
  IF Cardinality(DOMAIN attempts) > Threshold
  THEN [a \in {b \in DOMAIN attempts : attempts[b] # {}} |-> attempts[a]]
  ELSE attempts

\* The table once addresses without a recent attempt are dropped from a large one
Cleaned ==
  IF Cardinality(DOMAIN attempts) > Threshold
  THEN [a \in {b \in DOMAIN attempts : Recent(attempts[b]) # {}} |-> attempts[a]]
  ELSE attempts

\* rate_limit_ok: an attempt that is let through is recorded
RateLimitOk(a, ok) ==
  LET recent == IF a \in DOMAIN Cleaned THEN Recent(Cleaned[a]) ELSE {} IN
  /\ ok = (Cardinality(recent) < RateMax)
  /\ attempts' = [b \in DOMAIN Cleaned \cup {a} |->
                    IF b # a THEN Cleaned[b]
                    ELSE IF ok THEN recent \cup {now} ELSE recent]

-----------------------------------------------------------------------------
(* Sessions *)

\* Mutant of CreateToken: the time is rounded to the nearest second
CreateTokenRounded == [there |-> TRUE, ts |-> ((wall + Second \div 2) \div Second) * Second, key |-> Key]

\* create_session_token: int(time.time()), signed
CreateToken == [there |-> TRUE, ts |-> (wall \div Second) * Second, key |-> Key]

\* Mutant of VerifyToken: any secret's signature is accepted
VerifyTokenAnyKey(token) == wall - token.ts \in 0..MaxAge

VerifyToken(token) == wall - token.ts \in 0..MaxAge /\ token.key = Key

IsAuthenticated == enabled => cookie.there /\ VerifyToken(cookie)

\* A request: the paths the middleware tells apart, GET or not, and whether
\* its Origin or Referer is the panel's own
Requests == [path : {"open", "api", "page", "logout"}, get : BOOLEAN, own : BOOLEAN]

CheckCsrf(r) == enabled => r.get \/ r.own

\* AuthMiddleware.dispatch
Dispatch(r) ==
  CASE r.path = "open" -> "handled"
    [] r.path # "open" /\ ~IsAuthenticated -> IF r.path = "api" THEN "401" ELSE "to login"
    [] r.path # "open" /\ IsAuthenticated ->
         IF r.get \/ r.path = "logout" \/ CheckCsrf(r) THEN "handled" ELSE "403"

-----------------------------------------------------------------------------
(* Actions *)

Pass == now' = now + 1 /\ wall' = wall + 1

\* POST /login: the limiter is asked before the password is looked at
LoginPost(a, right) ==
  /\ now < MaxTime /\ wall < MaxTime
  /\ \E ok \in BOOLEAN :
       /\ RateLimitOk(a, ok)
       /\ verdict' = Limit!Verdict(a, ok)
       /\ passed' = IF ok THEN [passed EXCEPT ![a] = @ \cup {now}] ELSE passed
       /\ IF ok /\ right /\ enabled
          THEN cookie' = CreateToken /\ issued' = [at |-> wall, run |-> run]
          ELSE UNCHANGED sessionVars
  /\ Pass
  /\ UNCHANGED <<run, settingVars>>

\* The browser has no cookie any more
Drop ==
  /\ cookie' = NoCookie
  /\ verdict' = Limit!NoVerdict
  /\ UNCHANGED <<clockVars, attempts, run, settingVars, issued, passed>>

\* POST /logout deletes the cookie, if the middleware lets the request in
LogoutPost ==
  /\ \E r \in Requests : r.path = "logout" /\ ~r.get /\ Dispatch(r) = "handled"
  /\ Drop

\* The cookie is past its max_age by the browser's clock, or deleted there
BrowserDrops == cookie.there /\ Drop

Elapse ==
  /\ now < MaxTime /\ wall < MaxTime
  /\ Pass
  /\ verdict' = Limit!NoVerdict
  /\ UNCHANGED <<attempts, run, settingVars, sessionVars, passed>>

SetClock ==
  /\ wall' \in 0..MaxTime
  /\ verdict' = Limit!NoVerdict
  /\ UNCHANGED <<now, attempts, run, settingVars, sessionVars, passed>>

Restart ==
  /\ run < MaxRuns
  /\ run' = run + 1
  /\ attempts' = NoTable
  /\ passed' = [a \in Addresses |-> {}]
  /\ verdict' = Limit!NoVerdict
  /\ UNCHANGED <<clockVars, settingVars, sessionVars>>

LoginNext ==
  \/ \E a \in Addresses, right \in BOOLEAN : LoginPost(a, right)
  \/ LogoutPost
  \/ BrowserDrops
  \/ Elapse
  \/ SetClock
  \/ Restart

LoginSpec == LoginInit /\ [][LoginNext]_loginVars

-----------------------------------------------------------------------------
(* Properties *)

\* Whatever the cleanup drops from the table, an attempt is let through exactly
\* when fewer than RateMax were in the window before it.
ImplementsLimit == Limit!LimitSpec

\* The table does not grow past the threshold except by addresses with attempts
\* in the last window, which the cleanup must keep.
TableBounded ==
  [][run' = run /\ attempts' # attempts =>
       \/ Cardinality(DOMAIN attempts') <= Threshold + 1
       \/ \A a \in DOMAIN attempts' : Recent(attempts'[a]) # {}]_loginVars

\* A login serves its browser for MaxAge, less the second its date was rounded
\* down by, and no longer: while the clock has not been set back before it, and,
\* when no secret is configured, in the run of the manager that issued it.
SessionServes ==
  LET signed == cookie.there /\ (secretSet \/ issued.run = run)
      age == wall - issued.at IN
  enabled =>
    /\ signed /\ age \in 0..(MaxAge - Second) =>
         \A r \in Requests : r.own => Dispatch(r) = "handled"
    /\ ~signed \/ age > MaxAge =>
         \A r \in Requests : Dispatch(r) = "handled" => r.path = "open"

=============================================================================
