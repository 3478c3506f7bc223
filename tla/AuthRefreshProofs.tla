-------------------------- MODULE AuthRefreshProofs --------------------------
(* Theorems about AuthRefresh for every number of projects, runs and tokens *)
(* and for every lifetime, delay and timeout.                               *)
EXTENDS AuthRefresh, FiniteSetTheorems, TLAPS

-----------------------------------------------------------------------------
(* The inductive invariant, part by part.                                  *)

\* A run logs in for its own project, and has a case left when it sends one.
RunInv(r) ==
  /\ login[r].on => login[r].p = run[r].p
  /\ run[r].pc \in {"idle", "login", "preflight"} => run[r].sent = 0 /\ run[r].token = NoToken
  /\ run[r].pc \in {"send", "relogin"} => run[r].sent < Cases

Types == TypeOK /\ \A r \in Runs : RunInv(r)

\* The tokens that one login brought, and no other.
Unique == Tokens \ reissued

\* Such a token is cached for one project; a run that holds it belongs to that
\* project; on its way, it is nowhere else.
CachedOnce ==
  \A p, q \in Projects : cache[p].token \in Unique /\ cache[p].token = cache[q].token => p = q

HeldByItsRuns ==
  \A r \in Runs, q \in Projects :
    run[r].token \in Unique /\ cache[q].token = run[r].token => run[r].p = q

Arriving(a) ==
  /\ \A q \in Projects : cache[q].token # login[a].token
  /\ \A r \in Runs : run[r].token # login[a].token
  /\ \A b \in Actors : login[b].token = login[a].token => b = a

ArrivesOnce == \A a \in Actors : login[a].token \in Unique => Arriving(a)

IInv == Types /\ CachedOnce /\ HeldByItsRuns /\ ArrivesOnce /\ NoRefusedTokenIsServed

-----------------------------------------------------------------------------
(* Helpers.                                                                *)

\* The clock never leaves the integers.
LEMMA LaterType == ASSUME NEW n \in Int PROVE Later(n) \in Int
<1>1. IsFiniteSet(Projects) /\ Timeout \in Nat
  BY AuthAssumption DEF AuthAssumption
<1>2. Cardinality(Projects) \in Nat
  BY <1>1, FS_CardinalityType
<1>3. MaxAge \in Nat
  BY <1>1, <1>2 DEF MaxAge
<1> QED BY <1>3 DEF Later, Past

LEMMA PastType == Past \in Int
<1>1. IsFiniteSet(Projects) /\ Timeout \in Nat
  BY AuthAssumption DEF AuthAssumption
<1>2. Cardinality(Projects) \in Nat
  BY <1>1, FS_CardinalityType
<1> QED BY <1>1, <1>2 DEF MaxAge, Past

\* The values that stand for no login and no token have the types of the others.
LEMMA NoneTypes ==
  /\ NoLogin \in [on : BOOLEAN, p : Projects, token : Tokens \cup {NoToken}, left : Nat]
  /\ NoLogin.on = FALSE /\ NoLogin.token = NoToken
  /\ Nothing \in [token : Credential, left : Int] /\ Nothing.token = NoToken
  /\ \A t \in Credential : Fresh(t) \in [token : Credential, left : Int] /\ Fresh(t).token = t
<1>1. PICK p \in Projects : p = CHOOSE x \in Projects : TRUE
  BY AuthAssumption DEF AuthAssumption
<1>2. Ttl \in Int
  BY AuthAssumption DEF AuthAssumption
<1> QED BY <1>1, <1>2 DEF NoLogin, Nothing, Fresh, Credential

LEMMA ConstantTypes ==
  /\ Cases \in Nat \ {0} /\ Timeout \in Nat \ {0} /\ RetryDelay \in Nat \ {0}
  /\ MaxUpdates \in Nat
  /\ "refresher" \notin Runs /\ NoToken \notin Tokens /\ "env" \notin Tokens /\ "env" # NoToken
  BY AuthAssumption DEF AuthAssumption

LEMMA Start == Init => IInv
<1> SUFFICES ASSUME Init PROVE IInv
  OBVIOUS
<1> USE ConstantTypes, NoneTypes, PastType
<1>1. TypeOK
  BY DEF Init, TypeOK, Credential, Actors
<1>2. \A r \in Runs : RunInv(r)
  BY DEF Init, RunInv, Actors
<1>3. CachedOnce /\ HeldByItsRuns /\ ArrivesOnce /\ NoRefusedTokenIsServed
  BY DEF Init, CachedOnce, HeldByItsRuns, ArrivesOnce, NoRefusedTokenIsServed, Unique, Actors
<1> QED BY <1>1, <1>2, <1>3 DEF IInv, Types

-----------------------------------------------------------------------------
(* What a step does to the run of an actor that gets a credential.         *)

LEMMA RunRecord ==
  ASSUME Types, NEW r \in Runs
  PROVE  run[r] \in [pc : {"idle", "login", "preflight", "send", "relogin", "done"},
                     p : Projects, on : BOOLEAN, token : Credential,
                     sent : 0..Cases, retried : BOOLEAN]
  BY DEF Types, TypeOK

\* A run that goes on after a case stays within its cases.
LEMMA AfterCaseType ==
  ASSUME NEW v \in [pc : {"idle", "login", "preflight", "send", "relogin", "done"},
                    p : Projects, on : BOOLEAN, token : Credential,
                    sent : 0..Cases, retried : BOOLEAN],
         v.sent < Cases
  PROVE  /\ AfterCase(v) \in [pc : {"send", "done"},
                    p : Projects, on : BOOLEAN, token : Credential,
                    sent : 0..Cases, retried : BOOLEAN]
         /\ AfterCase(v).pc = "send" => AfterCase(v).sent < Cases
         /\ AfterCase(v).p = v.p /\ AfterCase(v).token = v.token
<1>1. v.sent + 1 \in 0..Cases
  BY ConstantTypes
<1>2. AfterCase(v) = [v EXCEPT !.sent = v.sent + 1, !.pc = IF v.sent + 1 < Cases THEN "send" ELSE "done"]
  BY DEF AfterCase
<1> QED BY <1>1, <1>2, ConstantTypes

LEMMA ResentType ==
  ASSUME NEW v \in [pc : {"idle", "login", "preflight", "send", "relogin", "done"},
                    p : Projects, on : BOOLEAN, token : Credential,
                    sent : 0..Cases, retried : BOOLEAN],
         v.sent < Cases, NEW t \in Credential
  PROVE  /\ Resent(v, t) \in [pc : {"send", "done"},
                    p : Projects, on : BOOLEAN, token : Credential,
                    sent : 0..Cases, retried : BOOLEAN]
         /\ Resent(v, t).pc = "send" => Resent(v, t).sent < Cases
         /\ Resent(v, t).p = v.p /\ Resent(v, t).token \in {v.token, t}
<1>1. CASE t \in {NoToken, v.token}
  BY <1>1, AfterCaseType DEF Resent
<1>2. CASE t \notin {NoToken, v.token}
  <2>1. Resent(v, t) = [v EXCEPT !.pc = "send", !.token = t]
    BY <1>2 DEF Resent
  <2> QED BY <2>1
<1> QED BY <1>1, <1>2

\* The run that its actor's credential takes further: typed, with the project
\* it had, with the old or the new token, and the other runs as they were.
LEMMA RunGetsStep ==
  ASSUME Types, NEW r \in Runs, NEW t \in Credential, RunGets(r, t),
         login[r].on, login' = [login EXCEPT ![r] = NoLogin]
  PROVE  /\ run' \in [Runs -> [pc : {"idle", "login", "preflight", "send", "relogin", "done"},
                       p : Projects, on : BOOLEAN, token : Credential,
                       sent : 0..Cases, retried : BOOLEAN]]
         /\ \A s \in Runs : s # r => run'[s] = run[s]
         /\ run'[r].p = run[r].p /\ run'[r].token \in {run[r].token, t}
         /\ run'[r].pc \in {"send", "done"}
         /\ run'[r].pc = "send" => run'[r].sent < Cases
<1> USE ConstantTypes
<1>0. /\ run[r] \in [pc : {"idle", "login", "preflight", "send", "relogin", "done"},
                     p : Projects, on : BOOLEAN, token : Credential,
                     sent : 0..Cases, retried : BOOLEAN]
      /\ RunInv(r)
  BY RunRecord DEF Types
<1>1. CASE run[r].pc = "login" /\ t # NoToken /\ run' = [run EXCEPT ![r].pc = "send", ![r].token = t]
  <2>1. run[r].sent < Cases
    BY <1>0, <1>1 DEF RunInv
  <2> QED BY <1>0, <1>1, <2>1 DEF Types, TypeOK
<1>2. CASE run' = [run EXCEPT ![r].pc = "done"]
  BY <1>0, <1>2 DEF Types, TypeOK
<1>3. CASE run[r].pc = "relogin" /\ run' = [run EXCEPT ![r] = Resent(@, t)]
  <2>1. run[r].sent < Cases
    BY <1>0, <1>3 DEF RunInv
  <2>2. PICK w : w = Resent(run[r], t)
    OBVIOUS
  <2>3. /\ w \in [pc : {"send", "done"}, p : Projects, on : BOOLEAN, token : Credential,
                  sent : 0..Cases, retried : BOOLEAN]
        /\ w.pc = "send" => w.sent < Cases
        /\ w.p = run[r].p /\ w.token \in {run[r].token, t}
    BY <1>0, <2>1, <2>2, ResentType
  <2>4. run' = [run EXCEPT ![r] = w]
    BY <1>3, <2>2
  <2> QED BY <2>3, <2>4 DEF Types, TypeOK
<1> QED BY <1>1, <1>2, <1>3 DEF RunGets

-----------------------------------------------------------------------------
(* Every step preserves the invariant.                                     *)

\* Where the tokens may be after a step by which nobody gets one.
LEMMA TokensStay ==
  ASSUME IInv, UNCHANGED reissued,
         \A p \in Projects : cache'[p].token = cache[p].token \/ cache'[p].token \notin Tokens,
         \A a \in Actors : login'[a].token = login[a].token \/ login'[a].token \notin Tokens,
         \A r \in Runs : \/ run'[r].token \notin Tokens
                         \/ run'[r].token = run[r].token /\ run'[r].p = run[r].p
  PROVE  CachedOnce' /\ HeldByItsRuns' /\ ArrivesOnce'
<1>1. CachedOnce'
  BY DEF IInv, CachedOnce, Unique
<1>2. HeldByItsRuns'
  BY DEF IInv, HeldByItsRuns, Unique
<1>3. ASSUME NEW a \in Actors, login'[a].token \in Unique'
      PROVE  Arriving(a)'
  <2>1. login'[a].token = login[a].token /\ Arriving(a)
    BY <1>3 DEF IInv, ArrivesOnce, Unique
  <2>2. \A q \in Projects : cache'[q].token # login'[a].token
    BY <1>3, <2>1 DEF Arriving, Unique
  <2>3. \A r \in Runs : run'[r].token # login'[a].token
    BY <1>3, <2>1 DEF Arriving, Unique
  <2>4. \A b \in Actors : login'[b].token = login'[a].token => b = a
    BY <1>3, <2>1 DEF Arriving, Unique
  <2> QED BY <2>2, <2>3, <2>4 DEF Arriving
<1>4. ArrivesOnce'
  BY <1>3 DEF ArrivesOnce
<1> QED BY <1>1, <1>2, <1>4

LEMMA NoNewTokens ==
  ASSUME IInv, TypeOK', refused' \subseteq refused, UNCHANGED reissued,
         \A p \in Projects : cache'[p].token = cache[p].token \/ cache'[p].token \notin Tokens,
         \A a \in Actors : login'[a].token = login[a].token \/ login'[a].token \notin Tokens,
         \A r \in Runs : \/ run'[r].token \notin Tokens
                         \/ run'[r].token = run[r].token /\ run'[r].p = run[r].p
  PROVE  CachedOnce' /\ HeldByItsRuns' /\ ArrivesOnce' /\ NoRefusedTokenIsServed'
<1>1. CachedOnce' /\ HeldByItsRuns' /\ ArrivesOnce'
  BY TokensStay
<1>2. refused' \subseteq Tokens \cup {"env"}
  BY DEF TypeOK
<1> QED BY <1>1, <1>2 DEF IInv, NoRefusedTokenIsServed

\* Steps that leave the tokens where they are and the runs and logins alone.
LEMMA StillTokens ==
  ASSUME IInv, TypeOK', UNCHANGED <<run, refused, reissued>>,
         \A p \in Projects : cache'[p].token = cache[p].token,
         \A a \in Actors : login'[a].on = login[a].on /\ login'[a].p = login[a].p
                             /\ login'[a].token = login[a].token
  PROVE  IInv'
<1>1. \A r \in Runs : RunInv(r)'
  BY DEF IInv, Types, RunInv, Actors
<1>2. CachedOnce' /\ HeldByItsRuns' /\ ArrivesOnce' /\ NoRefusedTokenIsServed'
  BY NoNewTokens
<1> QED BY <1>1, <1>2 DEF IInv, Types

LEMMA SkipStep == ASSUME IInv, NEW p \in Projects, Skip(p) PROVE IInv'
<1>1. TypeOK'
  BY DEF IInv, Types, TypeOK, Skip
<1> QED BY <1>1, StillTokens DEF Skip

LEMMA WakeStep == ASSUME IInv, NEW S \in SUBSET Projects, Wake(S) PROVE IInv'
<1>1. TypeOK'
  BY DEF IInv, Types, TypeOK, Wake
<1> QED BY <1>1, StillTokens DEF Wake

LEMMA SleepStep == ASSUME IInv, Sleep PROVE IInv'
<1>1. TypeOK'
  BY DEF IInv, Types, TypeOK, Sleep
<1> QED BY <1>1, StillTokens DEF Sleep

LEMMA TickStep == ASSUME IInv, Tick PROVE IInv'
<1>1. cache' \in [Projects -> [token : Credential, left : Int]]
      /\ \A p \in Projects : cache'[p].token = cache[p].token
  <2>1. \A p \in Projects : Later(cache[p].left) \in Int
    BY LaterType DEF IInv, Types, TypeOK
  <2> QED BY <2>1 DEF Tick, IInv, Types, TypeOK
<1>2. retryAt' \in [Projects -> Int]
  BY LaterType DEF Tick, IInv, Types, TypeOK
<1>3. /\ login' \in [Actors -> [on : BOOLEAN, p : Projects, token : Tokens \cup {NoToken}, left : Nat]]
      /\ \A a \in Actors : login'[a].on = login[a].on /\ login'[a].p = login[a].p
                             /\ login'[a].token = login[a].token
  BY DEF Tick, IInv, Types, TypeOK
<1>4. refresher' \in [pc : {"asleep", "pass", "login", "dead"}, todo : SUBSET Projects,
                      age : Nat, left : Nat]
      /\ refresher'.pc = refresher.pc
  <2>1. refresher \in [pc : {"asleep", "pass", "login", "dead"}, todo : SUBSET Projects,
                       age : Nat, left : Nat]
    BY DEF IInv, Types, TypeOK
  <2>2. PICK l \in Nat : l = IF refresher.pc = "asleep" THEN refresher.left - 1 ELSE refresher.left
    BY <2>1 DEF Tick
  <2>3. PICK n \in Nat : n = IF refresher.pc = "login" THEN refresher.age + 1 ELSE refresher.age
    BY <2>1
  <2>4. refresher' = [refresher EXCEPT !.left = l, !.age = n]
    BY <2>2, <2>3 DEF Tick
  <2> QED BY <2>1, <2>4
<1>5. TypeOK'
  BY <1>1, <1>2, <1>3, <1>4 DEF Tick, IInv, Types, TypeOK, Actors
<1> QED BY <1>1, <1>3, <1>5, StillTokens DEF Tick

\* Steps that empty caches and leave the runs and logins alone.
LEMMA UpdateStep == ASSUME IInv, NEW p \in Projects, Update(p) PROVE IInv'
<1> USE ConstantTypes, NoneTypes, PastType
<1>1. TypeOK'
  BY DEF Update, Invalidated, IInv, Types, TypeOK
<1>2. \A r \in Runs : RunInv(r)'
  BY DEF Update, IInv, Types, RunInv
<1>3. \A q \in Projects : cache'[q].token = cache[q].token \/ cache'[q].token \notin Tokens
  BY DEF Update, Invalidated, IInv, Types, TypeOK
<1>4. CachedOnce' /\ HeldByItsRuns' /\ ArrivesOnce' /\ NoRefusedTokenIsServed'
  BY <1>1, <1>3, NoNewTokens DEF Update
<1> QED BY <1>1, <1>2, <1>4 DEF IInv, Types

\* A token that arrives is nobody's and no longer counts as refused, or it is
\* one of those that more than one login brought.
LEMMA IssueStep == ASSUME IInv, NEW a \in Actors, Issue(a) PROVE IInv'
<1>1. PICK t \in Tokens :
        /\ login' = [login EXCEPT ![a].token = t]
        /\ \/ t \in InUse /\ reissued' = reissued \cup {t} /\ refused' = refused
           \/ t \notin InUse /\ reissued' = reissued \ {t} /\ refused' = refused \ {t}
  BY DEF Issue
<1>2. TypeOK'
  <2>1. reissued' \subseteq Tokens /\ refused' \subseteq Tokens \cup {"env"}
    BY <1>1 DEF IInv, Types, TypeOK
  <2>2. /\ login' = [login EXCEPT ![a].token = t] /\ login[a].on
        /\ UNCHANGED <<env, enabled, updates, cache, retryAt, refresher, run>>
    BY <1>1 DEF Issue
  <2>3. login' \in [Actors -> [on : BOOLEAN, p : Projects, token : Tokens \cup {NoToken}, left : Nat]]
        /\ \A b \in Actors : login'[b].on = login[b].on
    BY <2>2 DEF IInv, Types, TypeOK
  <2> QED BY <2>1, <2>2, <2>3 DEF IInv, Types, TypeOK, Actors
<1>3. \A b \in Actors : /\ login'[b].on = login[b].on /\ login'[b].p = login[b].p
                        /\ login'[b].token = IF b = a THEN t ELSE login[b].token
  BY <1>1 DEF IInv, Types, TypeOK
<1>4. \A r \in Runs : RunInv(r)'
  BY <1>3 DEF Issue, IInv, Types, RunInv, Actors
<1>5. login[a].token = NoToken /\ UNCHANGED <<cache, run>>
  BY DEF Issue
<1>6. CASE t \in InUse
  <2>1. reissued' = reissued \cup {t} /\ refused' = refused
    BY <1>1, <1>6
  <2>2. CachedOnce' /\ HeldByItsRuns'
    BY <1>5, <2>1 DEF IInv, CachedOnce, HeldByItsRuns, Unique
  <2>3. ASSUME NEW b \in Actors, login'[b].token \in Unique' PROVE Arriving(b)'
    <3>1. b # a /\ login'[b].token = login[b].token /\ login[b].token # t
      BY <1>3, <2>1, <2>3 DEF Unique
    <3>2. Arriving(b)
      BY <2>1, <2>3, <3>1 DEF IInv, ArrivesOnce, Unique
    <3> QED BY <1>3, <1>5, <3>1, <3>2 DEF Arriving
  <2>4. NoRefusedTokenIsServed'
    BY <1>3, <1>5, <2>1 DEF IInv, NoRefusedTokenIsServed
  <2> QED BY <1>2, <1>4, <2>2, <2>3, <2>4 DEF IInv, Types, ArrivesOnce
<1>7. CASE t \notin InUse
  <2>1. /\ \A q \in Projects : cache[q].token # t
        /\ \A r \in Runs : run[r].token # t
        /\ \A b \in Actors : login[b].token # t
    BY <1>7 DEF InUse
  <2>2. reissued' = reissued \ {t} /\ refused' = refused \ {t}
    BY <1>1, <1>7
  <2>3. CachedOnce' /\ HeldByItsRuns'
    BY <1>5, <2>1, <2>2 DEF IInv, CachedOnce, HeldByItsRuns, Unique
  <2>4. ASSUME NEW b \in Actors, login'[b].token \in Unique' PROVE Arriving(b)'
    <3>1. CASE b = a
      BY <1>3, <1>5, <2>1, <3>1 DEF Arriving
    <3>2. CASE b # a
      <4>1. login'[b].token = login[b].token /\ login[b].token # t
        BY <1>3, <2>1, <3>2
      <4>2. Arriving(b)
        BY <2>2, <2>4, <4>1 DEF IInv, ArrivesOnce, Unique
      <4> QED BY <1>3, <1>5, <4>1, <4>2 DEF Arriving
    <3> QED BY <3>1, <3>2
  <2>5. NoRefusedTokenIsServed'
    BY <1>3, <1>5, <2>1, <2>2 DEF IInv, Types, TypeOK, NoRefusedTokenIsServed
  <2> QED BY <1>2, <1>4, <2>3, <2>4, <2>5 DEF IInv, Types, ArrivesOnce
<1> QED BY <1>6, <1>7

-----------------------------------------------------------------------------
(* Logins that end.                                                        *)

LEMMA LoginEnds ==
  ASSUME IInv, NEW a \in Actors, login' = [login EXCEPT ![a] = NoLogin]
  PROVE  /\ login' \in [Actors -> [on : BOOLEAN, p : Projects, token : Tokens \cup {NoToken}, left : Nat]]
         /\ ~login'[a].on /\ login'[a].token = NoToken
         /\ \A b \in Actors : b # a => login'[b] = login[b]
  BY NoneTypes DEF IInv, Types, TypeOK

\* Whoever gets a credential goes on, typed, with the project it had.
LEMMA GetsStep ==
  ASSUME IInv, NEW a \in Actors, NEW t \in Credential, login[a].on, Gets(a, t),
         login' = [login EXCEPT ![a] = NoLogin],
         cache' \in [Projects -> [token : Credential, left : Int]],
         UNCHANGED <<env, enabled, updates, refused, reissued>>
  PROVE  /\ TypeOK'
         /\ \A r \in Runs : RunInv(r)'
         /\ \A r \in Runs : /\ run'[r].p = run[r].p
                            /\ run'[r].token = run[r].token \/ (r = a /\ run'[r].token = t)
<1> USE ConstantTypes
<1>1. /\ login' \in [Actors -> [on : BOOLEAN, p : Projects, token : Tokens \cup {NoToken}, left : Nat]]
      /\ ~login'[a].on
      /\ \A b \in Actors : b # a => login'[b] = login[b]
  BY LoginEnds
<1>2. CASE a = "refresher" /\ RefresherGets(t)
  <2>1. refresher.age \in Nat /\ Delay \in Int /\ login["refresher"].p \in Projects
    BY <1>2 DEF IInv, Types, TypeOK, Delay
  <2>2. retryAt' \in [Projects -> Int]
    BY <1>2, <2>1, PastType DEF RefresherGets, IInv, Types, TypeOK
  <2>3. /\ refresher' \in [pc : {"pass"}, todo : SUBSET Projects, age : Nat, left : Nat]
        /\ UNCHANGED run
    BY <1>2 DEF RefresherGets, IInv, Types, TypeOK
  <2>4. TypeOK'
    BY <1>1, <1>2, <2>2, <2>3 DEF IInv, Types, TypeOK, Actors
  <2>5. \A r \in Runs : RunInv(r)'
    BY <1>1, <1>2, <2>3 DEF IInv, Types, RunInv, Actors
  <2> QED BY <2>3, <2>4, <2>5
<1>3. CASE a \in Runs /\ RunGets(a, t)
  <2>1. /\ run' \in [Runs -> [pc : {"idle", "login", "preflight", "send", "relogin", "done"},
                       p : Projects, on : BOOLEAN, token : Credential,
                       sent : 0..Cases, retried : BOOLEAN]]
        /\ \A s \in Runs : s # a => run'[s] = run[s]
        /\ run'[a].p = run[a].p /\ run'[a].token \in {run[a].token, t}
        /\ run'[a].pc \in {"send", "done"}
        /\ run'[a].pc = "send" => run'[a].sent < Cases
    BY <1>3, RunGetsStep DEF IInv
  <2>2. UNCHANGED <<retryAt, refresher>>
    BY <1>3 DEF RunGets
  <2>3. TypeOK'
    BY <1>1, <1>3, <2>1, <2>2 DEF IInv, Types, TypeOK, Actors
  <2>4. \A r \in Runs : RunInv(r)'
    BY <1>1, <1>3, <2>1 DEF IInv, Types, RunInv, Actors
  <2> QED BY <1>3, <2>1, <2>3, <2>4
<1> QED BY <1>2, <1>3 DEF Gets

\* The arriving token moves to the cache of the login's project and to the run
\* that waited for it, which is of that project: it was nowhere else, unless it
\* had been issued before.
LEMMA SucceedStep == ASSUME IInv, NEW a \in Actors, Succeed(a) PROVE IInv'
<1> USE ConstantTypes
<1>1. PICK t : t = login[a].token
  OBVIOUS
<1>2. PICK p : p = login[a].p
  OBVIOUS
<1>3. /\ login[a].on /\ t \in Tokens /\ t \in Credential /\ p \in Projects
      /\ cache' = [cache EXCEPT ![p] = Fresh(t)]
      /\ login' = [login EXCEPT ![a] = NoLogin]
      /\ Gets(a, t)
      /\ UNCHANGED <<env, enabled, updates, refused, reissued>>
  BY <1>1, <1>2 DEF Succeed, IInv, Types, TypeOK, Credential
<1>4. /\ cache' \in [Projects -> [token : Credential, left : Int]]
      /\ cache'[p].token = t
      /\ \A q \in Projects : q # p => cache'[q].token = cache[q].token
  BY <1>3, NoneTypes DEF IInv, Types, TypeOK
<1>5. /\ TypeOK'
      /\ \A r \in Runs : RunInv(r)'
      /\ \A r \in Runs : /\ run'[r].p = run[r].p
                         /\ run'[r].token = run[r].token \/ (r = a /\ run'[r].token = t)
  BY <1>3, <1>4, GetsStep
<1>6. /\ login'[a].token = NoToken
      /\ \A b \in Actors : b # a => login'[b].token = login[b].token
  BY <1>3, LoginEnds
<1>7. /\ t \in Unique => /\ \A q \in Projects : cache[q].token # t
                         /\ \A r \in Runs : run[r].token # t
                         /\ \A b \in Actors : login[b].token = t => b = a
      /\ t \notin refused \ (reissued \cup {"env"})
      /\ Unique' = Unique
  BY <1>1, <1>3 DEF IInv, ArrivesOnce, Arriving, Unique, NoRefusedTokenIsServed
<1>8. CachedOnce'
  BY <1>4, <1>7 DEF IInv, CachedOnce
<1>9. HeldByItsRuns'
  <2>1. ASSUME NEW r \in Runs, NEW q \in Projects, run'[r].token \in Unique,
               cache'[q].token = run'[r].token
        PROVE  run'[r].p = q
    <3>1. CASE run'[r].token = t
      <4>1. q = p
        BY <1>4, <1>7, <2>1, <3>1
      <4>2. r = a
        BY <1>5, <1>7, <2>1, <3>1
      <4>3. run[r].p = p
        BY <1>2, <1>3, <4>2 DEF IInv, Types, RunInv
      <4> QED BY <1>5, <4>1, <4>3
    <3>2. CASE run'[r].token # t
      <4>1. run'[r].token = run[r].token /\ cache[q].token = run[r].token
        BY <1>4, <1>5, <2>1, <3>2
      <4> QED BY <1>5, <2>1, <4>1 DEF IInv, HeldByItsRuns
    <3> QED BY <3>1, <3>2
  <2> QED BY <1>7, <2>1 DEF HeldByItsRuns
<1>10. ASSUME NEW b \in Actors, login'[b].token \in Unique PROVE Arriving(b)'
  <2>1. b # a /\ login'[b].token = login[b].token /\ login[b].token # t
    BY <1>6, <1>7, <1>10 DEF Unique
  <2>2. Arriving(b)
    BY <1>10, <2>1 DEF IInv, ArrivesOnce
  <2>3. login'[b].token \in Tokens
    BY <1>10 DEF Unique
  <2> QED BY <1>4, <1>5, <1>6, <2>1, <2>2, <2>3, ConstantTypes DEF Arriving
<1>11. NoRefusedTokenIsServed'
  BY <1>3, <1>4, <1>6, <1>7 DEF IInv, Types, TypeOK, NoRefusedTokenIsServed
<1> QED BY <1>5, <1>7, <1>8, <1>9, <1>10, <1>11 DEF IInv, Types, ArrivesOnce

\* Without a token, an environment token at most is cached.
LEMMA LoginFailsStep == ASSUME IInv, NEW a \in Actors, LoginFails(a) PROVE IInv'
<1> USE ConstantTypes
<1>1. PICK t \in {"env", NoToken} : /\ Gets(a, t)
                                    /\ \/ cache' = [cache EXCEPT ![login[a].p] = Fresh("env")]
                                       \/ UNCHANGED cache
  BY DEF LoginFails
<1>2. t \in Credential /\ "env" \in Credential
  BY DEF Credential
<1>3. /\ cache' \in [Projects -> [token : Credential, left : Int]]
      /\ \A q \in Projects : cache'[q].token = cache[q].token \/ cache'[q].token \notin Tokens
  BY <1>1, <1>2, NoneTypes DEF IInv, Types, TypeOK
<1>4. /\ TypeOK'
      /\ \A r \in Runs : RunInv(r)'
      /\ \A r \in Runs : /\ run'[r].p = run[r].p
                         /\ run'[r].token = run[r].token \/ (r = a /\ run'[r].token = t)
  BY <1>1, <1>2, <1>3, GetsStep DEF LoginFails
<1>5. \A b \in Actors : login'[b].token = login[b].token \/ login'[b].token \notin Tokens
  BY LoginEnds DEF LoginFails
<1>6. CachedOnce' /\ HeldByItsRuns' /\ ArrivesOnce' /\ NoRefusedTokenIsServed'
  BY <1>1, <1>3, <1>4, <1>5, NoNewTokens DEF LoginFails
<1> QED BY <1>4, <1>6 DEF IInv, Types

LEMMA RaiseStep == ASSUME IInv, NEW a \in Actors, Raise(a) PROVE IInv'
<1> USE ConstantTypes
<1>1. /\ login' \in [Actors -> [on : BOOLEAN, p : Projects, token : Tokens \cup {NoToken}, left : Nat]]
      /\ ~login'[a].on /\ login'[a].token = NoToken
      /\ \A b \in Actors : b # a => login'[b] = login[b]
  BY LoginEnds DEF Raise
<1>2. /\ TypeOK' /\ \A r \in Runs : RunInv(r)'
      /\ \A r \in Runs : run'[r].token = run[r].token /\ run'[r].p = run[r].p
  <2>1. CASE a = "refresher" /\ refresher' = [refresher EXCEPT !.pc = "dead", !.todo = {}] /\ UNCHANGED run
    <3>1. refresher' \in [pc : {"dead"}, todo : SUBSET Projects, age : Nat, left : Nat]
      BY <2>1 DEF IInv, Types, TypeOK
    <3>2. TypeOK'
      BY <1>1, <2>1, <3>1 DEF Raise, IInv, Types, TypeOK, Actors
    <3> QED BY <1>1, <2>1, <3>2 DEF IInv, Types, RunInv, Actors
  <2>2. CASE a \in Runs /\ run' = [run EXCEPT ![a].pc = "done"] /\ UNCHANGED refresher
    <3>1. /\ run' \in [Runs -> [pc : {"idle", "login", "preflight", "send", "relogin", "done"},
                       p : Projects, on : BOOLEAN, token : Credential,
                       sent : 0..Cases, retried : BOOLEAN]]
          /\ \A r \in Runs : r # a => run'[r] = run[r]
          /\ run'[a].pc = "done" /\ run'[a].token = run[a].token /\ run'[a].p = run[a].p
      BY <2>2 DEF IInv, Types, TypeOK
    <3>2. TypeOK'
      BY <1>1, <2>2, <3>1 DEF Raise, IInv, Types, TypeOK, Actors
    <3> QED BY <1>1, <2>2, <3>1, <3>2 DEF IInv, Types, RunInv, Actors
  <2> QED BY <2>1, <2>2 DEF Raise
<1>3. CachedOnce' /\ HeldByItsRuns' /\ ArrivesOnce' /\ NoRefusedTokenIsServed'
  BY <1>1, <1>2, NoNewTokens DEF Raise
<1> QED BY <1>2, <1>3 DEF IInv, Types

-----------------------------------------------------------------------------
(* Logins that start, and cases.                                           *)

LEMMA LoginStarts ==
  ASSUME IInv, NEW a \in Actors, NEW p \in Projects, LogIn(a, p)
  PROVE  /\ login' \in [Actors -> [on : BOOLEAN, p : Projects, token : Tokens \cup {NoToken}, left : Nat]]
         /\ login'[a].on /\ login'[a].token = NoToken /\ login'[a].p = p
         /\ \A b \in Actors : b # a => login'[b] = login[b]
  BY ConstantTypes DEF LogIn, IInv, Types, TypeOK

LEMMA InvalidatedTypes ==
  ASSUME IInv, NEW p \in Projects, Invalidated(p)
  PROVE  /\ cache' \in [Projects -> [token : Credential, left : Int]]
         /\ retryAt' \in [Projects -> Int]
         /\ cache'[p].token = NoToken
         /\ \A q \in Projects : q # p => cache'[q].token = cache[q].token
  BY NoneTypes, PastType DEF Invalidated, IInv, Types, TypeOK

LEMMA RefreshStep == ASSUME IInv, NEW p \in Projects, Refresh(p) PROVE IInv'
<1> USE ConstantTypes
<1>1. /\ login' \in [Actors -> [on : BOOLEAN, p : Projects, token : Tokens \cup {NoToken}, left : Nat]]
      /\ login'["refresher"].on /\ login'["refresher"].token = NoToken
      /\ \A b \in Actors : b # "refresher" => login'[b] = login[b]
  BY LoginStarts DEF Refresh, Actors
<1>2. /\ cache' \in [Projects -> [token : Credential, left : Int]]
      /\ \A q \in Projects : cache'[q].token = cache[q].token \/ cache'[q].token \notin Tokens
  BY NoneTypes DEF Refresh, IInv, Types, TypeOK
<1>3. refresher' \in [pc : {"login"}, todo : SUBSET Projects, age : Nat, left : Nat]
  BY DEF Refresh, IInv, Types, TypeOK
<1>4. TypeOK'
  BY <1>1, <1>2, <1>3 DEF Refresh, IInv, Types, TypeOK, Actors
<1>5. \A r \in Runs : RunInv(r)'
  BY <1>1 DEF Refresh, IInv, Types, RunInv, Actors
<1>6. CachedOnce' /\ HeldByItsRuns' /\ ArrivesOnce' /\ NoRefusedTokenIsServed'
  BY <1>1, <1>2, <1>4, NoNewTokens DEF Refresh
<1> QED BY <1>4, <1>5, <1>6 DEF IInv, Types

LEMMA PreflightStep == ASSUME IInv, NEW r \in Runs, NEW p \in Projects, Preflight(r, p) PROVE IInv'
<1> USE ConstantTypes
<1>1. /\ login' \in [Actors -> [on : BOOLEAN, p : Projects, token : Tokens \cup {NoToken}, left : Nat]]
      /\ login'[r].on /\ login'[r].token = NoToken /\ login'[r].p = p
      /\ \A b \in Actors : b # r => login'[b] = login[b]
  BY LoginStarts DEF Preflight, Actors
<1>2. /\ cache' \in [Projects -> [token : Credential, left : Int]]
      /\ retryAt' \in [Projects -> Int]
      /\ \A q \in Projects : cache'[q].token = cache[q].token \/ cache'[q].token \notin Tokens
  BY InvalidatedTypes DEF Preflight
<1>3. /\ run' \in [Runs -> [pc : {"idle", "login", "preflight", "send", "relogin", "done"},
                       p : Projects, on : BOOLEAN, token : Credential,
                       sent : 0..Cases, retried : BOOLEAN]]
      /\ \A s \in Runs : s # r => run'[s] = run[s]
      /\ run'[r].pc = "preflight" /\ run'[r].p = p /\ run'[r].token = NoToken /\ run'[r].sent = 0
  <2>1. run[r].sent = 0 /\ run[r].token = NoToken
    BY DEF Preflight, IInv, Types, RunInv
  <2>2. run[r] \in [pc : {"idle", "login", "preflight", "send", "relogin", "done"},
                     p : Projects, on : BOOLEAN, token : Credential,
                     sent : 0..Cases, retried : BOOLEAN]
    BY RunRecord DEF IInv
  <2>3. PICK w : w = [run[r] EXCEPT !.pc = "preflight", !.p = p, !.on = TRUE]
    OBVIOUS
  <2>4. /\ w \in [pc : {"idle", "login", "preflight", "send", "relogin", "done"},
                     p : Projects, on : BOOLEAN, token : Credential,
                     sent : 0..Cases, retried : BOOLEAN]
       /\ w.pc = "preflight" /\ w.p = p /\ w.token = run[r].token /\ w.sent = run[r].sent
    BY <2>1, <2>2, <2>3
  <2>5. run' = [run EXCEPT ![r] = w]
    BY <2>3 DEF Preflight
  <2> QED BY <2>1, <2>2, <2>4, <2>5 DEF IInv, Types, TypeOK
<1>4. TypeOK'
  BY <1>1, <1>2, <1>3 DEF Preflight, IInv, Types, TypeOK, Actors
<1>5. \A s \in Runs : RunInv(s)'
  BY <1>1, <1>3 DEF IInv, Types, RunInv, Actors
<1>6. CachedOnce' /\ HeldByItsRuns' /\ ArrivesOnce' /\ NoRefusedTokenIsServed'
  <2>1. \A b \in Actors : login'[b].token = login[b].token \/ login'[b].token \notin Tokens
    BY <1>1
  <2>2. \A s \in Runs : run'[s].token \notin Tokens \/ (run'[s].token = run[s].token /\ run'[s].p = run[s].p)
    BY <1>3
  <2> QED BY <1>2, <1>4, <2>1, <2>2, NoNewTokens DEF Preflight
<1> QED BY <1>4, <1>5, <1>6 DEF IInv, Types

\* A run takes what is cached for its project, and nothing else of the tokens.
LEMMA BeginStep == ASSUME IInv, NEW r \in Runs, NEW p \in Projects, Begin(r, p) PROVE IInv'
<1> USE ConstantTypes
<1>0. run[r].pc = "idle" /\ run[r].sent = 0 /\ run[r].token = NoToken /\ ~login[r].on
  BY DEF Begin, IInv, Types, TypeOK, RunInv
<1>1. ASSUME NEW t \in Served(p),
             run' = [run EXCEPT ![r].pc = "send", ![r].p = p, ![r].on = p \in enabled, ![r].token = t],
             cache' = IF t = "env" THEN [cache EXCEPT ![p] = Fresh(t)] ELSE cache,
             UNCHANGED login
      PROVE  IInv'
  <2>1. t \in Credential /\ (t \in Tokens => t = cache[p].token)
    BY <1>1 DEF Served
  <2>2. /\ run' \in [Runs -> [pc : {"idle", "login", "preflight", "send", "relogin", "done"},
                       p : Projects, on : BOOLEAN, token : Credential,
                       sent : 0..Cases, retried : BOOLEAN]]
        /\ \A s \in Runs : s # r => run'[s] = run[s]
        /\ run'[r].pc = "send" /\ run'[r].p = p /\ run'[r].token = t /\ run'[r].sent = 0
    <3>1. (p \in enabled) \in BOOLEAN
      OBVIOUS
    <3>2. run[r] \in [pc : {"idle", "login", "preflight", "send", "relogin", "done"},
                     p : Projects, on : BOOLEAN, token : Credential,
                     sent : 0..Cases, retried : BOOLEAN]
      BY RunRecord DEF IInv
    <3>3. PICK w : w = [run[r] EXCEPT !.pc = "send", !.p = p, !.on = p \in enabled, !.token = t]
      OBVIOUS
    <3>4. /\ w \in [pc : {"idle", "login", "preflight", "send", "relogin", "done"},
                     p : Projects, on : BOOLEAN, token : Credential,
                     sent : 0..Cases, retried : BOOLEAN]
         /\ w.pc = "send" /\ w.p = p /\ w.token = t /\ w.sent = run[r].sent
      BY <1>0, <2>1, <3>1, <3>2, <3>3
    <3>5. run' = [run EXCEPT ![r] = w]
      BY <1>1, <3>3
    <3> QED BY <1>0, <2>1, <3>1, <3>2, <3>4, <3>5 DEF IInv, Types, TypeOK
  <2>3. /\ cache' \in [Projects -> [token : Credential, left : Int]]
        /\ \A q \in Projects : cache'[q].token = cache[q].token \/ cache'[q].token \notin Tokens
    <3>1. CASE t = "env"
      BY <1>1, <2>1, <3>1, NoneTypes DEF IInv, Types, TypeOK
    <3>2. CASE t # "env"
      BY <1>1, <3>2 DEF IInv, Types, TypeOK
    <3> QED BY <3>1, <3>2
  <2>4. TypeOK'
    BY <1>0, <1>1, <2>2, <2>3 DEF Begin, IInv, Types, TypeOK, Actors
  <2>5. \A s \in Runs : RunInv(s)'
    BY <1>0, <1>1, <2>2 DEF IInv, Types, RunInv, Actors
  <2>6. CachedOnce' /\ NoRefusedTokenIsServed'
    <3>1. UNCHANGED <<refused, reissued>> /\ refused \subseteq Tokens \cup {"env"}
      BY DEF Begin, IInv, Types, TypeOK
    <3>2. CachedOnce'
      BY <2>3, <3>1 DEF IInv, CachedOnce, Unique
    <3> QED BY <1>1, <2>3, <3>1, <3>2 DEF IInv, NoRefusedTokenIsServed
  <2>7. HeldByItsRuns'
    <3>1. ASSUME NEW s \in Runs, NEW q \in Projects, run'[s].token \in Unique,
                 cache'[q].token = run'[s].token
          PROVE  run'[s].p = q
      <4>1. cache[q].token = run'[s].token /\ run'[s].token \in Tokens
        BY <2>3, <3>1 DEF Unique
      <4>2. CASE s = r
        BY <2>1, <2>2, <3>1, <4>1, <4>2 DEF IInv, CachedOnce
      <4>3. CASE s # r
        BY <2>2, <3>1, <4>1, <4>3 DEF IInv, HeldByItsRuns
      <4> QED BY <4>2, <4>3
    <3> QED BY <3>1 DEF Begin, HeldByItsRuns, Unique
  <2>8. ASSUME NEW a \in Actors, login'[a].token \in Unique' PROVE Arriving(a)'
    <3>1. login'[a].token = login[a].token /\ login[a].token \in Tokens /\ Arriving(a)
      BY <1>1, <2>8 DEF Begin, IInv, ArrivesOnce, Unique
    <3>2. \A q \in Projects : cache'[q].token # login'[a].token
      BY <2>3, <2>8, <3>1 DEF Arriving
    <3>3. \A s \in Runs : run'[s].token # login'[a].token
      BY <2>1, <2>2, <2>8, <3>1 DEF Arriving
    <3> QED BY <1>1, <3>1, <3>2, <3>3 DEF Arriving
  <2> QED BY <2>4, <2>5, <2>6, <2>7, <2>8 DEF IInv, Types, ArrivesOnce
<1>2. ASSUME run' = [run EXCEPT ![r].pc = "login", ![r].p = p, ![r].on = TRUE],
             cache' = [cache EXCEPT ![p] = Nothing],
             LogIn(r, p)
      PROVE  IInv'
  <2>1. /\ login' \in [Actors -> [on : BOOLEAN, p : Projects, token : Tokens \cup {NoToken}, left : Nat]]
        /\ login'[r].on /\ login'[r].token = NoToken /\ login'[r].p = p
        /\ \A b \in Actors : b # r => login'[b] = login[b]
    BY <1>2, LoginStarts DEF Actors
  <2>2. /\ run' \in [Runs -> [pc : {"idle", "login", "preflight", "send", "relogin", "done"},
                       p : Projects, on : BOOLEAN, token : Credential,
                       sent : 0..Cases, retried : BOOLEAN]]
        /\ \A s \in Runs : s # r => run'[s] = run[s]
        /\ run'[r].pc = "login" /\ run'[r].p = p /\ run'[r].token = NoToken /\ run'[r].sent = 0
    <3>2. run[r] \in [pc : {"idle", "login", "preflight", "send", "relogin", "done"},
                     p : Projects, on : BOOLEAN, token : Credential,
                     sent : 0..Cases, retried : BOOLEAN]
      BY RunRecord DEF IInv
    <3>3. PICK w : w = [run[r] EXCEPT !.pc = "login", !.p = p, !.on = TRUE]
      OBVIOUS
    <3>4. /\ w \in [pc : {"idle", "login", "preflight", "send", "relogin", "done"},
                     p : Projects, on : BOOLEAN, token : Credential,
                     sent : 0..Cases, retried : BOOLEAN]
         /\ w.pc = "login" /\ w.p = p /\ w.token = run[r].token /\ w.sent = run[r].sent
      BY <1>0, <3>2, <3>3
    <3>5. run' = [run EXCEPT ![r] = w]
      BY <1>2, <3>3
    <3> QED BY <1>0, <3>2, <3>4, <3>5 DEF IInv, Types, TypeOK
  <2>3. /\ cache' \in [Projects -> [token : Credential, left : Int]]
        /\ \A q \in Projects : cache'[q].token = cache[q].token \/ cache'[q].token \notin Tokens
    BY <1>2, NoneTypes DEF IInv, Types, TypeOK
  <2>4. TypeOK'
    BY <2>1, <2>2, <2>3 DEF Begin, IInv, Types, TypeOK, Actors
  <2>5. \A s \in Runs : RunInv(s)'
    BY <2>1, <2>2 DEF IInv, Types, RunInv, Actors
  <2>6. \A b \in Actors : login'[b].token = login[b].token \/ login'[b].token \notin Tokens
    BY <2>1
  <2>7. \A s \in Runs : run'[s].token \notin Tokens \/ (run'[s].token = run[s].token /\ run'[s].p = run[s].p)
    BY <2>2
  <2>8. CachedOnce' /\ HeldByItsRuns' /\ ArrivesOnce' /\ NoRefusedTokenIsServed'
    BY <2>3, <2>4, <2>6, <2>7, NoNewTokens DEF Begin
  <2> QED BY <2>4, <2>5, <2>8 DEF IInv, Types
<1>3. ASSUME run' = [run EXCEPT ![r].pc = "done"], UNCHANGED <<cache, login>>
      PROVE  IInv'
  <2>1. /\ run' \in [Runs -> [pc : {"idle", "login", "preflight", "send", "relogin", "done"},
                       p : Projects, on : BOOLEAN, token : Credential,
                       sent : 0..Cases, retried : BOOLEAN]]
        /\ \A s \in Runs : s # r => run'[s] = run[s]
        /\ run'[r].pc = "done" /\ run'[r].token = run[r].token /\ run'[r].p = run[r].p
    BY <1>3 DEF IInv, Types, TypeOK
  <2>2. TypeOK'
    BY <1>0, <1>3, <2>1 DEF Begin, IInv, Types, TypeOK, Actors
  <2>3. \A s \in Runs : RunInv(s)'
    BY <1>0, <1>3, <2>1 DEF IInv, Types, RunInv, Actors
  <2>4. CachedOnce' /\ HeldByItsRuns' /\ ArrivesOnce' /\ NoRefusedTokenIsServed'
    BY <1>3, <2>1, <2>2, NoNewTokens DEF Begin
  <2> QED BY <2>2, <2>3, <2>4 DEF IInv, Types
<1> QED BY <1>1, <1>2, <1>3 DEF Begin

LEMMA AnswerStep == ASSUME IInv, NEW r \in Runs, Answer(r) PROVE IInv'
<1> USE ConstantTypes
<1>0. run[r].pc = "send" /\ run[r].sent < Cases /\ ~login[r].on
  BY DEF Answer, IInv, Types, TypeOK, RunInv
<1>1. PICK w : w = AfterCase(run[r])
  OBVIOUS
<1>2. /\ w \in [pc : {"send", "done"}, p : Projects, on : BOOLEAN, token : Credential,
                sent : 0..Cases, retried : BOOLEAN]
      /\ w.pc = "send" => w.sent < Cases
      /\ w.p = run[r].p /\ w.token = run[r].token
  BY <1>0, <1>1, AfterCaseType, RunRecord DEF IInv
<1>3. run' = [run EXCEPT ![r] = w]
  BY <1>1 DEF Answer
<1>4. /\ run' \in [Runs -> [pc : {"idle", "login", "preflight", "send", "relogin", "done"},
                       p : Projects, on : BOOLEAN, token : Credential,
                       sent : 0..Cases, retried : BOOLEAN]]
      /\ run'[r] = w /\ \A s \in Runs : s # r => run'[s] = run[s]
  BY <1>2, <1>3 DEF IInv, Types, TypeOK
<1>5. TypeOK'
  BY <1>0, <1>2, <1>4 DEF Answer, IInv, Types, TypeOK
<1>6. \A s \in Runs : RunInv(s)'
  BY <1>0, <1>2, <1>4 DEF Answer, IInv, Types, RunInv
<1>7. CachedOnce' /\ HeldByItsRuns' /\ ArrivesOnce' /\ NoRefusedTokenIsServed'
  BY <1>2, <1>4, <1>5, NoNewTokens DEF Answer
<1> QED BY <1>5, <1>6, <1>7 DEF IInv, Types

\* A refused token leaves the only cache that can hold it, and no login has it.
LEMMA Rejected ==
  ASSUME IInv, NEW r \in Runs, UNCHANGED reissued,
         refused' = (refused \cap InUse) \cup ({run[r].token} \ {NoToken}),
         cache' \in [Projects -> [token : Credential, left : Int]],
         cache'[run[r].p].token \notin Tokens,
         \A q \in Projects : q # run[r].p => cache'[q].token = cache[q].token,
         \A a \in Actors : login'[a].token = login[a].token \/ login'[a].token \notin Tokens
  PROVE  NoRefusedTokenIsServed'
<1> SUFFICES ASSUME NEW t \in refused' \ (reissued \cup {"env"})
             PROVE  /\ \A q \in Projects : cache'[q].token # t
                    /\ \A a \in Actors : login'[a].token # t
  BY DEF NoRefusedTokenIsServed
<1>1. t \in Unique /\ (t \in refused \/ t = run[r].token)
  BY DEF IInv, Types, TypeOK, Credential, Unique
<1>2. \A q \in Projects : q # run[r].p => cache[q].token # t
  BY <1>1 DEF IInv, NoRefusedTokenIsServed, HeldByItsRuns
<1>3. \A a \in Actors : login[a].token # t
  BY <1>1 DEF IInv, NoRefusedTokenIsServed, ArrivesOnce, Arriving
<1> QED BY <1>1, <1>2, <1>3 DEF Unique

LEMMA RefusedStep == ASSUME IInv, NEW r \in Runs, Refused(r) PROVE IInv'
<1> USE ConstantTypes
<1>0. /\ run[r].pc = "send" /\ run[r].sent < Cases /\ ~login[r].on /\ run[r].p \in Projects
      /\ UNCHANGED <<env, enabled, updates, refresher, reissued>>
      /\ refused' = (refused \cap InUse) \cup ({run[r].token} \ {NoToken})
      /\ refused' \subseteq Tokens \cup {"env"}
  BY DEF Refused, IInv, Types, TypeOK, Credential, RunInv
<1>1. ASSUME NEW w \in [pc : {"send", "relogin", "done"}, p : Projects, on : BOOLEAN,
                        token : Credential, sent : 0..Cases, retried : BOOLEAN],
             run' = [run EXCEPT ![r] = w], w.p = run[r].p,
             w.token = run[r].token \/ w.token \notin Tokens,
             w.pc \in {"send", "relogin"} => w.sent < Cases,
             cache' \in [Projects -> [token : Credential, left : Int]],
             retryAt' \in [Projects -> Int],
             cache'[run[r].p].token \notin Tokens,
             \A q \in Projects : q # run[r].p => cache'[q].token = cache[q].token,
             login' \in [Actors -> [on : BOOLEAN, p : Projects, token : Tokens \cup {NoToken}, left : Nat]],
             login'[r].on <=> w.pc = "relogin",
             login'[r].on => login'[r].p = run[r].p,
             login'[r].token = login[r].token \/ login'[r].token \notin Tokens,
             \A b \in Actors : b # r => login'[b] = login[b]
      PROVE  IInv'
  <2>1. run'[r] = w /\ \A s \in Runs : s # r => run'[s] = run[s]
    BY <1>1 DEF IInv, Types, TypeOK
  <2>2. run' \in [Runs -> [pc : {"idle", "login", "preflight", "send", "relogin", "done"},
                           p : Projects, on : BOOLEAN, token : Credential,
                           sent : 0..Cases, retried : BOOLEAN]]
    BY <1>1 DEF IInv, Types, TypeOK
  <2>3. TypeOK'
    <3>1. /\ UNCHANGED <<env, enabled, updates, refresher, reissued>>
          /\ refused' \subseteq Tokens \cup {"env"} /\ ~login[r].on /\ run[r].pc = "send"
      BY <1>0
    <3>2. /\ login'["refresher"].on <=> refresher'.pc = "login"
          /\ \A s \in Runs : login'[s].on <=> run'[s].pc \in {"login", "preflight", "relogin"}
      BY <1>1, <2>1, <3>1 DEF IInv, Types, TypeOK, Actors
    <3>3. /\ cache' \in [Projects -> [token : Credential, left : Int]]
          /\ retryAt' \in [Projects -> Int]
          /\ login' \in [Actors -> [on : BOOLEAN, p : Projects, token : Tokens \cup {NoToken}, left : Nat]]
      BY <1>1
    <3> QED BY <2>2, <3>1, <3>2, <3>3 DEF IInv, Types, TypeOK
  <2>4. \A s \in Runs : RunInv(s)'
    BY <1>1, <2>1 DEF IInv, Types, RunInv, Actors
  <2>5. \A b \in Actors : login'[b].token = login[b].token \/ login'[b].token \notin Tokens
    BY <1>1
  <2>6. \A q \in Projects : cache'[q].token = cache[q].token \/ cache'[q].token \notin Tokens
    BY <1>1
  <2>7. \A s \in Runs : run'[s].token \notin Tokens \/ (run'[s].token = run[s].token /\ run'[s].p = run[s].p)
    BY <1>1, <2>1
  <2>8. NoRefusedTokenIsServed'
    BY <1>0, <1>1, <2>5, Rejected
  <2>9. CachedOnce' /\ HeldByItsRuns' /\ ArrivesOnce'
    BY <1>0, <2>5, <2>6, <2>7, TokensStay
  <2> QED BY <2>3, <2>4, <2>8, <2>9 DEF IInv, Types
<1>2. ASSUME Invalidated(run[r].p),
             run' = [run EXCEPT ![r].pc = "relogin", ![r].retried = TRUE],
             LogIn(r, run[r].p)
      PROVE  IInv'
  <2>1. run[r] \in [pc : {"idle", "login", "preflight", "send", "relogin", "done"},
                    p : Projects, on : BOOLEAN, token : Credential,
                    sent : 0..Cases, retried : BOOLEAN]
    BY RunRecord DEF IInv
  <2>2. PICK w : w = [run[r] EXCEPT !.pc = "relogin", !.retried = TRUE]
    OBVIOUS
  <2>3. /\ w \in [pc : {"send", "relogin", "done"}, p : Projects, on : BOOLEAN,
                  token : Credential, sent : 0..Cases, retried : BOOLEAN]
        /\ w.pc = "relogin" /\ w.p = run[r].p /\ w.token = run[r].token /\ w.sent < Cases
    BY <1>0, <2>1, <2>2
  <2>4. run' = [run EXCEPT ![r] = w]
    BY <1>2, <2>2
  <2>5. /\ login' \in [Actors -> [on : BOOLEAN, p : Projects, token : Tokens \cup {NoToken}, left : Nat]]
        /\ login'[r].on /\ login'[r].token = NoToken /\ login'[r].p = run[r].p
        /\ \A b \in Actors : b # r => login'[b] = login[b]
    BY <1>0, <1>2, LoginStarts DEF Actors
  <2>6. /\ cache' \in [Projects -> [token : Credential, left : Int]]
        /\ retryAt' \in [Projects -> Int]
        /\ cache'[run[r].p].token = NoToken
        /\ \A q \in Projects : q # run[r].p => cache'[q].token = cache[q].token
    BY <1>0, <1>2, InvalidatedTypes
  <2> QED BY <1>1, <2>3, <2>4, <2>5, <2>6
<1>3. ASSUME NEW t \in {NoToken, "env"},
             run' = [run EXCEPT ![r] = Resent([@ EXCEPT !.retried = TRUE], t)],
             cache' = [cache EXCEPT ![run[r].p] = IF t = "env" THEN Fresh(t) ELSE Nothing],
             retryAt' = [retryAt EXCEPT ![run[r].p] = Past],
             UNCHANGED login
      PROVE  IInv'
  <2>1. run[r] \in [pc : {"idle", "login", "preflight", "send", "relogin", "done"},
                    p : Projects, on : BOOLEAN, token : Credential,
                    sent : 0..Cases, retried : BOOLEAN]
    BY RunRecord DEF IInv
  <2>2. PICK v : v = [run[r] EXCEPT !.retried = TRUE]
    OBVIOUS
  <2>3. /\ v \in [pc : {"idle", "login", "preflight", "send", "relogin", "done"},
                  p : Projects, on : BOOLEAN, token : Credential,
                  sent : 0..Cases, retried : BOOLEAN]
        /\ v.sent < Cases /\ v.p = run[r].p /\ v.token = run[r].token
    BY <1>0, <2>1, <2>2
  <2>4. t \in Credential /\ t \notin Tokens
    BY <1>3 DEF Credential
  <2>5. PICK w : w = Resent(v, t)
    OBVIOUS
  <2>6. /\ w \in [pc : {"send", "done"}, p : Projects, on : BOOLEAN, token : Credential,
                  sent : 0..Cases, retried : BOOLEAN]
        /\ w.pc = "send" => w.sent < Cases
        /\ w.p = v.p /\ w.token \in {v.token, t}
    BY <2>3, <2>4, <2>5, ResentType
  <2>7. run' = [run EXCEPT ![r] = w]
    BY <1>3, <2>2, <2>5
  <2>8. PICK c : c = IF t = "env" THEN Fresh(t) ELSE Nothing
    OBVIOUS
  <2>9. c \in [token : Credential, left : Int] /\ c.token \notin Tokens
    BY <2>4, <2>8, NoneTypes
  <2>10. cache' = [cache EXCEPT ![run[r].p] = c]
    BY <1>3, <2>8
  <2>11. /\ cache' \in [Projects -> [token : Credential, left : Int]]
         /\ cache'[run[r].p].token \notin Tokens
         /\ \A q \in Projects : q # run[r].p => cache'[q].token = cache[q].token
    BY <1>0, <2>9, <2>10 DEF IInv, Types, TypeOK
  <2>12. retryAt' \in [Projects -> Int]
    BY <1>3, PastType DEF IInv, Types, TypeOK
  <2>13. login' \in [Actors -> [on : BOOLEAN, p : Projects, token : Tokens \cup {NoToken}, left : Nat]]
    BY <1>3 DEF IInv, Types, TypeOK
  <2>14. /\ w \in [pc : {"send", "relogin", "done"}, p : Projects, on : BOOLEAN,
                   token : Credential, sent : 0..Cases, retried : BOOLEAN]
         /\ w.pc # "relogin" /\ (w.pc \in {"send", "relogin"} => w.sent < Cases)
    BY <2>6
  <2>15. w.p = run[r].p /\ (w.token = run[r].token \/ w.token \notin Tokens)
    BY <2>3, <2>4, <2>6
  <2>16. /\ ~login'[r].on /\ login'[r].token = login[r].token
         /\ \A b \in Actors : b # r => login'[b] = login[b]
    BY <1>0, <1>3
  <2> QED BY <1>1, <2>7, <2>11, <2>12, <2>13, <2>14, <2>15, <2>16
<1> QED BY <1>2, <1>3 DEF Refused

-----------------------------------------------------------------------------

LEMMA Step == ASSUME IInv, [Next]_vars PROVE IInv'
<1>1. ASSUME UNCHANGED vars PROVE IInv'
  <2>1. TypeOK'
    BY <1>1 DEF vars, IInv, Types, TypeOK
  <2> QED BY <1>1, <2>1, StillTokens DEF vars
<1>2. ASSUME NEW a \in Actors, Issue(a) \/ Succeed(a) \/ LoginFails(a) \/ Raise(a) PROVE IInv'
  BY <1>2, IssueStep, SucceedStep, LoginFailsStep, RaiseStep
<1>3. ASSUME NEW r \in Runs, Answer(r) \/ Refused(r) \/ \E p \in Projects : Begin(r, p) \/ Preflight(r, p)
      PROVE  IInv'
  BY <1>3, AnswerStep, RefusedStep, BeginStep, PreflightStep
<1>4. ASSUME Wake(enabled) \/ Wake({}) \/ Sleep PROVE IInv'
  <2>1. enabled \in SUBSET Projects /\ {} \in SUBSET Projects
    BY DEF IInv, Types, TypeOK
  <2> QED BY <1>4, <2>1, WakeStep, SleepStep
<1>5. ASSUME NEW p \in Projects, Update(p) \/ Skip(p) \/ Refresh(p) PROVE IInv'
  BY <1>5, UpdateStep, SkipStep, RefreshStep
<1> QED BY <1>1, <1>2, <1>3, <1>4, <1>5, TickStep DEF Next

-----------------------------------------------------------------------------
(* Theorems.                                                               *)

\* The invariant that makes tokens traceable: each that one login brought is
\* cached for one project, held by runs of that project, and on one way to it,
\* whatever logins, runs, updates and refreshes overlap.
THEOREM Invariant == Spec => []IInv
<1>1. Init => IInv
  BY Start
<1>2. IInv /\ [Next]_vars => IInv'
  BY Step
<1> QED BY <1>1, <1>2, PTL DEF Spec

\* Every variable of the provider, the refresh task and the runs stays within
\* its type, and whoever waits for a login has one under way.
THEOREM TypeCorrect == Spec => []TypeOK
<1>1. IInv => TypeOK
  BY DEF IInv, Types
<1> QED BY <1>1, Invariant, PTL

\* For any number of projects, runs and tokens, a token that a run reported as
\* refused is in no cache and on no way to one (auth.py 208-213), but for the
\* environment's and for tokens that the service has issued more than once.
THEOREM RefusedCorrect == Spec => []NoRefusedTokenIsServed
<1>1. IInv => NoRefusedTokenIsServed
  BY DEF IInv
<1> QED BY <1>1, Invariant, PTL
=============================================================================
