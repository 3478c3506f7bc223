----------------------------- MODULE AuthRefresh -----------------------------
(***************************************************************************)
(* Credentials for the tested service (executor/auth.py): the cache of     *)
(* tokens, the task that refreshes it while the backend lives, the runs    *)
(* that take tokens from it and log in again when one is refused           *)
(* (workflow/execution.py), and the routes that save project settings and  *)
(* try a login out (api/routes/projects.py).                               *)
(*                                                                         *)
(* All of them share one event loop: a step lasts from one await to the    *)
(* next, and only a login, a request, and the sleep of the task take time. *)
(* Time passes in ticks; what the code compares with the clock is kept as  *)
(* the ticks that are left, below zero once it is past.                    *)
(*                                                                         *)
(* A project has one target, which the target policy allows.  Its provider *)
(* is either configured, with a lifetime for tokens, or off.  The tested   *)
(* service answers a login with a new token or with one that somebody has  *)
(* already, and may refuse any token at any time.  Tokens that nobody      *)
(* holds any longer stand for new ones.                                    *)
(***************************************************************************)
EXTENDS Integers, FiniteSets

CONSTANTS
  Projects,
  Runs,         \* requests that execute cases, or try a login out
  Tokens,
  NoToken,
  Ttl,          \* token_ttl_seconds
  RetryDelay,   \* 5 in the code
  Timeout,      \* the longest a login takes: timeout_seconds for each request of it
  Cases,        \* cases that a run sends
  MaxUpdates,   \* times that settings are saved (bounds the model)
  MayRaise      \* may a login raise what resolve does not expect?

ASSUME AuthAssumption ==
  /\ NoToken \notin Tokens /\ "env" \notin Tokens \cup {NoToken}
  /\ "refresher" \notin Runs
  /\ IsFiniteSet(Projects) /\ Projects # {}
  /\ {Ttl, RetryDelay, Timeout, Cases} \subseteq Nat \ {0}
  /\ MaxUpdates \in Nat
  /\ MayRaise \in BOOLEAN

VARIABLES
  env,        \* is there a token in the environment (API_TEST_AUTH_TOKEN)?
  enabled,    \* projects whose saved settings configure the provider
  updates,    \* times that settings were saved
  cache,      \* _cache
  retryAt,    \* _refresh_retry_at
  login,      \* the logins under way
  refresher,  \* the refresh task
  run,        \* the requests
  refused,    \* credentials that a run has reported as refused
  reissued    \* tokens that the service issued while somebody had them

vars == <<env, enabled, updates, cache, retryAt, login, refresher, run, refused, reissued>>

Actors == Runs \cup {"refresher"}
Credential == Tokens \cup {"env", NoToken}

\* The refresh task reads the clock once a pass, which lasts at most a login
\* for each project; what is past for longer need not be told apart.
MaxAge == Timeout * Cardinality(Projects)
Past == 0 - MaxAge
Later(left) == IF left > Past THEN left - 1 ELSE left

Nothing == [token |-> NoToken, left |-> 0]
Fresh(t) == [token |-> t, left |-> Ttl]
NoLogin == [on |-> FALSE, p |-> CHOOSE p \in Projects : TRUE, token |-> NoToken, left |-> 0]

Cached(p) == cache[p].token # NoToken
Usable(p) == Cached(p) /\ (cache[p].token = "env" \/ cache[p].left > 0)

InUse == {cache[p].token : p \in Projects} \cup {run[r].token : r \in Runs}
           \cup {login[a].token : a \in Actors}

Init ==
  /\ env \in BOOLEAN
  /\ enabled \in SUBSET Projects /\ updates = 0
  /\ cache = [p \in Projects |-> Nothing]
  /\ retryAt = [p \in Projects |-> Past]
  /\ login = [a \in Actors |-> NoLogin]
  /\ refresher = [pc |-> "asleep", todo |-> {}, age |-> 0, left |-> 0]
  /\ run = [r \in Runs |-> [pc |-> "idle", p |-> NoLogin.p, on |-> FALSE,
                            token |-> NoToken, sent |-> 0, retried |-> FALSE]]
  /\ refused = {} /\ reissued = {}

-----------------------------------------------------------------------------
(* What an actor does once resolve gives it a credential, or NoToken when  *)
(* it raises AutomaticAuthenticationError.                                 *)

AfterCase(v) == [v EXCEPT !.sent = @ + 1, !.pc = IF v.sent + 1 < Cases THEN "send" ELSE "done"]

\* A refused case is sent again only with another token; if there is none, the
\* cases that are left are sent with the old one.
Resent(v, t) == IF t \in {NoToken, v.token} THEN AfterCase(v)
                ELSE [v EXCEPT !.pc = "send", !.token = t]

RunGets(r, t) ==
  /\ \/ /\ run[r].pc = "login" /\ t # NoToken
        /\ run' = [run EXCEPT ![r].pc = "send", ![r].token = t]
     \/ /\ run[r].pc = "preflight" \/ (run[r].pc = "login" /\ t = NoToken)
        /\ run' = [run EXCEPT ![r].pc = "done"]
     \/ run[r].pc = "relogin" /\ run' = [run EXCEPT ![r] = Resent(@, t)]
  /\ UNCHANGED <<retryAt, refresher>>

\* The delay is counted from the start of the pass.
Delay == RetryDelay - refresher.age

RefresherGets(t) ==
  /\ retryAt' = [retryAt EXCEPT ![login["refresher"].p] = IF t = NoToken THEN Delay ELSE Past]
  /\ refresher' = [refresher EXCEPT !.pc = "pass", !.todo = @ \ {login["refresher"].p}]
  /\ UNCHANGED run

Gets(a, t) == (a = "refresher" /\ RefresherGets(t)) \/ (a \in Runs /\ RunGets(a, t))

-----------------------------------------------------------------------------
(* Logins: _resolve_configured_http and _resolve_sms.                      *)

LogIn(a, p) ==
  login' = [login EXCEPT ![a] = [on |-> TRUE, p |-> p, token |-> NoToken, left |-> Timeout]]

\* The tested service accepts a login; its answer, with a new token or with one
\* that it has issued before, is on its way.
Issue(a) ==
  /\ login[a].on /\ login[a].token = NoToken
  /\ \E t \in Tokens :
       /\ login' = [login EXCEPT ![a].token = t]
       /\ \/ t \in InUse /\ reissued' = reissued \cup {t} /\ UNCHANGED refused
          \/ /\ t \notin InUse /\ t = CHOOSE u \in Tokens \ InUse : TRUE
             /\ reissued' = reissued \ {t}
             /\ refused' = refused \ {t}
  /\ UNCHANGED <<env, enabled, updates, cache, retryAt, refresher, run>>

\* Whatever happened to the cache or to the settings in the meantime.
Succeed(a) ==
  /\ login[a].on /\ login[a].token # NoToken
  /\ cache' = [cache EXCEPT ![login[a].p] = Fresh(login[a].token)]
  /\ login' = [login EXCEPT ![a] = NoLogin]
  /\ Gets(a, login[a].token)
  /\ UNCHANGED <<env, enabled, updates, refused, reissued>>

\* Refused, unreachable, out of time, or without a token in the answer.
LoginFails(a) ==
  /\ login[a].on
  /\ login' = [login EXCEPT ![a] = NoLogin]
  /\ \/ /\ env
        /\ cache' = [cache EXCEPT ![login[a].p] = Fresh("env")]
        /\ Gets(a, "env")
     \/ ~env /\ Gets(a, NoToken) /\ UNCHANGED cache
  /\ UNCHANGED <<env, enabled, updates, refused, reissued>>

\* Any other exception, such as the httpx.CookieConflict of an answer that sets
\* one cookie twice, fails a run and ends the refresh task.
Raise(a) ==
  /\ MayRaise /\ login[a].on
  /\ login' = [login EXCEPT ![a] = NoLogin]
  /\ \/ /\ a = "refresher" /\ refresher' = [refresher EXCEPT !.pc = "dead", !.todo = {}]
        /\ UNCHANGED run
     \/ a \in Runs /\ run' = [run EXCEPT ![a].pc = "done"] /\ UNCHANGED refresher
  /\ UNCHANGED <<env, enabled, updates, cache, retryAt, refused, reissued>>

-----------------------------------------------------------------------------
(* Runs.  A run keeps the settings it began with.                          *)

\* Mutant of Invalidated: the token stays.
InvalidatedDelayOnly(p) ==
  /\ retryAt' = [retryAt EXCEPT ![p] = Past]
  /\ UNCHANGED cache

Invalidated(p) ==
  /\ cache' = [cache EXCEPT ![p] = Nothing]
  /\ retryAt' = [retryAt EXCEPT ![p] = Past]

\* With the provider off, what is in the cache serves without a look at its
\* age, and cases that need no credential go without.
Served(p) == {t \in Credential :
  \/ t = cache[p].token /\ Cached(p) /\ (Usable(p) \/ p \notin enabled)
  \/ t = "env" /\ env /\ p \notin enabled /\ ~Cached(p)
  \/ t = NoToken /\ p \notin enabled}

Begin(r, p) ==
  /\ run[r].pc = "idle"
  /\ \/ \E t \in Served(p) :
          /\ run' = [run EXCEPT ![r].pc = "send", ![r].p = p, ![r].on = p \in enabled,
                                ![r].token = t]
          /\ cache' = IF t = "env" THEN [cache EXCEPT ![p] = Fresh(t)] ELSE cache
          /\ UNCHANGED login
     \/ /\ p \in enabled /\ ~Usable(p)
        /\ run' = [run EXCEPT ![r].pc = "login", ![r].p = p, ![r].on = TRUE]
        /\ cache' = [cache EXCEPT ![p] = Nothing]
        /\ LogIn(r, p)
     \/ /\ p \notin enabled /\ ~Cached(p) /\ ~env    \* cases that need a credential
        /\ run' = [run EXCEPT ![r].pc = "done"]
        /\ UNCHANGED <<cache, login>>
  /\ UNCHANGED <<env, enabled, updates, retryAt, refresher, refused, reissued>>

\* A case was answered, or refused once more.
Answer(r) ==
  /\ run[r].pc = "send"
  /\ run' = [run EXCEPT ![r] = AfterCase(@)]
  /\ UNCHANGED <<env, enabled, updates, cache, retryAt, login, refresher, refused, reissued>>

\* Mutant of Refused: a run may log in again for every case, and again.
RefusedEndlessly(r) ==
  /\ run[r].pc = "send" /\ run[r].on
  /\ refused' = (refused \cap InUse) \cup ({run[r].token} \ {NoToken})
  /\ Invalidated(run[r].p)
  /\ run' = [run EXCEPT ![r].pc = "relogin"]
  /\ LogIn(r, run[r].p)
  /\ UNCHANGED <<env, enabled, updates, refresher, reissued>>

\* The first case answered with 401 that was not meant to be.
Refused(r) ==
  /\ run[r].pc = "send" /\ ~run[r].retried
  /\ refused' = (refused \cap InUse) \cup ({run[r].token} \ {NoToken})
  /\ \/ /\ run[r].on
        /\ Invalidated(run[r].p)
        /\ run' = [run EXCEPT ![r].pc = "relogin", ![r].retried = TRUE]
        /\ LogIn(r, run[r].p)
     \/ /\ ~run[r].on
        /\ \E t \in {NoToken} \cup (IF env THEN {"env"} ELSE {}) :
             /\ run' = [run EXCEPT ![r] = Resent([@ EXCEPT !.retried = TRUE], t)]
             /\ cache' = [cache EXCEPT ![run[r].p] = IF t = "env" THEN Fresh(t) ELSE Nothing]
        /\ retryAt' = [retryAt EXCEPT ![run[r].p] = Past]
        /\ UNCHANGED login
  /\ UNCHANGED <<env, enabled, updates, refresher, reissued>>

\* refresh_project_auth: a login tried out on request.
Preflight(r, p) ==
  /\ run[r].pc = "idle" /\ p \in enabled
  /\ Invalidated(p)
  /\ run' = [run EXCEPT ![r].pc = "preflight", ![r].p = p, ![r].on = TRUE]
  /\ LogIn(r, p)
  /\ UNCHANGED <<env, enabled, updates, refresher, refused, reissued>>

\* update_project and delete_project: no await between the save and the cache.
Update(p) ==
  /\ updates < MaxUpdates /\ updates' = updates + 1
  /\ enabled' \in {enabled \cup {p}, enabled \ {p}}
  /\ Invalidated(p)
  /\ UNCHANGED <<env, login, refresher, run, refused, reissued>>

-----------------------------------------------------------------------------
(* The refresh task: a pass over the projects, as they are when it starts, *)
(* and a second of sleep.  Its first pass is like the others, since there  *)
(* is no delay to force yet.                                               *)

\* A pass does nothing when the projects cannot be read.
Wake(projects) ==
  /\ refresher.pc = "asleep" /\ refresher.left = 0
  /\ refresher' = [pc |-> "pass", todo |-> projects, age |-> 0, left |-> 0]
  /\ UNCHANGED <<env, enabled, updates, cache, retryAt, login, run, refused, reissued>>

\* Mutant of Due: only what is missing is due.
DueMissing(p) == ~Cached(p) /\ retryAt[p] + refresher.age <= 0

\* By the clock of the start of the pass.
Due(p) ==
  /\ ~Cached(p) \/ (cache[p].token # "env" /\ cache[p].left + refresher.age <= 0)
  /\ retryAt[p] + refresher.age <= 0

Skip(p) ==
  /\ refresher.pc = "pass" /\ p \in refresher.todo /\ ~Due(p)
  /\ refresher' = [refresher EXCEPT !.todo = @ \ {p}]
  /\ UNCHANGED <<env, enabled, updates, cache, retryAt, login, run, refused, reissued>>

Refresh(p) ==
  /\ refresher.pc = "pass" /\ p \in refresher.todo /\ Due(p)
  /\ cache' = [cache EXCEPT ![p] = Nothing]
  /\ LogIn("refresher", p)
  /\ refresher' = [refresher EXCEPT !.pc = "login"]
  /\ UNCHANGED <<env, enabled, updates, retryAt, run, refused, reissued>>

Sleep ==
  /\ refresher.pc = "pass" /\ refresher.todo = {}
  /\ refresher' = [refresher EXCEPT !.pc = "asleep", !.age = 0, !.left = 1]
  /\ UNCHANGED <<env, enabled, updates, cache, retryAt, login, run, refused, reissued>>

-----------------------------------------------------------------------------

\* Time stands still for steps without an await, and for a timer that is due.
Tick ==
  /\ refresher.pc # "pass" /\ ~(refresher.pc = "asleep" /\ refresher.left = 0)
  /\ \A a \in Actors : login[a].on => login[a].left > 0
  /\ cache' = [p \in Projects |-> IF cache[p].token \in {NoToken, "env"} THEN cache[p]
                                  ELSE [cache[p] EXCEPT !.left = Later(@)]]
  /\ retryAt' = [p \in Projects |-> Later(retryAt[p])]
  /\ login' = [a \in Actors |-> IF login[a].on THEN [login[a] EXCEPT !.left = @ - 1]
                                ELSE login[a]]
  /\ refresher' = [refresher EXCEPT !.left = IF refresher.pc = "asleep" THEN @ - 1 ELSE @,
                                    !.age = IF refresher.pc = "login" THEN @ + 1 ELSE @]
  /\ UNCHANGED <<env, enabled, updates, run, refused, reissued>>

Next ==
  \/ \E a \in Actors : Issue(a) \/ Succeed(a) \/ LoginFails(a) \/ Raise(a)
  \/ \E r \in Runs : Answer(r) \/ Refused(r) \/ \E p \in Projects : Begin(r, p) \/ Preflight(r, p)
  \/ Wake(enabled) \/ Wake({}) \/ Sleep
  \/ \E p \in Projects : Update(p) \/ Skip(p) \/ Refresh(p)
  \/ Tick

Spec == Init /\ [][Next]_vars

\* Time passes; the task and the runs get their turns on the event loop; every
\* login ends, every case is answered; the projects can be read, and the login
\* of a project succeeds, if they are tried again and again.
Fairness ==
  /\ WF_vars(Tick) /\ WF_vars(Sleep) /\ SF_vars(Wake(enabled))
  /\ \A p \in Projects :
       /\ WF_vars(Skip(p)) /\ WF_vars(Refresh(p))
       /\ SF_vars(login["refresher"].p = p /\ Issue("refresher"))
       /\ SF_vars(login["refresher"].p = p /\ Succeed("refresher"))
  /\ \A a \in Actors : WF_vars(LoginFails(a))
  /\ \A r \in Runs : WF_vars(Answer(r))

FairSpec == Spec /\ Fairness

-----------------------------------------------------------------------------
(* Properties.                                                             *)

(* Every variable stays within its type; an actor waits for a login exactly  *)
(* when one is under way for it.                                             *)
TypeOK ==
  /\ env \in BOOLEAN
  /\ enabled \subseteq Projects /\ updates \in 0..MaxUpdates
  /\ cache \in [Projects -> [token : Credential, left : Int]]
  /\ retryAt \in [Projects -> Int]
  /\ login \in [Actors -> [on : BOOLEAN, p : Projects, token : Tokens \cup {NoToken},
                           left : Nat]]
  /\ refresher \in [pc : {"asleep", "pass", "login", "dead"}, todo : SUBSET Projects,
                    age : Nat, left : Nat]
  /\ run \in [Runs -> [pc : {"idle", "login", "preflight", "send", "relogin", "done"},
                       p : Projects, on : BOOLEAN, token : Credential,
                       sent : 0..Cases, retried : BOOLEAN]]
  /\ refused \subseteq Tokens \cup {"env"} /\ reissued \subseteq Tokens
  /\ login["refresher"].on <=> refresher.pc = "login"
  /\ \A r \in Runs : login[r].on <=> run[r].pc \in {"login", "preflight", "relogin"}

(* A token that a run reported as refused is in no cache and on no way to    *)
(* one, whatever logins were under way when it was reported (execution.py    *)
(* 242-254, auth.py 208-213).  Two credentials may come back, since nothing  *)
(* remembers what was refused: the one of the environment, cached for every  *)
(* failed login and without an end (auth.py 176-184, 198-201), and one that  *)
(* the service issues again (auth.py 185-188; execution.py 258 only spares   *)
(* the refused case a second try with it).                                   *)
NoRefusedTokenIsServed ==
  \A t \in refused \ (reissued \cup {"env"}) :
    /\ \A p \in Projects : cache[p].token # t
    /\ \A a \in Actors : login[a].token # t

(* While the task lives, a project whose provider is configured has a usable *)
(* credential again and again (auth.py:75).                                  *)
RefresherServes ==
  \A p \in Projects :
    p \in enabled ~> (Usable(p) \/ p \notin enabled \/ refresher.pc = "dead")

(* A run ends, however its cases and its logins are answered.                *)
RunsEnd == \A r \in Runs : run[r].pc # "idle" ~> run[r].pc = "done"

(* auth.py:146: "A short retry delay [...] without hammering an unavailable  *)
(* login endpoint": after a background login that failed, the delay is not   *)
(* over at once.                                                             *)
FailuresAreFollowedByADelay ==
  [][\A p \in Projects :
       (LoginFails("refresher") /\ login["refresher"].p = p /\ ~Usable(p)') => retryAt[p]' > 0]_vars
=============================================================================
