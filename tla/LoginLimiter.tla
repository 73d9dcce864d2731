---------------------------- MODULE LoginLimiter ----------------------------
(***************************************************************************)
(* The limit on failed logins of one name and address (api/v1/auth.py,     *)
(* RedisClient.rate_limit) in one window: kept in Redis, with a count of   *)
(* its own in each worker of the API for when its call to Redis fails.     *)
(***************************************************************************)
EXTENDS Integers, FiniteSets, ApiProcesses

CONSTANTS
  Logins,        \* logins served at the same time
  LoginLimit,    \* LOGIN_RATE_LIMIT_ATTEMPTS
  MaxFailures,   \* bound: failed logins
  MaxLimitUpsets \* bound: failing Redis calls and restarts of workers

ASSUME LoginLimiterAssumption ==
  /\ IsFiniteSet(Logins) /\ Logins # {}
  /\ LoginLimit \in Nat /\ MaxFailures \in Nat /\ MaxLimitUpsets \in Nat

VARIABLES
  login,     \* what each login is about to do
  servedBy,  \* the worker that serves it
  tried,     \* failed logins
  failures,  \* failures counted, per store
  admitted,  \* history: those answered 401 and not 429, per store
  shared,    \* history: those that left no entry of their own in Redis
  restarts,  \* of each worker
  limitUpsets

limiterVars == <<login, servedBy, tried, failures, admitted, shared, restarts, limitUpsets>>

LoginLimiterTypeOK ==
  /\ login \in [Logins -> {"idle", "count", "add"}]
  /\ servedBy \in [Logins -> ApiWorkers] /\ tried \in 0 .. MaxFailures
  /\ failures \in [Stores -> Nat] /\ admitted \in [Stores -> Nat] /\ shared \in Nat
  /\ restarts \in [ApiWorkers -> 0 .. MaxLimitUpsets] /\ limitUpsets \in 0 .. MaxLimitUpsets

LoginLimiterInit ==
  /\ login = [l \in Logins |-> "idle"]
  /\ servedBy = [l \in Logins |-> CHOOSE w \in ApiWorkers : TRUE] /\ tried = 0
  /\ failures = [c \in Stores |-> 0] /\ admitted = [c \in Stores |-> 0]
  /\ shared = 0 /\ restarts = [w \in ApiWorkers |-> 0] /\ limitUpsets = 0

countVars == <<failures, admitted, shared, restarts>>

Moves(l, from, to) == login[l] = from /\ login' = [login EXCEPT ![l] = to]
LimitUpset == limitUpsets < MaxLimitUpsets /\ limitUpsets' = limitUpsets + 1
Counted(c) == failures' = [failures EXCEPT ![c] = @ + 1]
Admitted(c) == admitted' = [admitted EXCEPT ![c] = @ + 1]

\* mutant: one failure more than the limit
Full_OneMore(c) == failures[c] > LoginLimit
Full(c) == failures[c] >= LoginLimit

-----------------------------------------------------------------------------
(* authenticate refuses, for any reason *)
LoginFails(l) ==
  /\ Moves(l, "idle", "count")
  /\ \E w \in ApiWorkers : servedBy' = [servedBy EXCEPT ![l] = w]
  /\ tried < MaxFailures /\ tried' = tried + 1
  /\ UNCHANGED <<countVars, limitUpsets>>

(* rate_limit: one pipeline counts the window, *)
CountWindow(l) ==
  /\ Moves(l, "count", IF Full("redis") THEN "idle" ELSE "add")
  /\ UNCHANGED <<servedBy, tried, countVars, limitUpsets>>

(* and a second one adds an entry, named by its millisecond: two of the    *)
(* same one are a single entry.                                            *)
AddEntry(l) ==
  /\ Moves(l, "add", "idle")
  /\ Admitted("redis")
  /\ \/ Counted("redis") /\ UNCHANGED shared
     \/ failures["redis"] > 0 /\ shared' = shared + 1 /\ UNCHANGED failures
  /\ UNCHANGED <<servedBy, tried, restarts, limitUpsets>>

(* _fallback_consume, after either call *)
CountInProcess(l) ==
  /\ LimitUpset
  /\ login[l] # "idle" /\ login' = [login EXCEPT ![l] = "idle"]
  /\ IF Full(servedBy[l]) THEN UNCHANGED <<failures, admitted>>
     ELSE Counted(servedBy[l]) /\ Admitted(servedBy[l])
  /\ UNCHANGED <<servedBy, tried, shared, restarts>>

RestartProcess(w) ==
  /\ LimitUpset
  /\ restarts' = [restarts EXCEPT ![w] = @ + 1]
  /\ login' = [l \in Logins |-> IF servedBy[l] = w THEN "idle" ELSE login[l]]
  /\ failures' = [failures EXCEPT ![w] = 0]
  /\ UNCHANGED <<servedBy, tried, admitted, shared>>

LoginLimiterNext ==
  \/ \E l \in Logins : LoginFails(l) \/ CountWindow(l) \/ AddEntry(l) \/ CountInProcess(l)
  \/ \E w \in ApiWorkers : RestartProcess(w)

LoginLimiterSpec == LoginLimiterInit /\ [][LoginLimiterNext]_limiterVars

-----------------------------------------------------------------------------
\* "an outage NEVER fails open to unlimited attempts" (auth.py:90): each counter admits
\* LOGIN_RATE_LIMIT_ATTEMPTS failures, Redis also those that overlap between its two
\* pipelines or share a millisecond, and a worker as many again after a restart.  The
\* counts do not add up: while Redis is away, the limit holds for each worker.
FailuresAreLimited ==
  /\ admitted["redis"] <= LoginLimit + (Cardinality(Logins) - 1) + shared
  /\ \A w \in ApiWorkers : admitted[w] <= LoginLimit * (1 + restarts[w])
=============================================================================
