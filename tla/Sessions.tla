------------------------------ MODULE Sessions ------------------------------
(***************************************************************************)
(* Sessions of one user (api/v1/auth.py, core/security.py, api/deps.py):   *)
(* login, rotation of refresh tokens, logout and the check of an access    *)
(* token.  Each worker of the API serves several requests at a time; the   *)
(* denylist is in Redis and, when a call to Redis fails, in the worker     *)
(* that made it.  Failed logins are in LoginLimiter.                       *)
(*                                                                         *)
(* A login or a rotation mints a pair of tokens, numbered from 1.  Entries *)
(* of the denylist live as long as their token, so expiry is left out; so  *)
(* are signatures and password hashes, which either match or do not.       *)
(***************************************************************************)
EXTENDS Integers, ApiProcesses

CONSTANTS
  AuthRequests,   \* requests served at the same time
  MaxPairs,       \* bound: token pairs minted
  MaxAuthUpsets   \* bound: failing Redis calls, restarts, changes of the user

ASSUME SessionsAssumption == MaxPairs \in Nat /\ MaxAuthUpsets \in Nat

VARIABLES
  call,       \* what each request is about to do, with which pair, in which worker
  redisDeny,  \* jti revoked in Redis
  localDeny,  \* _revoked_jtis of each worker
  active,     \* the user is active
  minted,
  rotated,    \* history: claims won, per pair and store
  loggedOut,  \* history: jti revoked by a logout, and the store it went to
  authUpsets

sessionVars == <<call, redisDeny, localDeny, active, minted, rotated, loggedOut,
                 authUpsets>>

Pairs == 1 .. MaxPairs
Jti == {"access", "refresh"} \X Pairs
Steps == {"claim", "rotate", "revokeAccess", "revokeRefresh", "check", "load"}
NoCall == [at |-> "idle"]

SessionsTypeOK ==
  /\ call \in [AuthRequests -> {NoCall} \cup [at : Steps, pair : Pairs, server : ApiWorkers]]
  /\ redisDeny \subseteq Jti /\ localDeny \in [ApiWorkers -> SUBSET Jti]
  /\ loggedOut \subseteq Jti \X Stores
  /\ active \in BOOLEAN /\ minted \in 0 .. MaxPairs
  /\ rotated \in [Pairs -> [Stores -> Nat]]
  /\ authUpsets \in 0 .. MaxAuthUpsets

SessionsInit ==
  /\ call = [r \in AuthRequests |-> NoCall]
  /\ redisDeny = {} /\ localDeny = [w \in ApiWorkers |-> {}] /\ loggedOut = {}
  /\ active = TRUE /\ minted = 0
  /\ rotated = [n \in Pairs |-> [s \in Stores |-> 0]]
  /\ authUpsets = 0

denyVars == <<redisDeny, localDeny, loggedOut>>

Goes(r, from, to) == call[r].at = from /\ call' = [call EXCEPT ![r].at = to]
Ends(r, from) == call[r].at = from /\ call' = [call EXCEPT ![r] = NoCall]
Access(r) == <<"access", call[r].pair>>
Refresh(r) == <<"refresh", call[r].pair>>
AuthUpset == authUpsets < MaxAuthUpsets /\ authUpsets' = authUpsets + 1
Unfailing == UNCHANGED authUpsets
Mint == minted < MaxPairs /\ minted' = minted + 1

-----------------------------------------------------------------------------
(* login *)

Login(r) ==
  /\ call[r] = NoCall /\ active /\ Mint
  /\ UNCHANGED <<call, denyVars, active, rotated, authUpsets>>

-----------------------------------------------------------------------------
(* refresh *)

Called(r, n, step) ==
  /\ call[r] = NoCall /\ n <= minted
  /\ \E w \in ApiWorkers : call' = [call EXCEPT ![r] = [at |-> step, pair |-> n, server |-> w]]
  /\ UNCHANGED <<denyVars, active, minted, rotated, authUpsets>>

Won(r, store) == rotated' = [rotated EXCEPT ![call[r].pair][store] = @ + 1]

DeniesLocally(r, jti) ==
  localDeny' = [localDeny EXCEPT ![call[r].server] = @ \cup {jti}]

\* mutant: the entry is written without NX
Unclaimed_Always(jti, deny) == TRUE
Unclaimed(jti, deny) == jti \notin deny

(* claim_token: SET NX *)
Claim(r) ==
  /\ call[r].at = "claim"
  /\ redisDeny' = redisDeny \cup {Refresh(r)}
  /\ \/ Unclaimed(Refresh(r), redisDeny) /\ Goes(r, "claim", "rotate") /\ Won(r, "redis")
     \/ ~Unclaimed(Refresh(r), redisDeny) /\ Ends(r, "claim") /\ UNCHANGED rotated
  /\ UNCHANGED <<localDeny, loggedOut, active, minted, authUpsets>>

(* the call fails, perhaps after Redis has done it *)
ClaimLocally(r) ==
  LET w == call[r].server IN
  /\ call[r].at = "claim" /\ AuthUpset
  /\ redisDeny' \in {redisDeny, redisDeny \cup {Refresh(r)}}
  /\ DeniesLocally(r, Refresh(r))
  /\ \/ Unclaimed(Refresh(r), localDeny[w]) /\ Goes(r, "claim", "rotate") /\ Won(r, w)
     \/ ~Unclaimed(Refresh(r), localDeny[w]) /\ Ends(r, "claim") /\ UNCHANGED rotated
  /\ UNCHANGED <<loggedOut, active, minted>>

(* load_active_user: the claimed token is spent also if this fails *)
Rotate(r) ==
  /\ Ends(r, "rotate")
  /\ IF active THEN Mint ELSE UNCHANGED minted
  /\ UNCHANGED <<denyVars, active, rotated, authUpsets>>

-----------------------------------------------------------------------------
(* logout: the access token, then the refresh token if one was sent *)

Revokes(r, jti) ==
  /\ \/ /\ redisDeny' = redisDeny \cup {jti} /\ UNCHANGED localDeny /\ Unfailing
        /\ loggedOut' = loggedOut \cup {<<jti, "redis">>}
     \/ /\ AuthUpset
        /\ redisDeny' \in {redisDeny, redisDeny \cup {jti}}
        /\ DeniesLocally(r, jti)
        /\ loggedOut' = loggedOut \cup {<<jti, call[r].server>>}
  /\ UNCHANGED <<active, minted, rotated>>

RevokeAccess(r) ==
  /\ Ends(r, "revokeAccess") \/ Goes(r, "revokeAccess", "revokeRefresh")
  /\ Revokes(r, Access(r))

RevokeRefresh(r) ==
  /\ Ends(r, "revokeRefresh")
  /\ Revokes(r, Refresh(r))

-----------------------------------------------------------------------------
(* get_current_user *)

\* mutant: what Redis answers is final
Denied_RedisOnly(jti, w, answers) ==
  IF answers THEN jti \in redisDeny ELSE jti \in localDeny[w]
Denied(jti, w, answers) == (answers /\ jti \in redisDeny) \/ jti \in localDeny[w]

CheckAccess(r, answers) ==
  /\ call[r].at = "check"
  /\ IF Denied(Access(r), call[r].server, answers)
     THEN Ends(r, "check") ELSE Goes(r, "check", "load")
  /\ IF answers THEN Unfailing ELSE AuthUpset
  /\ UNCHANGED <<denyVars, active, minted, rotated>>

LoadUser(r) ==
  /\ Ends(r, "load")
  /\ UNCHANGED <<denyVars, active, minted, rotated, authUpsets>>

-----------------------------------------------------------------------------
(* deactivate and restore (services/users.py) *)
ChangeUser ==
  /\ AuthUpset /\ active' = ~active
  /\ UNCHANGED <<call, denyVars, minted, rotated>>

(* one worker, or all of them with their container *)
RestartApi(workers) ==
  /\ AuthUpset
  /\ call' = [r \in AuthRequests |->
              IF call[r] # NoCall /\ call[r].server \in workers THEN NoCall ELSE call[r]]
  /\ localDeny' = [w \in ApiWorkers |-> IF w \in workers THEN {} ELSE localDeny[w]]
  /\ loggedOut' = {x \in loggedOut : x[2] \notin workers}
  /\ rotated' = [n \in Pairs |-> [s \in Stores |->
                   IF s \in workers THEN 0 ELSE rotated[n][s]]]
  /\ UNCHANGED <<redisDeny, active, minted>>

SessionsNext ==
  \/ \E r \in AuthRequests :
       \/ Login(r) \/ Claim(r) \/ ClaimLocally(r) \/ Rotate(r)
       \/ RevokeAccess(r) \/ RevokeRefresh(r) \/ LoadUser(r)
       \/ \E answers \in BOOLEAN : CheckAccess(r, answers)
       \/ \E n \in Pairs, step \in {"claim", "revokeAccess", "check"} : Called(r, n, step)
  \/ ChangeUser
  \/ \E workers \in SUBSET ApiWorkers \ {{}} : RestartApi(workers)

SessionsSpec == SessionsInit /\ [][SessionsNext]_sessionVars

-----------------------------------------------------------------------------
\* "wins exactly one racer" (security.py:183): each store, Redis or a worker, lets one
\* request rotate a token, and none once a logout is recorded there.  The stores do not
\* know of one another: a token claimed in one can be claimed again in the next while
\* Redis is away.
OneRotationPerStore ==
  \A n \in Pairs, s \in Stores : rotated[n][s] <= 1

\* stores that a check asks
Asked(r, answers) == {call[r].server} \cup (IF answers THEN {"redis"} ELSE {})

\* No access token passes a check after a logout that went to a store the check asks: the
\* worker that serves it, and Redis if it answers, unless a restart has erased the
\* worker's record (security.py:168).
LoggedOutIsRefused ==
  [][\A r \in AuthRequests, answers \in BOOLEAN :
       CheckAccess(r, answers) /\ call'[r] # NoCall =>
         \A s \in Asked(r, answers) : <<Access(r), s>> \notin loggedOut]_sessionVars

\* "a revoked token is never silently re-accepted" (security.py:141): with Redis back, no
\* access token passes after its logout, whichever store that went to.
RevokedStaysRefused ==
  [][\A r \in AuthRequests, s \in Stores :
       CheckAccess(r, TRUE) /\ call'[r] # NoCall =>
         <<Access(r), s>> \notin loggedOut]_sessionVars
=============================================================================
