---------------------------- MODULE AccessProofs -----------------------------
(***************************************************************************)
(* Theorems about who gets in and who may manage whom: Sessions,           *)
(* LoginLimiter and UserDirectory, for any number of requests, logins,     *)
(* users and restarts.                                                     *)
(***************************************************************************)
EXTENDS Sessions, LoginLimiter, UserDirectory, FiniteSetTheorems, TLAPS

(***************************************************************************)
(* Sessions: the token pairs.                                              *)
(***************************************************************************)
\* A request under way.
Call == [at : Steps, pair : Pairs, server : ApiWorkers]

\* What a store denies.
Held(s) == IF s = "redis" THEN redisDeny ELSE localDeny[s]

\* A claim that was won is in the store that let it through.
WonIsDenied ==
  \A n \in Pairs, s \in Stores :
    rotated[n][s] = 0 \/ (rotated[n][s] = 1 /\ <<"refresh", n>> \in Held(s))

\* A logout is in the store it went to.
LogoutIsHeld == \A jti \in Jti, s \in Stores : <<jti, s>> \in loggedOut => jti \in Held(s)

\* What is proved to be inductive of Sessions, over its types.
SessionsInv == WonIsDenied /\ LogoutIsHeld

-----------------------------------------------------------------------------
\* A request at a step has a pair that was minted and a worker.
LEMMA CallIsTyped ==
  ASSUME SessionsTypeOK, NEW r \in AuthRequests, call[r].at \in Steps
  PROVE  /\ call[r] \in Call /\ call[r].pair \in Pairs /\ call[r].server \in ApiWorkers
         /\ Access(r) \in Jti /\ Refresh(r) \in Jti
<1>1. call[r] \in {NoCall} \cup Call
  BY DEF SessionsTypeOK, Call
<1>2. call[r] # NoCall
  BY DEF NoCall, Steps
<1>3. call[r] \in Call
  BY <1>1, <1>2
<1>4. call[r].pair \in Pairs /\ call[r].server \in ApiWorkers
  BY <1>3 DEF Call
<1> QED
  BY <1>3, <1>4 DEF Access, Refresh, Jti

\* A request moves on to another step, or ends, and keeps its type.
LEMMA MovesOn ==
  ASSUME SessionsTypeOK, NEW r \in AuthRequests, NEW from \in Steps, NEW to \in Steps,
         Goes(r, from, to) \/ Ends(r, from)
  PROVE  call' \in [AuthRequests -> {NoCall} \cup Call]
<1>1. call[r] \in Call
  BY CallIsTyped DEF Goes, Ends
<1>2. call \in [AuthRequests -> {NoCall} \cup Call]
  BY DEF SessionsTypeOK, Call
<1>3. CASE Goes(r, from, to)
  <2>1. [call[r] EXCEPT !.at = to] \in Call
    BY <1>1 DEF Call
  <2>2. call' = [call EXCEPT ![r] = [call[r] EXCEPT !.at = to]]
    BY <1>2, <1>3 DEF Goes
  <2> QED
    BY <1>2, <2>1, <2>2
<1>4. CASE Ends(r, from)
  BY <1>2, <1>4 DEF Ends
<1> QED
  BY <1>3, <1>4

\* What a worker remembers keeps its type and only grows.
LEMMA DeniedLocally ==
  ASSUME SessionsTypeOK, NEW r \in AuthRequests, call[r].at \in Steps,
         NEW jti \in Jti, DeniesLocally(r, jti)
  PROVE  /\ localDeny' \in [ApiWorkers -> SUBSET Jti]
         /\ \A w \in ApiWorkers : localDeny[w] \subseteq localDeny'[w]
         /\ jti \in localDeny'[call[r].server]
<1>1. PICK w \in ApiWorkers : w = call[r].server
  BY CallIsTyped
<1>2. localDeny' = [localDeny EXCEPT ![w] = @ \cup {jti}]
  BY <1>1 DEF DeniesLocally
<1> QED
  BY <1>1, <1>2 DEF SessionsTypeOK

\* A claim that is won is counted for its pair and its store only.
LEMMA WonCounts ==
  ASSUME SessionsTypeOK, NEW r \in AuthRequests, call[r].at \in Steps,
         NEW s \in Stores, Won(r, s)
  PROVE  /\ rotated' \in [Pairs -> [Stores -> Nat]]
         /\ rotated'[call[r].pair][s] = rotated[call[r].pair][s] + 1
         /\ \A n \in Pairs, t \in Stores :
              n # call[r].pair \/ t # s => rotated'[n][t] = rotated[n][t]
<1>1. PICK m \in Pairs : m = call[r].pair
  BY CallIsTyped
<1>2. rotated' = [rotated EXCEPT ![m] = [rotated[m] EXCEPT ![s] = rotated[m][s] + 1]]
  BY <1>1 DEF Won, SessionsTypeOK
<1>3. rotated \in [Pairs -> [Stores -> Nat]]
  BY DEF SessionsTypeOK
<1>4. [rotated[m] EXCEPT ![s] = rotated[m][s] + 1] \in [Stores -> Nat]
  BY <1>3
<1> QED
  BY <1>1, <1>2, <1>3, <1>4

\* The tables of Sessions hold what they are meant to hold.
LEMMA SessionsTypes == SessionsSpec => []SessionsTypeOK
<1> USE SessionsAssumption DEF SessionsAssumption
<1>1. SessionsInit => SessionsTypeOK
  BY DEF SessionsInit, SessionsTypeOK, Pairs
<1>2. SessionsTypeOK /\ [SessionsNext]_sessionVars => SessionsTypeOK'
  <2> SUFFICES ASSUME SessionsTypeOK, [SessionsNext]_sessionVars PROVE SessionsTypeOK'
    OBVIOUS
  <2>1. ASSUME NEW r \in AuthRequests, Login(r) PROVE SessionsTypeOK'
    BY <2>1 DEF Login, Mint, denyVars, SessionsTypeOK
  <2>2. ASSUME NEW r \in AuthRequests, Claim(r) PROVE SessionsTypeOK'
    <3>1. call[r].at \in Steps /\ "redis" \in Stores
      BY <2>2 DEF Claim, Steps, Stores
    <3>2. Refresh(r) \in Jti
      BY <3>1, CallIsTyped
    <3>3. call' \in [AuthRequests -> {NoCall} \cup Call]
      BY <2>2, MovesOn DEF Claim, Steps
    <3>4. rotated' \in [Pairs -> [Stores -> Nat]]
      BY <2>2, <3>1, WonCounts DEF Claim, SessionsTypeOK
    <3> QED
      BY <2>2, <3>2, <3>3, <3>4 DEF Claim, SessionsTypeOK, Call
  <2>3. ASSUME NEW r \in AuthRequests, ClaimLocally(r) PROVE SessionsTypeOK'
    <3>1. call[r].at \in Steps
      BY <2>3 DEF ClaimLocally, Steps
    <3>2. Refresh(r) \in Jti /\ call[r].server \in Stores
      BY <3>1, CallIsTyped DEF Stores
    <3>3. call' \in [AuthRequests -> {NoCall} \cup Call]
      BY <2>3, MovesOn DEF ClaimLocally, Steps
    <3>4. rotated' \in [Pairs -> [Stores -> Nat]]
      BY <2>3, <3>1, <3>2, WonCounts DEF ClaimLocally, SessionsTypeOK
    <3>5. localDeny' \in [ApiWorkers -> SUBSET Jti]
      BY <2>3, <3>1, <3>2, DeniedLocally DEF ClaimLocally
    <3>6. redisDeny' \subseteq Jti /\ UNCHANGED <<loggedOut, active, minted>>
      BY <2>3, <3>2 DEF ClaimLocally, SessionsTypeOK
    <3>7. authUpsets' \in 0 .. MaxAuthUpsets
      BY <2>3 DEF ClaimLocally, AuthUpset, SessionsTypeOK
    <3> QED
      BY <3>3, <3>4, <3>5, <3>6, <3>7 DEF SessionsTypeOK, Call
  <2>4. ASSUME NEW r \in AuthRequests, Rotate(r) PROVE SessionsTypeOK'
    <3>1. call' \in [AuthRequests -> {NoCall} \cup Call]
      BY <2>4, MovesOn DEF Rotate, Steps
    <3> QED
      BY <2>4, <3>1 DEF Rotate, Mint, denyVars, SessionsTypeOK, Call
  <2>5. ASSUME NEW r \in AuthRequests, RevokeAccess(r) \/ RevokeRefresh(r)
        PROVE  SessionsTypeOK'
    <3>1. call[r].at \in Steps
      BY <2>5 DEF RevokeAccess, RevokeRefresh, Goes, Ends, Steps
    <3>2. call' \in [AuthRequests -> {NoCall} \cup Call]
      BY <2>5, MovesOn DEF RevokeAccess, RevokeRefresh, Steps
    <3>3. PICK jti \in Jti : Revokes(r, jti)
      BY <2>5, <3>1, CallIsTyped DEF RevokeAccess, RevokeRefresh
    <3>4. call[r].server \in Stores /\ "redis" \in Stores
      BY <3>1, CallIsTyped DEF Stores
    <3>5. localDeny' \in [ApiWorkers -> SUBSET Jti]
      BY <3>1, <3>3, DeniedLocally DEF Revokes, SessionsTypeOK
    <3>6. redisDeny' \subseteq Jti /\ loggedOut' \subseteq Jti \X Stores
      BY <3>3, <3>4 DEF Revokes, SessionsTypeOK
    <3>7. authUpsets' \in 0 .. MaxAuthUpsets /\ UNCHANGED <<active, minted, rotated>>
      BY <3>3 DEF Revokes, AuthUpset, Unfailing, SessionsTypeOK
    <3> QED
      BY <3>2, <3>5, <3>6, <3>7 DEF SessionsTypeOK, Call
  <2>6. ASSUME NEW r \in AuthRequests, NEW answers \in BOOLEAN, CheckAccess(r, answers)
        PROVE  SessionsTypeOK'
    <3>1. call' \in [AuthRequests -> {NoCall} \cup Call]
      BY <2>6, MovesOn DEF CheckAccess, Steps
    <3> QED
      BY <2>6, <3>1 DEF CheckAccess, Unfailing, AuthUpset, denyVars, SessionsTypeOK, Call
  <2>7. ASSUME NEW r \in AuthRequests, LoadUser(r) PROVE SessionsTypeOK'
    <3>1. call' \in [AuthRequests -> {NoCall} \cup Call]
      BY <2>7, MovesOn DEF LoadUser, Steps
    <3> QED
      BY <2>7, <3>1 DEF LoadUser, denyVars, SessionsTypeOK, Call
  <2>8. ASSUME NEW r \in AuthRequests, NEW n \in Pairs,
               NEW step \in {"claim", "revokeAccess", "check"}, Called(r, n, step)
        PROVE  SessionsTypeOK'
    <3>1. PICK w \in ApiWorkers : call' = [call EXCEPT ![r] = [at |-> step, pair |-> n, server |-> w]]
      BY <2>8 DEF Called
    <3>2. [at |-> step, pair |-> n, server |-> w] \in Call
      BY DEF Call, Steps
    <3>3. call' \in [AuthRequests -> {NoCall} \cup Call]
      BY <3>1, <3>2 DEF SessionsTypeOK, Call
    <3> QED
      BY <2>8, <3>3 DEF Called, denyVars, SessionsTypeOK, Call
  <2>9. CASE ChangeUser
    BY <2>9 DEF ChangeUser, AuthUpset, denyVars, SessionsTypeOK
  <2>10. ASSUME NEW workers \in SUBSET ApiWorkers, RestartApi(workers) PROVE SessionsTypeOK'
    <3>1. call' \in [AuthRequests -> {NoCall} \cup Call]
      BY <2>10 DEF RestartApi, SessionsTypeOK, Call
    <3>2. rotated' \in [Pairs -> [Stores -> Nat]]
      BY <2>10 DEF RestartApi, SessionsTypeOK
    <3>3. localDeny' \in [ApiWorkers -> SUBSET Jti] /\ loggedOut' \subseteq Jti \X Stores
      BY <2>10 DEF RestartApi, SessionsTypeOK
    <3> QED
      BY <2>10, <3>1, <3>2, <3>3 DEF RestartApi, AuthUpset, SessionsTypeOK, Call
  <2>11. CASE UNCHANGED sessionVars
    BY <2>11 DEF sessionVars, SessionsTypeOK
  <2> QED
    BY <2>1, <2>2, <2>3, <2>4, <2>5, <2>6, <2>7, <2>8, <2>9, <2>10, <2>11
       DEF SessionsNext
<1> QED
  BY <1>1, <1>2, PTL DEF SessionsSpec

-----------------------------------------------------------------------------
\* A store that only grows keeps what it held.
LEMMA StoresGrow ==
  ASSUME redisDeny \subseteq redisDeny',
         \A w \in ApiWorkers : localDeny[w] \subseteq localDeny'[w]
  PROVE  \A s \in Stores : Held(s) \subseteq Held(s)'
BY DEF Held, Stores

\* A step that wins no claim and logs nobody out, over stores that only grow.
LEMMA StoresKeep ==
  ASSUME SessionsInv, UNCHANGED <<rotated, loggedOut>>,
         \A s \in Stores : Held(s) \subseteq Held(s)'
  PROVE  SessionsInv'
BY DEF SessionsInv, WonIsDenied, LogoutIsHeld

\* A claim is won in a store that did not hold its token and now does.
LEMMA WonIsNew ==
  ASSUME SessionsTypeOK, SessionsInv, NEW r \in AuthRequests, call[r].at \in Steps,
         NEW s \in Stores, Won(r, s), Refresh(r) \notin Held(s), Refresh(r) \in Held(s)',
         \A t \in Stores : Held(t) \subseteq Held(t)', UNCHANGED loggedOut
  PROVE  SessionsInv'
<1>1. PICK m \in Pairs : m = call[r].pair
  BY CallIsTyped
<1>2. Refresh(r) = <<"refresh", m>>
  BY <1>1 DEF Refresh
<1>3. rotated[m][s] = 0
  BY <1>2 DEF SessionsInv, WonIsDenied
<1>4. /\ rotated'[m][s] = 1
      /\ \A n \in Pairs, t \in Stores : n # m \/ t # s => rotated'[n][t] = rotated[n][t]
  BY <1>1, <1>3, WonCounts
<1>5. WonIsDenied'
  <2> SUFFICES ASSUME NEW n \in Pairs, NEW t \in Stores
               PROVE  \/ rotated'[n][t] = 0
                      \/ rotated'[n][t] = 1 /\ <<"refresh", n>> \in Held(t)'
    BY DEF WonIsDenied
  <2>1. CASE n = m /\ t = s
    BY <1>2, <1>4, <2>1
  <2>2. CASE n # m \/ t # s
    BY <1>4, <2>2 DEF SessionsInv, WonIsDenied
  <2> QED
    BY <2>1, <2>2
<1>6. LogoutIsHeld'
  BY DEF SessionsInv, LogoutIsHeld
<1> QED
  BY <1>5, <1>6 DEF SessionsInv

\* What each store has let through or was told is recorded there, step by step.
THEOREM SessionsInvHolds == SessionsSpec => []SessionsInv
<1> USE ApiProcessesAssumption DEF ApiProcessesAssumption
<1>1. SessionsInit => SessionsInv
  BY DEF SessionsInit, SessionsInv, WonIsDenied, LogoutIsHeld
<1>2. SessionsTypeOK /\ SessionsInv /\ [SessionsNext]_sessionVars => SessionsInv'
  <2> SUFFICES ASSUME SessionsTypeOK, SessionsInv, [SessionsNext]_sessionVars
               PROVE  SessionsInv'
    OBVIOUS
  <2>1. ASSUME UNCHANGED <<denyVars, rotated>> PROVE SessionsInv'
    BY <2>1 DEF denyVars, SessionsInv, WonIsDenied, LogoutIsHeld, Held
  <2>2. ASSUME NEW r \in AuthRequests, Claim(r) PROVE SessionsInv'
    <3>1. /\ call[r].at \in Steps /\ "redis" \in Stores
          /\ redisDeny' = redisDeny \cup {Refresh(r)} /\ UNCHANGED <<localDeny, loggedOut>>
      BY <2>2 DEF Claim, Steps, Stores
    <3>2. \A s \in Stores : Held(s) \subseteq Held(s)'
      BY <3>1, StoresGrow
    <3>3. Held("redis") = redisDeny /\ Held("redis")' = redisDeny'
      BY DEF Held
    <3>4. CASE Unclaimed(Refresh(r), redisDeny) /\ Won(r, "redis")
      <4>1. Refresh(r) \notin Held("redis") /\ Refresh(r) \in Held("redis")'
        BY <3>1, <3>3, <3>4 DEF Unclaimed
      <4> QED
        BY <3>1, <3>2, <3>4, <4>1, WonIsNew
    <3>5. CASE UNCHANGED rotated
      BY <3>1, <3>2, <3>5, StoresKeep
    <3> QED
      BY <2>2, <3>4, <3>5 DEF Claim
  <2>3. ASSUME NEW r \in AuthRequests, ClaimLocally(r) PROVE SessionsInv'
    <3>1. /\ call[r].at \in Steps /\ redisDeny \subseteq redisDeny'
          /\ DeniesLocally(r, Refresh(r)) /\ UNCHANGED loggedOut
      BY <2>3 DEF ClaimLocally, Steps
    <3>2. PICK w \in ApiWorkers : w = call[r].server
      BY <3>1, CallIsTyped
    <3>3. /\ \A v \in ApiWorkers : localDeny[v] \subseteq localDeny'[v]
          /\ Refresh(r) \in localDeny'[w]
      BY <3>1, <3>2, CallIsTyped, DeniedLocally
    <3>4. \A s \in Stores : Held(s) \subseteq Held(s)'
      BY <3>1, <3>3, StoresGrow
    <3>5. w \in Stores /\ Held(w) = localDeny[w] /\ Held(w)' = localDeny'[w]
      BY DEF Held, Stores
    <3>6. CASE Unclaimed(Refresh(r), localDeny[w]) /\ Won(r, w)
      <4>1. Refresh(r) \notin Held(w) /\ Refresh(r) \in Held(w)'
        BY <3>3, <3>5, <3>6 DEF Unclaimed
      <4> QED
        BY <3>1, <3>4, <3>5, <3>6, <4>1, WonIsNew
    <3>7. CASE UNCHANGED rotated
      BY <3>1, <3>4, <3>7, StoresKeep
    <3> QED
      BY <2>3, <3>2, <3>6, <3>7 DEF ClaimLocally
  <2>4. ASSUME NEW r \in AuthRequests, RevokeAccess(r) \/ RevokeRefresh(r)
        PROVE  SessionsInv'
    <3>1. call[r].at \in Steps
      BY <2>4 DEF RevokeAccess, RevokeRefresh, Goes, Ends, Steps
    <3>2. PICK jti \in Jti : Revokes(r, jti)
      BY <2>4, <3>1, CallIsTyped DEF RevokeAccess, RevokeRefresh
    <3>3. PICK w \in ApiWorkers : w = call[r].server
      BY <3>1, CallIsTyped
    <3>4. \A v \in ApiWorkers : localDeny[v] \subseteq localDeny'[v]
      BY <3>1, <3>2, DeniedLocally DEF Revokes
    <3>5. \A s \in Stores : Held(s) \subseteq Held(s)'
      BY <3>2, <3>4, StoresGrow DEF Revokes
    <3>6. PICK s \in Stores : loggedOut' = loggedOut \cup {<<jti, s>>} /\ jti \in Held(s)'
      <4>1. CASE UNCHANGED localDeny
        BY <3>2, <4>1, DeniedLocally, <3>1, <3>3 DEF Revokes, Held, Stores
      <4>2. CASE DeniesLocally(r, jti)
        <5>1. jti \in localDeny'[w]
          BY <3>1, <3>3, <4>2, DeniedLocally
        <5> QED
          BY <3>2, <3>3, <5>1 DEF Revokes, Held, Stores
      <4> QED
        BY <3>2, <4>1, <4>2 DEF Revokes
    <3>7. LogoutIsHeld'
      BY <3>5, <3>6 DEF SessionsInv, LogoutIsHeld
    <3>8. WonIsDenied'
      BY <3>2, <3>5 DEF Revokes, SessionsInv, WonIsDenied
    <3> QED
      BY <3>7, <3>8 DEF SessionsInv
  <2>5. ASSUME NEW workers \in SUBSET ApiWorkers, RestartApi(workers) PROVE SessionsInv'
    <3>1. /\ \A n \in Pairs, s \in Stores :
               rotated'[n][s] = IF s \in workers THEN 0 ELSE rotated[n][s]
          /\ \A s \in Stores : s \notin workers => Held(s)' = Held(s)
          /\ \A jti \in Jti, s \in Stores :
               <<jti, s>> \in loggedOut' => <<jti, s>> \in loggedOut /\ s \notin workers
      BY <2>5 DEF RestartApi, Held, Stores
    <3> QED
      BY <3>1 DEF SessionsInv, WonIsDenied, LogoutIsHeld
  <2>6. CASE UNCHANGED sessionVars
    BY <2>1, <2>6 DEF sessionVars, denyVars
  <2>7. ASSUME NEW r \in AuthRequests, Login(r) \/ Rotate(r) \/ LoadUser(r)
        PROVE  SessionsInv'
    BY <2>1, <2>7 DEF Login, Rotate, LoadUser
  <2>8. ASSUME NEW r \in AuthRequests, NEW answers \in BOOLEAN, CheckAccess(r, answers)
        PROVE  SessionsInv'
    BY <2>1, <2>8 DEF CheckAccess
  <2>9. ASSUME NEW r \in AuthRequests, NEW n \in Pairs,
               NEW step \in {"claim", "revokeAccess", "check"}, Called(r, n, step)
        PROVE  SessionsInv'
    BY <2>1, <2>9 DEF Called
  <2>10. CASE ChangeUser
    BY <2>1, <2>10 DEF ChangeUser
  <2> QED
    BY <2>2, <2>3, <2>4, <2>5, <2>6, <2>7, <2>8, <2>9, <2>10 DEF SessionsNext
<1> QED
  BY <1>1, <1>2, SessionsTypes, PTL DEF SessionsSpec

\* Each store, Redis or a worker, lets one request rotate a refresh token, however requests
\* race and whichever calls to Redis fail (security.py:196).
THEOREM OneRotationPerStoreHolds == SessionsSpec => []OneRotationPerStore
<1>1. SessionsInv => OneRotationPerStore
  <2> SUFFICES ASSUME SessionsInv, NEW n \in Pairs, NEW s \in Stores PROVE rotated[n][s] <= 1
    BY DEF OneRotationPerStore
  <2>1. rotated[n][s] = 0 \/ rotated[n][s] = 1
    BY DEF SessionsInv, WonIsDenied
  <2> QED
    BY <2>1
<1> QED
  BY <1>1, SessionsInvHolds, PTL

\* For any number of workers, an access token is refused after a logout that went to the
\* worker that checks it or, when Redis answers, to Redis: also while Redis is away, and
\* also when it is back and knows nothing of the logout (security.py:168).
THEOREM LoggedOutIsRefusedHolds == SessionsSpec => LoggedOutIsRefused
<1> USE ApiProcessesAssumption DEF ApiProcessesAssumption
<1>1. ASSUME SessionsTypeOK, SessionsInv, NEW r \in AuthRequests, NEW answers \in BOOLEAN,
             CheckAccess(r, answers), call'[r] # NoCall, NEW s \in Asked(r, answers)
      PROVE  <<Access(r), s>> \notin loggedOut
  <2>1. call[r].at \in Steps
    BY <1>1 DEF CheckAccess, Steps
  <2>2. PICK w \in ApiWorkers : w = call[r].server
    BY <1>1, <2>1, CallIsTyped
  <2>3. Access(r) \in Jti
    BY <1>1, <2>1, CallIsTyped
  <2>4. ~Denied(Access(r), w, answers)
    BY <1>1, <2>2 DEF CheckAccess, Ends, SessionsTypeOK
  <2>5. /\ s = w \/ (answers /\ s = "redis")
        /\ s \in Stores
    BY <1>1, <2>2 DEF Asked, Stores
  <2>6. Access(r) \notin Held(s)
    BY <2>4, <2>5 DEF Denied, Held
  <2> QED
    BY <1>1, <2>3, <2>5, <2>6 DEF SessionsInv, LogoutIsHeld
<1>2. SessionsTypeOK /\ SessionsInv /\ [SessionsNext]_sessionVars =>
        [\A r \in AuthRequests, answers \in BOOLEAN :
           CheckAccess(r, answers) /\ call'[r] # NoCall =>
             \A s \in Asked(r, answers) : <<Access(r), s>> \notin loggedOut]_sessionVars
  BY <1>1
<1> QED
  BY <1>2, SessionsTypes, SessionsInvHolds, PTL DEF SessionsSpec, LoggedOutIsRefused

------------------------------------------------------------------------------
(***************************************************************************)
(* LoginLimiter: the failed logins.                                        *)
(***************************************************************************)
\* The logins that the window let through and that have not left their entry yet.
Adding == {l \in Logins : login[l] = "add"}

\* Every login the window admits leaves an entry, its own or a shared one; those let
\* through but not yet entered passed a window that was not full.
WindowInv ==
  /\ admitted["redis"] = failures["redis"] + shared
  /\ failures["redis"] + Cardinality(Adding) <= LoginLimit + (Cardinality(Logins) - 1)

\* A worker admits up to the limit, and forgets its count when it stops.
WorkerInv(w) ==
  /\ failures[w] <= LoginLimit
  /\ admitted[w] <= LoginLimit * restarts[w] + failures[w]

\* What is proved to be inductive of LoginLimiter, over its types: the books of each counter.
LimiterInv == WindowInv /\ \A w \in ApiWorkers : WorkerInv(w)

\* A worker has started again at most as often as something has failed.
RestartsBound == \A w \in ApiWorkers : restarts[w] <= limitUpsets

\* The counters hold what they are meant to hold.
LEMMA LoginLimiterTypes == LoginLimiterSpec => []LoginLimiterTypeOK
<1> USE LoginLimiterAssumption, ApiProcessesAssumption
    DEF LoginLimiterAssumption, ApiProcessesAssumption
<1> DEFINE Inv == LoginLimiterTypeOK /\ RestartsBound
<1>1. LoginLimiterInit => Inv
  <2> SUFFICES ASSUME LoginLimiterInit PROVE Inv
    OBVIOUS
  <2>1. (CHOOSE w \in ApiWorkers : TRUE) \in ApiWorkers
    OBVIOUS
  <2>2. servedBy \in [Logins -> ApiWorkers]
    BY <2>1 DEF LoginLimiterInit
  <2>3. /\ login \in [Logins -> {"idle", "count", "add"}] /\ tried \in 0 .. MaxFailures
        /\ failures \in [Stores -> Nat] /\ admitted \in [Stores -> Nat] /\ shared \in Nat
        /\ restarts \in [ApiWorkers -> 0 .. MaxLimitUpsets] /\ limitUpsets \in 0 .. MaxLimitUpsets
    BY DEF LoginLimiterInit
  <2>4. RestartsBound
    <3> SUFFICES ASSUME NEW w \in ApiWorkers PROVE restarts[w] <= limitUpsets
      BY DEF RestartsBound
    <3>1. limitUpsets = 0 /\ restarts[w] = 0
      BY DEF LoginLimiterInit
    <3> QED
      BY <3>1
  <2> QED
    BY <2>2, <2>3, <2>4 DEF LoginLimiterTypeOK
<1>2. Inv /\ [LoginLimiterNext]_limiterVars => Inv'
  <2> SUFFICES ASSUME Inv, [LoginLimiterNext]_limiterVars PROVE Inv'
    OBVIOUS
  <2> USE DEF LoginLimiterTypeOK, RestartsBound
  <2>0. "redis" \in Stores /\ ApiWorkers \subseteq Stores
    BY DEF Stores
  <2>1. ASSUME NEW l \in Logins, LoginFails(l) PROVE Inv'
    BY <2>1 DEF LoginFails, Moves, countVars
  <2>2. ASSUME NEW l \in Logins, CountWindow(l) PROVE Inv'
    BY <2>2 DEF CountWindow, Moves, countVars
  <2>3. ASSUME NEW l \in Logins, AddEntry(l) PROVE Inv'
    <3>1. failures' \in [Stores -> Nat] /\ admitted' \in [Stores -> Nat] /\ shared' \in Nat
      BY <2>0, <2>3 DEF AddEntry, Admitted, Counted
    <3> QED
      BY <2>3, <3>1 DEF AddEntry, Moves
  <2>4. ASSUME NEW l \in Logins, CountInProcess(l) PROVE Inv'
    <3>1. failures' \in [Stores -> Nat] /\ admitted' \in [Stores -> Nat]
      BY <2>0, <2>4 DEF CountInProcess, Admitted, Counted
    <3> QED
      BY <2>4, <3>1 DEF CountInProcess, LimitUpset
  <2>5. ASSUME NEW w \in ApiWorkers, RestartProcess(w) PROVE Inv'
    <3>1. failures' \in [Stores -> Nat]
      BY <2>0, <2>5 DEF RestartProcess
    <3>2. login' \in [Logins -> {"idle", "count", "add"}]
      BY <2>5 DEF RestartProcess
    <3>3. /\ restarts' = [restarts EXCEPT ![w] = @ + 1]
          /\ limitUpsets < MaxLimitUpsets /\ limitUpsets' = limitUpsets + 1
      BY <2>5 DEF RestartProcess, LimitUpset
    <3>4. \A v \in ApiWorkers : restarts'[v] \in 0 .. MaxLimitUpsets /\ restarts'[v] <= limitUpsets'
      BY <3>3
    <3>5. restarts' \in [ApiWorkers -> 0 .. MaxLimitUpsets]
      BY <3>3, <3>4
    <3> QED
      BY <2>5, <3>1, <3>2, <3>3, <3>4, <3>5 DEF RestartProcess
  <2>6. CASE UNCHANGED limiterVars
    BY <2>6 DEF limiterVars
  <2> QED
    BY <2>1, <2>2, <2>3, <2>4, <2>5, <2>6 DEF LoginLimiterNext
<1> QED
  BY <1>1, <1>2, PTL DEF LoginLimiterSpec

\* The logins about to add an entry are some of a finite number.
LEMMA AddingBound ==
  ASSUME NEW new, NEW S, S = {l \in Logins : new[l] = "add"}
  PROVE  /\ IsFiniteSet(S) /\ Cardinality(S) \in Nat /\ Cardinality(Logins) \in Nat
         /\ Cardinality(S) <= Cardinality(Logins) /\ Cardinality(Logins) > 0
<1>1. IsFiniteSet(Logins) /\ Logins # {}
  BY LoginLimiterAssumption DEF LoginLimiterAssumption
<1>2. /\ Cardinality(Logins) \in Nat
      /\ Cardinality(Logins) = 0 <=> Logins = {}
  BY <1>1, FS_CardinalityType, FS_EmptySet
<1>3. S \subseteq Logins
  OBVIOUS
<1>4. IsFiniteSet(S) /\ Cardinality(S) <= Cardinality(Logins) /\ Cardinality(S) \in Nat
  BY <1>1, <1>3, FS_Subset, FS_CardinalityType
<1> QED
  BY <1>1, <1>2, <1>4

\* Logins that stop adding leave the set, and none joins it.
LEMMA AddingShrinks ==
  ASSUME Adding' \subseteq Adding
  PROVE  /\ Cardinality(Adding) \in Nat /\ Cardinality(Adding') \in Nat
         /\ Cardinality(Adding') <= Cardinality(Adding)
<1>1. IsFiniteSet(Adding) /\ Cardinality(Adding) \in Nat
  BY AddingBound DEF Adding
<1> QED
  BY <1>1, FS_Subset, FS_CardinalityType

\* One login that stops adding leaves the set one smaller.
LEMMA AddingAfter ==
  ASSUME LoginLimiterTypeOK, NEW l \in Logins, login[l] = "add",
         login' = [login EXCEPT ![l] = "idle"]
  PROVE  /\ Cardinality(Adding) \in Nat /\ Cardinality(Adding') \in Nat
         /\ Cardinality(Adding') = Cardinality(Adding) - 1
<1>1. Adding' = Adding \ {l} /\ l \in Adding
  BY DEF Adding, LoginLimiterTypeOK
<1>2. IsFiniteSet(Adding) /\ Cardinality(Adding) \in Nat
  BY AddingBound DEF Adding
<1>3. Cardinality(Adding \ {l}) = Cardinality(Adding) - 1
  BY <1>1, <1>2, FS_RemoveElement
<1>4. Cardinality(Adding') \in Nat
  BY <1>1, AddingShrinks
<1> QED
  BY <1>1, <1>2, <1>3, <1>4

\* The books of each counter hold after every step.
THEOREM LimiterInvHolds == LoginLimiterSpec => []LimiterInv
<1> USE LoginLimiterAssumption, ApiProcessesAssumption
    DEF LoginLimiterAssumption, ApiProcessesAssumption
<1>1. LoginLimiterInit => LimiterInv
  <2> SUFFICES ASSUME LoginLimiterInit PROVE LimiterInv
    OBVIOUS
  <2>1. /\ login = [l \in Logins |-> "idle"] /\ shared = 0
        /\ failures["redis"] = 0 /\ admitted["redis"] = 0
        /\ \A w \in ApiWorkers : failures[w] = 0 /\ admitted[w] = 0 /\ restarts[w] = 0
    BY DEF LoginLimiterInit, Stores
  <2>2. Adding = {} /\ Cardinality(Adding) = 0
    BY <2>1, FS_EmptySet DEF Adding
  <2>3. Cardinality(Logins) \in Nat /\ Cardinality(Logins) > 0
    BY AddingBound DEF Adding
  <2>4. WindowInv
    BY <2>1, <2>2, <2>3 DEF WindowInv
  <2>5. \A w \in ApiWorkers : WorkerInv(w)
    <3> SUFFICES ASSUME NEW w \in ApiWorkers PROVE WorkerInv(w)
      OBVIOUS
    <3>1. failures[w] = 0 /\ admitted[w] = 0 /\ restarts[w] = 0
      BY <2>1
    <3>2. LoginLimit * restarts[w] = 0 /\ 0 <= LoginLimit
      BY <3>1
    <3> QED
      BY <3>1, <3>2 DEF WorkerInv
  <2> QED
    BY <2>4, <2>5 DEF LimiterInv
<1>2. LoginLimiterTypeOK /\ LimiterInv /\ [LoginLimiterNext]_limiterVars => LimiterInv'
  <2> SUFFICES ASSUME LoginLimiterTypeOK, LimiterInv, [LoginLimiterNext]_limiterVars
               PROVE  LimiterInv'
    OBVIOUS
  <2>0. /\ login \in [Logins -> {"idle", "count", "add"}]
        /\ failures \in [Stores -> Nat] /\ admitted \in [Stores -> Nat] /\ shared \in Nat
        /\ restarts \in [ApiWorkers -> Nat]
        /\ "redis" \in Stores /\ failures["redis"] \in Nat /\ admitted["redis"] \in Nat
        /\ WindowInv /\ \A w \in ApiWorkers : w \in Stores /\ w # "redis" /\ WorkerInv(w)
    BY DEF LimiterInv, LoginLimiterTypeOK, Stores
  <2>n. Cardinality(Logins) \in Nat /\ LoginLimit \in Nat
    BY AddingBound DEF Adding
  <2>m. ASSUME NEW w \in ApiWorkers
        PROVE  /\ failures[w] \in Nat /\ admitted[w] \in Nat /\ restarts[w] \in Nat
               /\ LoginLimit * restarts[w] \in Nat
    <3>1. restarts[w] \in Nat
      BY <2>0
    <3> QED
      BY <2>0, <2>n, <3>1
  <2>w. ASSUME Adding' \subseteq Adding, failures'["redis"] = failures["redis"],
               admitted'["redis"] = admitted["redis"], UNCHANGED shared
        PROVE  WindowInv'
    <3>1. /\ Cardinality(Adding) \in Nat /\ Cardinality(Adding') \in Nat
          /\ Cardinality(Adding') <= Cardinality(Adding)
      BY <2>w, AddingShrinks
    <3> QED
      BY <2>0, <2>n, <2>w, <3>1 DEF WindowInv
  <2>1. ASSUME NEW l \in Logins, LoginFails(l) PROVE LimiterInv'
    <3>1. login' = [login EXCEPT ![l] = "count"] /\ UNCHANGED countVars
      BY <2>1 DEF LoginFails, Moves
    <3>2. Adding' \subseteq Adding
      BY <2>0, <3>1 DEF Adding
    <3>3. WindowInv'
      BY <2>w, <3>1, <3>2 DEF countVars
    <3> QED
      BY <2>0, <3>1, <3>3 DEF countVars, LimiterInv, WorkerInv
  <2>2. ASSUME NEW l \in Logins, CountWindow(l) PROVE LimiterInv'
    <3>1. UNCHANGED countVars
      BY <2>2 DEF CountWindow
    <3>2. CASE Full("redis")
      <4>1. login' = [login EXCEPT ![l] = "idle"]
        BY <2>2, <3>2 DEF CountWindow, Moves
      <4>2. Adding' \subseteq Adding
        BY <2>0, <4>1 DEF Adding
      <4>3. WindowInv'
        BY <2>w, <3>1, <4>2 DEF countVars
      <4> QED
        BY <2>0, <3>1, <4>3 DEF countVars, LimiterInv, WorkerInv
    <3>3. CASE ~Full("redis")
      <4>1. failures["redis"] <= LoginLimit - 1
        BY <2>0, <2>n, <3>3 DEF Full
      <4>2. Adding' = {k \in Logins : login'[k] = "add"}
        BY DEF Adding
      <4>3. Cardinality(Adding') \in Nat /\ Cardinality(Adding') <= Cardinality(Logins)
        BY <4>2, AddingBound
      <4>4. WindowInv'
        BY <2>0, <2>n, <3>1, <4>1, <4>3 DEF countVars, WindowInv
      <4> QED
        BY <2>0, <3>1, <4>4 DEF countVars, LimiterInv, WorkerInv
    <3> QED
      BY <3>2, <3>3
  <2>3. ASSUME NEW l \in Logins, AddEntry(l) PROVE LimiterInv'
    <3>1. /\ login[l] = "add" /\ login' = [login EXCEPT ![l] = "idle"]
          /\ admitted' = [admitted EXCEPT !["redis"] = @ + 1]
          /\ \/ failures' = [failures EXCEPT !["redis"] = @ + 1] /\ shared' = shared
             \/ shared' = shared + 1 /\ failures' = failures
          /\ UNCHANGED restarts
      BY <2>3 DEF AddEntry, Moves, Admitted, Counted
    <3>2. /\ admitted'["redis"] = admitted["redis"] + 1
          /\ \A w \in ApiWorkers : admitted'[w] = admitted[w] /\ failures'[w] = failures[w]
          /\ \/ failures'["redis"] = failures["redis"] + 1 /\ shared' = shared
             \/ failures'["redis"] = failures["redis"] /\ shared' = shared + 1
      BY <2>0, <3>1
    <3>3. /\ Cardinality(Adding) \in Nat /\ Cardinality(Adding') \in Nat
          /\ Cardinality(Adding') = Cardinality(Adding) - 1
      BY <3>1, AddingAfter
    <3>4. WindowInv'
      BY <2>0, <2>n, <3>2, <3>3 DEF WindowInv
    <3> QED
      BY <2>0, <3>1, <3>2, <3>4 DEF LimiterInv, WorkerInv
  <2>4. ASSUME NEW l \in Logins, CountInProcess(l) PROVE LimiterInv'
    <3>1. PICK w \in ApiWorkers : w = servedBy[l]
      BY DEF LoginLimiterTypeOK
    <3>2. /\ login' = [login EXCEPT ![l] = "idle"]
          /\ \/ UNCHANGED <<failures, admitted>>
             \/ /\ ~Full(w)
                /\ failures' = [failures EXCEPT ![w] = @ + 1]
                /\ admitted' = [admitted EXCEPT ![w] = @ + 1]
          /\ UNCHANGED <<shared, restarts>>
      BY <2>4, <3>1 DEF CountInProcess, Admitted, Counted
    <3>3. /\ admitted'["redis"] = admitted["redis"]
          /\ failures'["redis"] = failures["redis"]
          /\ \A v \in ApiWorkers \ {w} : failures'[v] = failures[v] /\ admitted'[v] = admitted[v]
          /\ \/ failures'[w] = failures[w] /\ admitted'[w] = admitted[w]
             \/ /\ failures[w] < LoginLimit
                /\ failures'[w] = failures[w] + 1
                /\ admitted'[w] = admitted[w] + 1
      BY <2>0, <2>n, <3>2 DEF Full
    <3>4. Adding' \subseteq Adding
      BY <2>0, <3>2 DEF Adding
    <3>5. WindowInv'
      BY <2>w, <3>2, <3>3, <3>4
    <3>6. WorkerInv(w)'
      BY <2>0, <2>n, <2>m, <3>2, <3>3 DEF WorkerInv
    <3>7. \A v \in ApiWorkers \ {w} : WorkerInv(v)'
      BY <2>0, <3>2, <3>3 DEF WorkerInv
    <3> QED
      BY <3>5, <3>6, <3>7 DEF LimiterInv
  <2>5. ASSUME NEW w \in ApiWorkers, RestartProcess(w) PROVE LimiterInv'
    <3>1. /\ restarts' = [restarts EXCEPT ![w] = @ + 1]
          /\ failures' = [failures EXCEPT ![w] = 0]
          /\ login' = [l \in Logins |-> IF servedBy[l] = w THEN "idle" ELSE login[l]]
          /\ UNCHANGED <<admitted, shared>>
      BY <2>5 DEF RestartProcess
    <3>2. /\ failures'["redis"] = failures["redis"] /\ failures'[w] = 0
          /\ restarts'[w] = restarts[w] + 1
          /\ \A v \in ApiWorkers \ {w} : failures'[v] = failures[v] /\ restarts'[v] = restarts[v]
      BY <2>0, <3>1
    <3>3. Adding' \subseteq Adding
      BY <3>1 DEF Adding
    <3>4. WindowInv'
      BY <2>w, <3>1, <3>2, <3>3
    <3>5. LoginLimit * (restarts[w] + 1) = LoginLimit * restarts[w] + LoginLimit
      BY <2>m, <2>n
    <3>6. WorkerInv(w)'
      BY <2>0, <2>n, <2>m, <3>1, <3>2, <3>5 DEF WorkerInv
    <3>7. \A v \in ApiWorkers \ {w} : WorkerInv(v)'
      BY <2>0, <3>1, <3>2 DEF WorkerInv
    <3> QED
      BY <3>4, <3>6, <3>7 DEF LimiterInv
  <2>6. CASE UNCHANGED limiterVars
    BY <2>0, <2>6 DEF limiterVars, LimiterInv, WindowInv, WorkerInv, Adding
  <2> QED
    BY <2>1, <2>2, <2>3, <2>4, <2>5, <2>6 DEF LoginLimiterNext
<1> QED
  BY <1>1, <1>2, LoginLimiterTypes, PTL DEF LoginLimiterSpec

\* "an outage NEVER fails open to unlimited attempts" (auth.py:90), for any number of
\* logins at once, workers, failing calls to Redis and restarts.
THEOREM FailuresAreLimitedHolds == LoginLimiterSpec => []FailuresAreLimited
<1>1. LoginLimiterTypeOK /\ LimiterInv => FailuresAreLimited
  <2> SUFFICES ASSUME LoginLimiterTypeOK, LimiterInv PROVE FailuresAreLimited
    OBVIOUS
  <2>1. /\ failures["redis"] \in Nat /\ admitted["redis"] \in Nat /\ shared \in Nat
        /\ LoginLimit \in Nat /\ WindowInv
    BY LoginLimiterAssumption
       DEF LimiterInv, LoginLimiterTypeOK, Stores, LoginLimiterAssumption
  <2>2. Cardinality(Adding) \in Nat /\ Cardinality(Logins) \in Nat
    BY AddingBound DEF Adding
  <2>3. ASSUME NEW w \in ApiWorkers PROVE admitted[w] <= LoginLimit * (1 + restarts[w])
    <3>1. failures[w] \in Nat /\ admitted[w] \in Nat /\ restarts[w] \in Nat
      BY DEF LoginLimiterTypeOK, Stores
    <3>2. /\ LoginLimit * restarts[w] \in Nat
          /\ LoginLimit * (1 + restarts[w]) = LoginLimit * restarts[w] + LoginLimit
      BY <2>1, <3>1
    <3> QED
      BY <2>1, <3>1, <3>2 DEF LimiterInv, WorkerInv
  <2> QED
    BY <2>1, <2>2, <2>3 DEF WindowInv, FailuresAreLimited
<1> QED
  BY <1>1, LimiterInvHolds, LoginLimiterTypes, PTL

------------------------------------------------------------------------------
(***************************************************************************)
(* UserDirectory: the users and their administrators.                      *)
(***************************************************************************)

\* A request between its checks and its commit.
RequestRecord ==
  [by : Users, target : Users, read : Row \cup {Absent}, row : Row,
   shared : BOOLEAN, stale : BOOLEAN]

\* What the variables of UserDirectory hold.
DirectoryTables ==
  /\ user \in [Users -> Row \cup {Absent}]
  /\ request \in [Requests -> {NoRequest} \cup RequestRecord]
  /\ crossed \in BOOLEAN /\ unwatched \in BOOLEAN

\* A request that has passed its checks and has not committed.
InFlight(r) == request[r] # NoRequest

\* What the checks of a request leave true until its commit: the row it will write keeps
\* the company rule, a request that nothing overlaps still sees what it read, and who
\* deactivates an administrator is another one, unless he has changed.
Checked(r) ==
  LET q == request[r] IN
  /\ crossed \/ (q.row.role # "admin" => q.row.company # NoCompany)
  /\ q.read # Absent => Exists(q.target)
  /\ ~q.shared =>
       /\ user[q.target] = q.read
       /\ \A p \in Requests \ {r} : InFlight(p) => request[p].target # q.target
  /\ ~q.stale /\ q.read # Absent /\ q.read.role = "admin" /\ ~q.row.active =>
       q.by # q.target /\ Exists(q.by) /\ IsAdmin(q.by) /\ user[q.by].active

\* What is proved to be inductive of UserDirectory.
DirectoryInv ==
  /\ DirectoryTables
  /\ \A r \in Requests : InFlight(r) => Checked(r)
  /\ DirectoryRules

\* The row a commit writes takes each field from the request or from the table.
LEMMA WrittenRow ==
  ASSUME NEW old \in Row, NEW read \in Row, NEW row \in Row
  PROVE  /\ Written(old, read, row) \in Row
         /\ Written(old, read, row).role = IF row.role = read.role THEN old.role ELSE row.role
         /\ Written(old, read, row).company
              = IF row.company = read.company THEN old.company ELSE row.company
         /\ Written(old, read, row).active
              = IF row.active = read.active THEN old.active ELSE row.active
         /\ old = read => Written(old, read, row) = row
<1> DEFINE w == Written(old, read, row)
<1>1. read # Absent
  BY DEF Row, Absent
<1>2. DOMAIN row = {"role", "company", "active"}
  BY DEF Row
<1>3. w = [f \in {"role", "company", "active"} |-> IF row[f] = read[f] THEN old[f] ELSE row[f]]
  BY <1>1, <1>2 DEF Written
<1>4. /\ w["role"] = (IF row["role"] = read["role"] THEN old["role"] ELSE row["role"])
      /\ w["company"] = (IF row["company"] = read["company"] THEN old["company"] ELSE row["company"])
      /\ w["active"] = (IF row["active"] = read["active"] THEN old["active"] ELSE row["active"])
  BY <1>3
<1>5. w = [role |-> w["role"], company |-> w["company"], active |-> w["active"]]
  BY <1>3
<1>6. w \in Row
  BY <1>4, <1>5 DEF Row
<1>7. old = read => w = row
  <2>1. row = [f \in {"role", "company", "active"} |-> row[f]]
    BY DEF Row
  <2> QED
    BY <1>3, <2>1
<1> QED
  BY <1>4, <1>6, <1>7

\* The fields of a pending request.
LEMMA RequestFields ==
  ASSUME DirectoryTables, NEW r \in Requests, InFlight(r)
  PROVE  /\ request[r] \in RequestRecord
         /\ request[r].by \in Users /\ request[r].target \in Users
         /\ request[r].read \in Row \cup {Absent} /\ request[r].row \in Row
         /\ request[r].shared \in BOOLEAN /\ request[r].stale \in BOOLEAN
BY DEF DirectoryTables, InFlight, RequestRecord

\* What accepting a request does to the others: those on its target overlap it.
LEMMA AcceptOthers ==
  ASSUME DirectoryTables, NEW r \in Requests, NEW by \in Users, NEW u \in Users, NEW row \in Row,
         Accept(r, by, u, row), NEW p \in Requests, p # r
  PROVE  /\ request'[p] \in {NoRequest} \cup RequestRecord
         /\ request'[p] # NoRequest =>
              /\ InFlight(p)
              /\ request'[p].by = request[p].by /\ request'[p].target = request[p].target
              /\ request'[p].read = request[p].read /\ request'[p].row = request[p].row
              /\ request'[p].stale = request[p].stale
              /\ ~request'[p].shared => ~request[p].shared /\ request[p].target # u
<1> DEFINE others == {q \in Requests \ {r} : request[q] # NoRequest /\ request[q].target = u}
<1>1. request'[p] = IF p \in others THEN [request[p] EXCEPT !.shared = TRUE] ELSE request[p]
  BY DEF Accept
<1>2. CASE p \in others
  <2>1. request[p] \in RequestRecord /\ request'[p] = [request[p] EXCEPT !.shared = TRUE]
    BY <1>1, <1>2, RequestFields DEF InFlight
  <2>2. /\ request'[p] \in RequestRecord /\ request'[p].shared = TRUE
        /\ request'[p].by = request[p].by /\ request'[p].target = request[p].target
        /\ request'[p].read = request[p].read /\ request'[p].row = request[p].row
        /\ request'[p].stale = request[p].stale
    BY <2>1 DEF RequestRecord
  <2> QED
    BY <1>2, <2>2 DEF InFlight
<1>3. CASE p \notin others
  <2>1. request'[p] = request[p]
    BY <1>1, <1>3
  <2>2. request[p] \in {NoRequest} \cup RequestRecord
    BY DEF DirectoryTables
  <2>3. request[p] # NoRequest => request[p].target # u
    BY <1>3
  <2> QED
    BY <2>1, <2>2, <2>3 DEF InFlight
<1> QED
  BY <1>2, <1>3

\* A request that passed its checks is accepted.
LEMMA AcceptKeeps ==
  ASSUME DirectoryInv, NEW r \in Requests, NEW by \in Users, NEW u \in Users, NEW row \in Row,
         request[r] = NoRequest, Accept(r, by, u, row), UNCHANGED <<user, crossed, unwatched>>,
         crossed \/ (row.role # "admin" => row.company # NoCompany),
         Exists(u) /\ IsAdmin(u) /\ ~row.active =>
           by # u /\ Exists(by) /\ IsAdmin(by) /\ user[by].active
  PROVE  DirectoryInv'
<1> DEFINE others == {q \in Requests \ {r} : request[q] # NoRequest /\ request[q].target = u}
           new == [by |-> by, target |-> u, read |-> user[u], row |-> row,
                   shared |-> others # {}, stale |-> FALSE]
<1>1. /\ DirectoryTables /\ DirectoryRules
      /\ \A p \in Requests : InFlight(p) => Checked(p)
  BY DEF DirectoryInv
<1>2. /\ request'[r] = new
      /\ request' = [q \in Requests |->
           IF q = r THEN new
           ELSE IF q \in others THEN [request[q] EXCEPT !.shared = TRUE] ELSE request[q]]
  BY DEF Accept
<1>3. new \in RequestRecord
  <2>1. user[u] \in Row \cup {Absent} /\ (others # {}) \in BOOLEAN
    BY <1>1 DEF DirectoryTables
  <2> QED
    BY <2>1 DEF RequestRecord
<1>4. DirectoryTables'
  <2>1. \A p \in Requests : request'[p] \in {NoRequest} \cup RequestRecord
    BY <1>1, <1>2, <1>3, AcceptOthers
  <2>2. request' \in [Requests -> {NoRequest} \cup RequestRecord]
    BY <1>2, <2>1
  <2> QED
    BY <1>1, <2>2 DEF DirectoryTables
<1>5. Checked(r)'
  <2>1. /\ request'[r].by = by /\ request'[r].target = u /\ request'[r].read = user[u]
        /\ request'[r].row = row /\ request'[r].shared = (others # {})
        /\ request'[r].stale = FALSE
    BY <1>2
  <2>2. user[u] # Absent => Exists(u)'
    BY DEF Exists
  <2>3. ~(others # {}) =>
          \A p \in Requests \ {r} : request'[p] # NoRequest => request'[p].target # u
    <3> SUFFICES ASSUME others = {}, NEW p \in Requests \ {r}, request'[p] # NoRequest
                 PROVE  request'[p].target # u
      OBVIOUS
    <3>1. request'[p] = request[p]
      BY <1>2
    <3> QED
      BY <3>1
  <2>4. user[u] # Absent /\ user[u].role = "admin" /\ ~row.active =>
          by # u /\ Exists(by)' /\ IsAdmin(by)' /\ user'[by].active
    BY DEF Exists, IsAdmin
  <2> QED
    BY <2>1, <2>2, <2>3, <2>4 DEF Checked, InFlight
<1>6. ASSUME NEW p \in Requests, p # r, request'[p] # NoRequest PROVE Checked(p)'
  <2>1. /\ InFlight(p)
        /\ request'[p].by = request[p].by /\ request'[p].target = request[p].target
        /\ request'[p].read = request[p].read /\ request'[p].row = request[p].row
        /\ request'[p].stale = request[p].stale
        /\ ~request'[p].shared => ~request[p].shared /\ request[p].target # u
    BY <1>1, <1>6, AcceptOthers
  <2>2. Checked(p)
    BY <1>1, <2>1
  <2>3. ~request'[p].shared =>
          \A q \in Requests \ {p} : request'[q] # NoRequest => request'[q].target # request[p].target
    <3> SUFFICES ASSUME ~request'[p].shared, NEW q \in Requests \ {p}, request'[q] # NoRequest
                 PROVE  request'[q].target # request[p].target
      OBVIOUS
    <3>1. CASE q = r
      BY <1>2, <2>1, <3>1
    <3>2. CASE q # r
      <4>1. InFlight(q) /\ request'[q].target = request[q].target
        BY <1>1, <3>2, AcceptOthers
      <4> QED
        BY <2>1, <2>2, <4>1 DEF Checked
    <3> QED
      BY <3>1, <3>2
  <2>4. \A w \in Users : (Exists(w)' <=> Exists(w)) /\ (IsAdmin(w)' <=> IsAdmin(w))
    BY DEF Exists, IsAdmin
  <2>5. request[p].target \in Users /\ request[p].by \in Users
    BY <1>1, <2>1, RequestFields
  <2> QED
    BY <2>1, <2>2, <2>3, <2>4, <2>5 DEF Checked, InFlight
<1>7. DirectoryRules'
  BY <1>1 DEF DirectoryRules, NonAdminHasCompany, AdminRemains, Exists, IsAdmin
<1> QED
  BY <1>4, <1>5, <1>6, <1>7 DEF DirectoryInv, InFlight

\* The row that a commit leaves at its target.
Final(q) ==
  IF q.read = Absent /\ Exists(q.target) THEN user[q.target]
  ELSE Written(user[q.target], q.read, q.row)

\* A row a commit leaves, and why it keeps both rules.
LEMMA FinalRow ==
  ASSUME DirectoryInv, NEW r \in Requests, InFlight(r)
  PROVE  LET q == request[r]
             row == Final(q)
         IN /\ row \in Row /\ row # Absent
            /\ ~q.shared => row = q.row
            /\ user[q.target] # Absent /\ user[q.target].active /\ ~row.active =>
                 q.read # Absent /\ ~q.row.active
            /\ user[q.target] # Absent /\ row # user[q.target] => q.read # Absent
<1> DEFINE q == request[r]
           old == user[q.target]
           row == Final(q)
<1>1. /\ q.target \in Users /\ q.read \in Row \cup {Absent} /\ q.row \in Row
      /\ old \in Row \cup {Absent}
      /\ q.read # Absent => Exists(q.target)
      /\ ~q.shared => old = q.read
  BY RequestFields DEF DirectoryInv, DirectoryTables, Checked
<1>2. \A x \in Row : x # Absent /\ x.active \in BOOLEAN
  <2>1. Absent.role = "absent"
    BY DEF Absent
  <2> QED
    BY <2>1 DEF Row, Roles
<1>3. CASE q.read = Absent /\ Exists(q.target)
  <2>1. row = old /\ old \in Row /\ q.shared
    BY <1>1, <1>3 DEF Final, Exists
  <2> QED
    BY <1>2, <1>3, <2>1
<1>4. CASE q.read = Absent /\ ~Exists(q.target)
  <2>1. row = q.row /\ old = Absent
    BY <1>4 DEF Final, Written, Exists
  <2> QED
    BY <1>1, <1>2, <2>1
<1>5. CASE q.read # Absent
  <2>1. row = Written(old, q.read, q.row) /\ old \in Row /\ q.read \in Row
    BY <1>1, <1>5 DEF Final, Exists
  <2>2. /\ row \in Row
        /\ row.active = IF q.row.active = q.read.active THEN old.active ELSE q.row.active
        /\ old = q.read => row = q.row
    BY <1>1, <2>1, WrittenRow
  <2> QED
    BY <1>1, <1>2, <1>5, <2>1, <2>2
<1> QED
  BY <1>3, <1>4, <1>5

\* What a commit does to the other requests: those of its target are stale.
LEMMA CommitOthers ==
  ASSUME DirectoryTables, NEW r \in Requests, Commit(r), NEW p \in Requests, p # r
  PROVE  /\ request'[p] \in {NoRequest} \cup RequestRecord
         /\ request'[p] # NoRequest =>
              /\ InFlight(p)
              /\ request'[p].by = request[p].by /\ request'[p].target = request[p].target
              /\ request'[p].read = request[p].read /\ request'[p].row = request[p].row
              /\ request'[p].shared = request[p].shared
              /\ ~request'[p].stale => ~request[p].stale /\ request[p].by # request[r].target
<1> DEFINE t == request[r].target
<1>1. request' = [q \in Requests |->
        IF q = r \/ request[q] = NoRequest THEN IF q = r THEN NoRequest ELSE request[q]
        ELSE [request[q] EXCEPT !.stale = @ \/ request[q].by = t]]
  BY DEF Commit
<1>2. CASE request[p] = NoRequest
  BY <1>1, <1>2
<1>3. CASE request[p] # NoRequest
  <2> DEFINE aged == request[p].stale \/ request[p].by = t
  <2>1. request'[p] = [request[p] EXCEPT !.stale = aged]
    BY <1>1, <1>3
  <2>2. request[p] \in RequestRecord /\ aged \in BOOLEAN
    BY <1>3, RequestFields DEF InFlight
  <2> HIDE DEF aged
  <2>3. /\ request'[p] \in RequestRecord /\ request'[p].stale = aged
        /\ request'[p].by = request[p].by /\ request'[p].target = request[p].target
        /\ request'[p].read = request[p].read /\ request'[p].row = request[p].row
        /\ request'[p].shared = request[p].shared
    BY <2>1, <2>2 DEF RequestRecord
  <2> QED
    BY <1>3, <2>3 DEF InFlight, aged
<1> QED
  BY <1>2, <1>3

\* A commit keeps the checks of the others and the rules of the directory.
LEMMA CommitKeeps ==
  ASSUME DirectoryInv, NEW r \in Requests, Commit(r)
  PROVE  DirectoryInv'
<1> DEFINE q == request[r]
           t == q.target
           row == Final(q)
<1>0. /\ DirectoryTables /\ DirectoryRules
      /\ \A p \in Requests : InFlight(p) => Checked(p)
  BY DEF DirectoryInv
<1>1. /\ InFlight(r) /\ user' = [user EXCEPT ![t] = row]
      /\ crossed' = (crossed \/ q.shared)
      /\ unwatched' = (unwatched \/ q.stale
                         \/ (q.read # Absent /\ IsAdmin(t)
                             /\ (row.role # "admin" \/ q.read.role # "admin")))
      /\ request'[r] = NoRequest
      /\ DOMAIN request' = Requests /\ request' = [p \in Requests |-> request'[p]]
  BY DEF Commit, Final, InFlight
<1>2. /\ q.by \in Users /\ t \in Users /\ q.read \in Row \cup {Absent} /\ q.row \in Row
      /\ q.shared \in BOOLEAN /\ q.stale \in BOOLEAN /\ Checked(r)
      /\ user \in [Users -> Row \cup {Absent}]
  BY <1>0, <1>1, RequestFields DEF DirectoryTables
<1>3. /\ row \in Row /\ row # Absent
      /\ ~q.shared => row = q.row
      /\ user[t] # Absent /\ user[t].active /\ ~row.active => q.read # Absent /\ ~q.row.active
      /\ user[t] # Absent /\ row # user[t] => q.read # Absent
  BY <1>1, FinalRow
<1> HIDE DEF row
<1>4. user'[t] = row /\ \A u \in Users : u # t => user'[u] = user[u]
  BY <1>1, <1>2
<1>5. DirectoryTables'
  <2>1. \A p \in Requests : request'[p] \in {NoRequest} \cup RequestRecord
    BY <1>0, <1>1, CommitOthers
  <2>2. request' \in [Requests -> {NoRequest} \cup RequestRecord]
    BY <1>1, <2>1
  <2>3. user' \in [Users -> Row \cup {Absent}]
    BY <1>1, <1>2, <1>3
  <2>4. crossed' \in BOOLEAN /\ unwatched' \in BOOLEAN
    BY <1>0, <1>1 DEF DirectoryTables
  <2> QED
    BY <2>2, <2>3, <2>4 DEF DirectoryTables
<1>6. ASSUME NEW p \in Requests, request'[p] # NoRequest PROVE Checked(p)'
  <2>0. p # r
    BY <1>1, <1>6
  <2>1. /\ InFlight(p)
        /\ request'[p].by = request[p].by /\ request'[p].target = request[p].target
        /\ request'[p].read = request[p].read /\ request'[p].row = request[p].row
        /\ request'[p].shared = request[p].shared
        /\ ~request'[p].stale => ~request[p].stale /\ request[p].by # t
    BY <1>0, <1>6, <2>0, CommitOthers
  <2>2. /\ Checked(p) /\ request[p].target \in Users /\ request[p].by \in Users
    BY <1>0, <2>1, RequestFields
  <2>3. crossed' \/ (request[p].row.role # "admin" => request[p].row.company # NoCompany)
    BY <1>1, <2>2 DEF Checked
  <2>4. request[p].read # Absent => user'[request[p].target] # Absent
    BY <1>3, <1>4, <2>2 DEF Checked, Exists
  <2>5. ~request[p].shared =>
          /\ user'[request[p].target] = request[p].read
          /\ \A o \in Requests \ {p} : request'[o] # NoRequest => request'[o].target # request[p].target
    <3> SUFFICES ASSUME ~request[p].shared
                 PROVE  /\ user'[request[p].target] = request[p].read
                        /\ \A o \in Requests \ {p} :
                             request'[o] # NoRequest => request'[o].target # request[p].target
      OBVIOUS
    <3>1. t # request[p].target
      BY <1>1, <2>0, <2>2 DEF Checked
    <3>2. user'[request[p].target] = request[p].read
      BY <1>4, <2>2, <3>1 DEF Checked
    <3>3. ASSUME NEW o \in Requests \ {p}, request'[o] # NoRequest
          PROVE  request'[o].target # request[p].target
      <4>1. o # r
        BY <1>1, <3>3
      <4>2. InFlight(o) /\ request'[o].target = request[o].target
        BY <1>0, <3>3, <4>1, CommitOthers
      <4> QED
        BY <2>2, <4>2 DEF Checked
    <3> QED
      BY <3>2, <3>3
  <2>6. ~request'[p].stale /\ request[p].read # Absent /\ request[p].read.role = "admin"
          /\ ~request[p].row.active =>
          /\ request[p].by # request[p].target /\ user'[request[p].by] # Absent
          /\ user'[request[p].by].role = "admin" /\ user'[request[p].by].active
    BY <1>4, <2>1, <2>2 DEF Checked, Exists, IsAdmin
  <2> QED
    BY <2>1, <2>3, <2>4, <2>5, <2>6 DEF Checked, InFlight, Exists, IsAdmin
<1>7. NonAdminHasCompany'
  <2> SUFFICES ASSUME ~crossed', NEW u \in Users, user'[u] # Absent, user'[u].role # "admin"
               PROVE  user'[u].company # NoCompany
    BY DEF NonAdminHasCompany, Exists, IsAdmin
  <2>1. ~crossed /\ ~q.shared
    BY <1>1
  <2>2. CASE u = t
    BY <1>2, <1>3, <1>4, <2>1, <2>2 DEF Checked
  <2>3. CASE u # t
    BY <1>0, <1>4, <2>1, <2>3 DEF DirectoryRules, NonAdminHasCompany, Exists, IsAdmin
  <2> QED
    BY <2>2, <2>3
<1>8. AdminRemains'
  <2> SUFFICES ASSUME ~unwatched'
               PROVE  \E u \in Users : user'[u] # Absent /\ user'[u].role = "admin" /\ user'[u].active
    BY DEF AdminRemains, Exists, IsAdmin
  <2>1. /\ ~unwatched /\ ~q.stale
        /\ ~(q.read # Absent /\ IsAdmin(t) /\ (row.role # "admin" \/ q.read.role # "admin"))
    BY <1>1
  <2>2. PICK a \in Users : Exists(a) /\ IsAdmin(a) /\ user[a].active
    BY <1>0, <2>1 DEF DirectoryRules, AdminRemains
  <2>3. CASE a # t
    BY <1>4, <2>2, <2>3 DEF Exists, IsAdmin
  <2>4. CASE a = t /\ row.role = "admin" /\ row.active
    BY <1>3, <1>4, <2>4
  <2>5. CASE a = t /\ ~(row.role = "admin" /\ row.active)
    <3>1. user[t] # Absent /\ user[t].role = "admin" /\ user[t].active
      BY <2>2, <2>5 DEF Exists, IsAdmin
    <3>2. q.read # Absent
      BY <1>3, <2>5, <3>1
    <3>3. row.role = "admin" /\ q.read.role = "admin"
      BY <2>1, <3>1, <3>2 DEF IsAdmin
    <3>4. ~row.active /\ ~q.row.active
      BY <1>3, <2>5, <3>1, <3>3
    <3>5. q.by # t /\ Exists(q.by) /\ IsAdmin(q.by) /\ user[q.by].active
      BY <1>2, <2>1, <3>2, <3>3, <3>4 DEF Checked
    <3> QED
      BY <1>2, <1>4, <3>5 DEF Exists, IsAdmin
  <2> QED
    BY <2>3, <2>4, <2>5
<1> QED
  BY <1>5, <1>6, <1>7, <1>8 DEF DirectoryInv, DirectoryRules, InFlight

\* What the checks leave true lasts until the commit, whatever other requests commit.
THEOREM DirectoryInvHolds == UserDirectorySpec => []DirectoryInv
<1>1. UserDirectoryInit => DirectoryInv
  <2> SUFFICES ASSUME UserDirectoryInit PROVE DirectoryInv
    OBVIOUS
  <2> DEFINE first == [role |-> "admin", company |-> NoCompany, active |-> TRUE]
  <2>1. /\ user = [u \in Users |-> IF u = FirstAdmin THEN first ELSE Absent]
        /\ request = [r \in Requests |-> NoRequest]
        /\ crossed = FALSE /\ unwatched = FALSE
    BY DEF UserDirectoryInit
  <2>2. first \in Row /\ FirstAdmin \in Users /\ first # Absent
    <3>1. first.role = "admin" /\ Absent.role = "absent"
      BY DEF Absent
    <3> QED
      BY <3>1, UserDirectoryAssumption DEF UserDirectoryAssumption, Row, Roles
  <2>3. DirectoryTables
    BY <2>1, <2>2 DEF DirectoryTables
  <2>4. \A r \in Requests : ~InFlight(r)
    BY <2>1 DEF InFlight
  <2>5. user[FirstAdmin] = first
    BY <2>1, <2>2
  <2>6. \A u \in Users : Exists(u) => u = FirstAdmin
    BY <2>1 DEF Exists
  <2>7. DirectoryRules
    BY <2>2, <2>5, <2>6 DEF DirectoryRules, NonAdminHasCompany, AdminRemains, IsAdmin, Exists
  <2> QED
    BY <2>3, <2>4, <2>7 DEF DirectoryInv
<1>2. DirectoryInv /\ [UserDirectoryNext]_directoryVars => DirectoryInv'
  <2> SUFFICES ASSUME DirectoryInv, [UserDirectoryNext]_directoryVars PROVE DirectoryInv'
    OBVIOUS
  <2>0. DirectoryTables /\ DirectoryRules
    BY DEF DirectoryInv
  <2>1. ASSUME NEW r \in Requests, NEW by \in Users, NEW u \in Users, CreateUser(r, by, u)
        PROVE  DirectoryInv'
    <3>1. PICK role \in Roles, company \in Companies \cup {NoCompany} :
            /\ role # "admin" /\ IsAdmin(by) => company # NoCompany
            /\ Accept(r, by, u, [role |-> role, company |-> CompanyOf(by, company, role),
                                 active |-> TRUE])
      BY <2>1 DEF CreateUser
    <3> DEFINE row == [role |-> role, company |-> CompanyOf(by, company, role), active |-> TRUE]
    <3>2. /\ request[r] = NoRequest /\ Privileged(by) /\ ~Exists(u)
          /\ UNCHANGED <<user, crossed, unwatched>>
      BY <2>1 DEF CreateUser
    <3>3. user[by] \in Row
      BY <2>0, <3>2 DEF DirectoryTables, Privileged, Exists
    <3>4. row \in Row
      BY <3>3 DEF Row, CompanyOf
    <3>5. crossed \/ (role # "admin" => CompanyOf(by, company, role) # NoCompany)
      BY <2>0, <3>1, <3>2 DEF DirectoryRules, NonAdminHasCompany, CompanyOf, Privileged
    <3> QED
      BY <3>1, <3>2, <3>4, <3>5, AcceptKeeps
  <2>2. ASSUME NEW r \in Requests, NEW by \in Users, NEW u \in Users, UpdateUser(r, by, u)
        PROVE  DirectoryInv'
    <3>1. PICK row \in Row :
            /\ ~IsAdmin(by) => ~IsAdmin(u)
            /\ ~(u = by /\ ~row.active)
            /\ row.role # "admin" => row.company # NoCompany
            /\ Accept(r, by, u, row)
      BY <2>2 DEF UpdateUser, Effective, SelfDeactivates
    <3>2. /\ request[r] = NoRequest /\ Privileged(by)
          /\ UNCHANGED <<user, crossed, unwatched>>
      BY <2>2 DEF UpdateUser
    <3> QED
      BY <3>1, <3>2, AcceptKeeps DEF Privileged
  <2>3. ASSUME NEW r \in Requests, Commit(r) PROVE DirectoryInv'
    BY <2>3, CommitKeeps
  <2>4. CASE UNCHANGED directoryVars
    <3>1. UNCHANGED <<user, request, crossed, unwatched>>
      BY <2>4 DEF directoryVars
    <3> QED
      BY <3>1 DEF DirectoryInv, DirectoryTables, Checked, InFlight, DirectoryRules, NonAdminHasCompany,
                  AdminRemains, Exists, IsAdmin
  <2> QED
    BY <2>1, <2>2, <2>3, <2>4 DEF UserDirectoryNext
<1> QED
  BY <1>1, <1>2, PTL DEF UserDirectorySpec

\* "A non-admin user must always carry a company_id" (services/users.py:8) and deactivations
\* lock nobody out (services/users.py:103), for any number of users and of requests at once.
THEOREM DirectoryRulesHolds == UserDirectorySpec => []DirectoryRules
<1>1. DirectoryInv => DirectoryRules
  BY DEF DirectoryInv
<1> QED
  BY <1>1, DirectoryInvHolds, PTL

\* The tables of UserDirectory hold what they are meant to hold.
LEMMA UserDirectoryTypes == UserDirectorySpec => []UserDirectoryTypeOK
<1>1. DirectoryInv => UserDirectoryTypeOK
  BY DEF DirectoryInv, DirectoryTables, RequestRecord, UserDirectoryTypeOK
<1> QED
  BY <1>1, DirectoryInvHolds, PTL

==============================================================================
