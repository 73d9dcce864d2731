----------------------------- MODULE Dispensing -----------------------------
(***************************************************************************)
(* Code validation and settlement, platform/fmp/services/dispensing.       *)
(*                                                                         *)
(* Each worker is a request handler (an HTTP request or an MQTT frame) in  *)
(* validate_code or complete_dispense.  One action is one stretch of code  *)
(* between two awaits on Redis or PostgreSQL that another handler can      *)
(* observe.  An allocation and its code are created together and belong to *)
(* each other, so both are indexed by the code.                            *)
(*                                                                         *)
(* Abstracted: time (a code may be found expired at any validation, a TTL  *)
(* may run out at any moment), the hash and the digits of a code, tenants, *)
(* the rounding to 3 decimals (amounts are integers of a common unit).     *)
(***************************************************************************)
EXTENDS Integers, Sequences

CONSTANTS
  Workers,       \* concurrent request handlers
  Codes,         \* the codes that can ever be issued (by fingerprint)
  NoCode,        \* "no code"
  NoWorker,      \* "nobody" holds the row
  Quotas,        \* litres a row of a quota sheet may allocate
  Litres,        \* litres a completion may report (actual_liters, gt=0)
  Grace,         \* settings.DISPENSE_GRACE_LITERS
  PartialMin,    \* settings.PARTIAL_MIN_REMAINING_LITERS
  MaxAttempts,   \* settings.CODE_MAX_ATTEMPTS
  MaxCrashes,    \* bound: handlers that die between two steps
  MaxSlow        \* bound: lock TTLs (30 s) that run out under a live holder

ASSUME ConstantsAssumption ==
  /\ NoCode \notin Codes
  /\ NoWorker \notin Workers
  /\ Quotas \subseteq Nat \ {0}
  /\ Litres \subseteq Nat \ {0}
  /\ Grace \in Nat
  /\ PartialMin \in Nat
  /\ MaxAttempts \in Nat
  /\ MaxCrashes \in Nat
  /\ MaxSlow \in Nat

VARIABLES
  \* PostgreSQL
  code,          \* DispenseCode rows: status, attempt_count, consumed_liters
  alloc,         \* Allocation rows: allocated, dispensed, remaining, status
  txns,          \* per code, its DispenseTransaction rows, oldest first
  rowLock,       \* per code, the session that holds SELECT ... FOR UPDATE
  \* Redis
  lock,          \* codes whose key dispense:lock:<fp> exists
  consumedSet,   \* members of dispense:used_fingerprints
  cache,         \* dispense:code:<fp>: the cached litres, or NoEntry
  \* the handlers
  pc, req, snap, ans,
  \* what the stations have been told
  told,          \* codes a station received a success answer of a completion for
  \* fault budget spent
  crashes, slows

dbVars == <<code, alloc, txns>>
redisVars == <<lock, consumedSet, cache>>
faultVars == <<crashes, slows>>
vars == <<dbVars, rowLock, redisVars, pc, req, snap, ans, told, faultVars>>

-----------------------------------------------------------------------------
(* Types *)

NoEntry == -1

CodeRow == [status : {"UNISSUED", "ACTIVE", "CONSUMED"},
            attempts : 0 .. MaxAttempts,
            consumed : Nat]
AllocRow == [allocated : Nat, dispensed : Nat, remaining : Nat,
             status : {"PENDING", "PARTIAL_FULFILLED", "FULFILLED"}]
TxnRow == [litres : Litres,
           status : {"COMPLETED", "OVER_DISPENSE"},
           heir : Codes \cup {NoCode}]    \* history: the code issued with it

ValidateSteps == {"v_used", "v_cached", "v_lookup", "v_commit", "v_warm"}
\* the part of complete_dispense between _acquire_lock and _release_lock
LockedSteps == {"c_replay", "c_find", "c_lookup", "c_commit",
                "c_sadd", "c_uncache", "c_warm", "c_release"}
Steps == {"idle", "c_lock", "reply"} \cup ValidateSteps \cup LockedSteps

Request == [code : Codes \cup {NoCode}, litres : Nat]
Snapshot == [attempts : 0 .. MaxAttempts, consumed : Nat,
             dispensed : Nat, remaining : Nat]
Answer == [kind : {"none", "error", "rejected", "authorized", "settled"},
           litres : Nat, heir : Codes \cup {NoCode}]

NoRequest == [code |-> NoCode, litres |-> 0]
NoSnapshot == [attempts |-> 0, consumed |-> 0, dispensed |-> 0, remaining |-> 0]
NoAnswer == [kind |-> "none", litres |-> 0, heir |-> NoCode]
ErrorAnswer == [NoAnswer EXCEPT !.kind = "error"]
Authorized(litres) == [kind |-> "authorized", litres |-> litres, heir |-> NoCode]
Rejected == [NoAnswer EXCEPT !.kind = "rejected"]

TypeOK ==
  /\ code \in [Codes -> CodeRow]
  /\ alloc \in [Codes -> AllocRow]
  /\ txns \in [Codes -> Seq(TxnRow)]
  /\ rowLock \in [Codes -> Workers \cup {NoWorker}]
  /\ lock \subseteq Codes
  /\ consumedSet \subseteq Codes
  /\ cache \in [Codes -> Nat \cup {NoEntry}]
  /\ pc \in [Workers -> Steps]
  /\ req \in [Workers -> Request]
  /\ snap \in [Workers -> Snapshot]
  /\ ans \in [Workers -> Answer]
  /\ told \subseteq Codes
  /\ crashes \in 0 .. MaxCrashes
  /\ slows \in 0 .. MaxSlow

Init ==
  /\ code = [c \in Codes |-> [status |-> "UNISSUED", attempts |-> 0, consumed |-> 0]]
  /\ alloc = [c \in Codes |-> [allocated |-> 0, dispensed |-> 0,
                               remaining |-> 0, status |-> "PENDING"]]
  /\ txns = [c \in Codes |-> << >>]
  /\ rowLock = [c \in Codes |-> NoWorker]
  /\ lock = {}
  /\ consumedSet = {}
  /\ cache = [c \in Codes |-> NoEntry]
  /\ pc = [w \in Workers |-> "idle"]
  /\ req = [w \in Workers |-> NoRequest]
  /\ snap = [w \in Workers |-> NoSnapshot]
  /\ ans = [w \in Workers |-> NoAnswer]
  /\ told = {}
  /\ crashes = 0
  /\ slows = 0

-----------------------------------------------------------------------------
(* Helpers *)

InCritical(w, c) == pc[w] \in LockedSteps /\ req[w].code = c

Goto(w, step) == pc' = [pc EXCEPT ![w] = step]

(* Steps of a handler that only move it forward. *)
Forward(w, step) ==
  /\ Goto(w, step)
  /\ UNCHANGED <<req, snap, ans>>

(* The handler has its answer; `step` is where it goes with it. *)
AnswerWith(w, answer, step) ==
  /\ Goto(w, step)
  /\ ans' = [ans EXCEPT ![w] = answer]
  /\ UNCHANGED <<req, snap>>

Unlocked(w) == [c \in Codes |-> IF rowLock[c] = w THEN NoWorker ELSE rowLock[c]]

\* mutant: a plain SELECT
LockRow_Plain(w, c) == UNCHANGED rowLock

(* SELECT ... FOR UPDATE (_lookup_code): waits for the row, then reads it. *)
LockRow(w, c) ==
  /\ rowLock[c] = NoWorker
  /\ rowLock' = [rowLock EXCEPT ![c] = w]

ReadRows(c) == [attempts |-> code[c].attempts, consumed |-> code[c].consumed,
                dispensed |-> alloc[c].dispensed, remaining |-> alloc[c].remaining]

\* mutant: the consumed set is not consulted
Consumed_Never(c) == FALSE
Consumed(c) == c \in consumedSet

\* mutant: SET without NX
KeyAbsent_NoNX(c) == TRUE
KeyAbsent(c) == c \notin lock

\* mutant: off by one
AttemptsLeft_OffByOne(c) == code[c].attempts <= MaxAttempts
AttemptsLeft(c) == code[c].attempts < MaxAttempts

IsOver(litres, before) == litres > before + Grace
IsPartial(litres, before) ==
  /\ ~IsOver(litres, before)
  /\ before - litres > PartialMin
\* mutant: the draw is not subtracted
Leftover_Unchanged(litres, before) == before

Leftover(litres, before) == IF before > litres THEN before - litres ELSE 0
-----------------------------------------------------------------------------
(* Quota upload: ingest_excel commits allocations and codes in one go. *)

Fresh(d) == code[d].status = "UNISSUED" /\ d \notin consumedSet

NewCode == [status |-> "ACTIVE", attempts |-> 0, consumed |-> 0]
NewAlloc(litres) == [allocated |-> litres, dispensed |-> 0,
                     remaining |-> litres, status |-> "PENDING"]

Upload(S, quota) ==
  /\ \A d \in S : Fresh(d)
  /\ code' = [d \in Codes |-> IF d \in S THEN NewCode ELSE code[d]]
  /\ alloc' = [d \in Codes |-> IF d \in S THEN NewAlloc(quota[d]) ELSE alloc[d]]
  /\ UNCHANGED <<txns, rowLock, redisVars, pc, req, snap, ans, told, faultVars>>

-----------------------------------------------------------------------------
(* validate_code *)

StartValidate(w, c) ==
  /\ pc[w] = "idle"
  /\ Goto(w, "v_used")
  /\ req' = [req EXCEPT ![w] = [code |-> c, litres |-> 0]]
  /\ UNCHANGED <<dbVars, rowLock, redisVars, snap, ans, told, faultVars>>

(* 1. the consumed set knocks the code out *)
ValidateUsed(w) ==
  /\ pc[w] = "v_used"
  /\ IF Consumed(req[w].code)
       THEN AnswerWith(w, Rejected, "reply")
       ELSE Forward(w, "v_cached")
  /\ UNCHANGED <<dbVars, rowLock, redisVars, told, faultVars>>

(* 2. the station is over its rate limit *)
ValidateRateLimited(w) ==
  /\ pc[w] = "v_cached"
  /\ AnswerWith(w, Rejected, "reply")
  /\ UNCHANGED <<dbVars, rowLock, redisVars, told, faultVars>>

(* 3. a cached entry authorizes at once, with the litres it holds *)
ValidateCached(w) ==
  /\ pc[w] = "v_cached"
  /\ LET hit == cache[req[w].code] IN
       IF hit # NoEntry
         THEN AnswerWith(w, Authorized(hit), "reply")
         ELSE Forward(w, "v_lookup")
  /\ UNCHANGED <<dbVars, rowLock, redisVars, told, faultVars>>

(* 4, 5. no such code, or a state check (or the expiry date) refuses it *)
ValidateRefused(w) ==
  /\ pc[w] = "v_lookup"
  /\ IF code[req[w].code].status = "UNISSUED"
       THEN UNCHANGED rowLock
       ELSE LockRow(w, req[w].code)
  /\ AnswerWith(w, Rejected, "reply")
  /\ UNCHANGED <<dbVars, redisVars, told, faultVars>>

(* 4, 5. the row is locked, read, and passes every check *)
ValidateAccepted(w) ==
  /\ pc[w] = "v_lookup"
  /\ LET c == req[w].code IN
       /\ code[c].status = "ACTIVE"
       /\ AttemptsLeft(c)
       /\ alloc[c].status # "FULFILLED"
       /\ LockRow(w, c)
       /\ snap' = [snap EXCEPT ![w] = ReadRows(c)]
  /\ Goto(w, "v_commit")
  /\ UNCHANGED <<dbVars, redisVars, req, ans, told, faultVars>>

(* attempt_count += 1 from the row read; the commit frees the row *)
ValidateCommit(w) ==
  /\ pc[w] = "v_commit"
  /\ code' = [code EXCEPT ![req[w].code].attempts = snap[w].attempts + 1]
  /\ rowLock' = Unlocked(w)
  /\ Forward(w, "v_warm")
  /\ UNCHANGED <<alloc, txns, redisVars, told, faultVars>>

(* 6. warm the cache with the litres read before the commit *)
ValidateWarm(w) ==
  /\ pc[w] = "v_warm"
  /\ cache' = [cache EXCEPT ![req[w].code] = snap[w].remaining]
  /\ AnswerWith(w, Authorized(snap[w].remaining), "reply")
  /\ UNCHANGED <<dbVars, rowLock, lock, consumedSet, told, faultVars>>

-----------------------------------------------------------------------------
(* complete_dispense *)

StartComplete(w, c, litres) ==
  /\ pc[w] = "idle"
  /\ Goto(w, "c_lock")
  /\ req' = [req EXCEPT ![w] = [code |-> c, litres |-> litres]]
  /\ UNCHANGED <<dbVars, rowLock, redisVars, snap, ans, told, faultVars>>

(* _acquire_lock: SET NX EX 30 *)
AcquireLock(w) ==
  /\ pc[w] = "c_lock"
  /\ KeyAbsent(req[w].code)
  /\ lock' = lock \cup {req[w].code}
  /\ Forward(w, "c_replay")
  /\ UNCHANGED <<dbVars, rowLock, consumedSet, cache, told, faultVars>>


(* 50 tries found the key set: TimeoutError, before the try block *)
AcquireTimeout(w) ==
  /\ pc[w] = "c_lock"
  /\ req[w].code \in lock
  /\ AnswerWith(w, ErrorAnswer, "reply")
  /\ UNCHANGED <<dbVars, rowLock, redisVars, told, faultVars>>

(* the replay guard *)
CheckReplay(w) ==
  /\ pc[w] = "c_replay"
  /\ Forward(w, IF Consumed(req[w].code) THEN "c_find" ELSE "c_lookup")
  /\ UNCHANGED <<dbVars, rowLock, redisVars, told, faultVars>>

SettledAnswer(litres, heir) == [kind |-> "settled", litres |-> litres, heir |-> heir]

\* mutant: the replay is answered with the litres it asks for
LatestLitres_AsAsked(w) == req[w].litres
LatestLitres(w) == LET rows == txns[req[w].code] IN rows[Len(rows)].litres

(* a consumed code: answer with its latest transaction, without the heir *)
FindTxn(w) ==
  /\ pc[w] = "c_find"
  /\ LockRow(w, req[w].code)
  /\ AnswerWith(w, IF txns[req[w].code] = << >> THEN ErrorAnswer
                   ELSE SettledAnswer(LatestLitres(w), NoCode), "c_release")
  /\ UNCHANGED <<dbVars, redisVars, told, faultVars>>

(* unknown code: the "REJECTED" response fails its own schema and raises *)
LookupUnknown(w) ==
  /\ pc[w] = "c_lookup"
  /\ code[req[w].code].status = "UNISSUED"
  /\ AnswerWith(w, ErrorAnswer, "c_release")
  /\ UNCHANGED <<dbVars, rowLock, redisVars, told, faultVars>>

(* lock and read the row; no status, expiry or attempt check follows *)
LookupFound(w) ==
  /\ pc[w] = "c_lookup"
  /\ code[req[w].code].status # "UNISSUED"
  /\ LockRow(w, req[w].code)
  /\ snap' = [snap EXCEPT ![w] = ReadRows(req[w].code)]
  /\ Goto(w, "c_commit")
  /\ UNCHANGED <<dbVars, redisVars, req, ans, told, faultVars>>

(* the rows as the commit leaves them *)
SettledAlloc(w, status) ==
  [allocated |-> alloc[req[w].code].allocated,
   dispensed |-> snap[w].dispensed + req[w].litres,
   remaining |-> Leftover(req[w].litres, snap[w].remaining),
   status |-> status]
SettledCode(w) ==
  [status |-> "CONSUMED",
   attempts |-> code[req[w].code].attempts,
   consumed |-> snap[w].consumed + req[w].litres]
SettledTxns(w, heir) ==
  LET over == IsOver(req[w].litres, snap[w].remaining) IN
  Append(txns[req[w].code],
         [litres |-> req[w].litres,
          status |-> IF over THEN "OVER_DISPENSE" ELSE "COMPLETED",
          heir |-> heir])

(* commit of a settlement that leaves nothing worth a new code *)
SettleAll(w) ==
  /\ pc[w] = "c_commit"
  /\ ~IsPartial(req[w].litres, snap[w].remaining)
  /\ LET c == req[w].code IN
       /\ code' = [code EXCEPT ![c] = SettledCode(w)]
       /\ alloc' = [alloc EXCEPT ![c] = SettledAlloc(w, "FULFILLED")]
       /\ txns' = [txns EXCEPT ![c] = SettledTxns(w, NoCode)]
  /\ rowLock' = Unlocked(w)
  /\ AnswerWith(w, SettledAnswer(req[w].litres, NoCode), "c_sadd")
  /\ UNCHANGED <<redisVars, told, faultVars>>

(* commit of a partial settlement together with the code for the rest *)
SettlePart(w, d) ==
  /\ pc[w] = "c_commit"
  /\ IsPartial(req[w].litres, snap[w].remaining)
  /\ Fresh(d)
  /\ LET c == req[w].code IN
       /\ code' = [code EXCEPT ![c] = SettledCode(w), ![d] = NewCode]
       /\ alloc' = [alloc EXCEPT
                      ![c] = SettledAlloc(w, "PARTIAL_FULFILLED"),
                      ![d] = NewAlloc(Leftover(req[w].litres, snap[w].remaining))]
       /\ txns' = [txns EXCEPT ![c] = SettledTxns(w, d)]
  /\ rowLock' = Unlocked(w)
  /\ AnswerWith(w, SettledAnswer(req[w].litres, d), "c_sadd")
  /\ UNCHANGED <<redisVars, told, faultVars>>

(* The commit is rolled back, or no unique code was found and the rollback  *)
(* waits for the end of the session; either way the error is raised.       *)
SettleFails(w) ==
  /\ pc[w] = "c_commit"
  /\ rowLock' \in {rowLock, Unlocked(w)}
  /\ AnswerWith(w, ErrorAnswer, "c_release")
  /\ UNCHANGED <<dbVars, redisVars, told, faultVars>>

\* mutant: the SADD does not come through
AddConsumed_Lost(c) == consumedSet
AddConsumed(c) == consumedSet \cup {c}

(* post-commit side effects *)
MarkConsumed(w) ==
  /\ pc[w] = "c_sadd"
  /\ consumedSet' = AddConsumed(req[w].code)
  /\ Forward(w, "c_uncache")
  /\ UNCHANGED <<dbVars, rowLock, lock, cache, told, faultVars>>

DropCache(w) ==
  /\ pc[w] = "c_uncache"
  /\ cache' = [cache EXCEPT ![req[w].code] = NoEntry]
  /\ Forward(w, IF ans[w].heir = NoCode THEN "c_release" ELSE "c_warm")
  /\ UNCHANGED <<dbVars, rowLock, lock, consumedSet, told, faultVars>>

\* mutant: the new code is cached with the litres of the old one
HeirLitres_Old(w) == snap[w].remaining
HeirLitres(w) == Leftover(req[w].litres, snap[w].remaining)

WarmHeir(w) ==
  /\ pc[w] = "c_warm"
  /\ cache' = [cache EXCEPT ![ans[w].heir] = HeirLitres(w)]
  /\ Forward(w, "c_release")
  /\ UNCHANGED <<dbVars, rowLock, lock, consumedSet, told, faultVars>>

(* _release_lock: an unconditional DEL, whoever set the key *)
ReleaseLock(w) ==
  /\ pc[w] = "c_release"
  /\ lock' = lock \ {req[w].code}
  /\ Forward(w, "reply")
  /\ UNCHANGED <<dbVars, rowLock, consumedSet, cache, told, faultVars>>

-----------------------------------------------------------------------------
(* End of a request: the session closes (what it still holds is rolled     *)
(* back) and the answer leaves; it reaches the station, or is lost.        *)

GoIdle(w) ==
  /\ Goto(w, "idle")
  /\ req' = [req EXCEPT ![w] = NoRequest]
  /\ snap' = [snap EXCEPT ![w] = NoSnapshot]
  /\ ans' = [ans EXCEPT ![w] = NoAnswer]
  /\ rowLock' = Unlocked(w)

Reply(w) ==
  /\ pc[w] = "reply"
  /\ told' = IF ans[w].kind = "settled" THEN told \cup {req[w].code} ELSE told
  /\ GoIdle(w)
  /\ UNCHANGED <<dbVars, redisVars, faultVars>>

ReplyLost(w) ==
  /\ pc[w] = "reply"
  /\ GoIdle(w)
  /\ UNCHANGED <<dbVars, redisVars, told, faultVars>>

-----------------------------------------------------------------------------
(* The environment *)

(* the process dies; its Redis lock stays until the TTL *)
Crash(w) ==
  /\ pc[w] # "idle"
  /\ crashes < MaxCrashes
  /\ crashes' = crashes + 1
  /\ GoIdle(w)
  /\ UNCHANGED <<dbVars, redisVars, told, slows>>

\* mutant: SET without EX
LockExpire_NoTTL(c) == FALSE /\ UNCHANGED vars

(* EX 30 on a key whose holder is gone *)
LockExpire(c) ==
  /\ c \in lock
  /\ \A w \in Workers : ~InCritical(w, c)
  /\ lock' = lock \ {c}
  /\ UNCHANGED <<dbVars, rowLock, consumedSet, cache, pc, req, snap, ans,
                 told, faultVars>>

(* EX 30 under a holder that is still at work *)
SlowExpire(c) ==
  /\ c \in lock
  /\ \E w \in Workers : InCritical(w, c)
  /\ slows < MaxSlow
  /\ slows' = slows + 1
  /\ lock' = lock \ {c}
  /\ UNCHANGED <<dbVars, rowLock, consumedSet, cache, pc, req, snap, ans,
                 told, crashes>>

(* ttl=300 on a cached code *)
CacheExpire(c) ==
  /\ cache[c] # NoEntry
  /\ cache' = [cache EXCEPT ![c] = NoEntry]
  /\ UNCHANGED <<dbVars, rowLock, lock, consumedSet, pc, req, snap, ans,
                 told, faultVars>>

-----------------------------------------------------------------------------
ValidateStep(w) ==
  \/ ValidateUsed(w) \/ ValidateRateLimited(w) \/ ValidateCached(w)
  \/ ValidateRefused(w) \/ ValidateAccepted(w)
  \/ ValidateCommit(w) \/ ValidateWarm(w)

CompleteStep(w) ==
  \/ AcquireLock(w) \/ AcquireTimeout(w) \/ CheckReplay(w) \/ FindTxn(w)
  \/ LookupUnknown(w) \/ LookupFound(w)
  \/ SettleAll(w) \/ (\E d \in Codes : SettlePart(w, d)) \/ SettleFails(w)
  \/ MarkConsumed(w) \/ DropCache(w) \/ WarmHeir(w) \/ ReleaseLock(w)

(* what the event loop does for a request once it has arrived *)
Handle(w) == ValidateStep(w) \/ CompleteStep(w) \/ Reply(w) \/ ReplyLost(w)

Arrive(w) ==
  \/ \E c \in Codes : StartValidate(w, c)
  \/ \E c \in Codes, litres \in Litres : StartComplete(w, c, litres)

Next ==
  \/ \E S \in SUBSET Codes : S # {} /\ \E quota \in [S -> Quotas] : Upload(S, quota)
  \/ \E w \in Workers : Arrive(w) \/ Handle(w) \/ Crash(w)
  \/ \E c \in Codes : LockExpire(c) \/ SlowExpire(c) \/ CacheExpire(c)

Spec == Init /\ [][Next]_vars

(* Steps that wait for a row lock: PostgreSQL queues the waiters of a row. *)
RowWait(w) ==
  ValidateRefused(w) \/ ValidateAccepted(w) \/ FindTxn(w) \/ LookupFound(w)

(* A request that runs is scheduled by the event loop, a waiter of a row   *)
(* lock is served in turn, and Redis removes expired keys; nothing makes a *)
(* request arrive or an answer get through.                                *)
Fairness ==
  /\ \A w \in Workers : WF_vars(Handle(w)) /\ SF_vars(RowWait(w))
  /\ \A c \in Codes : WF_vars(LockExpire(c))

-----------------------------------------------------------------------------
(* Properties *)

\* No code is settled twice: the Redis lock, the row lock and the consumed set
\* together keep every retry, duplicate and concurrent callback of
\* complete_dispense from settling a code again (dispense_engine.py:17-20).
SettledOnce == \A c \in Codes : Len(txns[c]) <= 1

\* Between _acquire_lock and _release_lock a handler is alone with its code.
OneHolder ==
  \A c \in Codes : \A v, w \in Workers :
    InCritical(v, c) /\ InCritical(w, c) => v = w

\* Whatever crashes and lock expiries do, every settlement of a code beyond the
\* first is paid for by one of them: complete_dispense never settles a code
\* again for free.
FaultsBoundSettlements ==
  \A c \in Codes : Len(txns[c]) <= 1 + crashes + slows

\* What a handler read under SELECT ... FOR UPDATE is still in the rows when it
\* writes them back: no crash, lock expiry or second holder of the Redis lock
\* makes complete_dispense or validate_code overwrite an update it has not seen.
NoLostUpdate ==
  \A w \in Workers :
    pc[w] \in {"v_commit", "c_commit"} => snap[w] = ReadRows(req[w].code)

\* A station that was told a completion succeeded finds the code refused from
\* then on: it is in the consumed set that validate_code looks at first.
ToldIsConsumed == told \subseteq consumedSet

\* While a code can still be drawn on, the litres a cached authorization quotes
\* are the litres its allocation has left (validate_code, step 3 against 4).
CacheCoherent ==
  \A c \in Codes :
    code[c].status = "ACTIVE" /\ cache[c] # NoEntry => cache[c] = alloc[c].remaining

\* the litres of a code's transactions, as a report adds them up
Logged(rows) ==
  LET sum[n \in 0 .. Len(rows)] ==
        IF n = 0 THEN 0 ELSE sum[n - 1] + rows[n].litres
  IN  sum[Len(rows)]

\* The litres of the transactions recorded for a code are the litres its row and
\* its allocation count, and the allocation has left what they leave of it,
\* through every crash and lock expiry: what the reports add up from
\* dispense_transactions is what complete_dispense charged.
LedgerAgrees ==
  \A c \in Codes :
    LET logged == Logged(txns[c]) IN
      /\ code[c].consumed = logged
      /\ alloc[c].dispensed = logged
      /\ alloc[c].remaining = IF logged < alloc[c].allocated
                                THEN alloc[c].allocated - logged ELSE 0

\* A settled code is refused before a stale quote of it is read: it is in the consumed
\* set, but for the time between the commit and the SADD, or after a death.
SettledIsRefused ==
  \A c \in Codes :
    txns[c] # << >> /\ c \notin consumedSet =>
      crashes > 0 \/ \E w \in Workers : pc[w] = "c_sadd" /\ req[w].code = c

\* What Redis says of a code, consumed or with so many litres, is what the rows say.
RedisAgrees == ToldIsConsumed /\ CacheCoherent /\ SettledIsRefused

\* A success answer of complete_dispense, first or replayed, reports the litres
\* of a transaction recorded for that very code.
AnswerRecorded ==
  \A w \in Workers :
    ans[w].kind = "settled" =>
      \E i \in DOMAIN txns[req[w].code] : txns[req[w].code][i].litres = ans[w].litres

\* Every request that arrived is answered (or dies): no wait on the Redis lock
\* or on a row lock lasts forever.
RequestsEnd == \A w \in Workers : pc[w] # "idle" ~> pc[w] = "idle"

\* The lock key of a code never stays for good, not even after its holder died.
LockFreed == \A c \in Codes : c \in lock ~> c \notin lock

\* No request waits and no lock stays for ever, whoever died (_acquire_lock, TTL of 30 s).
WaitsEnd == RequestsEnd /\ LockFreed

\* Fault free, the engine implements the contract: single use, exact leftover.
Contract == INSTANCE DispenseContract WITH
  state <- [c \in Codes |-> CASE code[c].status = "UNISSUED" -> "unissued"
                             [] code[c].status = "ACTIVE" -> "open"
                             [] OTHER -> "drawn"],
  granted <- [c \in Codes |-> alloc[c].allocated],
  drawn <- [c \in Codes |-> code[c].consumed],
  heir <- [c \in Codes |-> IF txns[c] = << >> THEN NoCode ELSE txns[c][1].heir]

ImplementsContract == Contract!Spec
=============================================================================
