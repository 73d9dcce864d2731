-------------------------- MODULE DispensingProofs --------------------------
(***************************************************************************)
(* Theorems about Dispensing, for every set of handlers and codes, every   *)
(* amount and every fault budget: types and rows, Redis, the contract that *)
(* it implements without faults, what pays for settlements with them, and  *)
(* the ledger.                                                             *)
(***************************************************************************)
EXTENDS Dispensing, FiniteSetTheorems, WellFoundedInduction, TLAPS

-----------------------------------------------------------------------------
(* Type correctness *)

\* What a handler carries is usable where complete_dispense and validate_code
\* use it: TypeOK alone is not inductive.
RequestOK ==
  \A w \in Workers :
    /\ pc[w] # "idle" => req[w].code \in Codes
    /\ pc[w] \in LockedSteps \cup {"c_lock"} => req[w].litres \in Litres
    /\ pc[w] = "v_commit" => snap[w].attempts < MaxAttempts
    /\ pc[w] = "c_warm" => ans[w].heir \in Codes

\* TypeInv, cut along who changes what: the rows, Redis and the stations on one
\* side, the handlers on the other.
StoreTypes ==
  /\ code \in [Codes -> CodeRow]
  /\ alloc \in [Codes -> AllocRow]
  /\ txns \in [Codes -> Seq(TxnRow)]
  /\ rowLock \in [Codes -> Workers \cup {NoWorker}]
  /\ lock \subseteq Codes
  /\ consumedSet \subseteq Codes
  /\ cache \in [Codes -> Nat \cup {NoEntry}]
  /\ told \subseteq Codes
  /\ crashes \in 0 .. MaxCrashes
  /\ slows \in 0 .. MaxSlow

HandlerTypes ==
  /\ pc \in [Workers -> Steps]
  /\ req \in [Workers -> Request]
  /\ snap \in [Workers -> Snapshot]
  /\ ans \in [Workers -> Answer]
  /\ RequestOK

TypeInv == StoreTypes /\ HandlerTypes

\* The typing that is proved gives the one that is checked.
LEMMA TypeInvImplies == TypeInv => TypeOK
  BY DEF TypeInv, StoreTypes, HandlerTypes, TypeOK

\* The answers the handlers build are answers.
LEMMA AnswerTypes ==
  /\ NoAnswer \in Answer /\ ErrorAnswer \in Answer /\ Rejected \in Answer
  /\ \A n \in Nat : Authorized(n) \in Answer
  /\ \A n \in Nat, h \in Codes \cup {NoCode} : SettledAnswer(n, h) \in Answer
  BY DEF NoAnswer, ErrorAnswer, Rejected, Authorized, SettledAnswer, Answer

\* The first state is typed: no rows, no keys, every handler idle.
LEMMA TypeInit == Init => TypeInv
  <1> SUFFICES ASSUME Init PROVE TypeInv
    OBVIOUS
  <1> USE ConstantsAssumption DEF Init
  <1>1. StoreTypes
    BY DEF StoreTypes, CodeRow, AllocRow, NoEntry
  <1>2. HandlerTypes
    BY AnswerTypes DEF HandlerTypes, RequestOK, Steps, LockedSteps, Request,
       Snapshot, NoRequest, NoSnapshot
  <1> QED
    BY <1>1, <1>2 DEF TypeInv

\* A handler that moves on without touching what it carries.
LEMMA ForwardTypes ==
  ASSUME HandlerTypes, NEW w \in Workers, NEW step \in Steps,
         Forward(w, step), pc[w] # "idle", step # "v_commit",
         step \in LockedSteps \cup {"c_lock"} => req[w].litres \in Litres,
         step = "c_warm" => ans[w].heir \in Codes
  PROVE  HandlerTypes'
  BY DEF HandlerTypes, RequestOK, Forward, Goto

\* A handler that has found its answer.
LEMMA AnswerWithTypes ==
  ASSUME HandlerTypes, NEW w \in Workers, NEW a \in Answer,
         NEW step \in {"reply", "c_release", "c_sadd"},
         AnswerWith(w, a, step), pc[w] # "idle",
         step # "reply" => req[w].litres \in Litres
  PROVE  HandlerTypes'
  BY DEF HandlerTypes, RequestOK, AnswerWith, Goto, Steps, LockedSteps

\* A handler that starts on a request.
LEMMA StartTypes ==
  ASSUME HandlerTypes, NEW w \in Workers, NEW c \in Codes, NEW n \in Nat,
         NEW step \in {"v_used", "c_lock"}, step = "c_lock" => n \in Litres,
         Goto(w, step), req' = [req EXCEPT ![w] = [code |-> c, litres |-> n]],
         UNCHANGED <<snap, ans>>
  PROVE  HandlerTypes'
  BY DEF HandlerTypes, RequestOK, Goto, Steps, ValidateSteps, LockedSteps, Request

\* A handler that has read the rows of its code.
LEMMA ReadTypes ==
  ASSUME StoreTypes, HandlerTypes, NEW w \in Workers,
         NEW step \in {"v_commit", "c_commit"}, Goto(w, step), pc[w] # "idle",
         step = "c_commit" => req[w].litres \in Litres,
         step = "v_commit" => AttemptsLeft(req[w].code),
         snap' = [snap EXCEPT ![w] = ReadRows(req[w].code)],
         UNCHANGED <<req, ans>>
  PROVE  HandlerTypes'
  <1>1. ReadRows(req[w].code) \in Snapshot
    BY DEF StoreTypes, HandlerTypes, RequestOK, ReadRows, Snapshot, CodeRow, AllocRow
  <1>2. step = "v_commit" => ReadRows(req[w].code).attempts < MaxAttempts
    BY DEF ReadRows, AttemptsLeft
  <1> QED
    BY <1>1, <1>2 DEF HandlerTypes, RequestOK, Goto, Steps, ValidateSteps, LockedSteps

\* Locking a row, and giving up the rows a session holds.
LEMMA RowLockTypes ==
  ASSUME StoreTypes, NEW w \in Workers
  PROVE  /\ Unlocked(w) \in [Codes -> Workers \cup {NoWorker}]
         /\ \A c \in Codes : LockRow(w, c) =>
              rowLock' \in [Codes -> Workers \cup {NoWorker}]
  BY DEF StoreTypes, Unlocked, LockRow

\* A code row whose attempts are counted is a code row.
LEMMA CountedRow ==
  ASSUME NEW r \in CodeRow, NEW n \in 0 .. MaxAttempts
  PROVE  [r EXCEPT !.attempts = n] \in CodeRow
  BY DEF CodeRow

\* The rows a settlement writes are rows.
LEMMA SettledTypes ==
  ASSUME TypeInv, NEW w \in Workers, pc[w] = "c_commit",
         NEW h \in Codes \cup {NoCode},
         NEW st \in {"PARTIAL_FULFILLED", "FULFILLED"}
  PROVE  /\ SettledCode(w) \in CodeRow
         /\ SettledAlloc(w, st) \in AllocRow
         /\ SettledTxns(w, h) \in Seq(TxnRow)
         /\ NewCode \in CodeRow
         /\ NewAlloc(Leftover(req[w].litres, snap[w].remaining)) \in AllocRow
         /\ SettledAnswer(req[w].litres, h) \in Answer
  <1> DEFINE c == req[w].code
  <1>1. /\ c \in Codes /\ req[w].litres \in Litres /\ req[w].litres \in Nat
        /\ snap[w] \in Snapshot
    BY ConstantsAssumption DEF TypeInv, HandlerTypes, RequestOK, LockedSteps, Request
  <1>2. code[c] \in CodeRow /\ alloc[c] \in AllocRow /\ txns[c] \in Seq(TxnRow)
    BY <1>1 DEF TypeInv, StoreTypes
  <1>3. Leftover(req[w].litres, snap[w].remaining) \in Nat
    BY <1>1 DEF Leftover, Snapshot
  <1>4. SettledCode(w) \in CodeRow
    <2>1. snap[w].consumed + req[w].litres \in Nat
      BY <1>1 DEF Snapshot
    <2> QED
      BY <1>2, <2>1 DEF SettledCode, CodeRow
  <1>5. SettledAlloc(w, st) \in AllocRow
    <2>1. snap[w].dispensed + req[w].litres \in Nat
      BY <1>1 DEF Snapshot
    <2> QED
      BY <1>2, <1>3, <2>1 DEF SettledAlloc, AllocRow
  <1>6. SettledTxns(w, h) \in Seq(TxnRow)
    BY <1>1, <1>2 DEF SettledTxns, TxnRow
  <1>7. /\ NewCode \in CodeRow
        /\ NewAlloc(Leftover(req[w].litres, snap[w].remaining)) \in AllocRow
    BY <1>3, ConstantsAssumption DEF NewCode, NewAlloc, CodeRow, AllocRow
  <1> QED
    BY <1>1, <1>4, <1>5, <1>6, <1>7, AnswerTypes

\* The steps of validate_code keep the types.
LEMMA TypeValidate ==
  ASSUME TypeInv, NEW w \in Workers,
         ValidateStep(w) \/ \E c \in Codes : StartValidate(w, c)
  PROVE  TypeInv'
  <1> USE DEF TypeInv
  <1>1. ASSUME NEW c \in Codes, StartValidate(w, c) PROVE TypeInv'
    <2>1. HandlerTypes'
      BY <1>1, StartTypes DEF StartValidate
    <2> QED
      BY <1>1, <2>1 DEF StartValidate, StoreTypes, dbVars, redisVars, faultVars
  <1>2. CASE ValidateUsed(w)
    <2>1. HandlerTypes'
      <3>1. CASE AnswerWith(w, Rejected, "reply")
        BY <1>2, <3>1, AnswerTypes, AnswerWithTypes DEF ValidateUsed
      <3>2. CASE Forward(w, "v_cached")
        BY <1>2, <3>2, ForwardTypes DEF ValidateUsed, Steps, ValidateSteps, LockedSteps
      <3> QED
        BY <1>2, <3>1, <3>2 DEF ValidateUsed
    <2> QED
      BY <1>2, <2>1 DEF ValidateUsed, StoreTypes, dbVars, redisVars, faultVars
  <1>3. CASE ValidateRateLimited(w)
    <2>1. HandlerTypes'
      BY <1>3, AnswerTypes, AnswerWithTypes DEF ValidateRateLimited
    <2> QED
      BY <1>3, <2>1
         DEF ValidateRateLimited, StoreTypes, dbVars, redisVars, faultVars
  <1>4. CASE ValidateCached(w)
    <2> DEFINE hit == cache[req[w].code]
    <2>1. pc[w] = "v_cached" /\ req[w].code \in Codes
      BY <1>4 DEF ValidateCached, HandlerTypes, RequestOK
    <2>2. HandlerTypes'
      <3>1. CASE hit # NoEntry
        <4>1. hit \in Nat
          BY <2>1, <3>1 DEF StoreTypes
        <4> QED
          BY <1>4, <2>1, <3>1, <4>1, AnswerTypes, AnswerWithTypes DEF ValidateCached
      <3>2. CASE hit = NoEntry
        BY <1>4, <2>1, <3>2, ForwardTypes
           DEF ValidateCached, Steps, ValidateSteps, LockedSteps
      <3> QED
        BY <3>1, <3>2
    <2> QED
      BY <1>4, <2>2 DEF ValidateCached, StoreTypes, dbVars, redisVars, faultVars
  <1>5. CASE ValidateRefused(w)
    <2>1. HandlerTypes' /\ req[w].code \in Codes
      BY <1>5, AnswerTypes, AnswerWithTypes DEF ValidateRefused, HandlerTypes, RequestOK
    <2>2. rowLock' \in [Codes -> Workers \cup {NoWorker}]
      BY <1>5, <2>1, RowLockTypes DEF ValidateRefused, StoreTypes
    <2> QED
      BY <1>5, <2>1, <2>2
         DEF ValidateRefused, StoreTypes, dbVars, redisVars, faultVars
  <1>6. CASE ValidateAccepted(w)
    <2>1. HandlerTypes' /\ req[w].code \in Codes
      BY <1>6, ReadTypes DEF ValidateAccepted, HandlerTypes, RequestOK
    <2>2. rowLock' \in [Codes -> Workers \cup {NoWorker}]
      BY <1>6, <2>1, RowLockTypes DEF ValidateAccepted
    <2> QED
      BY <1>6, <2>1, <2>2
         DEF ValidateAccepted, StoreTypes, dbVars, redisVars, faultVars
  <1>7. CASE ValidateCommit(w)
    <2>1. pc[w] = "v_commit" /\ req[w].code \in Codes
      BY <1>7 DEF ValidateCommit, HandlerTypes, RequestOK
    <2>2. HandlerTypes'
      BY <1>7, <2>1, ForwardTypes DEF ValidateCommit, Steps, ValidateSteps, LockedSteps
    <2>3. code' \in [Codes -> CodeRow]
      <3>1. snap[w].attempts + 1 \in 0 .. MaxAttempts
        BY <2>1, ConstantsAssumption DEF HandlerTypes, RequestOK, Snapshot
      <3>2. code[req[w].code] \in CodeRow
        BY <2>1 DEF StoreTypes
      <3>3. [code[req[w].code] EXCEPT !.attempts = snap[w].attempts + 1] \in CodeRow
        BY <3>1, <3>2, CountedRow
      <3>4. code' = [code EXCEPT ![req[w].code].attempts = snap[w].attempts + 1]
        BY <1>7 DEF ValidateCommit
      <3>5. code \in [Codes -> CodeRow]
        BY DEF StoreTypes
      <3> QED
        BY <2>1, <3>3, <3>4, <3>5
    <2> QED
      BY <1>7, <2>2, <2>3, RowLockTypes
         DEF ValidateCommit, StoreTypes, dbVars, redisVars, faultVars
  <1>8. CASE ValidateWarm(w)
    <2>1. pc[w] = "v_warm" /\ req[w].code \in Codes /\ snap[w].remaining \in Nat
      BY <1>8 DEF ValidateWarm, HandlerTypes, RequestOK, Snapshot
    <2>2. HandlerTypes'
      BY <1>8, <2>1, AnswerTypes, AnswerWithTypes DEF ValidateWarm
    <2> QED
      BY <1>8, <2>1, <2>2
         DEF ValidateWarm, StoreTypes, dbVars, redisVars, faultVars
  <1> QED
    BY <1>1, <1>2, <1>3, <1>4, <1>5, <1>6, <1>7, <1>8 DEF ValidateStep

\* The steps of complete_dispense keep the types.
LEMMA TypeComplete ==
  ASSUME TypeInv, NEW w \in Workers,
         \/ CompleteStep(w)
         \/ \E c \in Codes, litres \in Litres : StartComplete(w, c, litres)
  PROVE  TypeInv'
  <1> USE DEF TypeInv
  <1>1. ASSUME NEW c \in Codes, NEW litres \in Litres, StartComplete(w, c, litres)
        PROVE  TypeInv'
    <2>1. HandlerTypes'
      BY <1>1, StartTypes, ConstantsAssumption DEF StartComplete
    <2> QED
      BY <1>1, <2>1 DEF StartComplete, StoreTypes, dbVars, redisVars, faultVars
  <1>a. /\ pc[w] # "idle" => req[w].code \in Codes
        /\ pc[w] \in LockedSteps \cup {"c_lock"} => req[w].litres \in Litres
    BY DEF HandlerTypes, RequestOK
  <1>2. CASE AcquireLock(w)
    <2>1. pc[w] = "c_lock" /\ HandlerTypes'
      BY <1>2, <1>a, ForwardTypes DEF AcquireLock, Steps, LockedSteps
    <2> QED
      BY <1>2, <1>a, <2>1 DEF AcquireLock, StoreTypes, dbVars, faultVars
  <1>3. CASE AcquireTimeout(w)
    <2>1. HandlerTypes'
      BY <1>3, AnswerTypes, AnswerWithTypes DEF AcquireTimeout
    <2> QED
      BY <1>3, <2>1 DEF AcquireTimeout, StoreTypes, dbVars, redisVars, faultVars
  <1>4. CASE CheckReplay(w)
    <2>1. \E step \in {"c_find", "c_lookup"} : Forward(w, step)
      BY <1>4 DEF CheckReplay
    <2>2. HandlerTypes'
      BY <1>4, <1>a, <2>1, ForwardTypes DEF CheckReplay, Steps, LockedSteps
    <2> QED
      BY <1>4, <2>2 DEF CheckReplay, StoreTypes, dbVars, redisVars, faultVars
  <1>5. CASE FindTxn(w)
    <2> DEFINE rows == txns[req[w].code]
    <2>1. /\ pc[w] = "c_find" /\ req[w].code \in Codes
          /\ req[w].litres \in Litres /\ rows \in Seq(TxnRow)
      BY <1>5, <1>a DEF FindTxn, StoreTypes, LockedSteps
    <2>2. rows # << >> => LatestLitres(w) \in Nat
      <3>1. ASSUME rows # << >> PROVE rows[Len(rows)] \in TxnRow
        BY <2>1, <3>1
      <3> QED
        BY <3>1, ConstantsAssumption DEF LatestLitres, TxnRow
    <2>3. \E a \in Answer : AnswerWith(w, a, "c_release")
      BY <1>5, <2>2, AnswerTypes DEF FindTxn
    <2>4. HandlerTypes'
      BY <2>1, <2>3, AnswerWithTypes
    <2>5. rowLock' \in [Codes -> Workers \cup {NoWorker}]
      BY <1>5, <2>1, RowLockTypes DEF FindTxn
    <2> QED
      BY <1>5, <2>4, <2>5 DEF FindTxn, StoreTypes, dbVars, redisVars, faultVars
  <1>6. CASE LookupUnknown(w)
    <2>1. HandlerTypes'
      BY <1>6, <1>a, AnswerTypes, AnswerWithTypes DEF LookupUnknown, LockedSteps
    <2> QED
      BY <1>6, <2>1 DEF LookupUnknown, StoreTypes, dbVars, redisVars, faultVars
  <1>7. CASE LookupFound(w)
    <2>1. HandlerTypes' /\ req[w].code \in Codes
      BY <1>7, <1>a, ReadTypes DEF LookupFound, LockedSteps
    <2>2. rowLock' \in [Codes -> Workers \cup {NoWorker}]
      BY <1>7, <2>1, RowLockTypes DEF LookupFound
    <2> QED
      BY <1>7, <2>1, <2>2
         DEF LookupFound, StoreTypes, dbVars, redisVars, faultVars
  <1>8. CASE SettleAll(w)
    <2>1. /\ pc[w] = "c_commit" /\ req[w].code \in Codes /\ req[w].litres \in Litres
      BY <1>8, <1>a DEF SettleAll, LockedSteps
    <2>2. HandlerTypes'
      BY <1>8, <2>1, SettledTypes, AnswerWithTypes DEF SettleAll
    <2>3. /\ code' \in [Codes -> CodeRow] /\ alloc' \in [Codes -> AllocRow]
          /\ txns' \in [Codes -> Seq(TxnRow)]
      BY <1>8, <2>1, SettledTypes DEF SettleAll, StoreTypes
    <2> QED
      BY <1>8, <2>2, <2>3, RowLockTypes
         DEF SettleAll, StoreTypes, redisVars, faultVars
  <1>9. ASSUME NEW d \in Codes, SettlePart(w, d) PROVE TypeInv'
    <2>1. /\ pc[w] = "c_commit" /\ req[w].code \in Codes /\ req[w].litres \in Litres
      BY <1>9, <1>a DEF SettlePart, LockedSteps
    <2>2. HandlerTypes'
      BY <1>9, <2>1, SettledTypes, AnswerWithTypes DEF SettlePart
    <2>3. /\ code' \in [Codes -> CodeRow] /\ alloc' \in [Codes -> AllocRow]
          /\ txns' \in [Codes -> Seq(TxnRow)]
      BY <1>9, <2>1, SettledTypes DEF SettlePart, StoreTypes
    <2> QED
      BY <1>9, <2>2, <2>3, RowLockTypes
         DEF SettlePart, StoreTypes, redisVars, faultVars
  <1>10. CASE SettleFails(w)
    <2>1. HandlerTypes'
      BY <1>10, <1>a, AnswerTypes, AnswerWithTypes DEF SettleFails, LockedSteps
    <2> QED
      BY <1>10, <2>1, RowLockTypes
         DEF SettleFails, StoreTypes, dbVars, redisVars, faultVars
  <1>11. CASE MarkConsumed(w)
    <2>1. HandlerTypes' /\ req[w].code \in Codes
      BY <1>11, <1>a, ForwardTypes DEF MarkConsumed, Steps, LockedSteps
    <2> QED
      BY <1>11, <2>1 DEF MarkConsumed, AddConsumed, StoreTypes, dbVars, faultVars
  <1>12. CASE DropCache(w)
    <2>1. /\ pc[w] = "c_uncache" /\ req[w].code \in Codes /\ req[w].litres \in Litres
          /\ ans[w].heir \in Codes \cup {NoCode}
      BY <1>12, <1>a DEF DropCache, HandlerTypes, LockedSteps, Answer
    <2>2. CASE ans[w].heir = NoCode
      BY <1>12, <2>1, <2>2, ForwardTypes
         DEF DropCache, Steps, LockedSteps, StoreTypes, dbVars, faultVars
    <2>3. CASE ans[w].heir # NoCode
      BY <1>12, <2>1, <2>3, ForwardTypes
         DEF DropCache, Steps, LockedSteps, StoreTypes, dbVars, faultVars
    <2> QED
      BY <2>2, <2>3
  <1>13. CASE WarmHeir(w)
    <2>1. HandlerTypes' /\ ans[w].heir \in Codes
      BY <1>13, <1>a, ForwardTypes
         DEF WarmHeir, HandlerTypes, RequestOK, Steps, LockedSteps
    <2>2. HeirLitres(w) \in Nat
      BY DEF HeirLitres, Leftover, HandlerTypes, Request, Snapshot
    <2> QED
      BY <1>13, <2>1, <2>2 DEF WarmHeir, StoreTypes, dbVars, faultVars
  <1>14. CASE ReleaseLock(w)
    <2>1. HandlerTypes'
      BY <1>14, <1>a, ForwardTypes DEF ReleaseLock, Steps, LockedSteps
    <2> QED
      BY <1>14, <2>1 DEF ReleaseLock, StoreTypes, dbVars, faultVars
  <1> QED
    BY <1>1, <1>2, <1>3, <1>4, <1>5, <1>6, <1>7, <1>8, <1>9, <1>10, <1>11,
       <1>12, <1>13, <1>14 DEF CompleteStep

\* A handler that ends, or dies, lets go of everything it carried.
LEMMA IdleTypes ==
  ASSUME StoreTypes, HandlerTypes, NEW w \in Workers, GoIdle(w)
  PROVE  HandlerTypes' /\ rowLock' \in [Codes -> Workers \cup {NoWorker}]
  <1>1. NoRequest \in Request /\ NoSnapshot \in Snapshot /\ NoAnswer \in Answer
    BY ConstantsAssumption, AnswerTypes
       DEF NoRequest, Request, NoSnapshot, Snapshot
  <1>2. HandlerTypes'
    BY <1>1 DEF HandlerTypes, RequestOK, GoIdle, Goto, Steps, LockedSteps
  <1> QED
    BY <1>2, RowLockTypes DEF GoIdle

\* Uploads, the end of a request and the environment keep the types.
LEMMA TypeRest ==
  ASSUME TypeInv,
         \/ \E S \in SUBSET Codes : \E quota \in [S -> Quotas] : Upload(S, quota)
         \/ \E w \in Workers : Reply(w) \/ ReplyLost(w) \/ Crash(w)
         \/ \E c \in Codes : LockExpire(c) \/ SlowExpire(c) \/ CacheExpire(c)
         \/ UNCHANGED vars
  PROVE  TypeInv'
  <1> USE DEF TypeInv
  <1>1. ASSUME NEW S \in SUBSET Codes, NEW quota \in [S -> Quotas], Upload(S, quota)
        PROVE  TypeInv'
    <2>1. NewCode \in CodeRow
      BY ConstantsAssumption DEF NewCode, CodeRow
    <2>a. ASSUME NEW d \in S PROVE NewAlloc(quota[d]) \in AllocRow
      <3>1. quota[d] \in Nat
        BY ConstantsAssumption
      <3> QED
        BY <3>1 DEF NewAlloc, AllocRow
    <2>2. code' \in [Codes -> CodeRow] /\ alloc' \in [Codes -> AllocRow]
      BY <1>1, <2>1, <2>a DEF Upload, StoreTypes
    <2> QED
      BY <1>1, <2>2
         DEF Upload, StoreTypes, HandlerTypes, RequestOK, redisVars, faultVars
  <1>2. ASSUME NEW w \in Workers, Reply(w) PROVE TypeInv'
    <2>1. told' \subseteq Codes
      BY <1>2 DEF Reply, StoreTypes, HandlerTypes, RequestOK, Answer
    <2> QED
      BY <1>2, <2>1, IdleTypes DEF Reply, StoreTypes, dbVars, redisVars, faultVars
  <1>3. ASSUME NEW w \in Workers, ReplyLost(w) PROVE TypeInv'
    BY <1>3, IdleTypes DEF ReplyLost, StoreTypes, dbVars, redisVars, faultVars
  <1>4. ASSUME NEW w \in Workers, Crash(w) PROVE TypeInv'
    BY <1>4, IdleTypes, ConstantsAssumption
       DEF Crash, StoreTypes, dbVars, redisVars
  <1>5. ASSUME NEW c \in Codes, LockExpire(c) \/ SlowExpire(c) \/ CacheExpire(c)
        PROVE  TypeInv'
    <2>1. CASE LockExpire(c)
      BY <2>1 DEF LockExpire, StoreTypes, HandlerTypes, RequestOK,
                  dbVars, faultVars
    <2>2. CASE SlowExpire(c)
      <3>1. slows' \in 0 .. MaxSlow
        BY <2>2, ConstantsAssumption DEF SlowExpire, StoreTypes
      <3> QED
        BY <2>2, <3>1 DEF SlowExpire, StoreTypes, HandlerTypes, RequestOK,
                          dbVars
    <2>3. CASE CacheExpire(c)
      BY <2>3 DEF CacheExpire, StoreTypes, HandlerTypes, RequestOK,
                  dbVars, faultVars
    <2> QED
      BY <1>5, <2>1, <2>2, <2>3
  <1>6. CASE UNCHANGED vars
    BY <1>6 DEF vars, StoreTypes, HandlerTypes, RequestOK, dbVars, redisVars,
                faultVars
  <1> QED
    BY <1>1, <1>2, <1>3, <1>4, <1>5, <1>6

\* Every step keeps the types.
LEMMA TypeStep == TypeInv /\ [Next]_vars => TypeInv'
  <1> SUFFICES ASSUME TypeInv, [Next]_vars PROVE TypeInv'
    OBVIOUS
  <1> QED
    BY TypeValidate, TypeComplete, TypeRest DEF Next, Arrive, Handle

\* The types hold in every reachable state.
LEMMA TypeAlways == Spec => []TypeInv
  BY TypeInit, TypeStep, PTL DEF Spec

\* Every reachable state is well typed; in particular attempt_count never passes
\* max_attempts and no amount becomes negative, under any interleaving and fault.
THEOREM TypeCorrect == Spec => []TypeOK
  BY TypeAlways, TypeInvImplies, PTL

-----------------------------------------------------------------------------
(* No lost update, under every fault *)

\* A handler between its SELECT ... FOR UPDATE and its commit.
Committing(w) == pc[w] \in {"v_commit", "c_commit"}

\* NoLostUpdate alone is not inductive: it holds because the handler has the
\* row lock and because the row exists, so that no upload and no remainder code
\* can land on it.
RowInv ==
  \A w \in Workers : Committing(w) =>
    /\ rowLock[req[w].code] = w
    /\ code[req[w].code].status # "UNISSUED"
    /\ snap[w] = ReadRows(req[w].code)

\* A step that is not one of w's leaves w's row and its lock alone when it
\* writes only rows that its own handler holds or that are not issued yet.
LEMMA RowInvOthers ==
  ASSUME RowInv, NEW w \in Workers,
         pc'[w] = pc[w], req'[w] = req[w], snap'[w] = snap[w],
         Committing(w) => /\ rowLock'[req[w].code] = rowLock[req[w].code]
                          /\ code'[req[w].code] = code[req[w].code]
                          /\ alloc'[req[w].code] = alloc[req[w].code]
  PROVE  Committing(w)' => /\ rowLock'[req'[w].code] = w
                           /\ code'[req'[w].code].status # "UNISSUED"
                           /\ snap'[w] = ReadRows(req[w].code)'
  BY DEF RowInv, Committing, ReadRows

\* A handler between its row lock and its commit keeps what it has read true.
LEMMA RowInvStep == TypeInv /\ RowInv /\ [Next]_vars => RowInv'
  <1> SUFFICES ASSUME TypeInv, RowInv, [Next]_vars, NEW w \in Workers, Committing(w)'
               PROVE  /\ rowLock'[req'[w].code] = w
                      /\ code'[req'[w].code].status # "UNISSUED"
                      /\ snap'[w] = ReadRows(req[w].code)'
    BY DEF RowInv
  <1> USE DEF TypeInv
  <1>a. /\ pc \in [Workers -> Steps] /\ req \in [Workers -> Request]
        /\ snap \in [Workers -> Snapshot] /\ code \in [Codes -> CodeRow]
        /\ alloc \in [Codes -> AllocRow]
        /\ rowLock \in [Codes -> Workers \cup {NoWorker}]
        /\ \A v \in Workers : pc[v] # "idle" => req[v].code \in Codes
    BY DEF StoreTypes, HandlerTypes, RequestOK
  <1>1. ASSUME NEW S \in SUBSET Codes, NEW quota \in [S -> Quotas], Upload(S, quota)
        PROVE  /\ rowLock'[req'[w].code] = w
               /\ code'[req'[w].code].status # "UNISSUED"
               /\ snap'[w] = ReadRows(req[w].code)'
    BY <1>1, <1>a, RowInvOthers DEF Upload, Fresh, RowInv, Committing
  <1>2. ASSUME NEW v \in Workers, ValidateStep(v)
        PROVE  /\ rowLock'[req'[w].code] = w
               /\ code'[req'[w].code].status # "UNISSUED"
               /\ snap'[w] = ReadRows(req[w].code)'
    <2>1. CASE ValidateAccepted(v)
      BY <2>1, <1>a, ConstantsAssumption DEF ValidateAccepted, LockRow, RowInv, Committing, Goto,
         ReadRows, dbVars
    <2>2. CASE ValidateCommit(v)
      <3>1. w # v
        BY <2>2, <1>a DEF ValidateCommit, Forward, Goto, Committing
      <3>2. rowLock[req[v].code] = v
        BY <2>2 DEF ValidateCommit, RowInv, Committing
      <3> QED
        BY <2>2, <1>a, <3>1, <3>2, RowInvOthers
           DEF ValidateCommit, Forward, Goto, Unlocked, RowInv, Committing
    <2>3. CASE ValidateRefused(v)
      BY <2>3, <1>a, RowInvOthers, ConstantsAssumption
         DEF ValidateRefused, AnswerWith, Goto, LockRow, RowInv, Committing, dbVars
    <2>4. CASE ValidateUsed(v) \/ ValidateRateLimited(v) \/ ValidateCached(v) \/ ValidateWarm(v)
      BY <2>4, <1>a, RowInvOthers
         DEF ValidateUsed, ValidateRateLimited, ValidateCached, ValidateWarm,
             Forward, AnswerWith, Goto, Committing, dbVars
    <2> QED
      BY <1>2, <2>1, <2>2, <2>3, <2>4 DEF ValidateStep
  <1>3. ASSUME NEW v \in Workers, CompleteStep(v)
        PROVE  /\ rowLock'[req'[w].code] = w
               /\ code'[req'[w].code].status # "UNISSUED"
               /\ snap'[w] = ReadRows(req[w].code)'
    <2>1. CASE LookupFound(v)
      BY <2>1, <1>a, ConstantsAssumption DEF LookupFound, LockRow, RowInv, Committing, Goto,
         ReadRows, dbVars
    <2>2. CASE SettleAll(v)
      <3>1. w # v
        BY <2>2, <1>a DEF SettleAll, AnswerWith, Goto, Committing
      <3>2. rowLock[req[v].code] = v
        BY <2>2 DEF SettleAll, RowInv, Committing
      <3> QED
        BY <2>2, <1>a, <3>1, <3>2, RowInvOthers
           DEF SettleAll, AnswerWith, Goto, Unlocked, RowInv, Committing
    <2>3. ASSUME NEW d \in Codes, SettlePart(v, d)
          PROVE  /\ rowLock'[req'[w].code] = w
                 /\ code'[req'[w].code].status # "UNISSUED"
                 /\ snap'[w] = ReadRows(req[w].code)'
      <3>1. w # v
        BY <2>3, <1>a DEF SettlePart, AnswerWith, Goto, Committing
      <3>2. rowLock[req[v].code] = v
        BY <2>3 DEF SettlePart, RowInv, Committing
      <3> QED
        BY <2>3, <1>a, <3>1, <3>2, RowInvOthers
           DEF SettlePart, Fresh, AnswerWith, Goto, Unlocked, RowInv, Committing
    <2>4. CASE SettleFails(v)
      BY <2>4, <1>a, RowInvOthers
         DEF SettleFails, AnswerWith, Goto, Unlocked, RowInv, Committing, dbVars
    <2>5. CASE FindTxn(v)
      BY <2>5, <1>a, RowInvOthers, ConstantsAssumption
         DEF FindTxn, AnswerWith, Goto, LockRow, RowInv, Committing, dbVars
    <2>6. CASE AcquireLock(v) \/ AcquireTimeout(v) \/ CheckReplay(v) \/ LookupUnknown(v)
      BY <2>6, <1>a, RowInvOthers
         DEF AcquireLock, AcquireTimeout, CheckReplay, LookupUnknown,
             Forward, AnswerWith, Goto, Committing, dbVars
    <2>7. CASE MarkConsumed(v) \/ DropCache(v) \/ WarmHeir(v) \/ ReleaseLock(v)
      BY <2>7, <1>a, RowInvOthers
         DEF MarkConsumed, DropCache, WarmHeir, ReleaseLock, Forward, Goto,
             Committing, dbVars
    <2> QED
      BY <1>3, <2>1, <2>2, <2>3, <2>4, <2>5, <2>6, <2>7 DEF CompleteStep
  <1>4. ASSUME NEW v \in Workers, Arrive(v)
        PROVE  /\ rowLock'[req'[w].code] = w
               /\ code'[req'[w].code].status # "UNISSUED"
               /\ snap'[w] = ReadRows(req[w].code)'
    BY <1>4, <1>a, RowInvOthers
       DEF Arrive, StartValidate, StartComplete, Goto, Committing, dbVars
  <1>5. ASSUME NEW v \in Workers, Reply(v) \/ ReplyLost(v) \/ Crash(v)
        PROVE  /\ rowLock'[req'[w].code] = w
               /\ code'[req'[w].code].status # "UNISSUED"
               /\ snap'[w] = ReadRows(req[w].code)'
    BY <1>5, <1>a, RowInvOthers
       DEF Reply, ReplyLost, Crash, GoIdle, Goto, Unlocked, RowInv, Committing, dbVars
  <1>6. CASE \/ \E c \in Codes : LockExpire(c) \/ SlowExpire(c) \/ CacheExpire(c)
             \/ UNCHANGED vars
    BY <1>6, RowInvOthers
       DEF LockExpire, SlowExpire, CacheExpire, vars, Committing, dbVars
  <1> QED
    BY <1>1, <1>2, <1>3, <1>4, <1>5, <1>6 DEF Next, Handle

\* A handler that is to commit holds the row lock, and the row is as it read it.
LEMMA RowInvAlways == Spec => [](TypeInv /\ RowInv)
  <1>1. Init => RowInv
    BY DEF Init, RowInv, Committing
  <1> QED
    BY <1>1, RowInvStep, TypeAlways, PTL DEF Spec

\* Under every interleaving, crash and lock expiry, the row a handler is about to
\* write is still the row it read: SELECT ... FOR UPDATE in _lookup_code does its
\* part even where the Redis lock of complete_dispense has failed.
THEOREM NoLostUpdateHolds == Spec => []NoLostUpdate
  <1>1. RowInv => NoLostUpdate
    BY DEF RowInv, NoLostUpdate, Committing
  <1> QED
    BY <1>1, RowInvAlways, PTL

-----------------------------------------------------------------------------
(* Settled once, as long as no handler dies and no lock runs out early *)

FaultFree == MaxCrashes = 0 /\ MaxSlow = 0

\* Why SettledOnce holds then.  A handler in the critical section keeps the key
\* and is alone with its code; past the replay guard its code has no
\* transaction; and a transaction is in the consumed set before its handler
\* leaves the critical section.
KeyHeld == \A w \in Workers : pc[w] \in LockedSteps => req[w].code \in lock

PastGuard ==
  \A w \in Workers :
    pc[w] \in {"c_lookup", "c_commit"} => txns[req[w].code] = << >>

Marked ==
  \A c \in Codes : txns[c] # << >> =>
    \/ c \in consumedSet
    \/ \E w \in Workers : pc[w] = "c_sadd" /\ req[w].code = c

SettleInv == KeyHeld /\ OneHolder /\ PastGuard /\ Marked /\ SettledOnce

\* Steps that leave the transactions, the lock key and the consumed set alone
\* and keep a handler on its side of the critical section and of the guard.
LEMMA SettleInvFrame ==
  ASSUME SettleInv, UNCHANGED <<txns, lock, consumedSet>>,
         \A w \in Workers :
           /\ pc'[w] \in LockedSteps => pc[w] \in LockedSteps /\ req'[w].code = req[w].code
           /\ pc'[w] \in {"c_lookup", "c_commit"} => pc[w] \in {"c_lookup", "c_commit"}
           /\ pc[w] = "c_sadd" => pc'[w] = "c_sadd" /\ req'[w].code = req[w].code
  PROVE  SettleInv'
  <1>1. KeyHeld'
    BY DEF SettleInv, KeyHeld
  <1>2. OneHolder'
    BY DEF SettleInv, OneHolder, InCritical
  <1>3. PastGuard'
    BY DEF SettleInv, PastGuard, LockedSteps
  <1>4. Marked'
    BY DEF SettleInv, Marked
  <1>5. SettledOnce'
    BY DEF SettleInv, SettledOnce
  <1> QED
    BY <1>1, <1>2, <1>3, <1>4, <1>5 DEF SettleInv

\* A settlement: its code had no transaction, and gets its first.
LEMMA SettleInvSettle ==
  ASSUME TypeInv, SettleInv, NEW w \in Workers, pc[w] = "c_commit",
         NEW h \in Codes \cup {NoCode},
         txns' = [txns EXCEPT ![req[w].code] = SettledTxns(w, h)],
         Goto(w, "c_sadd"), UNCHANGED <<req, lock, consumedSet>>
  PROVE  SettleInv'
  <1> DEFINE c == req[w].code
  <1>1. /\ pc \in [Workers -> Steps] /\ req \in [Workers -> Request] /\ c \in Codes
        /\ txns \in [Codes -> Seq(TxnRow)]
    BY DEF TypeInv, StoreTypes, HandlerTypes, RequestOK
  <1>2. txns[c] = << >>
    BY DEF SettleInv, PastGuard
  <1>3. Len(SettledTxns(w, h)) = 1
    BY <1>2 DEF SettledTxns
  <1>4. \A v \in Workers \ {w} : pc[v] \in LockedSteps => req[v].code # c
    <2>1. InCritical(w, c)
      BY DEF InCritical, LockedSteps
    <2> QED
      BY <1>1, <2>1 DEF SettleInv, OneHolder, InCritical
  <1>5. pc' = [pc EXCEPT ![w] = "c_sadd"]
    BY DEF Goto
  <1>6. KeyHeld'
    BY <1>1, <1>5 DEF SettleInv, KeyHeld, LockedSteps
  <1>7. OneHolder'
    BY <1>1, <1>5 DEF SettleInv, OneHolder, InCritical, LockedSteps
  <1>8. PastGuard'
    BY <1>1, <1>4, <1>5 DEF SettleInv, PastGuard, LockedSteps
  <1>9. Marked'
    BY <1>1, <1>5 DEF SettleInv, Marked
  <1>10. SettledOnce'
    <2> SUFFICES ASSUME NEW d \in Codes PROVE Len(txns'[d]) <= 1
      BY DEF SettledOnce
    <2>1. CASE d = c
      <3>1. Len(txns'[c]) = 1
        BY <1>1, <1>3
      <3>2. Len(txns'[d]) = 1
        BY <2>1, <3>1
      <3> QED
        BY <3>2, 1 <= 1, Zenon
    <2>2. CASE d # c
      BY <1>1, <2>2 DEF SettleInv, SettledOnce
    <2> QED
      BY <2>1, <2>2
  <1> QED
    BY <1>6, <1>7, <1>8, <1>9, <1>10 DEF SettleInv

\* Without crashes and expired locks, every step keeps one handler per code in the section.
LEMMA SettleInvStep ==
  ASSUME FaultFree, TypeInv, SettleInv, [Next]_vars
  PROVE  SettleInv'
  <1>a. /\ pc \in [Workers -> Steps] /\ req \in [Workers -> Request]
        /\ crashes = 0 /\ slows = 0
        /\ \A v \in Workers : pc[v] # "idle" => req[v].code \in Codes
    BY DEF FaultFree, TypeInv, StoreTypes, HandlerTypes, RequestOK
  <1>1. ASSUME NEW S \in SUBSET Codes, NEW quota \in [S -> Quotas], Upload(S, quota)
        PROVE  SettleInv'
    BY <1>1, SettleInvFrame DEF Upload, redisVars
  <1>2. ASSUME NEW w \in Workers, Arrive(w) \/ ValidateStep(w) PROVE SettleInv'
    <2>1. /\ UNCHANGED <<txns, lock, consumedSet>>
          /\ pc[w] \in ValidateSteps \cup {"idle"}
          /\ \E step \in ValidateSteps \cup {"c_lock", "reply"} : Goto(w, step)
          /\ \A v \in Workers \ {w} : req'[v] = req[v]
      BY <1>2, <1>a
         DEF Arrive, StartValidate, StartComplete, ValidateStep, ValidateUsed,
             ValidateRateLimited, ValidateCached, ValidateRefused, ValidateAccepted,
             ValidateCommit, ValidateWarm, Forward, AnswerWith, ValidateSteps,
             dbVars, redisVars, Goto
    <2> QED
      BY <1>a, <2>1, SettleInvFrame DEF Goto, ValidateSteps, LockedSteps
  <1>3. ASSUME NEW w \in Workers, CompleteStep(w) PROVE SettleInv'
    <2> USE <1>a DEF Forward, AnswerWith, Goto, dbVars, redisVars
    <2>1. CASE AcquireLock(w)
      <3> USE DEF AcquireLock, KeyAbsent, LockedSteps
      <3>1. \A v \in Workers : pc[v] \in LockedSteps => req[v].code # req[w].code
        BY <2>1 DEF SettleInv, KeyHeld
      <3>2. KeyHeld' /\ OneHolder'
        BY <2>1, <3>1 DEF SettleInv, KeyHeld, OneHolder, InCritical
      <3>3. PastGuard' /\ Marked' /\ SettledOnce'
        BY <2>1 DEF SettleInv, PastGuard, Marked, SettledOnce
      <3> QED
        BY <3>2, <3>3 DEF SettleInv
    <2>2. CASE AcquireTimeout(w) \/ FindTxn(w) \/ LookupUnknown(w) \/ LookupFound(w)
               \/ SettleFails(w) \/ DropCache(w) \/ WarmHeir(w)
      BY <2>2, SettleInvFrame
         DEF AcquireTimeout, FindTxn, LookupUnknown, LookupFound, SettleFails,
             DropCache, WarmHeir, LockedSteps
    <2>3. CASE CheckReplay(w)
      <3>1. CASE Consumed(req[w].code)
        BY <2>3, <3>1, SettleInvFrame DEF CheckReplay, LockedSteps
      <3>2. CASE ~Consumed(req[w].code)
        <4> USE DEF CheckReplay, LockedSteps
        <4>1. txns[req[w].code] = << >>
          BY <2>3, <3>2 DEF SettleInv, Marked, OneHolder, InCritical, Consumed
        <4>2. KeyHeld' /\ OneHolder'
          BY <2>3, <3>2 DEF SettleInv, KeyHeld, OneHolder, InCritical
        <4>3. PastGuard'
          BY <2>3, <3>2, <4>1 DEF SettleInv, PastGuard
        <4>4. Marked' /\ SettledOnce'
          BY <2>3, <3>2 DEF SettleInv, Marked, SettledOnce
        <4> QED
          BY <4>2, <4>3, <4>4 DEF SettleInv
      <3> QED
        BY <3>1, <3>2
    <2>4. CASE SettleAll(w)
      BY <2>4, SettleInvSettle DEF SettleAll
    <2>5. ASSUME NEW d \in Codes, SettlePart(w, d) PROVE SettleInv'
      BY <2>5, SettleInvSettle DEF SettlePart
    <2>6. CASE MarkConsumed(w)
      <3> USE DEF MarkConsumed, AddConsumed, LockedSteps
      <3>1. KeyHeld' /\ OneHolder'
        BY <2>6 DEF SettleInv, KeyHeld, OneHolder, InCritical
      <3>2. PastGuard' /\ SettledOnce'
        BY <2>6 DEF SettleInv, PastGuard, SettledOnce
      <3>3. Marked'
        BY <2>6 DEF SettleInv, Marked
      <3> QED
        BY <3>1, <3>2, <3>3 DEF SettleInv
    <2>7. CASE ReleaseLock(w)
      <3> USE DEF ReleaseLock, LockedSteps
      <3>1. \A v \in Workers \ {w} : pc[v] \in LockedSteps => req[v].code # req[w].code
        BY <2>7 DEF SettleInv, OneHolder, InCritical
      <3>2. KeyHeld' /\ OneHolder'
        BY <2>7, <3>1 DEF SettleInv, KeyHeld, OneHolder, InCritical
      <3>3. PastGuard' /\ Marked' /\ SettledOnce'
        BY <2>7 DEF SettleInv, PastGuard, Marked, SettledOnce
      <3> QED
        BY <3>2, <3>3 DEF SettleInv
    <2> QED
      BY <1>3, <2>1, <2>2, <2>3, <2>4, <2>5, <2>6, <2>7 DEF CompleteStep
  <1>4. ASSUME NEW w \in Workers, Reply(w) \/ ReplyLost(w) PROVE SettleInv'
    BY <1>4, <1>a, SettleInvFrame
       DEF Reply, ReplyLost, GoIdle, Goto, dbVars, redisVars, LockedSteps
  <1>5. ASSUME NEW c \in Codes, LockExpire(c) PROVE SettleInv'
    <2> USE DEF LockExpire
    <2>1. KeyHeld' /\ OneHolder'
      BY <1>5 DEF SettleInv, KeyHeld, OneHolder, InCritical
    <2>2. PastGuard' /\ Marked' /\ SettledOnce'
      BY <1>5 DEF SettleInv, PastGuard, Marked, SettledOnce, dbVars
    <2> QED
      BY <2>1, <2>2 DEF SettleInv
  <1>6. CASE UNCHANGED vars \/ \E c \in Codes : CacheExpire(c)
    BY <1>6, SettleInvFrame DEF vars, CacheExpire, dbVars, redisVars
  <1>7. ASSUME NEW w \in Workers PROVE ~Crash(w)
    BY <1>a DEF Crash, FaultFree
  <1>8. ASSUME NEW c \in Codes PROVE ~SlowExpire(c)
    BY <1>a DEF SlowExpire, FaultFree
  <1> QED
    BY <1>1, <1>2, <1>3, <1>4, <1>5, <1>6, <1>7, <1>8 DEF Next, Handle

\* Without crashes and expired locks, one handler per code is in the section, and it settles once.
LEMMA SettleInvAlways ==
  ASSUME FaultFree
  PROVE  Spec => [](TypeInv /\ SettleInv)
  <1>1. Init => SettleInv
    BY DEF Init, SettleInv, KeyHeld, OneHolder, InCritical, PastGuard, Marked,
           SettledOnce, LockedSteps
  <1>2. TypeInv /\ SettleInv /\ [Next]_vars => SettleInv'
    BY SettleInvStep
  <1> QED
    BY <1>1, <1>2, TypeAlways, PTL DEF Spec

\* No code is ever settled twice, for any number of handlers, codes, retries and
\* duplicates, provided no handler dies inside complete_dispense and none takes
\* longer than the 30 s of its lock.
THEOREM SettledOnceHolds ==
  ASSUME FaultFree
  PROVE  Spec => []SettledOnce
  <1>1. SettleInv => SettledOnce
    BY DEF SettleInv
  <1> QED
    BY <1>1, SettleInvAlways, PTL

-----------------------------------------------------------------------------
(* Answers report what was recorded, under every fault *)

\* A handler's steps leave the other handlers alone.
LEMMA OthersKept ==
  ASSUME TypeInv, NEW v \in Workers, Arrive(v) \/ Handle(v) \/ Crash(v),
         NEW w \in Workers \ {v}
  PROVE  pc'[w] = pc[w] /\ req'[w] = req[w] /\ snap'[w] = snap[w] /\ ans'[w] = ans[w]
  <1>a. /\ pc \in [Workers -> Steps] /\ req \in [Workers -> Request]
        /\ snap \in [Workers -> Snapshot] /\ ans \in [Workers -> Answer]
    BY DEF TypeInv, HandlerTypes
  <1>1. CASE Arrive(v)
    BY <1>a, <1>1 DEF Arrive, StartValidate, StartComplete, Goto
  <1>2. CASE ValidateStep(v)
    BY <1>a, <1>2
       DEF ValidateStep, ValidateUsed, ValidateRateLimited, ValidateCached, ValidateRefused,
           ValidateAccepted, ValidateCommit, ValidateWarm, Forward, AnswerWith, Goto
  <1>3. CASE CompleteStep(v)
    BY <1>a, <1>3
       DEF CompleteStep, AcquireLock, AcquireTimeout, CheckReplay, FindTxn, LookupUnknown,
           LookupFound, SettleAll, SettlePart, SettleFails, MarkConsumed, DropCache,
           WarmHeir, ReleaseLock, Forward, AnswerWith, Goto
  <1>4. CASE Reply(v) \/ ReplyLost(v) \/ Crash(v)
    BY <1>a, <1>4 DEF Reply, ReplyLost, Crash, GoIdle, Goto
  <1> QED
    BY <1>1, <1>2, <1>3, <1>4 DEF Handle

\* A transaction of the code has the litres.
Recorded(c, litres) == \E i \in DOMAIN txns[c] : txns[c][i].litres = litres

\* An answer under way reports what is recorded, and an idle handler has none.
AnswerInv ==
  \A w \in Workers :
    /\ pc[w] = "idle" => ans[w].kind # "settled"
    /\ ans[w].kind = "settled" => Recorded(req[w].code, ans[w].litres)

\* A settlement leaves what was recorded and records its litres.
LEMMA SettlementRecorded ==
  ASSUME TypeInv, NEW w \in Workers, pc[w] = "c_commit", NEW h \in Codes \cup {NoCode},
         txns' = [txns EXCEPT ![req[w].code] = SettledTxns(w, h)], UNCHANGED req
  PROVE  /\ Recorded(req[w].code, req[w].litres)'
         /\ \A c \in Codes, n \in Nat : Recorded(c, n) => Recorded(c, n)'
  <1> DEFINE c == req[w].code
             t == [litres |-> req[w].litres,
                   status |-> IF IsOver(req[w].litres, snap[w].remaining)
                                THEN "OVER_DISPENSE" ELSE "COMPLETED",
                   heir |-> h]
  <1>1. c \in Codes /\ txns \in [Codes -> Seq(TxnRow)] /\ req[w].litres \in Litres
    BY DEF TypeInv, StoreTypes, HandlerTypes, RequestOK, LockedSteps
  <1>2. txns'[c] = Append(txns[c], t) /\ \A d \in Codes \ {c} : txns'[d] = txns[d]
    BY <1>1 DEF SettledTxns
  <1>3. txns[c] \in Seq(TxnRow) /\ t \in TxnRow
    BY <1>1 DEF TxnRow
  <1> HIDE DEF t
  <1>4. /\ Len(txns'[c]) = Len(txns[c]) + 1 /\ DOMAIN txns'[c] = 1 .. Len(txns[c]) + 1
        /\ txns'[c][Len(txns[c]) + 1] = t
        /\ \A i \in DOMAIN txns[c] : i \in DOMAIN txns'[c] /\ txns'[c][i] = txns[c][i]
    BY <1>2, <1>3
  <1>5. Len(txns[c]) \in Nat /\ t.litres = req[w].litres
    BY <1>3 DEF t
  <1>6. \E i \in DOMAIN txns'[c] : txns'[c][i].litres = req[w].litres
    BY <1>4, <1>5
  <1> QED
    BY <1>2, <1>4, <1>6 DEF Recorded

\* Every step keeps what a settled answer says recorded in a transaction.
LEMMA AnswerInvStep == TypeInv /\ AnswerInv /\ [Next]_vars => AnswerInv'
  <1> SUFFICES ASSUME TypeInv, AnswerInv, [Next]_vars, NEW w \in Workers
               PROVE  /\ pc'[w] = "idle" => ans'[w].kind # "settled"
                      /\ ans'[w].kind = "settled" => Recorded(req[w].code, ans[w].litres)'
    BY DEF AnswerInv
  <1> DEFINE Kept == pc'[w] = pc[w] /\ req'[w] = req[w] /\ ans'[w] = ans[w]
  <1>a. /\ pc \in [Workers -> Steps] /\ req \in [Workers -> Request] /\ ans \in [Workers -> Answer]
        /\ \A v \in Workers : pc[v] # "idle" => req[v].code \in Codes
    BY DEF TypeInv, HandlerTypes, RequestOK
  <1>b. /\ pc[w] = "idle" => ans[w].kind # "settled"
        /\ ans[w].kind = "settled" => Recorded(req[w].code, ans[w].litres) /\ pc[w] # "idle"
        /\ ans[w].litres \in Nat
    BY <1>a DEF AnswerInv, Answer
  <1>1. ASSUME UNCHANGED txns, Kept
        PROVE  /\ pc'[w] = "idle" => ans'[w].kind # "settled"
               /\ ans'[w].kind = "settled" => Recorded(req[w].code, ans[w].litres)'
    BY <1>1, <1>b DEF Recorded
  <1>2. ASSUME NEW v \in Workers, v # w, Arrive(v) \/ Handle(v) \/ Crash(v)
        PROVE  /\ pc'[w] = "idle" => ans'[w].kind # "settled"
               /\ ans'[w].kind = "settled" => Recorded(req[w].code, ans[w].litres)'
    <2>1. Kept
      BY <1>2, OthersKept
    <2>2. CASE SettleAll(v) \/ \E d \in Codes : SettlePart(v, d)
      <3>1. \A c \in Codes, n \in Nat : Recorded(c, n) => Recorded(c, n)'
        BY <2>2, SettlementRecorded DEF SettleAll, SettlePart, AnswerWith
      <3> QED
        BY <1>a, <1>b, <2>1, <3>1 DEF Recorded
    <2>3. CASE ~(SettleAll(v) \/ \E d \in Codes : SettlePart(v, d))
      <3>1. UNCHANGED txns
        BY <1>2, <2>3
           DEF Arrive, StartValidate, StartComplete, Handle, ValidateStep, ValidateUsed,
               ValidateRateLimited, ValidateCached, ValidateRefused, ValidateAccepted,
               ValidateCommit, ValidateWarm, CompleteStep, AcquireLock, AcquireTimeout,
               CheckReplay, FindTxn, LookupUnknown, LookupFound, SettleFails, MarkConsumed,
               DropCache, WarmHeir, ReleaseLock, Reply, ReplyLost, Crash, dbVars
      <3> QED
        BY <1>1, <2>1, <3>1
    <2> QED
      BY <2>2, <2>3
  <1>3. CASE Arrive(w)
    BY <1>3, <1>a, <1>b DEF Arrive, StartValidate, StartComplete, Goto, Steps
  <1>4. CASE ValidateStep(w)
    BY <1>4, <1>a, <1>b
       DEF ValidateStep, ValidateUsed, ValidateRateLimited, ValidateCached, ValidateRefused,
           ValidateAccepted, ValidateCommit, ValidateWarm, Forward, AnswerWith, Goto,
           Recorded, Rejected, NoAnswer, Authorized, dbVars
  <1>5. CASE CompleteStep(w)
    <2> USE <1>a, <1>b DEF Forward, AnswerWith, Goto, Recorded, dbVars
    <2>1. CASE AcquireTimeout(w) \/ LookupUnknown(w) \/ SettleFails(w)
      BY <2>1 DEF AcquireTimeout, LookupUnknown, SettleFails, ErrorAnswer, NoAnswer
    <2>2. CASE AcquireLock(w) \/ CheckReplay(w) \/ LookupFound(w) \/ MarkConsumed(w)
               \/ DropCache(w) \/ WarmHeir(w) \/ ReleaseLock(w)
      BY <2>2 DEF AcquireLock, CheckReplay, LookupFound, MarkConsumed, DropCache, WarmHeir,
                  ReleaseLock
    <2>3. CASE FindTxn(w)
      <3>1. CASE txns[req[w].code] = << >>
        BY <2>3, <3>1 DEF FindTxn, ErrorAnswer, NoAnswer
      <3>2. CASE txns[req[w].code] # << >>
        <4> DEFINE rows == txns[req[w].code]
        <4>1. rows \in Seq(TxnRow)
          BY <2>3 DEF FindTxn, TypeInv, StoreTypes
        <4>2. Len(rows) \in DOMAIN rows
          BY <3>2, <4>1
        <4>3. /\ ans'[w] = SettledAnswer(LatestLitres(w), NoCode) /\ req'[w] = req[w]
              /\ pc'[w] = "c_release" /\ txns' = txns
          BY <2>3, <3>2 DEF FindTxn
        <4> QED
          BY <4>2, <4>3 DEF SettledAnswer, LatestLitres
      <3> QED
        BY <3>1, <3>2
    <2>4. CASE SettleAll(w) \/ \E d \in Codes : SettlePart(w, d)
      <3>1. /\ Recorded(req[w].code, req[w].litres)' /\ req' = req /\ pc'[w] = "c_sadd"
            /\ \E h \in Codes \cup {NoCode} : ans'[w] = SettledAnswer(req[w].litres, h)
        BY <2>4, SettlementRecorded DEF SettleAll, SettlePart
      <3> QED
        BY <3>1 DEF SettledAnswer
    <2> QED
      BY <1>5, <2>1, <2>2, <2>3, <2>4 DEF CompleteStep
  <1>6. CASE Reply(w) \/ ReplyLost(w) \/ Crash(w)
    BY <1>6, <1>a DEF Reply, ReplyLost, Crash, GoIdle, Goto, NoAnswer, dbVars
  <1>7. CASE \/ \E S \in SUBSET Codes : \E quota \in [S -> Quotas] : Upload(S, quota)
             \/ \E c \in Codes : LockExpire(c) \/ SlowExpire(c) \/ CacheExpire(c)
             \/ UNCHANGED vars
    BY <1>7, <1>1 DEF Upload, LockExpire, SlowExpire, CacheExpire, vars, dbVars
  <1> QED
    BY <1>2, <1>3, <1>4, <1>5, <1>6, <1>7 DEF Next, Handle

\* A success answer of complete_dispense, first or replayed, reports the litres of a
\* transaction recorded for its code, under every fault.
THEOREM AnswerRecordedHolds == Spec => []AnswerRecorded
  <1>1. Init => AnswerInv
    <2>1. NoAnswer.kind # "settled"
      BY DEF NoAnswer
    <2>2. Init => \A w \in Workers : ans[w] = NoAnswer
      BY DEF Init
    <2> QED
      BY <2>1, <2>2 DEF AnswerInv
  <1>2. AnswerInv => AnswerRecorded
    BY DEF AnswerInv, AnswerRecorded, Recorded
  <1> QED
    BY <1>1, <1>2, AnswerInvStep, TypeAlways, PTL DEF Spec

-----------------------------------------------------------------------------
(* Redis agrees with the rows, under every fault *)

\* Litres that may be quoted for a code: what its allocation has left, as long as it
\* can be drawn upon.
Quotable(c, litres) ==
  /\ code[c].status # "UNISSUED"
  /\ code[c].status = "ACTIVE" => alloc[c].remaining = litres

\* RedisAgrees holds because a handler that is about to tell a station of a settlement
\* has its code in the consumed set, and one that is about to warm the cache
\* carries litres that may be quoted.
ConsumedInv ==
  /\ ToldIsConsumed
  /\ \A w \in Workers :
       \/ pc[w] \in {"c_find", "c_uncache", "c_warm"}
       \/ pc[w] \in {"c_release", "reply"} /\ ans[w].kind = "settled"
       => req[w].code \in consumedSet

CacheInv ==
  /\ \A c \in Codes : cache[c] # NoEntry => Quotable(c, cache[c])
  /\ \A w \in Workers :
       /\ pc[w] = "v_warm" => Quotable(req[w].code, snap[w].remaining)
       /\ pc[w] \in {"c_sadd", "c_uncache", "c_warm"} /\ ans[w].heir # NoCode =>
            Quotable(ans[w].heir, HeirLitres(w))

\* The rows change under a code only by its settlement, which ends its quotes.
LEMMA QuotableKept ==
  ASSUME TypeInv, RowInv, [Next]_vars, NEW c \in Codes, NEW litres, Quotable(c, litres)
  PROVE  Quotable(c, litres)'
  <1> USE DEF Quotable
  <1>a. /\ code \in [Codes -> CodeRow] /\ alloc \in [Codes -> AllocRow]
        /\ \A v \in Workers : pc[v] # "idle" => req[v].code \in Codes
    BY DEF TypeInv, StoreTypes, HandlerTypes, RequestOK
  <1>1. ASSUME UNCHANGED <<code, alloc>> PROVE Quotable(c, litres)'
    BY <1>1
  <1>2. ASSUME NEW v \in Workers, SettleAll(v) PROVE Quotable(c, litres)'
    <2>1. req[v].code \in Codes
      BY <1>a, <1>2 DEF SettleAll
    <2> QED
      BY <1>a, <1>2, <2>1 DEF SettleAll, SettledCode
  <1>3. ASSUME NEW v \in Workers, NEW d \in Codes, SettlePart(v, d) PROVE Quotable(c, litres)'
    <2>1. req[v].code \in Codes /\ d # c
      BY <1>a, <1>3 DEF SettlePart, Fresh
    <2> QED
      BY <1>a, <1>3, <2>1 DEF SettlePart, SettledCode
  <1>4. ASSUME NEW v \in Workers, ValidateCommit(v) PROVE Quotable(c, litres)'
    <2>1. req[v].code \in Codes
      BY <1>a, <1>4 DEF ValidateCommit
    <2>2. code'[c].status = code[c].status
      BY <1>a, <1>4, <2>1 DEF ValidateCommit, CodeRow
    <2> QED
      BY <1>4, <2>2 DEF ValidateCommit
  <1>5. ASSUME NEW S \in SUBSET Codes, NEW quota \in [S -> Quotas], Upload(S, quota)
        PROVE  Quotable(c, litres)'
    BY <1>a, <1>5 DEF Upload, Fresh
  <1>6. ASSUME NEW v \in Workers,
               Arrive(v) \/ Crash(v) \/ Reply(v) \/ ReplyLost(v)
        PROVE  Quotable(c, litres)'
    BY <1>1, <1>6 DEF Arrive, StartValidate, StartComplete, Crash, Reply, ReplyLost, dbVars
  <1>7. ASSUME NEW v \in Workers, ValidateStep(v), ~ValidateCommit(v) PROVE Quotable(c, litres)'
    BY <1>1, <1>7
       DEF ValidateStep, ValidateUsed, ValidateRateLimited, ValidateCached, ValidateRefused,
           ValidateAccepted, ValidateWarm, dbVars
  <1>8. ASSUME NEW v \in Workers, CompleteStep(v), ~SettleAll(v),
               ~\E d \in Codes : SettlePart(v, d)
        PROVE  Quotable(c, litres)'
    BY <1>1, <1>8
       DEF CompleteStep, AcquireLock, AcquireTimeout, CheckReplay, FindTxn, LookupUnknown,
           LookupFound, SettleFails, MarkConsumed, DropCache, WarmHeir, ReleaseLock, dbVars
  <1>9. CASE (\E d \in Codes : LockExpire(d) \/ SlowExpire(d) \/ CacheExpire(d)) \/ UNCHANGED vars
    BY <1>1, <1>9 DEF LockExpire, SlowExpire, CacheExpire, vars, dbVars
  <1> QED
    BY <1>2, <1>3, <1>4, <1>5, <1>6, <1>7, <1>8, <1>9 DEF Next, Handle

\* Every step keeps a code whose settlement was told marked as consumed.
LEMMA ConsumedInvStep == TypeInv /\ ConsumedInv /\ [Next]_vars => ConsumedInv'
  <1> SUFFICES ASSUME TypeInv, ConsumedInv, [Next]_vars PROVE ConsumedInv'
    OBVIOUS
  <1>a. /\ pc \in [Workers -> Steps] /\ req \in [Workers -> Request] /\ ans \in [Workers -> Answer]
    BY DEF TypeInv, HandlerTypes
  <1> USE <1>a DEF ConsumedInv, ToldIsConsumed, Goto, Forward, AnswerWith, dbVars, redisVars
  <1>1. ASSUME NEW v \in Workers, Arrive(v) PROVE ConsumedInv'
    BY <1>1 DEF Arrive, StartValidate, StartComplete
  <1>2. ASSUME NEW v \in Workers, ValidateStep(v) PROVE ConsumedInv'
    BY <1>2
       DEF ValidateStep, ValidateUsed, ValidateRateLimited, ValidateCached, ValidateRefused,
           ValidateAccepted, ValidateCommit, ValidateWarm, Rejected, NoAnswer, Authorized
  <1>3. ASSUME NEW v \in Workers, CompleteStep(v) PROVE ConsumedInv'
    <2>1. CASE AcquireLock(v) \/ AcquireTimeout(v) \/ LookupUnknown(v) \/ LookupFound(v)
               \/ SettleFails(v)
      BY <2>1 DEF AcquireLock, AcquireTimeout, LookupUnknown, LookupFound, SettleFails,
                  ErrorAnswer, NoAnswer
    <2>2. CASE CheckReplay(v) \/ FindTxn(v)
      BY <2>2 DEF CheckReplay, FindTxn, Consumed
    <2>3. CASE SettleAll(v) \/ \E d \in Codes : SettlePart(v, d)
      BY <2>3 DEF SettleAll, SettlePart
    <2>4. CASE MarkConsumed(v) \/ DropCache(v) \/ WarmHeir(v) \/ ReleaseLock(v)
      BY <2>4 DEF MarkConsumed, AddConsumed, DropCache, WarmHeir, ReleaseLock
    <2> QED
      BY <1>3, <2>1, <2>2, <2>3, <2>4 DEF CompleteStep
  <1>4. ASSUME NEW v \in Workers, Reply(v) \/ ReplyLost(v) \/ Crash(v) PROVE ConsumedInv'
    BY <1>4 DEF Reply, ReplyLost, Crash, GoIdle
  <1>5. CASE \/ \E S \in SUBSET Codes : \E quota \in [S -> Quotas] : Upload(S, quota)
             \/ \E c \in Codes : LockExpire(c) \/ SlowExpire(c) \/ CacheExpire(c)
             \/ UNCHANGED vars
    BY <1>5 DEF Upload, LockExpire, SlowExpire, CacheExpire, vars
  <1> QED
    BY <1>1, <1>2, <1>3, <1>4, <1>5 DEF Next, Handle

\* Every step keeps what is cached, or about to be, to what may be quoted of a code.
LEMMA CacheInvStep == TypeInv /\ RowInv /\ CacheInv /\ [Next]_vars => CacheInv'
  <1> SUFFICES ASSUME TypeInv, RowInv, CacheInv, [Next]_vars PROVE CacheInv'
    OBVIOUS
  <1> DEFINE Carries(w) ==
        /\ pc[w] = "v_warm" => Quotable(req[w].code, snap[w].remaining)
        /\ pc[w] \in {"c_sadd", "c_uncache", "c_warm"} /\ ans[w].heir # NoCode =>
             Quotable(ans[w].heir, HeirLitres(w))
  <1>a. /\ pc \in [Workers -> Steps] /\ req \in [Workers -> Request]
        /\ snap \in [Workers -> Snapshot] /\ ans \in [Workers -> Answer]
        /\ cache \in [Codes -> Nat \cup {NoEntry}]
        /\ code \in [Codes -> CodeRow] /\ alloc \in [Codes -> AllocRow]
        /\ \A v \in Workers : pc[v] # "idle" => req[v].code \in Codes
        /\ \A v \in Workers : ans[v].heir \in Codes \cup {NoCode}
        /\ \A v \in Workers : pc[v] = "c_warm" => ans[v].heir \in Codes
    BY DEF TypeInv, StoreTypes, HandlerTypes, RequestOK, Answer
  <1>b. \A c \in Codes : \A litres : Quotable(c, litres) => Quotable(c, litres)'
    BY QuotableKept
  <1>c. \A w \in Workers : Carries(w)
    BY DEF CacheInv
  \* entries that stay, or were carried by the handler that wrote them
  <1>1. ASSUME \A c \in Codes :
                 \/ cache'[c] = cache[c] \/ cache'[c] = NoEntry
                 \/ Quotable(c, cache'[c])
        PROVE  \A c \in Codes : cache'[c] # NoEntry => Quotable(c, cache[c])'
    BY <1>1, <1>b DEF CacheInv, Quotable
  <1>2. ASSUME NEW w \in Workers, pc'[w] = pc[w], req'[w] = req[w], snap'[w] = snap[w],
               ans'[w] = ans[w]
        PROVE  Carries(w)'
    <2>1. /\ pc[w] = "v_warm" => Quotable(req[w].code, snap[w].remaining)'
      <3>1. pc[w] = "v_warm" =>
              req[w].code \in Codes /\ Quotable(req[w].code, snap[w].remaining)
        BY <1>a, <1>c
      <3> QED
        BY <1>2, <1>b, <3>1 DEF Quotable
    <2>2. pc[w] \in {"c_sadd", "c_uncache", "c_warm"} /\ ans[w].heir # NoCode =>
            Quotable(ans[w].heir, HeirLitres(w))'
      <3>1. HeirLitres(w)' = HeirLitres(w)
        BY <1>2 DEF HeirLitres, Leftover
      <3>2. pc[w] \in {"c_sadd", "c_uncache", "c_warm"} /\ ans[w].heir # NoCode =>
              ans[w].heir \in Codes /\ Quotable(ans[w].heir, HeirLitres(w))
        BY <1>a, <1>c
      <3> QED
        BY <1>2, <1>b, <3>1, <3>2 DEF Quotable
    <2> QED
      BY <1>2, <2>1, <2>2
  <1>3. ASSUME NEW v \in Workers, Arrive(v) \/ Handle(v) \/ Crash(v), Carries(v)',
               \A c \in Codes :
                 \/ cache'[c] = cache[c] \/ cache'[c] = NoEntry
                 \/ Quotable(c, cache'[c])
        PROVE  CacheInv'
    <2>1. \A w \in Workers : Carries(w)'
      BY <1>2, <1>3, OthersKept
    <2> QED
      BY <1>1, <1>3, <2>1 DEF CacheInv
  <1>4. ASSUME NEW v \in Workers, Arrive(v) PROVE CacheInv'
    BY <1>3, <1>4, <1>a DEF Arrive, StartValidate, StartComplete, Goto, redisVars
  <1>5. ASSUME NEW v \in Workers, ValidateStep(v) PROVE CacheInv'
    <2> USE <1>a DEF Goto, Forward, AnswerWith
    <2>1. CASE ValidateUsed(v) \/ ValidateRateLimited(v) \/ ValidateCached(v) \/ ValidateRefused(v)
               \/ ValidateAccepted(v)
      <3>1. pc'[v] \notin {"v_warm", "c_sadd", "c_uncache", "c_warm"} /\ cache' = cache
        BY <2>1 DEF ValidateUsed, ValidateRateLimited, ValidateCached, ValidateRefused,
                    ValidateAccepted, redisVars
      <3> QED
        BY <1>3, <2>1, <3>1 DEF Handle, ValidateStep
    <2>2. CASE ValidateCommit(v)
      <3>1. Quotable(req[v].code, snap[v].remaining) /\ req[v].code \in Codes
        BY <2>2 DEF ValidateCommit, RowInv, Committing, ReadRows, Quotable
      <3>2. /\ pc'[v] = "v_warm" /\ req'[v] = req[v] /\ snap'[v] = snap[v] /\ cache' = cache
        BY <2>2 DEF ValidateCommit, redisVars
      <3>3. Carries(v)'
        BY <1>b, <3>1, <3>2 DEF Quotable
      <3> QED
        BY <1>3, <2>2, <3>2, <3>3 DEF Handle, ValidateStep
    <2>3. CASE ValidateWarm(v)
      <3>1. /\ pc'[v] = "reply" /\ cache' = [cache EXCEPT ![req[v].code] = snap[v].remaining]
            /\ Quotable(req[v].code, snap[v].remaining)
        BY <2>3, <1>c DEF ValidateWarm
      <3>2. Carries(v)'
        BY <3>1
      <3>3. \A c \in Codes : cache'[c] = cache[c] \/ Quotable(c, cache'[c])
        BY <3>1
      <3> QED
        BY <1>3, <2>3, <3>2, <3>3 DEF Handle, ValidateStep
    <2> QED
      BY <1>5, <2>1, <2>2, <2>3 DEF ValidateStep
  <1>6. ASSUME NEW v \in Workers, CompleteStep(v) PROVE CacheInv'
    <2> USE <1>a DEF Goto, Forward, AnswerWith
    <2>h. Handle(v)
      BY <1>6 DEF Handle
    <2>1. CASE AcquireLock(v) \/ AcquireTimeout(v) \/ CheckReplay(v) \/ FindTxn(v)
               \/ LookupUnknown(v) \/ LookupFound(v) \/ SettleFails(v) \/ ReleaseLock(v)
      <3>1. pc'[v] \notin {"v_warm", "c_sadd", "c_uncache", "c_warm"} /\ cache' = cache
        BY <2>1 DEF AcquireLock, AcquireTimeout, CheckReplay, FindTxn, LookupUnknown, LookupFound,
                    SettleFails, ReleaseLock, redisVars
      <3> QED
        BY <1>3, <2>h, <3>1
    <2>2. CASE SettleAll(v)
      <3>1. /\ pc'[v] = "c_sadd" /\ ans'[v] = SettledAnswer(req[v].litres, NoCode) /\ cache' = cache
        BY <2>2 DEF SettleAll, redisVars
      <3>2. Carries(v)'
        BY <3>1 DEF SettledAnswer
      <3> QED
        BY <1>3, <2>h, <3>1, <3>2
    <2>3. ASSUME NEW d \in Codes, SettlePart(v, d) PROVE CacheInv'
      <3>1. /\ pc'[v] = "c_sadd" /\ ans'[v] = SettledAnswer(req[v].litres, d) /\ cache' = cache
            /\ req'[v] = req[v] /\ snap'[v] = snap[v]
        BY <2>3 DEF SettlePart, redisVars
      <3>2. /\ code'[d] = NewCode /\ alloc'[d] = NewAlloc(Leftover(req[v].litres, snap[v].remaining))
        BY <2>3 DEF SettlePart
      <3>3. HeirLitres(v)' = Leftover(req[v].litres, snap[v].remaining)
        BY <3>1 DEF HeirLitres, Leftover
      <3>4. Quotable(d, HeirLitres(v))'
        BY <3>2, <3>3 DEF Quotable, NewCode, NewAlloc
      <3>5. Carries(v)'
        BY <3>1, <3>4 DEF SettledAnswer, Quotable
      <3> QED
        BY <1>3, <2>h, <3>1, <3>5
    <2>4. CASE MarkConsumed(v) \/ DropCache(v)
      <3>1. /\ pc[v] \in {"c_sadd", "c_uncache"} /\ pc'[v] # "v_warm"
            /\ ans'[v] = ans[v] /\ req'[v] = req[v] /\ snap'[v] = snap[v]
            /\ \A c \in Codes : cache'[c] = cache[c] \/ cache'[c] = NoEntry
        BY <2>4 DEF MarkConsumed, DropCache
      <3>2. HeirLitres(v)' = HeirLitres(v)
        BY <3>1 DEF HeirLitres, Leftover
      <3>3. ans[v].heir # NoCode => ans[v].heir \in Codes /\ Quotable(ans[v].heir, HeirLitres(v))
        BY <1>c, <3>1
      <3>4. Carries(v)'
        BY <1>b, <3>1, <3>2, <3>3 DEF Quotable
      <3> QED
        BY <1>3, <2>h, <3>1, <3>4
    <2>5. CASE WarmHeir(v)
      <3>1. /\ pc[v] = "c_warm" /\ pc'[v] = "c_release"
            /\ cache' = [cache EXCEPT ![ans[v].heir] = HeirLitres(v)]
        BY <2>5 DEF WarmHeir
      <3>2. ans[v].heir \in Codes /\ Quotable(ans[v].heir, HeirLitres(v))
        BY <1>c, <3>1, ConstantsAssumption
      <3>3. \A c \in Codes : cache'[c] = cache[c] \/ Quotable(c, cache'[c])
        BY <3>1, <3>2
      <3>4. Carries(v)'
        BY <3>1
      <3> QED
        BY <1>3, <2>h, <3>3, <3>4
    <2> QED
      BY <1>6, <2>1, <2>2, <2>3, <2>4, <2>5 DEF CompleteStep
  <1>7. ASSUME NEW v \in Workers, Reply(v) \/ ReplyLost(v) \/ Crash(v) PROVE CacheInv'
    <2>1. pc'[v] = "idle" /\ cache' = cache
      BY <1>7, <1>a DEF Reply, ReplyLost, Crash, GoIdle, Goto, redisVars
    <2> QED
      BY <1>3, <1>7, <2>1 DEF Handle
  <1>8. CASE \/ \E S \in SUBSET Codes : \E quota \in [S -> Quotas] : Upload(S, quota)
             \/ \E c \in Codes : LockExpire(c) \/ SlowExpire(c) \/ CacheExpire(c)
             \/ UNCHANGED vars
    <2>1. /\ UNCHANGED <<pc, req, snap, ans>>
          /\ \A c \in Codes : cache'[c] = cache[c] \/ cache'[c] = NoEntry
      BY <1>8, <1>a DEF Upload, LockExpire, SlowExpire, CacheExpire, vars, redisVars
    <2> QED
      BY <1>1, <1>2, <2>1 DEF CacheInv
  <1> QED
    BY <1>4, <1>5, <1>6, <1>7, <1>8 DEF Next, Handle

-----------------------------------------------------------------------------
(* The engine implements the contract, as long as no handler dies and no   *)
(* lock runs out early                                                     *)

\* What the rows of a code say at each stage of its life.
RowsFit ==
  \A c \in Codes :
    /\ code[c].status # "CONSUMED" => code[c].consumed = 0
    /\ code[c].status = "ACTIVE" => alloc[c].remaining = alloc[c].allocated
    /\ code[c].status = "CONSUMED" => txns[c] # << >>

\* A settlement draws upon an open code, of which nothing was drawn.
LEMMA SettlesOpenCode ==
  ASSUME TypeInv, RowInv, SettleInv, RowsFit, NEW w \in Workers, pc[w] = "c_commit"
  PROVE  LET c == req[w].code IN
           /\ c \in Codes /\ req[w].litres \in Litres
           /\ code[c].status = "ACTIVE" /\ code[c].consumed = 0
           /\ snap[w].consumed = 0 /\ snap[w].remaining = alloc[c].allocated
           /\ txns[c] = << >>
  <1> DEFINE c == req[w].code
  <1>1. c \in Codes /\ req[w].litres \in Litres /\ code[c] \in CodeRow
    BY DEF TypeInv, StoreTypes, HandlerTypes, RequestOK, LockedSteps
  <1>2. txns[c] = << >>
    BY DEF SettleInv, PastGuard
  <1>3. code[c].status # "UNISSUED" /\ snap[w] = ReadRows(c)
    BY DEF RowInv, Committing
  <1>4. code[c].status = "ACTIVE"
    BY <1>1, <1>2, <1>3 DEF RowsFit, CodeRow
  <1> QED
    BY <1>1, <1>2, <1>3, <1>4 DEF RowsFit, ReadRows

\* Every step keeps a code, its allocation and its transactions in agreement.
LEMMA RowsFitStep ==
  TypeInv /\ RowInv /\ SettleInv /\ RowsFit /\ [Next]_vars => RowsFit'
  <1> SUFFICES ASSUME TypeInv, RowInv, SettleInv, RowsFit, [Next]_vars PROVE RowsFit'
    OBVIOUS
  <1>a. /\ code \in [Codes -> CodeRow] /\ alloc \in [Codes -> AllocRow]
        /\ txns \in [Codes -> Seq(TxnRow)]
        /\ \A v \in Workers : pc[v] # "idle" => req[v].code \in Codes
    BY DEF TypeInv, StoreTypes, HandlerTypes, RequestOK
  <1>1. ASSUME UNCHANGED dbVars PROVE RowsFit'
    BY <1>1 DEF RowsFit, dbVars
  <1>2. ASSUME NEW v \in Workers, NEW h \in Codes \cup {NoCode}, pc[v] = "c_commit"
        PROVE  SettledTxns(v, h) # << >>
    <2>1. /\ SettledTxns(v, h) \in Seq(TxnRow) /\ txns[req[v].code] \in Seq(TxnRow)
          /\ \E t : SettledTxns(v, h) = Append(txns[req[v].code], t)
      BY <1>a, <1>2, SettledTypes DEF SettledTxns
    <2>2. Len(SettledTxns(v, h)) = Len(txns[req[v].code]) + 1
      BY <2>1
    <2> QED
      BY <2>1, <2>2
  <1>3. ASSUME NEW v \in Workers, SettleAll(v) PROVE RowsFit'
    <2>1. req[v].code \in Codes /\ pc[v] = "c_commit"
      BY <1>a, <1>3 DEF SettleAll
    <2> QED
      BY <1>a, <1>2, <1>3, <2>1 DEF SettleAll, SettledCode, RowsFit
  <1>4. ASSUME NEW v \in Workers, NEW d \in Codes, SettlePart(v, d) PROVE RowsFit'
    <2>1. req[v].code \in Codes /\ pc[v] = "c_commit" /\ d # req[v].code
      BY <1>a, <1>4 DEF SettlePart, Fresh, RowInv, Committing
    <2> QED
      BY <1>a, <1>2, <1>4, <2>1 DEF SettlePart, SettledCode, NewCode, NewAlloc, RowsFit
  <1>5. ASSUME NEW v \in Workers, ValidateCommit(v) PROVE RowsFit'
    <2>1. /\ req[v].code \in Codes /\ UNCHANGED <<alloc, txns>>
      BY <1>a, <1>5 DEF ValidateCommit
    <2>2. \A c \in Codes : code'[c].status = code[c].status /\ code'[c].consumed = code[c].consumed
      BY <1>a, <1>5, <2>1 DEF ValidateCommit, CodeRow
    <2> QED
      BY <2>1, <2>2 DEF RowsFit
  <1>6. ASSUME NEW S \in SUBSET Codes, NEW quota \in [S -> Quotas], Upload(S, quota)
        PROVE  RowsFit'
    BY <1>a, <1>6 DEF Upload, NewCode, NewAlloc, RowsFit
  <1>7. ASSUME NEW v \in Workers, Arrive(v) \/ Crash(v) \/ Reply(v) \/ ReplyLost(v)
        PROVE  RowsFit'
    BY <1>1, <1>7 DEF Arrive, StartValidate, StartComplete, Crash, Reply, ReplyLost
  <1>8. ASSUME NEW v \in Workers, ValidateStep(v), ~ValidateCommit(v) PROVE RowsFit'
    BY <1>1, <1>8
       DEF ValidateStep, ValidateUsed, ValidateRateLimited, ValidateCached, ValidateRefused,
           ValidateAccepted, ValidateWarm
  <1>9. ASSUME NEW v \in Workers, CompleteStep(v), ~SettleAll(v),
               ~\E d \in Codes : SettlePart(v, d)
        PROVE  RowsFit'
    BY <1>1, <1>9
       DEF CompleteStep, AcquireLock, AcquireTimeout, CheckReplay, FindTxn, LookupUnknown,
           LookupFound, SettleFails, MarkConsumed, DropCache, WarmHeir, ReleaseLock
  <1>10. CASE (\E d \in Codes : LockExpire(d) \/ SlowExpire(d) \/ CacheExpire(d)) \/ UNCHANGED vars
    BY <1>1, <1>10 DEF LockExpire, SlowExpire, CacheExpire, vars
  <1> QED
    BY <1>3, <1>4, <1>5, <1>6, <1>7, <1>8, <1>9, <1>10 DEF Next, Handle

-----------------------------------------------------------------------------
(* The refinement mapping, one named function per variable of the contract *)

State == [c \in Codes |-> CASE code[c].status = "UNISSUED" -> "unissued"
                            [] code[c].status = "ACTIVE" -> "open"
                            [] OTHER -> "drawn"]
Granted == [c \in Codes |-> alloc[c].allocated]
Drawn == [c \in Codes |-> code[c].consumed]
Heir == [c \in Codes |-> IF txns[c] = << >> THEN NoCode ELSE txns[c][1].heir]

\* The first state is one of the contract.
LEMMA MappedInit == Init => Contract!Init
  BY DEF Init, Contract!Init

\* Steps that leave the rows alone, or count an attempt, are not seen in the contract.
LEMMA MappedStutter ==
  ASSUME TypeInv, UNCHANGED <<alloc, txns>>,
         \/ UNCHANGED code
         \/ \E v \in Workers : ValidateCommit(v)
  PROVE  UNCHANGED Contract!vars
  <1>1. /\ code \in [Codes -> CodeRow]
        /\ \A v \in Workers : pc[v] # "idle" => req[v].code \in Codes
    BY DEF TypeInv, StoreTypes, HandlerTypes, RequestOK
  <1>2. \A c \in Codes : code'[c].status = code[c].status /\ code'[c].consumed = code[c].consumed
    <2>1. ASSUME NEW v \in Workers, ValidateCommit(v), NEW c \in Codes
          PROVE  code'[c].status = code[c].status /\ code'[c].consumed = code[c].consumed
      BY <1>1, <2>1 DEF ValidateCommit, CodeRow
    <2> QED
      BY <2>1
  <1>3. State' = State /\ Drawn' = Drawn
    BY <1>2 DEF State, Drawn
  <1>4. Granted' = Granted /\ Heir' = Heir
    BY DEF Granted, Heir
  <1> QED
    BY <1>3, <1>4 DEF Contract!vars, State, Granted, Drawn, Heir

\* An upload grants quotas in the contract.
LEMMA MappedUpload ==
  ASSUME TypeInv, RowsFit, NEW S \in SUBSET Codes, NEW quota \in [S -> Quotas],
         Upload(S, quota)
  PROVE  Contract!Grant(S, quota)
  <1>1. code \in [Codes -> CodeRow] /\ alloc \in [Codes -> AllocRow]
    BY DEF TypeInv, StoreTypes
  <1>2. \A c \in S : code[c].status = "UNISSUED" /\ code[c].consumed = 0 /\ State[c] = "unissued"
    BY DEF Upload, Fresh, RowsFit, State
  <1>3. State' = [c \in Codes |-> IF c \in S THEN "open" ELSE State[c]]
    BY <1>1 DEF Upload, State, NewCode
  <1>4. Granted' = [c \in Codes |-> IF c \in S THEN quota[c] ELSE Granted[c]]
    BY <1>1 DEF Upload, Granted, NewAlloc
  <1>5. Drawn' = Drawn /\ Heir' = Heir
    BY <1>1, <1>2 DEF Upload, Drawn, Heir, NewCode
  <1> QED
    BY <1>2, <1>3, <1>4, <1>5 DEF Contract!Grant, State, Granted, Drawn, Heir

\* A settlement of the whole quota draws all of it in the contract.
LEMMA MappedSettleAll ==
  ASSUME TypeInv, RowInv, SettleInv, RowsFit, NEW w \in Workers, SettleAll(w)
  PROVE  \E c \in Codes, litres \in Litres : Contract!DrawAll(c, litres)
  <1> DEFINE c == req[w].code
             litres == req[w].litres
  <1>1. /\ c \in Codes /\ litres \in Litres /\ litres \in Nat
        /\ code[c].status = "ACTIVE" /\ snap[w].consumed = 0
        /\ snap[w].remaining = alloc[c].allocated /\ txns[c] = << >>
    BY SettlesOpenCode, ConstantsAssumption DEF SettleAll
  <1>2. /\ code \in [Codes -> CodeRow] /\ alloc \in [Codes -> AllocRow]
        /\ txns \in [Codes -> Seq(TxnRow)] /\ alloc[c].allocated \in Nat
    BY <1>1 DEF TypeInv, StoreTypes, AllocRow
  <1>3. Granted[c] - litres <= PartialMin /\ State[c] = "open"
    BY <1>1, <1>2, ConstantsAssumption DEF SettleAll, IsPartial, IsOver, Granted, State
  <1>4. State' = [State EXCEPT ![c] = "drawn"]
    BY <1>1, <1>2 DEF SettleAll, SettledCode, State
  <1>5. Drawn' = [Drawn EXCEPT ![c] = litres]
    <2>1. code'[c].consumed = litres
      BY <1>1, <1>2 DEF SettleAll, SettledCode
    <2> QED
      BY <1>1, <1>2, <2>1 DEF SettleAll, Drawn
  <1>6. Granted' = Granted
    BY <1>1, <1>2 DEF SettleAll, SettledAlloc, Granted
  <1>7. Heir' = Heir
    <2>1. txns'[c] # << >> /\ txns'[c][1].heir = NoCode
      BY <1>1, <1>2 DEF SettleAll, SettledTxns
    <2> QED
      BY <1>1, <1>2, <2>1 DEF SettleAll, Heir
  <1> QED
    BY <1>1, <1>3, <1>4, <1>5, <1>6, <1>7 DEF Contract!DrawAll, State, Granted, Drawn, Heir

\* A settlement of a part draws it in the contract, the rest going to an heir.
LEMMA MappedSettlePart ==
  ASSUME TypeInv, RowInv, SettleInv, RowsFit, NEW w \in Workers, NEW d \in Codes,
         SettlePart(w, d)
  PROVE  \E c \in Codes, litres \in Litres : Contract!DrawPart(c, litres, d)
  <1> DEFINE c == req[w].code
             litres == req[w].litres
  <1>1. /\ c \in Codes /\ litres \in Litres /\ litres \in Nat
        /\ code[c].status = "ACTIVE" /\ snap[w].consumed = 0
        /\ snap[w].remaining = alloc[c].allocated /\ txns[c] = << >>
    BY SettlesOpenCode, ConstantsAssumption DEF SettlePart
  <1>2. /\ code \in [Codes -> CodeRow] /\ alloc \in [Codes -> AllocRow]
        /\ txns \in [Codes -> Seq(TxnRow)] /\ alloc[c].allocated \in Nat
    BY <1>1 DEF TypeInv, StoreTypes, AllocRow
  <1>3. d # c /\ code[d].status = "UNISSUED" /\ code[d].consumed = 0
    BY <1>1 DEF SettlePart, Fresh, RowsFit
  <1>4. Granted[c] - litres > PartialMin /\ State[c] = "open" /\ State[d] = "unissued"
    BY <1>1, <1>2, <1>3 DEF SettlePart, IsPartial, Granted, State
  <1>5. Leftover(litres, snap[w].remaining) = Granted[c] - litres
    BY <1>1, <1>2, <1>4, ConstantsAssumption DEF Leftover, Granted
  <1>6. State' = [State EXCEPT ![c] = "drawn", ![d] = "open"]
    BY <1>1, <1>2, <1>3 DEF SettlePart, SettledCode, NewCode, State
  <1>7. Drawn' = [Drawn EXCEPT ![c] = litres]
    <2>1. code'[c].consumed = litres /\ code'[d].consumed = 0
      BY <1>1, <1>2, <1>3 DEF SettlePart, SettledCode, NewCode
    <2> QED
      BY <1>1, <1>2, <1>3, <2>1 DEF SettlePart, Drawn
  <1>8. Granted' = [Granted EXCEPT ![d] = Granted[c] - litres]
    <2>1. alloc'[c].allocated = alloc[c].allocated /\ alloc'[d].allocated = Granted[c] - litres
      BY <1>1, <1>2, <1>3, <1>5 DEF SettlePart, SettledAlloc, NewAlloc
    <2> QED
      BY <1>1, <1>2, <1>3, <2>1 DEF SettlePart, Granted
  <1>9. Heir' = [Heir EXCEPT ![c] = d]
    <2>1. txns'[c] # << >> /\ txns'[c][1].heir = d
      BY <1>1, <1>2 DEF SettlePart, SettledTxns
    <2> QED
      BY <1>1, <1>2, <2>1 DEF SettlePart, Heir
  <1> QED
    BY <1>1, <1>4, <1>6, <1>7, <1>8, <1>9 DEF Contract!DrawPart, State, Granted, Drawn, Heir

\* Every step of the engine is a step of the contract, or none.
LEMMA MappedStep ==
  TypeInv /\ RowInv /\ SettleInv /\ RowsFit /\ [Next]_vars => [Contract!Next]_Contract!vars
  <1> SUFFICES ASSUME TypeInv, RowInv, SettleInv, RowsFit, [Next]_vars
               PROVE  Contract!Next \/ UNCHANGED Contract!vars
    OBVIOUS
  <1>1. ASSUME NEW S \in SUBSET Codes, NEW quota \in [S -> Quotas], Upload(S, quota)
        PROVE  Contract!Next
    BY <1>1, MappedUpload DEF Contract!Next
  <1>2. ASSUME NEW v \in Workers, SettleAll(v) PROVE Contract!Next
    BY <1>2, MappedSettleAll DEF Contract!Next
  <1>3. ASSUME NEW v \in Workers, NEW d \in Codes, SettlePart(v, d) PROVE Contract!Next
    BY <1>3, MappedSettlePart DEF Contract!Next
  <1>4. ASSUME NEW v \in Workers, ValidateStep(v) PROVE UNCHANGED Contract!vars
    <2>1. UNCHANGED <<alloc, txns>> /\ (UNCHANGED code \/ ValidateCommit(v))
      BY <1>4
         DEF ValidateStep, ValidateUsed, ValidateRateLimited, ValidateCached, ValidateRefused,
             ValidateAccepted, ValidateCommit, ValidateWarm, dbVars
    <2> QED
      BY <2>1, MappedStutter
  <1>5. ASSUME NEW v \in Workers, CompleteStep(v), ~SettleAll(v),
               ~\E d \in Codes : SettlePart(v, d)
        PROVE  UNCHANGED Contract!vars
    <2>1. UNCHANGED dbVars
      BY <1>5
         DEF CompleteStep, AcquireLock, AcquireTimeout, CheckReplay, FindTxn, LookupUnknown,
             LookupFound, SettleFails, MarkConsumed, DropCache, WarmHeir, ReleaseLock
    <2> QED
      BY <2>1, MappedStutter DEF dbVars
  <1>6. ASSUME \/ \E v \in Workers : Arrive(v) \/ Crash(v) \/ Reply(v) \/ ReplyLost(v)
               \/ \E c \in Codes : LockExpire(c) \/ SlowExpire(c) \/ CacheExpire(c)
               \/ UNCHANGED vars
        PROVE  UNCHANGED Contract!vars
    <2>1. UNCHANGED dbVars
      BY <1>6 DEF Arrive, StartValidate, StartComplete, Crash, Reply, ReplyLost,
                  LockExpire, SlowExpire, CacheExpire, vars
    <2> QED
      BY <2>1, MappedStutter DEF dbVars
  <1> QED
    BY <1>1, <1>2, <1>3, <1>4, <1>5, <1>6 DEF Next, Handle

\* With no death and no early expiry, every behaviour of the engine is one of the
\* contract: an entitlement is drawn upon once, and what a partial draw leaves goes,
\* to the litre, to one fresh code (docstring of dispense_engine.py, lines 3-20).
THEOREM ImplementsContractHolds ==
  ASSUME FaultFree
  PROVE  Spec => ImplementsContract
  <1>1. Init => RowsFit
    BY DEF Init, RowsFit
  <1>2. Spec => [](TypeInv /\ RowInv /\ SettleInv)
    BY RowInvAlways, SettleInvAlways, PTL
  <1>3. Spec => []RowsFit
    BY <1>1, <1>2, RowsFitStep, PTL DEF Spec
  <1> QED
    BY <1>2, <1>3, MappedInit, MappedStep, PTL DEF Spec, ImplementsContract, Contract!Spec

-----------------------------------------------------------------------------
(* Every settlement beyond the first is paid for by a fault *)

\* The handlers that are at one of some steps with a code.
IsAt(w, steps, c) == pc[w] \in steps /\ req[w].code = c
At(steps, c) == {w \in Workers : IsAt(w, steps, c)}

Past == {"c_lookup", "c_commit"}   \* past the replay guard, not settled
Unmarked == {"c_sadd"}             \* settled, not in the consumed set

\* Why FaultsBoundSettlements holds.  A handler in the critical section without the
\* key has lost it to an expiry.  A code that is not in the consumed set was settled by
\* handlers that are about to put it there, or have died.  Once it is there, only
\* those that passed the guard before can settle it.
PaidFor(c) ==
  /\ IsFiniteSet(At(LockedSteps, c))
  /\ Cardinality(At(LockedSteps, c)) <= (IF c \in lock THEN 1 ELSE 0) + slows
  /\ c \notin consumedSet => Len(txns[c]) <= Cardinality(At(Unmarked, c)) + crashes
  /\ c \in consumedSet => Len(txns[c]) + Cardinality(At(Past, c)) <= 1 + crashes + slows

FaultInv == \A c \in Codes : PaidFor(c)

\* The steps before the mark and those behind it are different steps of the section.
LEMMA StepSets == Past \subseteq LockedSteps /\ Unmarked \subseteq LockedSteps /\ Past \cap Unmarked = {}
  BY DEF Past, Unmarked, LockedSteps

\* The handlers at some steps of the critical section are finitely many.
LEMMA AtFinite ==
  ASSUME NEW c, IsFiniteSet(At(LockedSteps, c)), NEW steps \in SUBSET LockedSteps
  PROVE  IsFiniteSet(At(steps, c)) /\ Cardinality(At(steps, c)) \in Nat
  <1>1. At(steps, c) \subseteq At(LockedSteps, c)
    BY DEF At, IsAt
  <1> QED
    BY <1>1, FS_Subset, FS_CardinalityType

\* When one handler moves, the count changes by what that handler does.
LEMMA AtCount ==
  ASSUME NEW v \in Workers, NEW c, NEW steps \in SUBSET LockedSteps,
         IsFiniteSet(At(LockedSteps, c)),
         \A w \in Workers \ {v} : pc'[w] = pc[w] /\ req'[w] = req[w]
  PROVE  /\ IsFiniteSet(At(steps, c)')
         /\ (IsAt(v, steps, c) <=> IsAt(v, steps, c)') =>
              Cardinality(At(steps, c)') = Cardinality(At(steps, c))
         /\ IsAt(v, steps, c) /\ ~IsAt(v, steps, c)' =>
              Cardinality(At(steps, c)') = Cardinality(At(steps, c)) - 1
         /\ ~IsAt(v, steps, c) /\ IsAt(v, steps, c)' =>
              Cardinality(At(steps, c)') = Cardinality(At(steps, c)) + 1
  <1> DEFINE S == At(steps, c)
  <1>1. IsFiniteSet(S)
    BY AtFinite
  <1>2. v \in S <=> IsAt(v, steps, c)
    BY DEF At
  <1>3. CASE IsAt(v, steps, c)'
    <2>1. At(steps, c)' = S \cup {v}
      BY <1>3 DEF At, IsAt
    <2>2. /\ IsFiniteSet(S \cup {v})
          /\ Cardinality(S \cup {v}) = IF v \in S THEN Cardinality(S) ELSE Cardinality(S) + 1
      BY <1>1, FS_AddElement
    <2> HIDE DEF S
    <2> QED
      BY <1>2, <1>3, <2>1, <2>2 DEF S
  <1>4. CASE ~IsAt(v, steps, c)'
    <2>1. At(steps, c)' = S \ {v}
      BY <1>4 DEF At, IsAt
    <2>2. /\ IsFiniteSet(S \ {v})
          /\ Cardinality(S \ {v}) = IF v \in S THEN Cardinality(S) - 1 ELSE Cardinality(S)
      BY <1>1, FS_RemoveElement
    <2> QED
      BY <1>2, <1>4, <2>1, <2>2
  <1> QED
    BY <1>3, <1>4

\* The account of a code, in numbers.
LEMMA PaidForNumbers ==
  ASSUME TypeInv, NEW c \in Codes, PaidFor(c)
  PROVE  /\ Cardinality(At(LockedSteps, c)) \in Nat
         /\ Cardinality(At(Unmarked, c)) \in Nat
         /\ Cardinality(At(Past, c)) \in Nat
         /\ Cardinality(At(Past, c)) + Cardinality(At(Unmarked, c)) <=
              Cardinality(At(LockedSteps, c))
         /\ crashes \in Nat /\ slows \in Nat /\ Len(txns[c]) \in Nat
  <1> DEFINE P == At(Past, c)
             U == At(Unmarked, c)
  <1>1. IsFiniteSet(P) /\ IsFiniteSet(U) /\ IsFiniteSet(At(LockedSteps, c))
    BY StepSets, AtFinite DEF PaidFor
  <1>2. P \cap U = {} /\ P \cup U \subseteq At(LockedSteps, c)
    BY StepSets DEF At, IsAt
  <1>3. Cardinality(P \cup U) = Cardinality(P) + Cardinality(U)
    BY <1>1, <1>2, FS_Union, FS_EmptySet, FS_CardinalityType
  <1>4. Cardinality(P \cup U) <= Cardinality(At(LockedSteps, c))
    BY <1>1, <1>2, FS_Subset
  <1>5. crashes \in Nat /\ slows \in Nat /\ Len(txns[c]) \in Nat
    <2>1. txns[c] \in Seq(TxnRow) /\ crashes \in 0 .. MaxCrashes /\ slows \in 0 .. MaxSlow
      BY DEF TypeInv, StoreTypes
    <2> QED
      BY <2>1, ConstantsAssumption
  <1> QED
    BY <1>1, <1>3, <1>4, <1>5, FS_CardinalityType

\* Steps that leave the account of a code alone: no handler enters or leaves the places
\* that count, and the store says the same of it.
LEMMA PaidForKept ==
  ASSUME TypeInv, NEW c \in Codes, PaidFor(c),
         At(LockedSteps, c)' = At(LockedSteps, c), At(Unmarked, c)' = At(Unmarked, c),
         At(Past, c)' = At(Past, c),
         c \in lock => c \in lock', c \in consumedSet' <=> c \in consumedSet,
         Len(txns'[c]) = Len(txns[c]),
         crashes' = crashes \/ crashes' = crashes + 1, slows' = slows \/ slows' = slows + 1
  PROVE  PaidFor(c)'
  <1> DEFINE n == Cardinality(At(LockedSteps, c))
             u == Cardinality(At(Unmarked, c))
             p == Cardinality(At(Past, c))
             t == Len(txns[c])
  <1>1. /\ n \in Nat /\ u \in Nat /\ p \in Nat /\ t \in Nat
        /\ crashes \in Nat /\ slows \in Nat
    BY PaidForNumbers
  <1>2. /\ n <= (IF c \in lock THEN 1 ELSE 0) + slows
        /\ c \notin consumedSet => t <= u + crashes
        /\ c \in consumedSet => t + p <= 1 + crashes + slows
    BY DEF PaidFor
  <1>3. /\ IsFiniteSet(At(LockedSteps, c)')
        /\ Cardinality(At(LockedSteps, c)') = n /\ Cardinality(At(Unmarked, c)') = u
        /\ Cardinality(At(Past, c)') = p /\ Len(txns'[c]) = t
    BY DEF PaidFor
  <1> HIDE DEF n, u, p, t
  <1>4. n <= (IF c \in lock' THEN 1 ELSE 0) + slows'
    BY <1>1, <1>2
  <1>5. c \notin consumedSet' => t <= u + crashes'
    BY <1>1, <1>2
  <1>6. c \in consumedSet' => t + p <= 1 + crashes' + slows'
    BY <1>1, <1>2
  <1> QED
    BY <1>3, <1>4, <1>5, <1>6 DEF PaidFor

\* A step of a handler leaves the accounts of all codes but its own alone.
LEMMA PaidForOthers ==
  ASSUME TypeInv, FaultInv, NEW v \in Workers, Arrive(v) \/ Handle(v) \/ Crash(v),
         NEW c \in Codes, ~IsAt(v, LockedSteps, c), ~IsAt(v, LockedSteps, c)',
         c \in lock => c \in lock', c \in consumedSet' <=> c \in consumedSet,
         txns'[c] = txns[c],
         crashes' = crashes \/ crashes' = crashes + 1, slows' = slows
  PROVE  PaidFor(c)'
  <1>1. \A w \in Workers \ {v} : pc'[w] = pc[w] /\ req'[w] = req[w]
    BY OthersKept
  <1>2. \A steps \in SUBSET LockedSteps : At(steps, c)' = At(steps, c)
    BY <1>1 DEF At, IsAt
  <1> QED
    BY <1>2, StepSets, PaidForKept DEF FaultInv

\* The account of the handler's own code, after a step that starts no crash.
LEMMA PaidForOwn ==
  ASSUME TypeInv, FaultInv, NEW v \in Workers, Arrive(v) \/ Handle(v) \/ Crash(v),
         NEW c \in Codes
  PROVE  LET n == Cardinality(At(LockedSteps, c))
             u == Cardinality(At(Unmarked, c))
             p == Cardinality(At(Past, c))
             In(steps) == IsAt(v, steps, c)
             After(steps) == IsAt(v, steps, c)'
         IN  /\ IsFiniteSet(At(LockedSteps, c)')
             /\ Cardinality(At(LockedSteps, c)') =
                  IF In(LockedSteps) /\ ~After(LockedSteps) THEN n - 1
                  ELSE IF ~In(LockedSteps) /\ After(LockedSteps) THEN n + 1 ELSE n
             /\ Cardinality(At(Unmarked, c)') =
                  IF In(Unmarked) /\ ~After(Unmarked) THEN u - 1
                  ELSE IF ~In(Unmarked) /\ After(Unmarked) THEN u + 1 ELSE u
             /\ Cardinality(At(Past, c)') =
                  IF In(Past) /\ ~After(Past) THEN p - 1
                  ELSE IF ~In(Past) /\ After(Past) THEN p + 1 ELSE p
  <1>1. \A w \in Workers \ {v} : pc'[w] = pc[w] /\ req'[w] = req[w]
    BY OthersKept
  <1>2. IsFiniteSet(At(LockedSteps, c))
    BY DEF FaultInv, PaidFor
  <1>3. \A steps \in SUBSET LockedSteps :
           /\ IsFiniteSet(At(steps, c)')
           /\ (IsAt(v, steps, c) <=> IsAt(v, steps, c)') =>
                Cardinality(At(steps, c)') = Cardinality(At(steps, c))
           /\ IsAt(v, steps, c) /\ ~IsAt(v, steps, c)' =>
                Cardinality(At(steps, c)') = Cardinality(At(steps, c)) - 1
           /\ ~IsAt(v, steps, c) /\ IsAt(v, steps, c)' =>
                Cardinality(At(steps, c)') = Cardinality(At(steps, c)) + 1
    BY <1>1, <1>2, AtCount
  <1> QED
    BY <1>3, StepSets

\* Every settlement puts one row more.
LEMMA OneMore ==
  ASSUME TypeInv, NEW v \in Workers, pc[v] = "c_commit", NEW h \in Codes \cup {NoCode},
         txns' = [txns EXCEPT ![req[v].code] = SettledTxns(v, h)]
  PROVE  /\ Len(txns'[req[v].code]) = Len(txns[req[v].code]) + 1
         /\ \A c \in Codes : c # req[v].code => txns'[c] = txns[c]
  <1>1. req[v].code \in Codes /\ txns \in [Codes -> Seq(TxnRow)] /\ SettledTxns(v, h) \in Seq(TxnRow)
    BY SettledTypes DEF TypeInv, StoreTypes, HandlerTypes, RequestOK
  <1>2. Len(SettledTxns(v, h)) = Len(txns[req[v].code]) + 1
    BY <1>1 DEF SettledTxns
  <1> QED
    BY <1>1, <1>2

\* A step of complete adds a handler or a transaction only where a fault pays for it.
LEMMA FaultInvComplete ==
  ASSUME TypeInv, FaultInv, NEW v \in Workers, CompleteStep(v)
  PROVE  FaultInv'
  <1>a. /\ pc \in [Workers -> Steps] /\ req \in [Workers -> Request]
        /\ pc[v] # "idle" /\ req[v].code \in Codes /\ req' = req
        /\ UNCHANGED <<crashes, slows>>
    BY DEF TypeInv, HandlerTypes, RequestOK, CompleteStep, AcquireLock, AcquireTimeout,
           CheckReplay, FindTxn, LookupUnknown, LookupFound, SettleAll, SettlePart, SettleFails,
           MarkConsumed, DropCache, WarmHeir, ReleaseLock, Forward, AnswerWith, faultVars
  <1>b. Handle(v)
    BY DEF Handle
  <1>1. ASSUME NEW c \in Codes, c # req[v].code PROVE PaidFor(c)'
    <2>1. ~IsAt(v, LockedSteps, c) /\ ~IsAt(v, LockedSteps, c)'
      BY <1>a, <1>1 DEF IsAt
    <2>2. c \in lock => c \in lock'
      BY <1>1
         DEF CompleteStep, AcquireLock, AcquireTimeout, CheckReplay, FindTxn, LookupUnknown,
             LookupFound, SettleAll, SettlePart, SettleFails, MarkConsumed, DropCache, WarmHeir,
             ReleaseLock, redisVars
    <2>3. c \in consumedSet' <=> c \in consumedSet
      BY <1>1
         DEF CompleteStep, AcquireLock, AcquireTimeout, CheckReplay, FindTxn, LookupUnknown,
             LookupFound, SettleAll, SettlePart, SettleFails, MarkConsumed, AddConsumed,
             DropCache, WarmHeir, ReleaseLock, redisVars
    <2>4. txns'[c] = txns[c]
      <3>1. CASE SettleAll(v) \/ \E d \in Codes : SettlePart(v, d)
        BY <1>1, <3>1, OneMore DEF SettleAll, SettlePart
      <3>2. CASE ~(SettleAll(v) \/ \E d \in Codes : SettlePart(v, d))
        BY <3>2
           DEF CompleteStep, AcquireLock, AcquireTimeout, CheckReplay, FindTxn, LookupUnknown,
               LookupFound, SettleFails, MarkConsumed, DropCache, WarmHeir, ReleaseLock, dbVars
      <3> QED
        BY <3>1, <3>2
    <2> QED
      BY <1>a, <1>b, <2>1, <2>2, <2>3, <2>4, PaidForOthers
  <1>2. ASSUME NEW c \in Codes, c = req[v].code PROVE PaidFor(c)'
    <2> DEFINE n == Cardinality(At(LockedSteps, c))
               u == Cardinality(At(Unmarked, c))
               p == Cardinality(At(Past, c))
               m == Cardinality(At(LockedSteps, c)')
               s == Cardinality(At(Unmarked, c)')
               q == Cardinality(At(Past, c)')
    <2>a. /\ n \in Nat /\ u \in Nat /\ p \in Nat /\ p + u <= n
          /\ crashes \in Nat /\ slows \in Nat /\ Len(txns[c]) \in Nat
      BY PaidForNumbers DEF FaultInv
    <2>b. /\ n <= (IF c \in lock THEN 1 ELSE 0) + slows
          /\ c \notin consumedSet => Len(txns[c]) <= u + crashes
          /\ c \in consumedSet => Len(txns[c]) + p <= 1 + crashes + slows
      BY DEF FaultInv, PaidFor
    <2>c. /\ IsFiniteSet(At(LockedSteps, c)')
          /\ m = IF pc[v] \in LockedSteps /\ pc'[v] \notin LockedSteps THEN n - 1
                 ELSE IF pc[v] \notin LockedSteps /\ pc'[v] \in LockedSteps THEN n + 1 ELSE n
          /\ s = IF pc[v] \in Unmarked /\ pc'[v] \notin Unmarked THEN u - 1
                 ELSE IF pc[v] \notin Unmarked /\ pc'[v] \in Unmarked THEN u + 1 ELSE u
          /\ q = IF pc[v] \in Past /\ pc'[v] \notin Past THEN p - 1
                 ELSE IF pc[v] \notin Past /\ pc'[v] \in Past THEN p + 1 ELSE p
      BY <1>a, <1>b, <1>2, PaidForOwn DEF IsAt
    <2>d. PaidFor(c)' <=>
            /\ m <= (IF c \in lock' THEN 1 ELSE 0) + slows
            /\ c \notin consumedSet' => Len(txns'[c]) <= s + crashes
            /\ c \in consumedSet' => Len(txns'[c]) + q <= 1 + crashes + slows
      BY <1>a, <2>c DEF PaidFor
    <2> HIDE DEF n, u, p, m, s, q
    <2> USE <1>a, <1>2, <2>a, <2>b, <2>c, <2>d
        DEF Goto, Forward, AnswerWith, LockedSteps, Unmarked, Past, dbVars, redisVars
    <2>1. CASE AcquireLock(v)
      BY <2>1 DEF AcquireLock, KeyAbsent
    <2>2. CASE AcquireTimeout(v)
      BY <2>2 DEF AcquireTimeout
    <2>3. CASE CheckReplay(v)
      BY <2>3 DEF CheckReplay, Consumed
    <2>4. CASE FindTxn(v) \/ LookupFound(v) \/ DropCache(v) \/ WarmHeir(v)
      BY <2>4 DEF FindTxn, LookupFound, DropCache, WarmHeir
    <2>5. CASE LookupUnknown(v) \/ SettleFails(v)
      <3>1. /\ pc[v] \in {"c_lookup", "c_commit"} /\ pc'[v] = "c_release"
            /\ UNCHANGED <<lock, consumedSet, txns>>
        BY <2>5 DEF LookupUnknown, SettleFails
      <3> QED
        BY <3>1
    <2>6. CASE SettleAll(v) \/ \E d \in Codes : SettlePart(v, d)
      <3>1. Len(txns'[c]) = Len(txns[c]) + 1
        BY <2>6, OneMore DEF SettleAll, SettlePart
      <3>2. pc[v] = "c_commit" /\ pc'[v] = "c_sadd" /\ UNCHANGED <<lock, consumedSet>>
        BY <2>6 DEF SettleAll, SettlePart
      <3> QED
        BY <3>1, <3>2
    <2>7. CASE MarkConsumed(v)
      BY <2>7 DEF MarkConsumed, AddConsumed
    <2>8. CASE ReleaseLock(v)
      BY <2>8 DEF ReleaseLock
    <2> QED
      BY <2>1, <2>2, <2>3, <2>4, <2>5, <2>6, <2>7, <2>8 DEF CompleteStep
  <1> QED
    BY <1>1, <1>2 DEF FaultInv

\* Every step keeps each further settlement of a code paid for by a fault.
LEMMA FaultInvStep == TypeInv /\ FaultInv /\ [Next]_vars => FaultInv'
  <1> SUFFICES ASSUME TypeInv, FaultInv, [Next]_vars PROVE FaultInv'
    OBVIOUS
  <1>a. pc \in [Workers -> Steps] /\ req \in [Workers -> Request]
    BY DEF TypeInv, HandlerTypes
  <1>1. ASSUME NEW v \in Workers, Arrive(v) \/ ValidateStep(v) \/ Reply(v) \/ ReplyLost(v)
        PROVE  FaultInv'
    <2>1. /\ pc[v] \notin LockedSteps /\ pc'[v] \notin LockedSteps
          /\ UNCHANGED <<lock, consumedSet, txns, crashes, slows>>
      BY <1>1, <1>a
         DEF Arrive, StartValidate, StartComplete, ValidateStep, ValidateUsed,
             ValidateRateLimited, ValidateCached, ValidateRefused, ValidateAccepted,
             ValidateCommit, ValidateWarm, Reply, ReplyLost, GoIdle, Forward, AnswerWith, Goto,
             LockedSteps, dbVars, redisVars, faultVars
    <2>2. \A c \in Codes : ~IsAt(v, LockedSteps, c) /\ ~IsAt(v, LockedSteps, c)'
      BY <2>1 DEF IsAt
    <2> QED
      BY <1>1, <2>1, <2>2, PaidForOthers DEF FaultInv, Handle
  <1>2. ASSUME NEW v \in Workers, CompleteStep(v) PROVE FaultInv'
    BY <1>2, FaultInvComplete
  <1>3. ASSUME NEW v \in Workers, Crash(v), NEW c \in Codes PROVE PaidFor(c)'
    <2>1. /\ UNCHANGED <<lock, consumedSet, txns, slows>> /\ crashes' = crashes + 1
          /\ pc'[v] = "idle"
      BY <1>3, <1>a DEF Crash, GoIdle, Goto, dbVars, redisVars
    <2>2. \A steps \in SUBSET LockedSteps : ~IsAt(v, steps, c)'
      BY <2>1 DEF IsAt, LockedSteps
    <2>3. /\ IsFiniteSet(At(LockedSteps, c)')
          /\ Cardinality(At(LockedSteps, c)') <= Cardinality(At(LockedSteps, c))
          /\ Cardinality(At(Unmarked, c)') >= Cardinality(At(Unmarked, c)) - 1
          /\ Cardinality(At(Past, c)') <= Cardinality(At(Past, c))
          /\ Cardinality(At(LockedSteps, c)') \in Int /\ Cardinality(At(Unmarked, c)') \in Int
          /\ Cardinality(At(Past, c)') \in Int
      BY <1>3, <2>2, PaidForOwn, PaidForNumbers, StepSets DEF FaultInv
    <2> DEFINE n == Cardinality(At(LockedSteps, c))
               u == Cardinality(At(Unmarked, c))
               p == Cardinality(At(Past, c))
               t == Len(txns[c])
               m == Cardinality(At(LockedSteps, c)')
               k == Cardinality(At(Unmarked, c)')
               q == Cardinality(At(Past, c)')
    <2>4. /\ n \in Nat /\ u \in Nat /\ p \in Nat /\ t \in Nat
          /\ crashes \in Nat /\ slows \in Nat
      BY PaidForNumbers DEF FaultInv
    <2>5. /\ n <= (IF c \in lock THEN 1 ELSE 0) + slows
          /\ c \notin consumedSet => t <= u + crashes
          /\ c \in consumedSet => t + p <= 1 + crashes + slows
      BY DEF FaultInv, PaidFor
    <2>6. /\ m <= n /\ k >= u - 1 /\ q <= p /\ m \in Int /\ k \in Int /\ q \in Int
          /\ Len(txns'[c]) = t
      BY <2>1, <2>3
    <2> HIDE DEF n, u, p, t, m, k, q
    <2>7. m <= (IF c \in lock' THEN 1 ELSE 0) + slows'
      BY <2>1, <2>4, <2>5, <2>6
    <2>8. c \notin consumedSet' => t <= k + crashes'
      BY <2>1, <2>4, <2>5, <2>6
    <2>9. c \in consumedSet' => t + q <= 1 + crashes' + slows'
      BY <2>1, <2>4, <2>5, <2>6
    <2> QED
      BY <2>3, <2>6, <2>7, <2>8, <2>9 DEF PaidFor, m, k, q
  <1>4. ASSUME NEW d \in Codes, LockExpire(d) \/ SlowExpire(d), NEW c \in Codes PROVE PaidFor(c)'
    <2>1. /\ \A steps : At(steps, c)' = At(steps, c)
          /\ UNCHANGED <<consumedSet, txns, crashes>> /\ lock' = lock \ {d}
      BY <1>4 DEF LockExpire, SlowExpire, dbVars, faultVars, At, IsAt
    <2>2. CASE c # d
      BY <1>4, <2>1, <2>2, PaidForKept DEF FaultInv, LockExpire, SlowExpire, faultVars
    <2>3. CASE c = d /\ LockExpire(d)
      <3>1. At(LockedSteps, c) = {}
        BY <2>3 DEF LockExpire, InCritical, At, IsAt
      <3>2. Cardinality(At(LockedSteps, c)) = 0
        BY <3>1, FS_EmptySet
      <3>3. slows' = slows
        BY <2>3 DEF LockExpire, faultVars
      <3> QED
        BY <2>1, <3>2, <3>3, PaidForNumbers DEF FaultInv, PaidFor
    <2>4. CASE c = d /\ SlowExpire(d)
      <3>1. slows' = slows + 1 /\ c \in lock
        BY <2>4 DEF SlowExpire
      <3> QED
        BY <2>1, <3>1, PaidForNumbers DEF FaultInv, PaidFor
    <2> QED
      BY <1>4, <2>2, <2>3, <2>4
  <1>5. CASE \/ \E S \in SUBSET Codes : \E quota \in [S -> Quotas] : Upload(S, quota)
             \/ \E c \in Codes : CacheExpire(c)
             \/ UNCHANGED vars
    <2>1. /\ \A c \in Codes : \A steps : At(steps, c)' = At(steps, c)
          /\ UNCHANGED <<lock, consumedSet, txns, crashes, slows>>
      BY <1>5 DEF Upload, CacheExpire, vars, dbVars, redisVars, faultVars, At, IsAt
    <2> QED
      BY <2>1, PaidForKept DEF FaultInv
  <1> QED
    BY <1>1, <1>2, <1>3, <1>4, <1>5 DEF Next, Handle, FaultInv

\* Settlements stay paid for, from the first state on.
LEMMA FaultInvAlways == Spec => [](TypeInv /\ FaultInv)
  <1>1. Init => FaultInv
    <2> SUFFICES ASSUME Init, NEW c \in Codes PROVE PaidFor(c)
      BY DEF FaultInv
    <2>1. At(LockedSteps, c) = {} /\ At(Unmarked, c) = {}
      BY DEF Init, At, IsAt, LockedSteps, Unmarked
    <2>2. Len(txns[c]) = 0 /\ crashes = 0 /\ slows = 0 /\ c \notin consumedSet
      BY DEF Init
    <2> QED
      BY <2>1, <2>2, FS_EmptySet DEF PaidFor
  <1> QED
    BY <1>1, FaultInvStep, TypeAlways, PTL DEF Spec

\* Whatever dies and whichever lock runs out early, for any number of handlers: every
\* settlement of a code beyond the first is paid for by a death or an early expiry.
THEOREM FaultsBoundSettlementsHolds == Spec => []FaultsBoundSettlements
  <1>1. TypeInv /\ FaultInv => FaultsBoundSettlements
    <2> SUFFICES ASSUME TypeInv, FaultInv, NEW c \in Codes
                 PROVE  Len(txns[c]) <= 1 + crashes + slows
      BY DEF FaultsBoundSettlements
    <2> QED
      BY PaidForNumbers DEF FaultInv, PaidFor
  <1> QED
    BY <1>1, FaultInvAlways, PTL

\* Under every interleaving, crash and lock expiry, a code reported as settled is in
\* the consumed set, a settled one is so unless its handler is on the way there or has
\* died, and a cached code that can be drawn upon has the litres its allocation has left.
THEOREM RedisAgreesHolds == Spec => []RedisAgrees
  <1>1. Init => ConsumedInv /\ CacheInv
    BY DEF Init, ConsumedInv, ToldIsConsumed, CacheInv
  <1>2. ConsumedInv /\ CacheInv => ToldIsConsumed /\ CacheCoherent
    BY DEF ConsumedInv, CacheInv, CacheCoherent, Quotable
  <1>3. TypeInv /\ FaultInv => SettledIsRefused
    <2> SUFFICES ASSUME TypeInv, FaultInv, NEW c \in Codes, txns[c] # << >>,
                        c \notin consumedSet, ~(crashes > 0)
                 PROVE  \E w \in Workers : pc[w] = "c_sadd" /\ req[w].code = c
      BY DEF SettledIsRefused
    <2>0. PaidFor(c) /\ crashes \in Nat /\ Cardinality(At(Unmarked, c)) \in Nat
      BY PaidForNumbers DEF FaultInv
    <2>1. Len(txns[c]) <= Cardinality(At(Unmarked, c))
      BY <2>0 DEF PaidFor
    <2>2. Len(txns[c]) \in Nat /\ Len(txns[c]) # 0
      BY DEF TypeInv, StoreTypes
    <2>3. Cardinality(At(Unmarked, c)) # 0
      BY <2>0, <2>1, <2>2
    <2>4. At(Unmarked, c) # {}
      BY <2>3, FS_EmptySet
    <2> QED
      BY <2>4 DEF At, IsAt, Unmarked
  <1> QED
    BY <1>1, <1>2, <1>3, ConsumedInvStep, CacheInvStep, RowInvAlways, FaultInvAlways, PTL
       DEF Spec, RedisAgrees

-----------------------------------------------------------------------------
(* The ledger: the rows count what the transactions say, under every fault *)

\* f adds up the litres of the first N transactions.
IsSum(f, N, rows) ==
  f = [n \in 0 .. N |-> IF n = 0 THEN 0 ELSE f[n - 1] + rows[n].litres]

\* There is such a sum: were there a length without one, the least would follow a
\* length that has one.
LEMMA SumExists ==
  ASSUME NEW N \in Nat, NEW rows
  PROVE  \E f : IsSum(f, N, rows)
  <1> DEFINE Bad == {m \in Nat : ~\E f : IsSum(f, m, rows)}
  <1> SUFFICES ASSUME Bad # {} PROVE FALSE
    OBVIOUS
  <1>1. PICK m \in Bad : \A x \in Bad : ~(<<x, m>> \in OpToRel(<, Nat))
    BY NatLessThanWellFounded, WFMin
  <1>2. \A x \in Bad : ~(x < m)
    BY <1>1 DEF OpToRel
  <1>3. m # 0
    <2>1. IsSum([n \in 0 .. 0 |-> 0], 0, rows)
      BY DEF IsSum
    <2> QED
      BY <1>1, <2>1
  <1>4. PICK g : IsSum(g, m - 1, rows)
    BY <1>2, <1>3
  <1> DEFINE f == [n \in 0 .. m |-> IF n < m THEN g[n] ELSE g[m - 1] + rows[m].litres]
  <1>5. IsSum(f, m, rows)
    BY <1>3, <1>4 DEF IsSum
  <1> QED
    BY <1>5

\* The litres logged are the last entry of such a sum.
LEMMA LoggedIsSum ==
  ASSUME NEW rows, Len(rows) \in Nat
  PROVE  \E f : IsSum(f, Len(rows), rows) /\ Logged(rows) = f[Len(rows)]
  <1> DEFINE f == CHOOSE f : f = [n \in 0 .. Len(rows) |->
                                   IF n = 0 THEN 0 ELSE f[n - 1] + rows[n].litres]
  <1>1. IsSum(f, Len(rows), rows)
    BY SumExists DEF IsSum
  <1>2. Logged(rows) = f[Len(rows)]
    BY DEF Logged
  <1> QED
    BY <1>1, <1>2

\* The transactions before the last one add up to the same in the longer ledger.
LEMMA SumOfPrefix ==
  ASSUME NEW N \in Nat, NEW M \in Nat, N <= M, NEW rows, NEW more, NEW f, NEW g,
         IsSum(f, N, rows), IsSum(g, M, more),
         \A n \in 1 .. N : more[n] = rows[n]
  PROVE  f[N] = g[N]
  <1> DEFINE Bad == {n \in 0 .. N : f[n] # g[n]}
  <1> SUFFICES ASSUME Bad # {} PROVE FALSE
    OBVIOUS
  <1>1. Bad \subseteq Nat
    OBVIOUS
  <1>2. PICK m \in Bad : \A x \in Bad : ~(<<x, m>> \in OpToRel(<, Nat))
    <2> HIDE DEF Bad
    <2> QED
      BY <1>1, NatLessThanWellFounded, WFMin
  <1>3. \A x \in Bad : ~(x < m)
    BY <1>1, <1>2 DEF OpToRel
  <1>4. m \in 0 .. N /\ f[m] # g[m]
    BY <1>2
  <1>5. m # 0
    BY <1>4 DEF IsSum
  <1>6. f[m - 1] = g[m - 1]
    BY <1>3, <1>4, <1>5
  <1>7. f[m] = f[m - 1] + rows[m].litres /\ g[m] = g[m - 1] + more[m].litres
    <2>1. m \in 0 .. M
      BY <1>4
    <2> QED
      BY <1>4, <1>5, <2>1 DEF IsSum
  <1> QED
    BY <1>4, <1>5, <1>6, <1>7

\* An empty ledger has no litres, and a transaction adds its own.
LEMMA LoggedOfNone == Logged(<< >>) = 0
  <1>1. PICK f : IsSum(f, 0, << >>) /\ Logged(<< >>) = f[0]
    BY LoggedIsSum
  <1> QED
    BY <1>1 DEF IsSum

\* A transaction adds its own litres.
LEMMA LoggedOfMore ==
  ASSUME NEW rows \in Seq(TxnRow), NEW t \in TxnRow
  PROVE  Logged(Append(rows, t)) = Logged(rows) + t.litres
  <1> DEFINE more == Append(rows, t)
  <1>0. more \in Seq(TxnRow) /\ Len(rows) \in Nat /\ Len(more) = Len(rows) + 1
    OBVIOUS
  <1>1. PICK f : IsSum(f, Len(rows), rows) /\ Logged(rows) = f[Len(rows)]
    BY <1>0, LoggedIsSum
  <1>2. PICK g : IsSum(g, Len(more), more) /\ Logged(more) = g[Len(more)]
    <2> HIDE DEF more
    <2> QED
      BY <1>0, LoggedIsSum
  <1>3. more[Len(more)] = t /\ \A n \in 1 .. Len(rows) : more[n] = rows[n]
    BY <1>0
  <1> HIDE DEF more
  <1>4. f[Len(rows)] = g[Len(rows)]
    BY <1>0, <1>1, <1>2, <1>3, SumOfPrefix
  <1>5. g[Len(more)] = g[Len(more) - 1] + more[Len(more)].litres
    BY <1>0, <1>2 DEF IsSum
  <1> QED
    BY <1>0, <1>1, <1>2, <1>3, <1>4, <1>5 DEF more

\* LedgerAgrees alone is not inductive: an upload, or a partial settlement, writes
\* the row of a new code as one that nothing was drawn from.
Balanced(c) ==
  LET logged == Logged(txns[c]) IN
    /\ code[c].consumed = logged
    /\ alloc[c].dispensed = logged
    /\ alloc[c].remaining = IF logged < alloc[c].allocated
                              THEN alloc[c].allocated - logged ELSE 0
\* No code has a transaction before it is issued.
Unused(c) == code[c].status = "UNISSUED" => txns[c] = << >>

\* The inductive invariant of the ledger.
LedgerInv == \A c \in Codes : Balanced(c) /\ Unused(c)

\* A settlement charges the row it holds with the litres that it records.
LEMMA LedgerSettle ==
  ASSUME TypeInv, RowInv, LedgerInv, NEW w \in Workers, pc[w] = "c_commit",
         NEW h \in Codes \cup {NoCode}, NEW st \in {"PARTIAL_FULFILLED", "FULFILLED"},
         NEW c \in Codes, c = req[w].code,
         code'[c] = SettledCode(w), alloc'[c] = SettledAlloc(w, st),
         txns'[c] = SettledTxns(w, h)
  PROVE  Balanced(c)' /\ Unused(c)'
  <1>1. /\ code[c] \in CodeRow /\ alloc[c] \in AllocRow
        /\ txns[c] \in Seq(TxnRow) /\ req[w].litres \in Litres /\ req[w].litres \in Nat
    BY ConstantsAssumption
       DEF TypeInv, StoreTypes, HandlerTypes, RequestOK, LockedSteps, Request
  <1>2. /\ snap[w].consumed = code[c].consumed /\ snap[w].dispensed = alloc[c].dispensed
        /\ snap[w].remaining = alloc[c].remaining
    <2>1. snap[w] = ReadRows(c)
      BY DEF RowInv, Committing
    <2> QED
      BY <2>1 DEF ReadRows
  <1>3. PICK t \in TxnRow : t.litres = req[w].litres /\ txns'[c] = Append(txns[c], t)
    <2> DEFINE t == [litres |-> req[w].litres,
                     status |-> IF IsOver(req[w].litres, snap[w].remaining)
                                  THEN "OVER_DISPENSE" ELSE "COMPLETED",
                     heir |-> h]
    <2>1. t \in TxnRow /\ t.litres = req[w].litres
      BY <1>1 DEF TxnRow
    <2>2. txns'[c] = Append(txns[c], t)
      BY DEF SettledTxns
    <2> QED
      BY <2>1, <2>2
  <1>4. Logged(txns'[c]) = Logged(txns[c]) + req[w].litres
    BY <1>1, <1>3, LoggedOfMore
  <1>5. /\ code'[c].consumed = code[c].consumed + req[w].litres
        /\ code'[c].status = "CONSUMED"
        /\ alloc'[c].dispensed = alloc[c].dispensed + req[w].litres
        /\ alloc'[c].remaining = Leftover(req[w].litres, alloc[c].remaining)
        /\ alloc'[c].allocated = alloc[c].allocated
    BY <1>2 DEF SettledCode, SettledAlloc
  <1>6. /\ code[c].consumed = Logged(txns[c]) /\ alloc[c].dispensed = Logged(txns[c])
        /\ alloc[c].remaining = IF Logged(txns[c]) < alloc[c].allocated
                                  THEN alloc[c].allocated - Logged(txns[c]) ELSE 0
    BY <1>1 DEF LedgerInv, Balanced
  <1>7. code[c].consumed \in Nat /\ alloc[c].allocated \in Nat
    BY <1>1 DEF CodeRow, AllocRow
  <1>8. Balanced(c)'
    BY <1>1, <1>4, <1>5, <1>6, <1>7 DEF Balanced, Leftover
  <1> QED
    BY <1>5, <1>8 DEF Unused

\* A code whose rows do not change stays balanced.
LEMMA LedgerKept ==
  ASSUME NEW c \in Codes, Balanced(c), Unused(c),
         code'[c].consumed = code[c].consumed, code'[c].status = code[c].status,
         alloc'[c] = alloc[c], txns'[c] = txns[c]
  PROVE  Balanced(c)' /\ Unused(c)'
  BY DEF Balanced, Unused

\* A new row is balanced: nothing was drawn from it, and all of it is left.
LEMMA LedgerOfNew ==
  ASSUME NEW c \in Codes, Unused(c), code[c].status = "UNISSUED", NEW n \in Nat,
         code'[c] = NewCode, alloc'[c] = NewAlloc(n), txns'[c] = txns[c]
  PROVE  Balanced(c)' /\ Unused(c)'
  <1>1. txns'[c] = << >> /\ Logged(txns'[c]) = 0
    BY LoggedOfNone DEF Unused
  <1>2. Balanced(c)'
    <2>1. \/ 0 < n
          \/ ~(0 < n) /\ n = 0
      OBVIOUS
    <2> QED
      BY <1>1, <2>1 DEF Balanced, NewCode, NewAlloc
  <1> QED
    BY <1>1, <1>2 DEF Unused, NewCode

\* Only commits move litres, and each moves them in all three places.
LEMMA LedgerInvStep == TypeInv /\ RowInv /\ LedgerInv /\ [Next]_vars => LedgerInv'
  <1> SUFFICES ASSUME TypeInv, RowInv, LedgerInv, [Next]_vars, NEW c \in Codes
               PROVE  Balanced(c)' /\ Unused(c)'
    BY DEF LedgerInv
  <1>a. /\ code \in [Codes -> CodeRow] /\ alloc \in [Codes -> AllocRow]
        /\ txns \in [Codes -> Seq(TxnRow)]
        /\ \A v \in Workers : pc[v] # "idle" => req[v].code \in Codes
        /\ Balanced(c) /\ Unused(c)
    BY DEF TypeInv, StoreTypes, HandlerTypes, RequestOK, LedgerInv
  <1>1. ASSUME UNCHANGED dbVars PROVE Balanced(c)' /\ Unused(c)'
    BY <1>1, <1>a, LedgerKept DEF dbVars
  <1>2. ASSUME NEW v \in Workers, SettleAll(v) PROVE Balanced(c)' /\ Unused(c)'
    <2>1. req[v].code \in Codes /\ pc[v] = "c_commit"
      BY <1>a, <1>2 DEF SettleAll
    <2>2. CASE c = req[v].code
      <3>1. /\ code'[c] = SettledCode(v) /\ alloc'[c] = SettledAlloc(v, "FULFILLED")
            /\ txns'[c] = SettledTxns(v, NoCode)
        BY <1>a, <1>2, <2>2 DEF SettleAll
      <3> QED
        BY <2>1, <2>2, <3>1, LedgerSettle
    <2>3. CASE c # req[v].code
      BY <1>a, <1>2, <2>1, <2>3, LedgerKept DEF SettleAll
    <2> QED
      BY <2>2, <2>3
  <1>3. ASSUME NEW v \in Workers, NEW d \in Codes, SettlePart(v, d)
        PROVE  Balanced(c)' /\ Unused(c)'
    <2>1. /\ req[v].code \in Codes /\ pc[v] = "c_commit" /\ d # req[v].code
          /\ code[d].status = "UNISSUED"
      BY <1>a, <1>3 DEF SettlePart, Fresh, RowInv, Committing
    <2>2. CASE c = req[v].code
      <3>1. /\ code'[c] = SettledCode(v) /\ alloc'[c] = SettledAlloc(v, "PARTIAL_FULFILLED")
            /\ txns'[c] = SettledTxns(v, d)
        BY <1>a, <1>3, <2>1, <2>2 DEF SettlePart
      <3> QED
        BY <2>1, <2>2, <3>1, LedgerSettle
    <2>3. CASE c = d
      <3>1. /\ code'[c] = NewCode /\ txns'[c] = txns[c]
            /\ alloc'[c] = NewAlloc(Leftover(req[v].litres, snap[v].remaining))
        BY <1>a, <1>3, <2>1, <2>3 DEF SettlePart
      <3>2. Leftover(req[v].litres, snap[v].remaining) \in Nat
        <4>1. req[v].litres \in Nat /\ snap[v].remaining \in Nat
          BY DEF TypeInv, HandlerTypes, Request, Snapshot
        <4> QED
          BY <4>1 DEF Leftover
      <3> QED
        BY <1>a, <2>1, <2>3, <3>1, <3>2, LedgerOfNew
    <2>4. CASE c # req[v].code /\ c # d
      BY <1>a, <1>3, <2>1, <2>4, LedgerKept DEF SettlePart
    <2> QED
      BY <2>2, <2>3, <2>4
  <1>4. ASSUME NEW v \in Workers, ValidateCommit(v) PROVE Balanced(c)' /\ Unused(c)'
    <2>1. req[v].code \in Codes /\ UNCHANGED <<alloc, txns>>
      BY <1>a, <1>4 DEF ValidateCommit
    <2>2. code'[c].status = code[c].status /\ code'[c].consumed = code[c].consumed
      BY <1>a, <1>4, <2>1 DEF ValidateCommit, CodeRow
    <2> QED
      BY <1>a, <2>1, <2>2, LedgerKept
  <1>5. ASSUME NEW S \in SUBSET Codes, NEW quota \in [S -> Quotas], Upload(S, quota)
        PROVE  Balanced(c)' /\ Unused(c)'
    <2>1. CASE c \in S
      <3>1. /\ code[c].status = "UNISSUED" /\ code'[c] = NewCode
            /\ alloc'[c] = NewAlloc(quota[c]) /\ txns'[c] = txns[c]
        BY <1>5, <2>1 DEF Upload, Fresh
      <3>2. quota[c] \in Nat
        BY <2>1, ConstantsAssumption
      <3> QED
        BY <1>a, <3>1, <3>2, LedgerOfNew
    <2>2. CASE c \notin S
      BY <1>a, <1>5, <2>2, LedgerKept DEF Upload
    <2> QED
      BY <2>1, <2>2
  <1>6. ASSUME NEW v \in Workers, Arrive(v) \/ Crash(v) \/ Reply(v) \/ ReplyLost(v)
        PROVE  Balanced(c)' /\ Unused(c)'
    BY <1>1, <1>6 DEF Arrive, StartValidate, StartComplete, Crash, Reply, ReplyLost
  <1>7. ASSUME NEW v \in Workers, ValidateStep(v), ~ValidateCommit(v)
        PROVE  Balanced(c)' /\ Unused(c)'
    BY <1>1, <1>7
       DEF ValidateStep, ValidateUsed, ValidateRateLimited, ValidateCached, ValidateRefused,
           ValidateAccepted, ValidateWarm
  <1>8. ASSUME NEW v \in Workers, CompleteStep(v), ~SettleAll(v),
               ~\E d \in Codes : SettlePart(v, d)
        PROVE  Balanced(c)' /\ Unused(c)'
    BY <1>1, <1>8
       DEF CompleteStep, AcquireLock, AcquireTimeout, CheckReplay, FindTxn, LookupUnknown,
           LookupFound, SettleFails, MarkConsumed, DropCache, WarmHeir, ReleaseLock
  <1>9. CASE (\E d \in Codes : LockExpire(d) \/ SlowExpire(d) \/ CacheExpire(d)) \/ UNCHANGED vars
    BY <1>1, <1>9 DEF LockExpire, SlowExpire, CacheExpire, vars, dbVars
  <1> QED
    BY <1>2, <1>3, <1>4, <1>5, <1>6, <1>7, <1>8, <1>9 DEF Next, Handle

\* Whatever dies, expires or is retried, the three places that count the litres of a
\* code agree: complete_dispense writes the transaction, the code and the allocation
\* in one commit, from rows that SELECT ... FOR UPDATE kept as they were read.
THEOREM LedgerAgreesHolds == Spec => []LedgerAgrees
  <1>1. Init => LedgerInv
    BY LoggedOfNone DEF Init, LedgerInv, Balanced, Unused
  <1>2. LedgerInv => LedgerAgrees
    BY DEF LedgerInv, Balanced, LedgerAgrees
  <1> QED
    BY <1>1, <1>2, LedgerInvStep, RowInvAlways, PTL DEF Spec
=============================================================================
