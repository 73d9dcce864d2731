---------------------------- MODULE AlarmsProofs ----------------------------
(***************************************************************************)
(* Theorems about Alarms, for every number of requests, frames, batches    *)
(* and mishaps.                                                            *)
(*                                                                         *)
(* The argument: at any time one reader, the main one, works on what is    *)
(* committed, and every other reader that may still leave a live row or    *)
(* drop the key has a mishap of its own.  So the rows that the main reader *)
(* would leave are covered by the key and by the mishaps that are left     *)
(* (RowsSound, EpisodesSound).  Without a mishap there is no other reader, *)
(* and the key is covered by a live row (Quiet).                           *)
(***************************************************************************)
EXTENDS Alarms, FiniteSetTheorems, TLAPS

-----------------------------------------------------------------------------
(* The inductive invariant                                                 *)

\* A condition as a number, to add to the others.
Number(b) == IF b THEN 1 ELSE 0

\* The live rows of a sequence that are not marked as resolved, and how many they are.
LiveIn(s, marks) == {i \in DOMAIN s : s[i] \in Live /\ i \notin marks}
Count(s, marks) == Cardinality(LiveIn(s, marks))

\* The rows as a transaction with these marks and rows of its own leaves them.
Merged(s, marks, own) ==
  [i \in DOMAIN s |-> IF i \in marks THEN "resolved" ELSE s[i]] \o own

\* The types whose two margins are one: a condition that holds is one that is kept.
NoMargin == AlarmType \in {"low_level", "critical_level", "sensor_fault"} \/ Hysteresis = 0

-----------------------------------------------------------------------------
\* A record of a reader, over n committed rows.
Sane(rd, n) ==
  /\ rd.at = "idle" => rd = Idle
  /\ rd.at \in {"raise", "add_key", "find", "drop_key"} => ~rd.fired
  /\ rd.at = "add_key" \/ (rd.at = "resolve" /\ rd.fired) => Raises(rd.value)
  /\ rd.at \in {"find", "drop_key"} => ~Keeps(rd.value)
  /\ rd.at = "drop_key" => /\ rd.found < 0 => -rd.found \in DOMAIN rd.mine
                           /\ rd.found > 0 => rd.found \in 1 .. n
  /\ rd.resolved \subseteq 1 .. n /\ rd.savepoint[2] \subseteq 1 .. n
  /\ Len(rd.savepoint[1]) <= Len(rd.mine)

\* A reader that may still leave a live row or drop the key.
Holding(rd) ==
  \/ rd.at \in {"raise", "add_key", "resolve", "find", "drop_key"}
  \/ rd.at = "insert" /\ rd.fired
  \/ rd.at = "next" /\ rd.mine # << >>

\* A request has one frame, and inserts a row or resolves one.
Single(rd) ==
  /\ rd.at # "next" => rd.mine = << >>
  /\ Len(rd.mine) <= 1 /\ rd.left <= 1
  /\ Holding(rd) => rd.resolved = {}

\* Every reader's record is sane, and a request's that of a single frame.
Readings ==
  \A r \in Readers : Sane(reader[r], Len(rows)) /\ (r \in Requests => Single(reader[r]))

\* What a transaction would leave live, a row it is about to insert aside.
Held(s, rd) == Count(s, rd.resolved) + Count(rd.mine, {})
Firing(rd) == rd.at \in {"resolve", "insert"} /\ rd.fired
Total(s, rd) == Len(s) + Len(rd.mine) + Number(Firing(rd))

\* What it would resolve once it drops the key.
DropMarks(rd) == IF rd.found > 0 THEN rd.resolved \cup {rd.found} ELSE rd.resolved
DropMine(rd) == IF rd.found < 0 THEN [rd.mine EXCEPT ![-rd.found] = "resolved"] ELSE rd.mine

\* Rows are covered by the key and by c mishaps, whichever way the transaction ends.
RowsSound(s, rd, on, c) ==
  /\ Count(s, {}) <= 1 + c
  /\ Count(s, rd.savepoint[2]) + Count(rd.savepoint[1], {}) <= 1 + c
  /\ Held(s, rd) + Number(Firing(rd)) <= Number(on) + c
  /\ rd.at = "add_key" => Held(s, rd) <= c
  /\ rd.at = "drop_key" => Count(s, DropMarks(rd)) + Count(DropMine(rd), {}) <= c

\* Rows are covered by n returns of the condition and by c mishaps; v is
\* the value measured last.
EpisodesSound(s, rd, on, c, n, v) ==
  /\ Total(s, rd) <= n + c + Number(on /\ Raises(v))
  /\ ((rd.at = "raise" /\ ~on) \/ rd.at = "add_key") /\ Raises(rd.value) =>
       Total(s, rd) + 1 <= n + c + Number(Raises(v))
  /\ rd.at \in {"raise", "resolve", "find", "drop_key"} /\ ~Raises(rd.value) =>
       Total(s, rd) <= n + c

\* One reader works on what is committed; each of the others has a mishap of its own.
HoldersIn(m, rds) == {r \in Readers \ {m} : Holding(rds[r])}
Credit(m) == mishaps - Cardinality(HoldersIn(m, reader))
Sound(m) ==
  /\ Busy(Flusher) => m = Flusher
  /\ IsFiniteSet(HoldersIn(m, reader)) /\ Credit(m) >= 0
  /\ RowsSound(rows, reader[m], key, Credit(m))
  /\ EpisodesSound(rows, reader[m], key, Credit(m), returns, last)
Main == \E m \in Readers : Sound(m)

\* Without a mishap, the key is covered by a live row, and the condition by the key.
Covered(s, rd, on, hand, v) ==
  /\ on => hand \/ Firing(rd) \/ LiveIn(s, rd.resolved) # {} \/ LiveIn(rd.mine, {}) # {}
  /\ rd.at # "idle" => v = rd.value
  /\ rd.at \in {"idle", "resolve", "insert", "next"} /\ Raises(v) => on
Quiet ==
  mishaps = 0 =>
    \E r \in Readers : /\ \A s \in Readers \ {r} : ~Busy(s)
                       /\ Covered(rows, reader[r], key, byHand, last)

\* The inductive invariant.
AlarmsInv == TypeOK /\ Readings /\ Main /\ Quiet

-----------------------------------------------------------------------------
(* Types                                                                   *)

\* The values a frame measures, and the threshold before the first.
Measured == Values \cup {Threshold}

\* The record of a reader.
ReaderRec ==
  [at : {"idle", "raise", "add_key", "resolve", "find", "drop_key", "insert", "next"},
   value : Measured, fired : BOOLEAN, found : Int,
   mine : Seq(RowState), resolved : SUBSET Nat, left : 0 .. BatchSize,
   savepoint : Seq(RowState) \X SUBSET Nat]

\* A step of a reader that writes to its record only leaves the types.
LEMMA ReaderTyped ==
  ASSUME TypeOK, NEW r \in Readers, NEW to \in ReaderRec, reader' = [reader EXCEPT ![r] = to],
         key' \in BOOLEAN, rows' \in Seq(RowState), ack' \in [row : Nat, read : RowState],
         last' \in Measured, returns' \in Nat, byHand' \in BOOLEAN,
         frames' \in 0 .. MaxFrames, mishaps' \in Nat
  PROVE  TypeOK'
BY DEF TypeOK, ReaderRec, Measured

\* The fields of a reader.
LEMMA ReaderFieldsOf ==
  ASSUME TypeOK, NEW r \in Readers
  PROVE  /\ reader[r] \in ReaderRec
         /\ reader[r].value \in Measured /\ reader[r].fired \in BOOLEAN
         /\ reader[r].found \in Int /\ reader[r].mine \in Seq(RowState)
         /\ reader[r].resolved \subseteq Nat /\ reader[r].left \in 0 .. BatchSize
         /\ reader[r].savepoint[1] \in Seq(RowState) /\ reader[r].savepoint[2] \subseteq Nat
         /\ reader[r].savepoint \in Seq(RowState) \X SUBSET Nat
         /\ reader[r].at \in {"idle", "raise", "add_key", "resolve", "find", "drop_key",
                              "insert", "next"}
<1>1. reader[r] \in ReaderRec
  BY DEF TypeOK, ReaderRec, Measured
<1> QED
  BY <1>1 DEF ReaderRec

\* Everything but the readers.
LEMMA OtherFields ==
  ASSUME TypeOK
  PROVE  /\ key \in BOOLEAN /\ rows \in Seq(RowState) /\ ack \in [row : Nat, read : RowState]
         /\ last \in Measured /\ returns \in Nat /\ byHand \in BOOLEAN
         /\ frames \in 0 .. MaxFrames /\ mishaps \in Nat
         /\ Values \subseteq Measured /\ Values \subseteq Int /\ Threshold \in Int
         /\ MaxFrames \in Nat /\ BatchSize \in Nat \ {0} /\ MaxMishaps \in Nat
BY AlarmsAssumption DEF TypeOK, Measured, AlarmsAssumption

\* A sequence of rows with one of them rewritten.
LEMMA RewrittenRow ==
  ASSUME NEW s \in Seq(RowState), NEW i, NEW v \in RowState
  PROVE  /\ [s EXCEPT ![i] = v] \in Seq(RowState) /\ DOMAIN [s EXCEPT ![i] = v] = DOMAIN s
         /\ Len([s EXCEPT ![i] = v]) = Len(s)
         /\ \A j \in DOMAIN s : [s EXCEPT ![i] = v][j] = IF j = i THEN v ELSE s[j]
<1> DEFINE t == [s EXCEPT ![i] = v]
<1>1. Len(s) \in Nat /\ DOMAIN s = 1 .. Len(s) /\ \A j \in 1 .. Len(s) : s[j] \in RowState
  OBVIOUS
<1>2. DOMAIN t = DOMAIN s /\ \A j \in DOMAIN s : t[j] = IF j = i THEN v ELSE s[j]
  OBVIOUS
<1>3. t \in [1 .. Len(s) -> RowState]
  BY <1>1
<1> HIDE DEF t
<1>4. t \in Seq(RowState) /\ Len(t) = Len(s)
  BY <1>1, <1>3
<1> QED
  BY <1>2, <1>4 DEF t

\* What a reader's session sees is a sequence of rows.
LEMMA SeenIsRows ==
  ASSUME TypeOK, NEW r \in Readers
  PROVE  Seen(r) \in Seq(RowState)
<1> DEFINE marked == [i \in DOMAIN rows |-> IF i \in reader[r].resolved THEN "resolved" ELSE rows[i]]
<1>1. rows \in Seq(RowState) /\ reader[r].mine \in Seq(RowState)
  BY OtherFields, ReaderFieldsOf
<1>2. marked \in Seq(RowState)
  <2>1. Len(rows) \in Nat /\ DOMAIN rows = 1 .. Len(rows) /\ \A i \in 1 .. Len(rows) : rows[i] \in RowState
    BY <1>1
  <2>2. marked \in [1 .. Len(rows) -> RowState]
    BY <2>1 DEF RowState
  <2> HIDE DEF marked
  <2> QED
    BY <2>1, <2>2
<1> HIDE DEF marked
<1>3. marked \o reader[r].mine \in Seq(RowState)
  BY <1>1, <1>2
<1> QED
  BY <1>3 DEF Seen, marked

\* What TakeFrame makes of a reader.
Started(value, n) == [Idle EXCEPT !.at = "raise", !.value = value, !.left = n]
Continued(rd, value, n) ==
  [rd EXCEPT !.at = "raise", !.value = value, !.left = n, !.fired = FALSE, !.found = NoRow,
             !.savepoint = <<rd.mine, rd.resolved>>]

\* A reader at rest, and one that starts, is typed.
LEMMA IdleTyped ==
  /\ Idle \in ReaderRec
  /\ \A value \in Values : \A n \in BatchSizes : Started(value, n) \in ReaderRec
<1>1. << >> \in Seq(RowState) /\ {} \in SUBSET Nat /\ 0 \in 0 .. BatchSize
  BY AlarmsAssumption DEF AlarmsAssumption
<1>2. << << >>, {} >> \in Seq(RowState) \X SUBSET Nat
  BY <1>1
<1>3. Idle \in ReaderRec
  BY <1>1, <1>2 DEF Idle, ReaderRec, Measured, NoRow
<1>4. \A value \in Values : \A n \in BatchSizes : value \in Measured /\ n \in 0 .. BatchSize
  BY AlarmsAssumption DEF AlarmsAssumption, BatchSizes, Measured
<1>5. ASSUME NEW value \in Values, NEW n \in BatchSizes PROVE Started(value, n) \in ReaderRec
  BY <1>3, <1>4 DEF Started, ReaderRec
<1> QED
  BY <1>3, <1>5

\* Types are kept, whatever fails.
LEMMA TypeStep == TypeOK /\ [Next]_vars => TypeOK'
<1> SUFFICES ASSUME TypeOK, [Next]_vars PROVE TypeOK'
  OBVIOUS
<1> USE OtherFields
<1>1. ASSUME NEW r \in Readers, NEW value \in Values, NEW n \in BatchSizes, TakeFrame(r, value, n)
      PROVE  TypeOK'
  <2>1. /\ frames < MaxFrames /\ frames' = frames + 1 /\ last' = value
        /\ returns' = returns + (IF Raises(last) /\ ~Raises(value) THEN 1 ELSE 0)
        /\ UNCHANGED <<key, rows, ack, byHand>>
    BY <1>1 DEF TakeFrame
  <2>2. frames' \in 0 .. MaxFrames /\ last' \in Measured /\ returns' \in Nat
    BY <2>1
  <2>3. mishaps' \in Nat
    BY <1>1 DEF TakeFrame, Mishap
  <2>4. PICK to \in ReaderRec : reader' = [reader EXCEPT ![r] = to]
    <3>1. Started(value, n) \in ReaderRec
      BY IdleTyped
    <3>2. Continued(reader[r], value, n) \in ReaderRec
      <4>1. value \in Measured /\ n \in 0 .. BatchSize
        BY DEF BatchSizes
      <4>2. <<reader[r].mine, reader[r].resolved>> \in Seq(RowState) \X SUBSET Nat
        BY ReaderFieldsOf
      <4>3. reader[r] \in ReaderRec
        BY ReaderFieldsOf
      <4> DEFINE p == <<reader[r].mine, reader[r].resolved>>
      <4>4. Continued(reader[r], value, n)
              = [reader[r] EXCEPT !.at = "raise", !.value = value, !.left = n,
                                  !.fired = FALSE, !.found = 0, !.savepoint = p]
        BY DEF Continued, NoRow
      <4> HIDE DEF p
      <4>5. p \in Seq(RowState) \X SUBSET Nat
        BY <4>2 DEF p
      <4> QED
        <5> DEFINE moved == [reader[r] EXCEPT !.at = "raise", !.value = value, !.left = n]
                   unfired == [moved EXCEPT !.fired = FALSE]
                   fresh == [unfired EXCEPT !.found = 0]
        <5>1. moved \in ReaderRec
          BY <4>1, <4>3 DEF ReaderRec
        <5>2. Continued(reader[r], value, n) = [fresh EXCEPT !.savepoint = p]
          BY <4>4
        <5> HIDE DEF moved
        <5>3. unfired \in ReaderRec
          BY <5>1 DEF ReaderRec
        <5> HIDE DEF unfired
        <5>4. fresh \in ReaderRec
          <6>1. ASSUME NEW i \in Int PROVE [unfired EXCEPT !.found = i] \in ReaderRec
            BY <5>3 DEF ReaderRec
          <6> QED
            BY <6>1
        <5> HIDE DEF fresh
        <5> QED
          BY <4>5, <5>2, <5>4 DEF ReaderRec
    <3> QED
      BY <1>1, <3>1, <3>2 DEF TakeFrame, Go, Started, Continued
  <2> QED
    BY <2>1, <2>2, <2>3, <2>4, ReaderTyped
<1>2. ASSUME NEW r \in Readers,
             \/ CheckRaise(r) \/ CheckResolve(r) \/ AddKey(r) \/ FindRow(r) \/ FrameFails(r)
      PROVE  TypeOK'
  <2>1. /\ rows' = rows /\ ack' = ack /\ last' = last /\ returns' = returns
        /\ key' \in BOOLEAN /\ byHand' \in BOOLEAN /\ frames' = frames /\ mishaps' \in Nat
    <3>1. CASE AddKey(r)
      BY <3>1 DEF AddKey, audit
    <3>2. CASE FrameFails(r)
      BY <3>2 DEF FrameFails, Mishap, audit
    <3>3. CASE CheckRaise(r) \/ CheckResolve(r) \/ FindRow(r)
      BY <3>3 DEF CheckRaise, CheckResolve, FindRow, audit
    <3> QED
      BY <1>2, <3>1, <3>2, <3>3
  <2>2. PICK to \in ReaderRec : reader' = [reader EXCEPT ![r] = to]
    <3>1. ASSUME NEW at \in {"add_key", "resolve", "find", "insert", "next"}
          PROVE  [reader[r] EXCEPT !.at = at] \in ReaderRec
      BY ReaderFieldsOf DEF ReaderRec
    <3>2. [reader[r] EXCEPT !.at = "resolve", !.fired = TRUE] \in ReaderRec
      BY ReaderFieldsOf DEF ReaderRec
    <3>3. ASSUME NEW i \in Int
          PROVE  [reader[r] EXCEPT !.at = "drop_key", !.found = i] \in ReaderRec
      BY ReaderFieldsOf DEF ReaderRec
    <3>4. CASE CheckRaise(r) \/ CheckResolve(r) \/ FrameFails(r)
      BY <3>1, <3>4 DEF CheckRaise, CheckResolve, FrameFails, Step, Go
    <3>5. CASE AddKey(r)
      BY <3>2, <3>5 DEF AddKey, Go
    <3>6. CASE FindRow(r)
      <4>1. PICK i \in LiveRows(Seen(r)) \cup {NoRow} :
              reader' = [reader EXCEPT ![r] = [reader[r] EXCEPT !.at = "drop_key",
                           !.found = IF i <= Len(rows) THEN i ELSE Len(rows) - i]]
        BY <3>6 DEF FindRow, Go
      <4>2. i \in Int
        BY SeenIsRows DEF LiveRows, NoRow
      <4>3. (IF i <= Len(rows) THEN i ELSE Len(rows) - i) \in Int
        BY <4>2
      <4> QED
        BY <3>3, <4>1, <4>3
    <3> QED
      BY <1>2, <3>4, <3>5, <3>6
  <2> QED
    BY <2>1, <2>2, ReaderTyped
<1>3. ASSUME NEW r \in Readers, DropKey(r) PROVE TypeOK'
  <2> DEFINE i == reader[r].found
             gone == IF i > 0 THEN reader[r].resolved \cup {i} ELSE reader[r].resolved
             kept == IF i < 0 THEN [reader[r].mine EXCEPT ![-i] = "resolved"] ELSE reader[r].mine
             to == [reader[r] EXCEPT !.at = "insert", !.resolved = gone, !.mine = kept]
  <2>1. gone \in SUBSET Nat
    BY ReaderFieldsOf
  <2>2. kept \in Seq(RowState)
    <3>1. "resolved" \in RowState
      BY DEF RowState
    <3> QED
      BY <3>1, ReaderFieldsOf, RewrittenRow
  <2>3. reader' = [reader EXCEPT ![r] = to]
    BY <1>3 DEF DropKey, Go
  <2>4. to \in ReaderRec
    <3> HIDE DEF gone, kept
    <3> QED
      BY <2>1, <2>2, ReaderFieldsOf DEF ReaderRec
  <2> HIDE DEF to
  <2> QED
    BY <1>3, <2>3, <2>4, ReaderTyped DEF DropKey, audit
<1>4. ASSUME NEW r \in Readers, Insert(r) PROVE TypeOK'
  <2> DEFINE kept == IF reader[r].fired THEN Append(reader[r].mine, "active") ELSE reader[r].mine
             to == [reader[r] EXCEPT !.at = "next", !.mine = kept]
  <2>1. kept \in Seq(RowState)
    BY ReaderFieldsOf DEF RowState
  <2>2. reader' = [reader EXCEPT ![r] = to]
    BY <1>4 DEF Insert, Go
  <2>3. to \in ReaderRec
    <3> HIDE DEF kept
    <3> QED
      BY <2>1, ReaderFieldsOf DEF ReaderRec
  <2> HIDE DEF to
  <2> QED
    BY <1>4, <2>2, <2>3, ReaderTyped DEF Insert, audit
<1>5. ASSUME NEW r \in Readers, Commit(r) \/ CommitFails(r) PROVE TypeOK'
  <2>1. /\ key' = key /\ ack' = ack /\ last' = last /\ returns' = returns /\ byHand' = byHand
        /\ frames' = frames /\ mishaps' \in Nat /\ rows' \in Seq(RowState)
        /\ reader' = [reader EXCEPT ![r] = Idle]
    BY <1>5, SeenIsRows DEF Commit, CommitFails, Mishap, Go, audit
  <2> QED
    BY <2>1, IdleTyped, ReaderTyped
<1>6. CASE FrameRolledBack
  <2> DEFINE to == [reader[Flusher] EXCEPT !.mine = reader[Flusher].savepoint[1],
                                           !.resolved = reader[Flusher].savepoint[2]]
  <2>1. Flusher \in Readers
    BY DEF Readers
  <2>2. to \in ReaderRec
    BY <2>1, ReaderFieldsOf DEF ReaderRec
  <2>3. reader' = [reader EXCEPT ![Flusher] = to] /\ mishaps' \in Nat
    BY <1>6 DEF FrameRolledBack, Go, Mishap
  <2> HIDE DEF to
  <2> QED
    BY <1>6, <2>1, <2>2, <2>3, ReaderTyped DEF FrameRolledBack, audit
<1>7. ASSUME NEW i \in DOMAIN rows, AckRead(i) \/ ResolveByHand(i) PROVE TypeOK'
  <2>1. rows' \in Seq(RowState) /\ ack' \in [row : Nat, read : RowState] /\ byHand' \in BOOLEAN
    <3>1. rows[i] \in RowState /\ i \in Nat /\ "resolved" \in RowState
      BY DEF RowState
    <3>2. CASE AckRead(i)
      BY <3>1, <3>2 DEF AckRead
    <3>3. CASE ResolveByHand(i)
      <4>1. rows' \in Seq(RowState) /\ ack' = ack
        BY <3>1, <3>3, RewrittenRow DEF ResolveByHand
      <4>2. byHand' \in BOOLEAN
        BY <3>3 DEF ResolveByHand
      <4> QED
        BY <4>1, <4>2
    <3> QED
      BY <1>7, <3>2, <3>3
  <2> QED
    BY <1>7, <2>1 DEF AckRead, ResolveByHand, audit, TypeOK
<1>8. CASE AckWrite
  <2> DEFINE v == IF ack.read = "active" THEN "acknowledged" ELSE rows[ack.row]
  <2>1. rows' \in Seq(RowState)
    <3>1. rows' = [rows EXCEPT ![ack.row] = v]
      BY <1>8 DEF AckWrite
    <3>2. CASE ack.row \in DOMAIN rows
      <4>1. v \in RowState
        BY <3>2 DEF RowState
      <4> HIDE DEF v
      <4> QED
        BY <3>1, <4>1, RewrittenRow
    <3>3. CASE ack.row \notin DOMAIN rows
      <4>1. rows' = rows
        BY <3>1, <3>3
      <4> QED
        BY <4>1
    <3> QED
      BY <3>2, <3>3
  <2>3. ack' = NoAck /\ NoAck \in [row : Nat, read : RowState]
    BY <1>8 DEF AckWrite, NoAck, NoRow, RowState
  <2>2. mishaps' \in Nat
    BY <1>8 DEF AckWrite
  <2> QED
    BY <1>8, <2>1, <2>2, <2>3 DEF AckWrite, audit, TypeOK
<1>9. CASE UNCHANGED vars
  BY <1>9 DEF vars, audit, TypeOK
<1> QED
  BY <1>1, <1>2, <1>3, <1>4, <1>5, <1>6, <1>7, <1>8, <1>9 DEF Next, ReaderStep

\* A fresh store has the types.
LEMMA InitTyped == Init => TypeOK
<1> SUFFICES ASSUME Init PROVE TypeOK
  OBVIOUS
<1>1. Idle \in ReaderRec
  BY IdleTyped
<1>2. reader \in [Readers -> ReaderRec]
  BY <1>1 DEF Init
<1>3. ack \in [row : Nat, read : RowState]
  BY DEF Init, NoAck, NoRow, RowState
<1>4. /\ key \in BOOLEAN /\ last \in Measured /\ returns \in Nat /\ byHand \in BOOLEAN
      /\ frames \in 0 .. MaxFrames /\ mishaps \in Nat /\ rows \in Seq(RowState)
  <2>1. last \in Measured
    BY DEF Init, Measured
  <2>2. 0 \in 0 .. MaxFrames /\ << >> \in Seq(RowState)
    BY AlarmsAssumption DEF AlarmsAssumption
  <2> QED
    BY <2>1, <2>2 DEF Init
<1> QED
  BY <1>2, <1>3, <1>4 DEF TypeOK, ReaderRec, Measured

\* The store, the readers and the operators keep to their types (pipeline.py).
THEOREM AlarmsTypeCorrect == Spec => []TypeOK
BY InitTyped, TypeStep, PTL DEF Spec

-----------------------------------------------------------------------------
(* Counting live rows                                                      *)

\* Rows are finitely many.
LEMMA CountIsNat ==
  ASSUME NEW s \in Seq(RowState), NEW marks
  PROVE  /\ IsFiniteSet(LiveIn(s, marks)) /\ Count(s, marks) \in Nat
         /\ LiveIn(s, marks) \subseteq DOMAIN s /\ Count(s, marks) <= Len(s)
<1>1. IsFiniteSet(1 .. Len(s)) /\ Cardinality(1 .. Len(s)) = Len(s) /\ DOMAIN s = 1 .. Len(s)
  <2>1. Len(s) \in Nat /\ 1 \in Int /\ DOMAIN s = 1 .. Len(s)
    OBVIOUS
  <2>2. IsFiniteSet(1 .. Len(s)) /\ Cardinality(1 .. Len(s)) = IF 1 > Len(s) THEN 0 ELSE Len(s) - 1 + 1
    BY <2>1, FS_Interval
  <2> QED
    BY <2>1, <2>2
<1>2. LiveIn(s, marks) \subseteq 1 .. Len(s)
  BY <1>1 DEF LiveIn
<1> QED
  BY <1>1, <1>2, FS_Subset, FS_CardinalityType DEF Count

\* Fewer live rows.
LEMMA CountFewer ==
  ASSUME NEW s \in Seq(RowState), NEW t \in Seq(RowState), NEW marks, NEW more,
         LiveIn(t, more) \subseteq LiveIn(s, marks)
  PROVE  Count(t, more) <= Count(s, marks)
BY CountIsNat, FS_Subset DEF Count

\* At most one more.
LEMMA CountOneMore ==
  ASSUME NEW s \in Seq(RowState), NEW t \in Seq(RowState), NEW marks, NEW i,
         LiveIn(t, marks) \subseteq LiveIn(s, marks) \cup {i}
  PROVE  Count(t, marks) <= Count(s, marks) + 1
<1>1. /\ IsFiniteSet(LiveIn(s, marks) \cup {i})
      /\ Cardinality(LiveIn(s, marks) \cup {i}) <= Count(s, marks) + 1
  <2>1. /\ IsFiniteSet(LiveIn(s, marks) \cup {i})
        /\ Cardinality(LiveIn(s, marks) \cup {i})
             = IF i \in LiveIn(s, marks) THEN Count(s, marks) ELSE Count(s, marks) + 1
    BY CountIsNat, FS_AddElement DEF Count
  <2> QED
    BY <2>1, CountIsNat
<1>2. Count(t, marks) <= Cardinality(LiveIn(s, marks) \cup {i})
  BY <1>1, FS_Subset DEF Count
<1> QED
  BY <1>1, <1>2, CountIsNat, FS_CardinalityType

\* One row less.
LEMMA CountOneLess ==
  ASSUME NEW s \in Seq(RowState), NEW t \in Seq(RowState), NEW marks, NEW more, NEW i,
         i \in LiveIn(s, marks), LiveIn(t, more) = LiveIn(s, marks) \ {i}
  PROVE  Count(t, more) = Count(s, marks) - 1
BY CountIsNat, FS_RemoveElement DEF Count

\* A new row is live.
LEMMA CountAppended ==
  ASSUME NEW s \in Seq(RowState)
  PROVE  /\ Append(s, "active") \in Seq(RowState) /\ Len(Append(s, "active")) = Len(s) + 1
         /\ Count(Append(s, "active"), {}) = Count(s, {}) + 1
<1> DEFINE t == Append(s, "active")
           n == Len(s) + 1
<1>1. /\ t \in Seq(RowState) /\ Len(t) = n /\ Len(s) \in Nat /\ t[n] = "active"
      /\ \A i \in 1 .. Len(s) : t[i] = s[i]
  BY DEF RowState
<1>2. \A i : i \in 1 .. n <=> i \in 1 .. Len(s) \/ i = n
  BY <1>1
<1>3. DOMAIN t = 1 .. n /\ DOMAIN s = 1 .. Len(s) /\ n \notin 1 .. Len(s)
  BY <1>1
<1> HIDE DEF t, n
<1>4. LiveIn(t, {}) = LiveIn(s, {}) \cup {n} /\ n \notin LiveIn(s, {})
  BY <1>1, <1>2, <1>3 DEF LiveIn, Live
<1>5. Cardinality(LiveIn(s, {}) \cup {n}) = Cardinality(LiveIn(s, {})) + 1
  BY <1>4, CountIsNat, FS_AddElement
<1> QED
  BY <1>1, <1>4, <1>5 DEF Count, t, n

\* The live rows of another transaction, once this one has committed.
LEMMA CountMerged ==
  ASSUME NEW s \in Seq(RowState), NEW own \in Seq(RowState), NEW marks,
         NEW gone \in SUBSET DOMAIN s
  PROVE  /\ Merged(s, gone, own) \in Seq(RowState)
         /\ Len(Merged(s, gone, own)) = Len(s) + Len(own)
         /\ marks \subseteq DOMAIN s =>
              Count(Merged(s, gone, own), marks) = Count(s, marks \cup gone) + Count(own, {})
<1> DEFINE marked == [i \in DOMAIN s |-> IF i \in gone THEN "resolved" ELSE s[i]]
           t == marked \o own
           n == Len(s)
           m == Len(own)
           old == LiveIn(s, marks \cup gone)
           new == {i \in n + 1 .. n + m : own[i - n] \in Live}
<1>1. /\ n \in Nat /\ m \in Nat /\ DOMAIN s = 1 .. n /\ DOMAIN own = 1 .. m
      /\ \A i \in 1 .. n : s[i] \in RowState
  OBVIOUS
<1>2. marked \in Seq(RowState) /\ Len(marked) = n
  <2>1. marked \in [1 .. n -> RowState]
    BY <1>1 DEF RowState
  <2> HIDE DEF marked
  <2> QED
    BY <1>1, <2>1
<1>3. \A i \in 1 .. n : marked[i] = IF i \in gone THEN "resolved" ELSE s[i]
  BY <1>1
<1> HIDE DEF marked
<1>4. /\ t \in Seq(RowState) /\ Len(t) = n + m /\ DOMAIN t = 1 .. n + m
      /\ \A i \in 1 .. n : t[i] = marked[i]
      /\ \A i \in n + 1 .. n + m : t[i] = own[i - n]
  BY <1>1, <1>2
<1>5. /\ 1 .. n + m = 1 .. n \cup n + 1 .. n + m
      /\ 1 .. n \cap n + 1 .. n + m = {}
  BY <1>1
<1> HIDE DEF t, n, m
<1>6. ASSUME marks \subseteq DOMAIN s
      PROVE  LiveIn(t, marks) = old \cup new /\ old \cap new = {}
  <2>1. \A i \in 1 .. n : i \in LiveIn(t, marks) <=> i \in old
    BY <1>1, <1>3, <1>4, <1>5 DEF LiveIn, Live
  <2>2. \A i \in n + 1 .. n + m : i \in LiveIn(t, marks) <=> i \in new
    BY <1>1, <1>4, <1>5, <1>6 DEF LiveIn
  <2>3. LiveIn(t, marks) \subseteq 1 .. n + m /\ old \subseteq 1 .. n /\ new \subseteq n + 1 .. n + m
    BY <1>1, <1>4 DEF LiveIn
  <2> QED
    BY <1>5, <2>1, <2>2, <2>3
<1>7. IsFiniteSet(new) /\ Cardinality(new) = Count(own, {})
  <2> DEFINE f == [i \in LiveIn(own, {}) |-> i + n]
  <2>1. \A i \in LiveIn(own, {}) : i \in 1 .. m /\ own[i] \in Live
    BY <1>1 DEF LiveIn
  <2>2. \A i \in LiveIn(own, {}) : f[i] \in new
    BY <1>1, <2>1
  <2>3. \A j \in new : j - n \in LiveIn(own, {}) /\ f[j - n] = j
    BY <1>1 DEF LiveIn
  <2>4. \A i, j \in LiveIn(own, {}) : f[i] = f[j] => i = j
    BY <1>1, <2>1
  <2>5. f \in [LiveIn(own, {}) -> new]
    BY <2>2
  <2> HIDE DEF f
  <2>6. \A j \in new : \E i \in LiveIn(own, {}) : f[i] = j
    BY <2>3
  <2>7. f \in Bijection(LiveIn(own, {}), new)
    BY <2>4, <2>5, <2>6 DEF Bijection, Injection, Surjection, IsInjective
  <2>8. ExistsBijection(LiveIn(own, {}), new)
    BY <2>7 DEF ExistsBijection
  <2> QED
    BY <2>8, CountIsNat, FS_Bijection DEF Count
<1>8. ASSUME marks \subseteq DOMAIN s
      PROVE  Count(t, marks) = Count(s, marks \cup gone) + Count(own, {})
  <2>1. IsFiniteSet(old) /\ Cardinality({}) = 0 /\ Cardinality(old) \in Nat
    BY CountIsNat, FS_EmptySet DEF Count
  <2>2. Cardinality(old \cup new) = Cardinality(old) + Cardinality(new) - Cardinality(old \cap new)
    BY <1>7, <2>1, FS_Union
  <2>3. Cardinality(new) \in Nat
    BY <1>7, FS_CardinalityType
  <2>4. /\ Count(t, marks) = Cardinality(old \cup new)
        /\ Cardinality(old) = Count(s, marks \cup gone) /\ Cardinality(old \cap new) = 0
    BY <1>6, <1>8, <2>1 DEF Count
  <2> HIDE DEF old, new
  <2> QED
    BY <1>7, <2>1, <2>2, <2>3, <2>4
<1> QED
  BY <1>4, <1>8 DEF Merged, t, marked, n, m

\* A row rewritten by an operator: one more is live only if this one was not.
LEMMA CountRewritten ==
  ASSUME NEW s \in Seq(RowState), NEW i, NEW v \in RowState, NEW marks
  PROVE  /\ [s EXCEPT ![i] = v] \in Seq(RowState) /\ Len([s EXCEPT ![i] = v]) = Len(s)
         /\ Count([s EXCEPT ![i] = v], marks) <= Count(s, marks) + 1
         /\ (i \in DOMAIN s /\ v \in Live => s[i] \in Live) =>
              Count([s EXCEPT ![i] = v], marks) <= Count(s, marks)
         /\ i \in LiveIn(s, {}) /\ v = "resolved" =>
              Count([s EXCEPT ![i] = v], {}) = Count(s, {}) - 1
<1> DEFINE t == [s EXCEPT ![i] = v]
<1>1. /\ t \in Seq(RowState) /\ Len(t) = Len(s) /\ DOMAIN t = DOMAIN s
      /\ \A j \in DOMAIN s : t[j] = IF j = i THEN v ELSE s[j]
  BY RewrittenRow
<1> HIDE DEF t
<1>2. LiveIn(t, marks) \subseteq LiveIn(s, marks) \cup {i}
  BY <1>1 DEF LiveIn
<1>3. (i \in DOMAIN s /\ v \in Live => s[i] \in Live) => LiveIn(t, marks) \subseteq LiveIn(s, marks)
  BY <1>1 DEF LiveIn
<1>4. i \in LiveIn(s, {}) /\ v = "resolved" => LiveIn(t, {}) = LiveIn(s, {}) \ {i}
  BY <1>1 DEF LiveIn, Live
<1>5. Count(t, marks) <= Count(s, marks) + 1
  BY <1>1, <1>2, CountOneMore
<1>6. (i \in DOMAIN s /\ v \in Live => s[i] \in Live) => Count(t, marks) <= Count(s, marks)
  BY <1>1, <1>3, CountFewer
<1>7. i \in LiveIn(s, {}) /\ v = "resolved" => Count(t, {}) = Count(s, {}) - 1
  BY <1>1, <1>4, CountOneLess
<1> QED
  BY <1>1, <1>5, <1>6, <1>7 DEF t

-----------------------------------------------------------------------------
(* What other steps leave of the invariant                                 *)

\* Without a margin, a frame that raises an alarm does not resolve it.
LEMMA RaisedIsKept ==
  ASSUME NoMargin, NEW v \in Measured, Raises(v)
  PROVE  Keeps(v)
<1>1. v \in Int /\ Threshold \in Int /\ Hysteresis \in Nat /\ AlarmType \in AlarmTypes
  BY AlarmsAssumption DEF AlarmsAssumption, Measured
<1>2. CASE AlarmType \in {"low_level", "critical_level"}
  BY <1>2 DEF Raises, Keeps, IsViolated
<1>3. CASE AlarmType = "sensor_fault"
  BY <1>3 DEF Raises, Keeps, IsViolated
<1>4. CASE Hysteresis = 0
  BY <1>4 DEF Raises, Keeps
<1> QED
  BY <1>2, <1>3, <1>4 DEF NoMargin

\* Whether a value raises an alarm is one or the other.
LEMMA RaisesIsBoolean ==
  ASSUME NEW v \in Measured
  PROVE  Raises(v) \in BOOLEAN
<1>1. v \in Int /\ Threshold \in Int /\ AlarmType \in AlarmTypes
  BY AlarmsAssumption DEF AlarmsAssumption, Measured
<1>2. CASE AlarmType \in {"low_level", "critical_level"}
  <2>1. Raises(v) = (v <= Threshold)
    BY <1>1, <1>2 DEF Raises, IsViolated
  <2> QED
    BY <1>1, <2>1
<1>3. CASE AlarmType \in {"high_level", "high_volume"}
  <2>1. Raises(v) = (v >= Threshold + 0)
    BY <1>1, <1>3 DEF Raises, IsViolated
  <2> QED
    BY <1>1, <2>1
<1>4. CASE AlarmType = "low_volume"
  BY <1>1, <1>4 DEF Raises, IsViolated
<1>5. CASE AlarmType = "sensor_fault"
  BY <1>1, <1>5 DEF Raises, IsViolated
<1> QED
  BY <1>1, <1>2, <1>3, <1>4, <1>5 DEF AlarmTypes

\* An empty transaction leaves nothing live.
LEMMA CountEmpty == << >> \in Seq(RowState) /\ Len(<< >>) = 0 /\ Count(<< >>, {}) = 0
<1>1. << >> \in Seq(RowState) /\ Len(<< >>) = 0
  OBVIOUS
<1>2. Count(<< >>, {}) \in Nat /\ Count(<< >>, {}) <= Len(<< >>)
  BY <1>1, CountIsNat
<1> QED
  BY <1>1, <1>2

\* More committed rows do not disturb a reader's record.
LEMMA SaneGrows ==
  ASSUME NEW rd, NEW n \in Nat, NEW k \in Nat, n <= k, Sane(rd, n)
  PROVE  Sane(rd, k)
<1>1. 1 .. n \subseteq 1 .. k
  OBVIOUS
<1> QED
  BY <1>1 DEF Sane

\* Rows stay covered while others work: k of theirs are committed, k mishaps pay for them,
\* and one more pays for a key they drop.
LEMMA RowsKept ==
  ASSUME NEW s \in Seq(RowState), NEW t \in Seq(RowState), NEW rd \in ReaderRec,
         Sane(rd, Len(s)), NEW on \in BOOLEAN, NEW on1 \in BOOLEAN,
         NEW c \in Nat, NEW c1 \in Nat, NEW k \in Nat, RowsSound(s, rd, on, c),
         \A marks \in SUBSET (1 .. Len(s)) : Count(t, marks) <= Count(s, marks) + k,
         c1 >= c + k, c1 + Number(on1) >= c + Number(on) + k
  PROVE  RowsSound(t, rd, on1, c1)
<1>1. /\ Count(t, {}) <= Count(s, {}) + k
      /\ Count(t, rd.savepoint[2]) <= Count(s, rd.savepoint[2]) + k
      /\ Count(t, rd.resolved) <= Count(s, rd.resolved) + k
  BY DEF Sane
<1>2. rd.at = "drop_key" => Count(t, DropMarks(rd)) <= Count(s, DropMarks(rd)) + k
  BY DEF Sane, DropMarks
<1>3. /\ \A marks : Count(s, marks) \in Nat /\ Count(t, marks) \in Nat
      /\ Count(rd.mine, {}) \in Nat /\ Count(rd.savepoint[1], {}) \in Nat
  BY CountIsNat DEF ReaderRec
<1>4. rd.at = "drop_key" => Count(DropMine(rd), {}) \in Nat
  <2>1. rd.mine \in Seq(RowState) /\ "resolved" \in RowState
    BY DEF ReaderRec, RowState
  <2>2. DropMine(rd) \in Seq(RowState)
    BY <2>1, RewrittenRow DEF DropMine
  <2> QED
    BY <2>2, CountIsNat
<1>5. Number(on) \in 0 .. 1 /\ Number(on1) \in 0 .. 1 /\ Number(Firing(rd)) \in 0 .. 1
  BY DEF Number
<1>6. Count(t, {}) <= 1 + c1 /\ Count(t, rd.savepoint[2]) + Count(rd.savepoint[1], {}) <= 1 + c1
  <2> DEFINE a == Count(s, {})
             b == Count(t, {})
             g == Count(s, rd.savepoint[2])
             h == Count(t, rd.savepoint[2])
             d == Count(rd.savepoint[1], {})
  <2>1. a \in Nat /\ b \in Nat /\ g \in Nat /\ h \in Nat /\ d \in Nat
    BY <1>3
  <2>2. b <= a + k /\ h <= g + k
    BY <1>1
  <2>3. a <= 1 + c /\ g + d <= 1 + c
    BY DEF RowsSound
  <2> HIDE DEF a, b, g, h, d
  <2>4. b <= 1 + c1 /\ h + d <= 1 + c1
    BY <2>1, <2>2, <2>3
  <2> QED
    BY <2>4 DEF b, h, d
<1>7. Held(t, rd) + Number(Firing(rd)) <= Number(on1) + c1
  <2> DEFINE a == Count(s, rd.resolved)
             b == Count(t, rd.resolved)
             d == Count(rd.mine, {})
             f == Number(Firing(rd))
  <2>1. /\ a \in Nat /\ b \in Nat /\ d \in Nat /\ f \in 0 .. 1 /\ b <= a + k
        /\ a + d + f <= Number(on) + c
    BY <1>1, <1>3, <1>5 DEF RowsSound, Held
  <2> HIDE DEF a, b, d, f
  <2>2. b + d + f <= Number(on1) + c1
    BY <1>5, <2>1
  <2> QED
    BY <2>2 DEF Held, b, d, f
<1>8. rd.at = "add_key" => Held(t, rd) <= c1
  <2> DEFINE a == Count(s, rd.resolved)
             b == Count(t, rd.resolved)
             d == Count(rd.mine, {})
  <2>1. a \in Nat /\ b \in Nat /\ d \in Nat /\ b <= a + k
    BY <1>1, <1>3
  <2>2. rd.at = "add_key" => a + d <= c
    BY DEF RowsSound, Held
  <2> HIDE DEF a, b, d
  <2>3. rd.at = "add_key" => b + d <= c1
    BY <2>1, <2>2
  <2> QED
    BY <2>3 DEF Held, b, d
<1>9. rd.at = "drop_key" => Count(t, DropMarks(rd)) + Count(DropMine(rd), {}) <= c1
  <2> DEFINE a == Count(s, DropMarks(rd))
             b == Count(t, DropMarks(rd))
             d == Count(DropMine(rd), {})
  <2>1. a \in Nat /\ b \in Nat /\ (rd.at = "drop_key" => d \in Nat /\ b <= a + k /\ a + d <= c)
    BY <1>2, <1>3, <1>4 DEF RowsSound
  <2> HIDE DEF a, b, d
  <2>2. rd.at = "drop_key" => b + d <= c1
    BY <2>1
  <2> QED
    BY <2>2 DEF b, d
<1> QED
  BY <1>6, <1>7, <1>8, <1>9 DEF RowsSound

\* k rows more are afforded by a gain in credit or by a return.
Afforded(s, on, c, n, v, t, on1, c1, n1, v1, k) ==
  /\ s \in Seq(RowState) /\ t \in Seq(RowState) /\ on \in BOOLEAN /\ on1 \in BOOLEAN
  /\ v \in Measured /\ v1 \in Measured /\ c \in Nat /\ c1 \in Nat /\ n \in Nat /\ n1 \in Nat
  /\ k \in Nat /\ Len(t) <= Len(s) + k
  /\ n1 \in {n, n + 1} /\ (n1 = n => ~Raises(v) \/ Raises(v1))
  /\ c1 >= c + k /\ c1 + Number(on1) >= c + Number(on) + k

\* The same for the alarms that a condition has.
LEMMA EpisodesKept ==
  ASSUME NEW s, NEW t, NEW rd \in ReaderRec, NEW on, NEW on1, NEW v, NEW v1,
         NEW c, NEW c1, NEW n, NEW n1, NEW k,
         EpisodesSound(s, rd, on, c, n, v), Afforded(s, on, c, n, v, t, on1, c1, n1, v1, k)
  PROVE  EpisodesSound(t, rd, on1, c1, n1, v1)
<1> USE DEF Afforded
<1>0. Raises(v) \in BOOLEAN /\ Raises(v1) \in BOOLEAN
  BY RaisesIsBoolean
<1> DEFINE past == Raises(v)
           past1 == Raises(v1)
<1>1. Total(s, rd) \in Nat /\ Total(t, rd) \in Nat /\ Total(t, rd) <= Total(s, rd) + k
  BY DEF Total, Number, ReaderRec
<1> DEFINE a == Total(s, rd)
           b == Total(t, rd)
<1>2. a \in Nat /\ b \in Nat /\ b <= a + k
  BY <1>1
<1>3. a <= n + c + Number(on /\ past)
  BY DEF EpisodesSound
<1>4. ((rd.at = "raise" /\ ~on) \/ rd.at = "add_key") /\ Raises(rd.value) => a + 1 <= n + c + Number(past)
  BY DEF EpisodesSound
<1>5. rd.at \in {"raise", "resolve", "find", "drop_key"} /\ ~Raises(rd.value) => a <= n + c
  BY DEF EpisodesSound
<1> HIDE DEF a, b
<1>6. b <= n1 + c1 + Number(on1 /\ past1)
  BY <1>2, <1>3 DEF Number
<1>7. ASSUME (rd.at = "raise" /\ ~on1) \/ rd.at = "add_key", Raises(rd.value)
      PROVE  b + 1 <= n1 + c1 + Number(past1)
  <2>1. CASE rd.at = "add_key" \/ ~on
    <3>1. a + 1 <= n + c + Number(past)
      BY <1>4, <1>7, <2>1
    <3> QED
      BY <1>2, <3>1 DEF Number
  <2>2. CASE rd.at # "add_key" /\ on
    <3>1. ~on1
      BY <1>7, <2>2
    <3> QED
      BY <1>2, <1>3, <2>2, <3>1 DEF Number
  <2> QED
    BY <2>1, <2>2
<1>8. rd.at \in {"raise", "resolve", "find", "drop_key"} /\ ~Raises(rd.value) => b <= n1 + c1
  BY <1>2, <1>5 DEF Number
<1> QED
  BY <1>6, <1>7, <1>8 DEF EpisodesSound, b

-----------------------------------------------------------------------------
\* What the main reader's invariant speaks of.
LEMMA SoundFields ==
  ASSUME TypeOK, Readings, NEW m \in Readers, Sound(m)
  PROVE  /\ Credit(m) \in Nat /\ reader[m] \in ReaderRec /\ Sane(reader[m], Len(rows))
         /\ rows \in Seq(RowState) /\ key \in BOOLEAN /\ returns \in Nat
         /\ Raises(last) \in BOOLEAN /\ mishaps \in Nat
         /\ Cardinality(HoldersIn(m, reader)) \in Nat
<1>1. Cardinality(HoldersIn(m, reader)) \in Nat
  BY FS_CardinalityType DEF Sound
<1>2. Raises(last) \in BOOLEAN
  BY OtherFields, RaisesIsBoolean
<1>3. Credit(m) \in Nat
  BY <1>1, OtherFields DEF Sound, Credit
<1> QED
  BY <1>1, <1>2, <1>3, OtherFields, ReaderFieldsOf DEF Readings

-----------------------------------------------------------------------------
(* The main reader's own steps                                             *)

\* A step of the main reader leaves the others alone.
LEMMA OwnStep ==
  ASSUME TypeOK, Readings, NEW m \in Readers, Sound(m), NEW to, NEW k \in Nat,
         reader' = [reader EXCEPT ![m] = to], mishaps' = mishaps + k,
         RowsSound(rows', to, key', Credit(m) + k),
         EpisodesSound(rows', to, key', Credit(m) + k, returns', last')
  PROVE  Sound(m)'
<1>1. reader \in [Readers -> ReaderRec] /\ reader'[m] = to
  BY DEF TypeOK, ReaderRec, Measured
<1>2. HoldersIn(m, reader') = HoldersIn(m, reader)
  BY <1>1 DEF HoldersIn
<1>3. Credit(m)' = Credit(m) + k /\ Credit(m) \in Nat
  BY <1>2, SoundFields DEF Credit
<1>4. Flusher # m => reader'[Flusher] = reader[Flusher]
  BY <1>1 DEF Readers
<1>5. Busy(Flusher)' => m = Flusher
  BY <1>4 DEF Sound, Busy
<1>6. IsFiniteSet(HoldersIn(m, reader))' /\ Credit(m)' >= 0
  BY <1>2, <1>3 DEF Sound
<1> QED
  BY <1>1, <1>3, <1>5, <1>6 DEF Sound

\* The same with no mishap.
LEMMA OwnStill ==
  ASSUME TypeOK, Readings, NEW m \in Readers, Sound(m), NEW to,
         reader' = [reader EXCEPT ![m] = to], mishaps' = mishaps,
         RowsSound(rows', to, key', Credit(m)),
         EpisodesSound(rows', to, key', Credit(m), returns', last')
  PROVE  Sound(m)'
<1>1. Credit(m) + 0 = Credit(m) /\ mishaps' = mishaps + 0 /\ 0 \in Nat
  BY SoundFields
<1>2. /\ RowsSound(rows', to, key', Credit(m) + 0)
      /\ EpisodesSound(rows', to, key', Credit(m) + 0, returns', last')
  BY <1>1
<1> QED
  BY <1>1, <1>2, OwnStep

\* The fields of a record of which a step rewrites the step alone.
LEMMA MovedTo ==
  ASSUME NEW rd \in ReaderRec, NEW at
  PROVE  LET to == [rd EXCEPT !.at = at]
         IN  /\ to.at = at /\ to.value = rd.value /\ to.fired = rd.fired /\ to.found = rd.found
             /\ to.mine = rd.mine /\ to.resolved = rd.resolved /\ to.savepoint = rd.savepoint
BY DEF ReaderRec

\* What is held, as numbers.
LEMMA HeldIsNat ==
  ASSUME NEW s \in Seq(RowState), NEW rd \in ReaderRec
  PROVE  /\ Held(s, rd) \in Nat /\ Total(s, rd) \in Nat /\ Number(Firing(rd)) \in 0 .. 1
         /\ Count(s, rd.resolved) \in Nat /\ Count(rd.mine, {}) \in Nat
         /\ Total(s, rd) = Len(s) + Len(rd.mine) + Number(Firing(rd))
         /\ Len(s) \in Nat /\ Len(rd.mine) \in Nat /\ Len(rd.savepoint[1]) \in Nat
<1>1. rd.mine \in Seq(RowState) /\ rd.savepoint[1] \in Seq(RowState)
  BY DEF ReaderRec
<1>2. Count(s, rd.resolved) \in Nat /\ Count(rd.mine, {}) \in Nat
  BY <1>1, CountIsNat
<1>3. Number(Firing(rd)) \in 0 .. 1
  BY DEF Number
<1> QED
  BY <1>1, <1>2, <1>3 DEF Held, Total

\* The check before the key is set.
LEMMA OwnCheckRaise ==
  ASSUME TypeOK, Readings, NEW m \in Readers, Sound(m), CheckRaise(m)
  PROVE  Sound(m)'
<1> DEFINE rd == reader[m]
           c == Credit(m)
<1>1. /\ rd.at = "raise" /\ ~rd.fired /\ rd \in ReaderRec /\ c \in Nat
      /\ key \in BOOLEAN /\ returns \in Nat /\ rows \in Seq(RowState)
  BY SoundFields DEF CheckRaise, Step, Sane
<1>2. PICK at \in {"add_key", "resolve"} :
        /\ reader' = [reader EXCEPT ![m] = [rd EXCEPT !.at = at]]
        /\ IF Raises(rd.value) /\ ~key THEN at = "add_key" ELSE at = "resolve"
  BY DEF CheckRaise, Step, Go, KeyOpen
<1>3. rows' = rows /\ key' = key /\ returns' = returns /\ last' = last /\ mishaps' = mishaps
  BY DEF CheckRaise, audit
<1> DEFINE to == [rd EXCEPT !.at = at]
<1>4. /\ to.at = at /\ to.value = rd.value /\ ~to.fired
      /\ to.mine = rd.mine /\ to.resolved = rd.resolved /\ to.savepoint = rd.savepoint
  BY <1>1, MovedTo
<1> HIDE DEF to
<1>5. ~Firing(rd) /\ ~Firing(to) /\ Held(rows, to) = Held(rows, rd) /\ Total(rows, to) = Total(rows, rd)
  BY <1>1, <1>4 DEF Firing, Held, Total
<1>10. Number(Firing(rd)) = 0 /\ Number(Firing(to)) = 0
  BY <1>5 DEF Number
<1>6. RowsSound(rows, rd, key, c) /\ EpisodesSound(rows, rd, key, c, returns, last)
  BY DEF Sound
<1> HIDE DEF rd, c
<1>7. Held(rows, to) \in Nat /\ Total(rows, to) \in Nat
  BY <1>1, <1>5, HeldIsNat
<1>8. RowsSound(rows, to, key, c)
  <2>1. Held(rows, to) <= Number(key) + c
    BY <1>1, <1>5, <1>6, <1>7 DEF RowsSound, Number
  <2>2. at = "add_key" => Held(rows, to) <= c
    BY <1>1, <1>2, <1>7, <2>1 DEF Number
  <2> QED
    BY <1>2, <1>4, <1>5, <1>6, <1>10, <2>2 DEF RowsSound
<1>9. EpisodesSound(rows, to, key, c, returns, last)
  BY <1>1, <1>2, <1>4, <1>5, <1>6 DEF EpisodesSound
<1> QED
  BY <1>1, <1>2, <1>3, <1>8, <1>9, OwnStill DEF c, rd, to

\* The key is set.
LEMMA OwnAddKey ==
  ASSUME TypeOK, Readings, NEW m \in Readers, Sound(m), AddKey(m)
  PROVE  Sound(m)'
<1> DEFINE rd == reader[m]
           c == Credit(m)
           to == [rd EXCEPT !.at = "resolve", !.fired = TRUE]
<1>1. /\ rd.at = "add_key" /\ ~rd.fired /\ rd \in ReaderRec /\ c \in Nat /\ Raises(rd.value)
      /\ key \in BOOLEAN /\ returns \in Nat /\ rows \in Seq(RowState)
  BY SoundFields DEF AddKey, Sane
<1>2. reader' = [reader EXCEPT ![m] = to]
  BY DEF AddKey, Go
<1>3. rows' = rows /\ key' = TRUE /\ returns' = returns /\ last' = last /\ mishaps' = mishaps
  BY DEF AddKey, audit
<1>4. /\ to.at = "resolve" /\ to.value = rd.value /\ to.fired
      /\ to.mine = rd.mine /\ to.resolved = rd.resolved /\ to.savepoint = rd.savepoint
  BY <1>1 DEF ReaderRec
<1> HIDE DEF to
<1>5. /\ ~Firing(rd) /\ Firing(to) /\ Held(rows, to) = Held(rows, rd)
      /\ Number(Firing(rd)) = 0 /\ Number(Firing(to)) = 1
  BY <1>1, <1>4 DEF Firing, Held, Number
<1>6. RowsSound(rows, rd, key, c) /\ EpisodesSound(rows, rd, key, c, returns, last)
  BY DEF Sound
<1> HIDE DEF rd, c
<1>7. Held(rows, to) \in Nat /\ Total(rows, rd) \in Nat /\ Total(rows, to) = Total(rows, rd) + 1
  <2>1. Total(rows, to) = Len(rows) + Len(rd.mine) + 1
    BY <1>4, <1>5 DEF Total
  <2>2. /\ Total(rows, rd) = Len(rows) + Len(rd.mine) + 0 /\ Held(rows, rd) \in Nat
        /\ Len(rows) \in Nat /\ Len(rd.mine) \in Nat
    BY <1>1, <1>5, HeldIsNat
  <2> QED
    BY <1>5, <2>1, <2>2
<1>8. RowsSound(rows, to, TRUE, c)
  BY <1>1, <1>4, <1>5, <1>6, <1>7 DEF RowsSound, Number
<1>9. EpisodesSound(rows, to, TRUE, c, returns, last)
  <2>1. Total(rows, to) <= returns + c + Number(Raises(last))
    BY <1>1, <1>6, <1>7 DEF EpisodesSound
  <2>2. (TRUE /\ Raises(last)) <=> Raises(last)
    OBVIOUS
  <2>3. Number(TRUE /\ Raises(last)) = Number(Raises(last))
    BY DEF Number
  <2> QED
    BY <1>1, <1>4, <2>1, <2>3 DEF EpisodesSound
<1> QED
  BY <1>1, <1>2, <1>3, <1>8, <1>9, OwnStill DEF c, rd, to

\* The check before an alarm is resolved.
LEMMA OwnCheckResolve ==
  ASSUME TypeOK, Readings, NoMargin, NEW m \in Readers, Sound(m), CheckResolve(m)
  PROVE  Sound(m)'
<1> DEFINE rd == reader[m]
           c == Credit(m)
<1>1. /\ rd.at = "resolve" /\ (rd.fired => Raises(rd.value)) /\ rd \in ReaderRec /\ c \in Nat
      /\ key \in BOOLEAN /\ returns \in Nat /\ rows \in Seq(RowState) /\ rd.value \in Measured
  BY SoundFields DEF CheckResolve, Step, Sane, ReaderRec
<1>2. PICK at \in {"find", "insert"} :
        /\ reader' = [reader EXCEPT ![m] = [rd EXCEPT !.at = at]]
        /\ IF key /\ ~Keeps(rd.value) THEN at = "find" ELSE at = "insert"
  BY DEF CheckResolve, Step, Go
<1>3. rows' = rows /\ key' = key /\ returns' = returns /\ last' = last /\ mishaps' = mishaps
  BY DEF CheckResolve, audit
<1> DEFINE to == [rd EXCEPT !.at = at]
<1>4. /\ to.at = at /\ to.value = rd.value /\ to.fired = rd.fired
      /\ to.mine = rd.mine /\ to.resolved = rd.resolved /\ to.savepoint = rd.savepoint
  BY <1>1, MovedTo
<1> HIDE DEF to
<1>0. at = "find" => ~rd.fired
  BY <1>1, <1>2, RaisedIsKept
<1>5. (Firing(rd) <=> Firing(to)) /\ Held(rows, to) = Held(rows, rd)
  BY <1>0, <1>1, <1>2, <1>4 DEF Firing, Held
<1>10. Number(Firing(rd)) = Number(Firing(to)) /\ Total(rows, to) = Total(rows, rd)
  BY <1>4, <1>5 DEF Total, Number
<1>6. RowsSound(rows, rd, key, c) /\ EpisodesSound(rows, rd, key, c, returns, last)
  BY DEF Sound
<1> HIDE DEF rd, c
<1>8. RowsSound(rows, to, key, c)
  BY <1>1, <1>2, <1>4, <1>5, <1>6, <1>10 DEF RowsSound
<1>9. EpisodesSound(rows, to, key, c, returns, last)
  BY <1>1, <1>2, <1>4, <1>5, <1>6, <1>10 DEF EpisodesSound
<1> QED
  BY <1>1, <1>2, <1>3, <1>8, <1>9, OwnStill DEF c, rd, to

\* A frame is taken up: what the transaction holds is what it holds at the savepoint.
LEMMA OwnTakeFrame ==
  ASSUME TypeOK, Readings, NEW m \in Readers, Sound(m),
         NEW value \in Values, NEW n \in BatchSizes, TakeFrame(m, value, n)
  PROVE  Sound(m)'
<1> DEFINE rd == reader[m]
           c == Credit(m)
<1>1. /\ rd \in ReaderRec /\ c \in Nat /\ Sane(rd, Len(rows))
      /\ key \in BOOLEAN /\ returns \in Nat /\ rows \in Seq(RowState) /\ Raises(last) \in BOOLEAN
  BY SoundFields
<1>2. PICK to : /\ rd.at \in {"idle", "next"} /\ reader' = [reader EXCEPT ![m] = to]
                /\ to.at = "raise" /\ to.value = value /\ ~to.fired
                /\ to.mine = rd.mine /\ to.resolved = rd.resolved
                /\ to.savepoint = <<rd.mine, rd.resolved>>
  <2>1. CASE rd.at = "idle"
    <3>1. rd = Idle /\ reader' = [reader EXCEPT ![m] = Started(value, n)]
      BY <1>1, <2>1 DEF Sane, TakeFrame, Go, Started
    <3>2. /\ Started(value, n).at = "raise" /\ Started(value, n).value = value
          /\ ~Started(value, n).fired /\ Started(value, n).mine = Idle.mine
          /\ Started(value, n).resolved = Idle.resolved
          /\ Started(value, n).savepoint = <<Idle.mine, Idle.resolved>>
      BY DEF Started, Idle
    <3> QED
      BY <2>1, <3>1, <3>2
  <2>2. CASE rd.at = "next"
    <3>1. reader' = [reader EXCEPT ![m] = Continued(rd, value, n)]
      BY <2>2 DEF TakeFrame, Go, Continued
    <3>2. /\ Continued(rd, value, n).at = "raise" /\ Continued(rd, value, n).value = value
          /\ ~Continued(rd, value, n).fired /\ Continued(rd, value, n).mine = rd.mine
          /\ Continued(rd, value, n).resolved = rd.resolved
          /\ Continued(rd, value, n).savepoint = <<rd.mine, rd.resolved>>
      BY <1>1 DEF Continued, ReaderRec
    <3> QED
      BY <2>2, <3>1, <3>2
  <2> QED
    BY <2>1, <2>2 DEF TakeFrame
<1>3. /\ rows' = rows /\ key' = key /\ last' = value
      /\ returns' = returns + Number(Raises(last) /\ ~Raises(value))
  BY DEF TakeFrame, Number
<1>4. PICK k \in {0, 1} : mishaps' = mishaps + k
  BY OtherFields DEF TakeFrame, Mishap
<1>5. /\ ~Firing(rd) /\ ~Firing(to) /\ Held(rows, to) = Held(rows, rd)
      /\ Total(rows, to) = Total(rows, rd)
  BY <1>2 DEF Firing, Held, Total
<1>6. RowsSound(rows, rd, key, c) /\ EpisodesSound(rows, rd, key, c, returns, last)
  BY DEF Sound
<1>7. Number(Firing(rd)) = 0 /\ Number(Firing(to)) = 0 /\ Number(key) \in 0 .. 1
  BY <1>5 DEF Number
<1> DEFINE past == Raises(last)
           now == Raises(value)
<1> HIDE DEF rd, c, past, now
<1>8. Held(rows, to) \in Nat /\ Total(rows, to) \in Nat /\ Held(rows, rd) \in Nat
  BY <1>1, <1>5, HeldIsNat
<1>9. RowsSound(rows, to, key, c + k)
  <2>1. /\ Count(rows, {}) <= 1 + c /\ Held(rows, rd) <= Number(key) + c /\ Count(rows, {}) \in Nat
    BY <1>1, <1>6, <1>7, <1>8, CountIsNat DEF RowsSound
  <2>2. Count(rows, to.savepoint[2]) + Count(to.savepoint[1], {}) = Held(rows, rd)
    BY <1>2 DEF Held
  <2>3. Held(rows, to) + Number(Firing(to)) = Held(rows, rd)
    BY <1>5, <1>7, <1>8
  <2> QED
    BY <1>1, <1>2, <1>7, <1>8, <2>1, <2>2, <2>3 DEF RowsSound
<1>10. EpisodesSound(rows, to, key, c + k, returns', value)
  <2>1. /\ Total(rows, to) <= returns + c + Number(key /\ past) /\ past \in BOOLEAN
        /\ returns' = returns + Number(past /\ ~now)
    BY <1>1, <1>3, <1>5, <1>6 DEF EpisodesSound, past, now
  <2>2. CASE now
    <3>1. Number(now) = 1 /\ returns' = returns
      BY <1>1, <2>1, <2>2 DEF Number
    <3> QED
      BY <1>1, <1>2, <1>8, <2>1, <2>2, <3>1 DEF EpisodesSound, Number, now
  <2>3. CASE ~now
    <3>1. returns' = returns + Number(past)
      BY <2>1, <2>3 DEF Number
    <3>2. Total(rows, to) <= returns' + (c + k)
      BY <1>1, <1>8, <2>1, <3>1 DEF Number
    <3> QED
      BY <1>1, <1>2, <1>8, <2>3, <3>1, <3>2 DEF EpisodesSound, Number, now
  <2> QED
    BY <2>2, <2>3
<1> QED
  BY <1>1, <1>2, <1>3, <1>4, <1>9, <1>10, OwnStep DEF c, rd, now

\* The live rows that a session sees are those of the two parts.
LEMMA SeenParts ==
  ASSUME TypeOK, Readings, NEW r \in Readers
  PROVE  /\ Seen(r) = Merged(rows, reader[r].resolved, reader[r].mine)
         /\ LiveRows(Seen(r)) = LiveIn(Seen(r), {})
         /\ Seen(r) \in Seq(RowState) /\ Len(Seen(r)) = Len(rows) + Len(reader[r].mine)
         /\ Count(Seen(r), {}) = Held(rows, reader[r])
         /\ \A marks \in SUBSET (1 .. Len(rows)) :
              Count(Seen(r), marks) = Count(rows, marks \cup reader[r].resolved)
                                        + Count(reader[r].mine, {})
         /\ \A i \in LiveRows(Seen(r)) :
              /\ i \in Nat
              /\ i <= Len(rows) => i \in LiveIn(rows, reader[r].resolved)
              /\ i > Len(rows) => i - Len(rows) \in LiveIn(reader[r].mine, {})
<1> DEFINE s == rows
           own == reader[r].mine
           gone == reader[r].resolved
<1>1. s \in Seq(RowState) /\ own \in Seq(RowState) /\ gone \in SUBSET DOMAIN s /\ DOMAIN s = 1 .. Len(s)
  BY OtherFields, ReaderFieldsOf DEF Readings, Sane
<1>2. Seen(r) = Merged(s, gone, own)
  BY DEF Seen, Merged
<1>3. LiveRows(Seen(r)) = LiveIn(Seen(r), {})
  BY DEF LiveRows, LiveIn
<1> HIDE DEF s, own, gone
<1>4. Merged(s, gone, own) \in Seq(RowState) /\ Len(Merged(s, gone, own)) = Len(s) + Len(own)
  BY <1>1, CountMerged
<1>5. \A marks \in SUBSET (1 .. Len(s)) :
        Count(Merged(s, gone, own), marks) = Count(s, marks \cup gone) + Count(own, {})
  <2> SUFFICES ASSUME NEW marks \in SUBSET (1 .. Len(s))
               PROVE  Count(Merged(s, gone, own), marks) = Count(s, marks \cup gone) + Count(own, {})
    OBVIOUS
  <2>1. marks \subseteq DOMAIN s
    BY <1>1
  <2> QED
    BY <1>1, <2>1, CountMerged
<1>6. Count(Merged(s, gone, own), {}) = Count(s, gone) + Count(own, {})
  <2>1. {} \cup gone = gone /\ {} \in SUBSET (1 .. Len(s))
    OBVIOUS
  <2> QED
    BY <1>5, <2>1
<1>7. ASSUME NEW i \in LiveIn(Merged(s, gone, own), {})
      PROVE  /\ i \in Nat
             /\ i <= Len(s) => i \in LiveIn(s, gone)
             /\ i > Len(s) => i - Len(s) \in LiveIn(own, {})
  <2> DEFINE marked == [j \in DOMAIN s |-> IF j \in gone THEN "resolved" ELSE s[j]]
  <2>1. marked \in Seq(RowState) /\ Len(marked) = Len(s)
    <3>1. \A j \in DOMAIN s : s[j] \in RowState
      BY <1>1
    <3>2. marked \in [1 .. Len(s) -> RowState] /\ Len(s) \in Nat
      BY <1>1, <3>1 DEF RowState
    <3> HIDE DEF marked
    <3> QED
      BY <3>2
  <2>2. \A j \in 1 .. Len(s) : marked[j] = IF j \in gone THEN "resolved" ELSE s[j]
    BY <1>1
  <2> HIDE DEF marked
  <2>3. i \in 1 .. Len(s) + Len(own) /\ Merged(s, gone, own)[i] \in Live
    BY <1>1, <1>4 DEF LiveIn
  <2>4. Merged(s, gone, own) = marked \o own
    BY DEF Merged, marked
  <2>5. i <= Len(s) => Merged(s, gone, own)[i] = marked[i]
    BY <1>1, <2>1, <2>3, <2>4
  <2>6. i > Len(s) => Merged(s, gone, own)[i] = own[i - Len(s)] /\ i - Len(s) \in 1 .. Len(own)
    BY <1>1, <2>1, <2>3, <2>4
  <2>7. Len(s) \in Nat /\ Len(own) \in Nat /\ DOMAIN own = 1 .. Len(own)
    BY <1>1
  <2>8. i <= Len(s) => i \in LiveIn(s, gone)
    <3> SUFFICES ASSUME i <= Len(s) PROVE i \in LiveIn(s, gone)
      OBVIOUS
    <3>1. i \in 1 .. Len(s) /\ marked[i] \in Live
      BY <2>3, <2>5, <2>7
    <3> QED
      BY <1>1, <2>2, <3>1 DEF LiveIn, Live
  <2>9. i > Len(s) => i - Len(s) \in LiveIn(own, {})
    BY <2>3, <2>6, <2>7 DEF LiveIn
  <2> QED
    BY <2>3, <2>7, <2>8, <2>9
<1>8. Held(rows, reader[r]) = Count(s, gone) + Count(own, {})
  BY DEF Held, s, own, gone
<1>9. /\ LiveRows(Seen(r)) = LiveIn(Seen(r), {})
      /\ Seen(r) \in Seq(RowState) /\ Len(Seen(r)) = Len(s) + Len(own)
      /\ Count(Seen(r), {}) = Held(rows, reader[r])
      /\ \A marks \in SUBSET (1 .. Len(s)) :
           Count(Seen(r), marks) = Count(s, marks \cup gone) + Count(own, {})
      /\ \A i \in LiveRows(Seen(r)) :
           /\ i \in Nat
           /\ i <= Len(s) => i \in LiveIn(s, gone)
           /\ i > Len(s) => i - Len(s) \in LiveIn(own, {})
  BY <1>2, <1>3, <1>4, <1>5, <1>6, <1>7, <1>8
<1> QED
  BY <1>2, <1>9 DEF s, own, gone

\* A live row is chosen: resolving it makes one live row less.
LEMMA OwnFindRow ==
  ASSUME TypeOK, Readings, NEW m \in Readers, Sound(m), FindRow(m)
  PROVE  Sound(m)'
<1> DEFINE rd == reader[m]
           c == Credit(m)
           found(i) == IF i <= Len(rows) THEN i ELSE Len(rows) - i
           to(i) == [rd EXCEPT !.at = "drop_key", !.found = found(i)]
<1>1. /\ rd \in ReaderRec /\ c \in Nat /\ rows \in Seq(RowState) /\ rd.at = "find" /\ ~rd.fired
      /\ key \in BOOLEAN /\ ~Firing(rd)
  BY SoundFields DEF FindRow, Sane, Firing
<1>2. PICK i \in LiveRows(Seen(m)) \cup {NoRow} :
        reader' = [reader EXCEPT ![m] = to(i)] /\ (i = NoRow => LiveRows(Seen(m)) = {})
  <2>1. PICK i \in IF LiveRows(Seen(m)) = {} THEN {NoRow} ELSE LiveRows(Seen(m)) :
          reader' = [reader EXCEPT ![m] = to(i)]
    BY DEF FindRow, Go
  <2>2. \A j \in LiveRows(Seen(m)) : j # 0
    BY SeenParts DEF LiveRows
  <2> QED
    BY <2>1, <2>2 DEF NoRow
<1>3. i \in Nat /\ Len(rows) \in Nat
  BY <1>1, SeenParts DEF NoRow
<1> DEFINE f == found(i)
           next == to(i)
<1>4. f \in Int
  BY <1>3
<1>5. /\ next.at = "drop_key" /\ next.value = rd.value /\ next.found = f /\ ~next.fired
      /\ next.mine = rd.mine /\ next.resolved = rd.resolved /\ next.savepoint = rd.savepoint
  BY <1>1 DEF ReaderRec
<1>6. RowsSound(rows, rd, key, c) /\ EpisodesSound(rows, rd, key, c, returns, last)
  BY DEF Sound
<1>7. rd.mine \in Seq(RowState) /\ rd.resolved \subseteq 1 .. Len(rows)
  BY <1>1, SoundFields DEF ReaderRec, Sane
<1>8. f = IF i <= Len(rows) THEN i ELSE Len(rows) - i
  OBVIOUS
<1>0. /\ Count(Seen(m), {}) = Held(rows, rd) /\ LiveRows(Seen(m)) = LiveIn(Seen(m), {})
      /\ i \in LiveRows(Seen(m)) /\ i <= Len(rows) => i \in LiveIn(rows, rd.resolved)
      /\ i \in LiveRows(Seen(m)) /\ i > Len(rows) => i - Len(rows) \in LiveIn(rd.mine, {})
  BY SeenParts
<1> HIDE DEF f, next, rd, c
<1>9. Number(Firing(rd)) = 0 /\ ~Firing(next) /\ Number(Firing(next)) = 0
  BY <1>1, <1>5 DEF Firing, Number
<1>10. Held(rows, next) = Held(rows, rd) /\ Total(rows, next) = Total(rows, rd)
  BY <1>5, <1>9 DEF Held, Total
<1>11. /\ Count(rows, rd.resolved) \in Nat /\ Count(rd.mine, {}) \in Nat
       /\ Held(rows, rd) <= 1 + c /\ Held(rows, rd) = Count(rows, rd.resolved) + Count(rd.mine, {})
  <2>1. /\ Count(rows, rd.resolved) \in Nat /\ Count(rd.mine, {}) \in Nat
        /\ Held(rows, rd) = Count(rows, rd.resolved) + Count(rd.mine, {})
    BY <1>1, HeldIsNat DEF Held
  <2> QED
    BY <1>1, <1>6, <1>9, <2>1 DEF RowsSound, Number
<1>12. Count(rows, DropMarks(next)) + Count(DropMine(next), {}) <= c
  <2>1. CASE i = NoRow
    <3>1. Count(Seen(m), {}) = 0
      <4>1. Cardinality({}) = 0
        BY FS_EmptySet
      <4> QED
        BY <1>0, <1>2, <2>1, <4>1 DEF Count
    <3>2. f = 0
      BY <1>3, <1>8, <2>1 DEF NoRow
    <3>3. DropMarks(next) = rd.resolved /\ DropMine(next) = rd.mine
      BY <1>5, <3>2 DEF DropMarks, DropMine
    <3> QED
      BY <1>0, <1>1, <1>11, <3>1, <3>3
  <2>2. CASE i \in LiveRows(Seen(m)) /\ i <= Len(rows)
    <3>1. i \in LiveIn(rows, rd.resolved) /\ i > 0 /\ f = i
      <4>1. i \in LiveIn(rows, rd.resolved) /\ LiveIn(rows, rd.resolved) \subseteq 1 .. Len(rows)
        BY <1>0, <1>1, <2>2 DEF LiveIn
      <4> QED
        BY <1>3, <1>8, <2>2, <4>1
    <3>2. DropMarks(next) = rd.resolved \cup {i} /\ DropMine(next) = rd.mine
      BY <1>3, <1>5, <3>1 DEF DropMarks, DropMine
    <3>3. LiveIn(rows, rd.resolved \cup {i}) = LiveIn(rows, rd.resolved) \ {i}
      BY DEF LiveIn
    <3>4. Count(rows, rd.resolved \cup {i}) = Count(rows, rd.resolved) - 1
      BY <1>1, <3>1, <3>3, CountOneLess
    <3> QED
      BY <1>1, <1>11, <3>2, <3>4
  <2>3. CASE i \in LiveRows(Seen(m)) /\ i > Len(rows)
    <3>1. i - Len(rows) \in LiveIn(rd.mine, {}) /\ f < 0 /\ -f = i - Len(rows)
      BY <1>0, <1>3, <1>8, <2>3
    <3>2. DropMarks(next) = rd.resolved /\ DropMine(next) = [rd.mine EXCEPT ![-f] = "resolved"]
      BY <1>4, <1>5, <3>1 DEF DropMarks, DropMine
    <3>3. Count(DropMine(next), {}) = Count(rd.mine, {}) - 1
      <4>1. "resolved" \in RowState /\ -f \in LiveIn(rd.mine, {})
        BY <3>1 DEF RowState
      <4>2. Count([rd.mine EXCEPT ![-f] = "resolved"], {}) = Count(rd.mine, {}) - 1
        BY <1>7, <4>1, CountRewritten
      <4> QED
        BY <3>2, <4>2
    <3> QED
      BY <1>1, <1>11, <3>2, <3>3
  <2> QED
    BY <1>2, <1>3, <2>1, <2>2, <2>3
<1>13. RowsSound(rows, next, key, c)
  BY <1>5, <1>6, <1>9, <1>10, <1>12 DEF RowsSound
<1>14. EpisodesSound(rows, next, key, c, returns, last)
  BY <1>1, <1>5, <1>6, <1>10 DEF EpisodesSound
<1>15. /\ rows' = rows /\ key' = key /\ returns' = returns /\ last' = last /\ mishaps' = mishaps
       /\ reader' = [reader EXCEPT ![m] = next]
  BY <1>2 DEF FindRow, audit, next
<1> QED
  BY <1>13, <1>14, <1>15, OwnStill DEF c

\* The key is dropped, and the row marked.
LEMMA OwnDropKey ==
  ASSUME TypeOK, Readings, NoMargin, NEW m \in Readers, Sound(m), DropKey(m)
  PROVE  Sound(m)'
<1> DEFINE rd == reader[m]
           c == Credit(m)
           to == [rd EXCEPT !.at = "insert", !.resolved = DropMarks(rd), !.mine = DropMine(rd)]
<1>1. /\ rd \in ReaderRec /\ c \in Nat /\ rows \in Seq(RowState) /\ rd.at = "drop_key" /\ ~rd.fired
      /\ returns \in Nat /\ ~Keeps(rd.value) /\ rd.mine \in Seq(RowState) /\ rd.value \in Measured
  BY SoundFields DEF DropKey, Sane, ReaderRec
<1>2. reader' = [reader EXCEPT ![m] = to]
  BY DEF DropKey, Go, DropMarks, DropMine
<1>3. /\ rows' = rows /\ key' = FALSE /\ returns' = returns /\ last' = last /\ mishaps' = mishaps
  BY DEF DropKey, audit
<1> DEFINE marks == DropMarks(rd)
           mine == DropMine(rd)
<1>4. /\ to.at = "insert" /\ ~to.fired
      /\ to.mine = mine /\ to.resolved = marks /\ to.savepoint = rd.savepoint
  <2> HIDE DEF marks, mine
  <2>1. \A a, b : LET t == [rd EXCEPT !.at = "insert", !.resolved = a, !.mine = b]
                  IN  /\ t.at = "insert" /\ ~t.fired /\ t.mine = b /\ t.resolved = a
                      /\ t.savepoint = rd.savepoint
    BY <1>1 DEF ReaderRec
  <2> QED
    BY <2>1 DEF marks, mine
<1>5. mine \in Seq(RowState) /\ Len(mine) = Len(rd.mine)
  <2>1. "resolved" \in RowState
    BY DEF RowState
  <2> QED
    BY <1>1, <2>1, RewrittenRow DEF DropMine
<1>6. RowsSound(rows, rd, key, c) /\ EpisodesSound(rows, rd, key, c, returns, last)
  BY DEF Sound
<1>7. Count(rows, marks) + Count(mine, {}) <= c
  BY <1>1, <1>6 DEF RowsSound
<1> HIDE DEF marks, mine, to, rd, c
<1>8. /\ ~Firing(to) /\ Number(Firing(to)) = 0 /\ Held(rows, to) = Count(rows, marks) + Count(mine, {})
      /\ Count(rows, marks) \in Nat /\ Count(mine, {}) \in Nat
  BY <1>1, <1>4, <1>5, CountIsNat DEF Firing, Number, Held
<1>9. RowsSound(rows, to, FALSE, c)
  BY <1>1, <1>4, <1>6, <1>7, <1>8 DEF RowsSound, Number
<1>10. Total(rows, to) = Total(rows, rd) /\ Total(rows, rd) \in Nat
  <2>1. Number(Firing(rd)) = 0
    BY <1>1 DEF Firing, Number
  <2> QED
    BY <1>1, <1>4, <1>5, <1>8, <2>1, HeldIsNat DEF Total
<1>11. EpisodesSound(rows, to, FALSE, c, returns, last)
  <2>1. Total(rows, rd) <= returns + c
    BY <1>1, <1>6, RaisedIsKept DEF EpisodesSound
  <2>2. Number(FALSE /\ Raises(last)) = 0
    BY DEF Number
  <2> QED
    BY <1>1, <1>4, <1>10, <2>1, <2>2 DEF EpisodesSound
<1> QED
  BY <1>2, <1>3, <1>9, <1>11, OwnStill DEF c

\* The fired alarm becomes a row of the transaction.
LEMMA OwnInsert ==
  ASSUME TypeOK, Readings, NEW m \in Readers, Sound(m), Insert(m)
  PROVE  Sound(m)'
<1> DEFINE rd == reader[m]
           c == Credit(m)
           mine == IF rd.fired THEN Append(rd.mine, "active") ELSE rd.mine
           to == [rd EXCEPT !.at = "next", !.mine = mine]
<1>1. /\ rd \in ReaderRec /\ c \in Nat /\ rows \in Seq(RowState) /\ rd.at = "insert"
      /\ rd.fired \in BOOLEAN /\ rd.mine \in Seq(RowState)
  BY SoundFields DEF Insert, ReaderRec
<1>2. reader' = [reader EXCEPT ![m] = to]
  BY DEF Insert, Go
<1>3. /\ rows' = rows /\ key' = key /\ returns' = returns /\ last' = last /\ mishaps' = mishaps
  BY DEF Insert, audit
<1>4. /\ to.at = "next" /\ to.mine = mine /\ to.resolved = rd.resolved
      /\ to.savepoint = rd.savepoint
  <2> HIDE DEF mine
  <2> QED
    BY <1>1 DEF ReaderRec
<1>5. Firing(rd) <=> rd.fired
  BY <1>1 DEF Firing
<1>6. /\ Len(mine) = Len(rd.mine) + Number(Firing(rd))
      /\ Count(mine, {}) = Count(rd.mine, {}) + Number(Firing(rd))
  <2>1. Len(rd.mine) \in Nat /\ Count(rd.mine, {}) \in Nat
    BY <1>1, CountIsNat
  <2>2. CASE rd.fired
    BY <1>1, <1>5, <2>2, CountAppended DEF Number
  <2>3. CASE ~rd.fired
    <3>1. mine = rd.mine /\ Number(Firing(rd)) = 0
      BY <1>5, <2>3 DEF Number
    <3> HIDE DEF mine, rd
    <3> QED
      BY <2>1, <3>1
  <2> QED
    BY <2>2, <2>3
<1>7. RowsSound(rows, rd, key, c) /\ EpisodesSound(rows, rd, key, c, returns, last)
  BY DEF Sound
<1> HIDE DEF mine, to, rd, c
<1>8. Number(Firing(to)) = 0 /\ Number(Firing(rd)) \in 0 .. 1
  BY <1>4 DEF Firing, Number
<1>9. /\ Count(rows, rd.resolved) \in Nat /\ Count(rd.mine, {}) \in Nat /\ Len(rows) \in Nat
      /\ Len(rd.mine) \in Nat
  BY <1>1, CountIsNat
<1>10. Held(rows, to) = Held(rows, rd) + Number(Firing(rd)) /\ Total(rows, to) = Total(rows, rd)
  BY <1>4, <1>6, <1>8, <1>9 DEF Held, Total
<1>11. Held(rows, to) + Number(Firing(to)) = Held(rows, rd) + Number(Firing(rd))
  BY <1>8, <1>9, <1>10 DEF Held
<1>12. RowsSound(rows, to, key, c)
  BY <1>4, <1>7, <1>11 DEF RowsSound
<1>13. EpisodesSound(rows, to, key, c, returns, last)
  BY <1>4, <1>7, <1>10 DEF EpisodesSound
<1> QED
  BY <1>2, <1>3, <1>12, <1>13, OwnStill DEF c

\* A frame that fails leaves what the transaction holds.
LEMMA OwnFrameFails ==
  ASSUME TypeOK, Readings, NEW m \in Readers, Sound(m), FrameFails(m)
  PROVE  Sound(m)'
<1> DEFINE rd == reader[m]
           c == Credit(m)
           to == [rd EXCEPT !.at = "next"]
<1>1. /\ rd \in ReaderRec /\ c \in Nat /\ rows \in Seq(RowState) /\ returns \in Nat
      /\ key \in BOOLEAN
  BY SoundFields
<1>2. reader' = [reader EXCEPT ![m] = to]
  BY DEF FrameFails, Go
<1>3. /\ rows' = rows /\ key' = key /\ returns' = returns /\ last' = last /\ mishaps' = mishaps + 1
  BY DEF FrameFails, audit, Mishap
<1>4. /\ to.at = "next" /\ to.mine = rd.mine /\ to.resolved = rd.resolved
      /\ to.savepoint = rd.savepoint
  BY <1>1, MovedTo
<1>5. RowsSound(rows, rd, key, c) /\ EpisodesSound(rows, rd, key, c, returns, last)
  BY DEF Sound
<1> HIDE DEF to, rd, c
<1>6. Number(Firing(to)) = 0 /\ Number(Firing(rd)) \in 0 .. 1 /\ Number(key) \in 0 .. 1
  BY <1>4 DEF Firing, Number
<1>7. /\ Held(rows, to) = Held(rows, rd) /\ Held(rows, rd) \in Nat
      /\ Total(rows, to) <= Total(rows, rd) /\ Total(rows, rd) \in Nat /\ Total(rows, to) \in Nat
  BY <1>1, <1>4, <1>6, HeldIsNat DEF Held, Total
<1>8. Count(rows, {}) \in Nat /\ Count(rows, rd.savepoint[2]) \in Nat /\ Count(rd.savepoint[1], {}) \in Nat
  BY <1>1, CountIsNat DEF ReaderRec
<1>9. RowsSound(rows, to, key, c + 1)
  BY <1>1, <1>4, <1>5, <1>6, <1>7, <1>8 DEF RowsSound
<1>10. EpisodesSound(rows, to, key, c + 1, returns, last)
  BY <1>1, <1>4, <1>5, <1>7 DEF EpisodesSound, Number
<1> QED
  BY <1>2, <1>3, <1>9, <1>10, OwnStep DEF c

\* A frame that is rolled back takes the transaction to its savepoint.
LEMMA OwnRolledBack ==
  ASSUME TypeOK, Readings, Flusher \in Readers, Sound(Flusher), FrameRolledBack
  PROVE  Sound(Flusher)'
<1> DEFINE rd == reader[Flusher]
           c == Credit(Flusher)
           to == [rd EXCEPT !.mine = rd.savepoint[1], !.resolved = rd.savepoint[2]]
<1>1. /\ rd \in ReaderRec /\ c \in Nat /\ rows \in Seq(RowState) /\ returns \in Nat
      /\ key \in BOOLEAN /\ rd.at = "next" /\ Len(rd.savepoint[1]) <= Len(rd.mine)
      /\ rd.savepoint[1] \in Seq(RowState)
  BY SoundFields, ReaderFieldsOf DEF FrameRolledBack, Sane
<1>2. reader' = [reader EXCEPT ![Flusher] = to]
  BY DEF FrameRolledBack, Go
<1>3. /\ rows' = rows /\ key' = key /\ returns' = returns /\ last' = last /\ mishaps' = mishaps + 1
  BY DEF FrameRolledBack, audit, Mishap
<1>4. /\ to.at = "next" /\ to.mine = rd.savepoint[1] /\ to.resolved = rd.savepoint[2]
      /\ to.savepoint = rd.savepoint
  BY <1>1 DEF ReaderRec
<1>5. RowsSound(rows, rd, key, c) /\ EpisodesSound(rows, rd, key, c, returns, last)
  BY DEF Sound
<1> HIDE DEF to, rd, c
<1>6. Number(Firing(to)) = 0 /\ Number(Firing(rd)) = 0 /\ Number(key) \in 0 .. 1
  BY <1>1, <1>4 DEF Firing, Number
<1>7. /\ Len(rows) \in Nat /\ Len(rd.mine) \in Nat /\ Len(to.mine) \in Nat
      /\ Total(rows, rd) = Len(rows) + Len(rd.mine) + 0
  BY <1>1, <1>4, <1>6, HeldIsNat
<1>8. /\ Count(rows, {}) \in Nat /\ Count(rows, rd.savepoint[2]) \in Nat
      /\ Count(rd.savepoint[1], {}) \in Nat
  BY <1>1, CountIsNat
<1>9. RowsSound(rows, to, key, c + 1)
  <2>1. Held(rows, to) = Count(rows, rd.savepoint[2]) + Count(rd.savepoint[1], {})
    BY <1>4 DEF Held
  <2>2. Held(rows, to) <= 1 + c
    BY <1>5, <2>1 DEF RowsSound
  <2> QED
    BY <1>1, <1>4, <1>5, <1>6, <1>8, <2>1, <2>2 DEF RowsSound
<1>10. EpisodesSound(rows, to, key, c + 1, returns, last)
  <2>1. Total(rows, to) = Len(rows) + Len(to.mine) + 0
    BY <1>6 DEF Total
  <2>2. Total(rows, to) <= Total(rows, rd) /\ Total(rows, to) \in Nat /\ Total(rows, rd) \in Nat
    BY <1>1, <1>4, <1>7, <2>1
  <2> QED
    BY <1>1, <1>4, <1>5, <2>2 DEF EpisodesSound, Number
<1> QED
  BY <1>2, <1>3, <1>9, <1>10, OwnStep DEF c

\* A reader at rest holds nothing.
LEMMA IdleHolds ==
  /\ ~Firing(Idle) /\ ~Holding(Idle) /\ Idle.at = "idle" /\ Idle.mine = << >> /\ Idle.resolved = {}
  /\ Idle.savepoint = << << >>, {} >>
  /\ \A s : Held(s, Idle) = Count(s, {}) + Count(<< >>, {})
BY DEF Firing, Holding, Idle, Held

\* A transaction that ends leaves its rows, or those there were.
LEMMA OwnEnd ==
  ASSUME TypeOK, Readings, NEW m \in Readers, Sound(m), Commit(m) \/ CommitFails(m)
  PROVE  Sound(m)'
<1> DEFINE rd == reader[m]
           c == Credit(m)
<1>1. /\ rd \in ReaderRec /\ c \in Nat /\ rows \in Seq(RowState) /\ returns \in Nat
      /\ key \in BOOLEAN /\ rd.at = "next" /\ Raises(last) \in BOOLEAN
  BY SoundFields DEF Commit, CommitFails
<1>2. /\ reader' = [reader EXCEPT ![m] = Idle]
      /\ key' = key /\ returns' = returns /\ last' = last
  BY DEF Commit, CommitFails, Go, audit
<1>3. RowsSound(rows, rd, key, c) /\ EpisodesSound(rows, rd, key, c, returns, last)
  BY DEF Sound
<1>0. /\ Seen(m) \in Seq(RowState) /\ Len(Seen(m)) = Len(rows) + Len(rd.mine)
      /\ Count(Seen(m), {}) = Held(rows, rd)
  BY SeenParts
<1> HIDE DEF rd, c
<1>4. Number(Firing(rd)) = 0 /\ Number(key) \in 0 .. 1 /\ Number(Firing(Idle)) = 0
  BY <1>1, IdleHolds DEF Firing, Number
<1>5. /\ Len(rows) \in Nat /\ Len(rd.mine) \in Nat /\ Held(rows, rd) \in Nat
      /\ Total(rows, rd) = Len(rows) + Len(rd.mine) + 0 /\ Count(rows, {}) \in Nat
  BY <1>1, <1>4, HeldIsNat, CountIsNat
<1>6. \A s : Total(s, Idle) = Len(s) + 0 + 0 /\ Held(s, Idle) = Count(s, {}) + 0
  BY <1>4, IdleHolds, CountEmpty DEF Total
<1>7. CASE Commit(m)
  <2>1. rows' = Seen(m) /\ mishaps' = mishaps
    BY <1>7 DEF Commit
  <2>2. Count(Seen(m), {}) <= Number(key) + c
    BY <1>0, <1>3, <1>4, <1>5 DEF RowsSound
  <2>3. RowsSound(Seen(m), Idle, key, c)
    BY <1>0, <1>1, <1>4, <1>5, <1>6, <2>2, IdleHolds, CountEmpty DEF RowsSound
  <2>4. Total(Seen(m), Idle) = Total(rows, rd)
    BY <1>0, <1>5, <1>6
  <2>5. EpisodesSound(Seen(m), Idle, key, c, returns, last)
    BY <1>3, <2>4, IdleHolds DEF EpisodesSound
  <2> QED
    BY <1>2, <2>1, <2>3, <2>5, OwnStill DEF c
<1>8. CASE CommitFails(m)
  <2>1. rows' = rows /\ mishaps' = mishaps + 1
    BY <1>8 DEF CommitFails, Mishap
  <2>2. RowsSound(rows, Idle, key, c + 1)
    BY <1>1, <1>3, <1>4, <1>5, <1>6, IdleHolds, CountEmpty DEF RowsSound
  <2>3. Total(rows, Idle) <= Total(rows, rd) /\ Total(rows, Idle) \in Nat /\ Total(rows, rd) \in Nat
    BY <1>5, <1>6
  <2>4. EpisodesSound(rows, Idle, key, c + 1, returns, last)
    BY <1>1, <1>3, <2>3, IdleHolds DEF EpisodesSound, Number
  <2> QED
    BY <1>2, <2>1, <2>2, <2>4, OwnStep DEF c
<1> QED
  BY <1>7, <1>8

\* Every step of the main reader keeps it sound.
LEMMA OwnKeeps ==
  ASSUME TypeOK, Readings, NoMargin, NEW m \in Readers, Sound(m), ReaderStep(m)
  PROVE  Sound(m)'
BY OwnTakeFrame, OwnCheckRaise, OwnAddKey, OwnCheckResolve, OwnFindRow, OwnDropKey, OwnInsert,
   OwnFrameFails, OwnEnd DEF ReaderStep

-----------------------------------------------------------------------------
(* The steps of the others                                                 *)

\* A step that is not the main reader's keeps it sound: g is what it gains in credit, k how
\* many rows it commits or revives.
LEMMA OthersKeep ==
  ASSUME TypeOK, TypeOK', Readings, NEW m \in Readers, Sound(m), reader'[m] = reader[m],
         Busy(Flusher)' => m = Flusher, IsFiniteSet(HoldersIn(m, reader')),
         NEW d \in Nat, NEW g \in Nat, NEW k \in Nat, mishaps' = mishaps + d,
         Cardinality(HoldersIn(m, reader')) + g <= Cardinality(HoldersIn(m, reader)) + d,
         k <= g, Number(key) + k <= Number(key') + g,
         returns' = returns + Number(Raises(last) /\ ~Raises(last')),
         Len(rows') <= Len(rows) + k,
         \A marks \in SUBSET (1 .. Len(rows)) : Count(rows', marks) <= Count(rows, marks) + k
  PROVE  Sound(m)'
<1> DEFINE c1 == mishaps' - Cardinality(HoldersIn(m, reader'))
<1>1. /\ Credit(m) \in Nat /\ reader[m] \in ReaderRec /\ Sane(reader[m], Len(rows))
      /\ rows \in Seq(RowState) /\ key \in BOOLEAN /\ returns \in Nat
      /\ last \in Measured /\ mishaps \in Nat /\ Cardinality(HoldersIn(m, reader)) \in Nat
  BY SoundFields, OtherFields
<1>2. /\ rows' \in Seq(RowState) /\ key' \in BOOLEAN /\ returns' \in Nat /\ last' \in Measured
  BY DEF TypeOK, Measured
<1>4. Cardinality(HoldersIn(m, reader')) \in Nat
  BY FS_CardinalityType
<1>5. c1 \in Nat /\ c1 >= Credit(m) + g
  BY <1>1, <1>4 DEF Credit
<1>6. Number(key) \in 0 .. 1 /\ Number(key') \in 0 .. 1
  BY DEF Number
<1>7. c1 >= Credit(m) + k /\ c1 + Number(key') >= Credit(m) + Number(key) + k
  <2> HIDE DEF c1
  <2> QED
    BY <1>1, <1>5, <1>6
<1>8. /\ RowsSound(rows, reader[m], key, Credit(m))
      /\ EpisodesSound(rows, reader[m], key, Credit(m), returns, last)
  BY DEF Sound
<1> HIDE DEF c1
<1>9. RowsSound(rows', reader[m], key', c1)
  BY <1>1, <1>2, <1>5, <1>7, <1>8, RowsKept
<1>10. EpisodesSound(rows', reader[m], key', c1, returns', last')
  <2>1. returns' \in {returns, returns + 1} /\ (returns' = returns => ~Raises(last) \/ Raises(last'))
    BY <1>1 DEF Number
  <2> QED
    <3>1. Afforded(rows, key, Credit(m), returns, last, rows', key', c1, returns', last', k)
      BY <1>1, <1>2, <1>5, <1>7, <2>1 DEF Afforded
    <3> QED
      BY <1>1, <1>8, <3>1, EpisodesKept
<1>11. Credit(m)' = c1
  BY DEF Credit, c1
<1>12. Raises(last)' = Raises(last')
  BY DEF Raises, IsViolated
<1>13. IsFiniteSet(HoldersIn(m, reader))' /\ Credit(m)' >= 0
  BY <1>5, <1>11
<1> QED
  BY <1>9, <1>10, <1>11, <1>12, <1>13 DEF Sound

\* Those that hold a mishap, after a step of one of them.
LEMMA HoldersAfter ==
  ASSUME TypeOK, NEW m \in Readers, IsFiniteSet(HoldersIn(m, reader)), NEW r \in Readers, r # m,
         NEW to, reader' = [reader EXCEPT ![r] = to]
  PROVE  /\ reader'[m] = reader[m] /\ reader'[r] = to
         /\ IsFiniteSet(HoldersIn(m, reader')) /\ Cardinality(HoldersIn(m, reader')) \in Nat
         /\ Cardinality(HoldersIn(m, reader)) \in Nat
         /\ Cardinality(HoldersIn(m, reader')) <= Cardinality(HoldersIn(m, reader)) + 1
         /\ (Holding(to) => Holding(reader[r])) =>
              Cardinality(HoldersIn(m, reader')) <= Cardinality(HoldersIn(m, reader))
         /\ Holding(reader[r]) /\ ~Holding(to) =>
              Cardinality(HoldersIn(m, reader')) + 1 = Cardinality(HoldersIn(m, reader))
<1> DEFINE H == HoldersIn(m, reader)
           K == HoldersIn(m, reader')
<1>1. reader \in [Readers -> ReaderRec]
  BY DEF TypeOK, ReaderRec, Measured
<1>2. /\ reader'[r] = to /\ \A s \in Readers \ {r} : reader'[s] = reader[s]
  BY <1>1
<1>3. K \subseteq H \cup {r}
  BY <1>2 DEF HoldersIn
<1>4. (Holding(to) => Holding(reader[r])) => K \subseteq H
  BY <1>2 DEF HoldersIn
<1>5. Holding(reader[r]) /\ ~Holding(to) => K = H \ {r} /\ r \in H
  BY <1>2 DEF HoldersIn
<1> HIDE DEF H, K
<1>6. IsFiniteSet(H) /\ Cardinality(H) \in Nat
  BY FS_CardinalityType DEF H
<1>7. IsFiniteSet(H \cup {r}) /\ Cardinality(H \cup {r}) <= Cardinality(H) + 1
  BY <1>6, FS_AddElement
<1>8. IsFiniteSet(K) /\ Cardinality(K) \in Nat /\ Cardinality(K) <= Cardinality(H) + 1
  BY <1>3, <1>6, <1>7, FS_Subset, FS_CardinalityType
<1>9. (Holding(to) => Holding(reader[r])) => Cardinality(K) <= Cardinality(H)
  BY <1>4, <1>6, FS_Subset
<1>10. Holding(reader[r]) /\ ~Holding(to) => Cardinality(K) + 1 = Cardinality(H)
  <2> SUFFICES ASSUME Holding(reader[r]), ~Holding(to) PROVE Cardinality(K) + 1 = Cardinality(H)
    OBVIOUS
  <2>1. K = H \ {r} /\ r \in H
    BY <1>5
  <2>2. Cardinality(H \ {r}) = Cardinality(H) - 1
    BY <1>6, <2>1, FS_RemoveElement
  <2> QED
    BY <1>6, <2>1, <2>2
<1> QED
  BY <1>2, <1>6, <1>8, <1>9, <1>10 DEF H, K

\* A reader beside the main one is a request: the flusher at work is the main reader.
LEMMA OtherIsRequest ==
  ASSUME TypeOK, Readings, NEW m \in Readers, Sound(m), NEW r \in Readers, r # m, Busy(r)
  PROVE  /\ r \in Requests /\ r # Flusher /\ Single(reader[r]) /\ Sane(reader[r], Len(rows))
         /\ reader[r] \in ReaderRec
BY ReaderFieldsOf, AlarmsAssumption DEF Sound, Readers, Readings, AlarmsAssumption

\* A step of another reader that commits nothing.
LEMMA OtherQuiet ==
  ASSUME TypeOK, TypeOK', Readings, NEW m \in Readers, Sound(m), NEW r \in Readers, r # m, Busy(r),
         NEW to, reader' = [reader EXCEPT ![r] = to], NEW d \in Nat, mishaps' = mishaps + d,
         rows' = rows, last' = last, returns' = returns, Holding(to) => Holding(reader[r]),
         \/ key' = key \/ key'
         \/ Holding(reader[r]) /\ ~Holding(to)
  PROVE  Sound(m)'
<1>1. r # Flusher /\ Sound(m)
  BY OtherIsRequest
<1> DEFINE g == IF Holding(reader[r]) /\ ~Holding(to) THEN 1 ELSE 0
<1>2. /\ reader'[m] = reader[m] /\ IsFiniteSet(HoldersIn(m, reader'))
      /\ Cardinality(HoldersIn(m, reader')) + g <= Cardinality(HoldersIn(m, reader)) + d
  <2>1. IsFiniteSet(HoldersIn(m, reader))
    BY DEF Sound
  <2>2. /\ reader'[m] = reader[m] /\ IsFiniteSet(HoldersIn(m, reader'))
        /\ Cardinality(HoldersIn(m, reader)) \in Nat /\ Cardinality(HoldersIn(m, reader')) \in Nat
        /\ Cardinality(HoldersIn(m, reader')) <= Cardinality(HoldersIn(m, reader))
    BY <2>1, HoldersAfter
  <2>3. CASE Holding(reader[r]) /\ ~Holding(to)
    <3>1. Cardinality(HoldersIn(m, reader')) + 1 = Cardinality(HoldersIn(m, reader)) /\ g = 1
      BY <2>1, <2>3, HoldersAfter
    <3> QED
      BY <2>2, <3>1
  <2>4. CASE ~(Holding(reader[r]) /\ ~Holding(to))
    <3>1. g = 0
      BY <2>4
    <3> QED
      BY <2>2, <3>1
  <2> QED
    BY <2>3, <2>4
<1>3. Busy(Flusher)' => m = Flusher
  <2>1. Flusher \in Readers /\ reader \in [Readers -> ReaderRec]
    BY DEF Readers, TypeOK, ReaderRec, Measured
  <2>2. reader'[Flusher] = reader[Flusher]
    BY <1>1, <2>1 DEF Number
  <2> QED
    BY <2>2 DEF Busy, Sound
<1>4. Number(key) + 0 <= Number(key') + g /\ 0 <= g /\ g \in Nat
  <2>1. key \in BOOLEAN /\ key' \in BOOLEAN /\ g \in {0, 1}
    BY DEF TypeOK
  <2>2. key' = key \/ key' \/ g = 1
    OBVIOUS
  <2> HIDE DEF g
  <2> QED
    BY <2>1, <2>2 DEF Number
<1>5. returns' = returns + Number(Raises(last) /\ ~Raises(last'))
  BY OtherFields DEF Number
<1>6. /\ Len(rows') <= Len(rows) + 0
      /\ \A marks \in SUBSET (1 .. Len(rows)) : Count(rows', marks) <= Count(rows, marks) + 0
  <2>1. rows \in Seq(RowState)
    BY OtherFields
  <2> QED
    BY <2>1, CountIsNat
<1> HIDE DEF g
<1> QED
  BY <1>2, <1>3, <1>4, <1>5, <1>6, OthersKeep

\* A step of another reader, between its first and its last.
LEMMA OtherMoves ==
  ASSUME TypeOK, TypeOK', Readings, NEW m \in Readers, Sound(m), NEW r \in Readers, r # m,
         CheckRaise(r) \/ AddKey(r) \/ CheckResolve(r) \/ FindRow(r) \/ DropKey(r) \/ Insert(r)
           \/ FrameFails(r) \/ CommitFails(r)
  PROVE  Sound(m)'
<1> DEFINE rd == reader[r]
<1>1. Busy(r) /\ rd.at # "idle"
  BY DEF CheckRaise, AddKey, CheckResolve, FindRow, DropKey, Insert, FrameFails, CommitFails, Step,
         Busy
<1>2. /\ Single(rd) /\ Sane(rd, Len(rows)) /\ rd \in ReaderRec /\ mishaps \in Nat
      /\ rd.mine \in Seq(RowState) /\ rd.fired \in BOOLEAN
  BY <1>1, OtherIsRequest, OtherFields DEF ReaderRec
<1>3. rows' = rows /\ last' = last /\ returns' = returns
  BY DEF CheckRaise, AddKey, CheckResolve, FindRow, DropKey, Insert, FrameFails, CommitFails, audit
<1>4. PICK d \in {0, 1} : mishaps' = mishaps + d
  <2>1. mishaps' = mishaps \/ mishaps' = mishaps + 1
    BY DEF CheckRaise, AddKey, CheckResolve, FindRow, DropKey, Insert, FrameFails, CommitFails,
           Mishap
  <2>2. mishaps = mishaps + 0
    BY <1>2
  <2> QED
    BY <2>1, <2>2
<1>5. PICK to : /\ reader' = [reader EXCEPT ![r] = to]
                /\ Holding(to) => Holding(rd)
                /\ key' = key \/ key' \/ (Holding(rd) /\ ~Holding(to))
  <2>1. CASE CheckRaise(r) \/ AddKey(r) \/ CheckResolve(r) \/ FindRow(r)
    <3>1. Holding(rd)
      BY <2>1 DEF CheckRaise, AddKey, CheckResolve, FindRow, Step, Holding
    <3>2. key' = key \/ key'
      BY <2>1 DEF CheckRaise, AddKey, CheckResolve, FindRow
    <3>3. \E to : reader' = [reader EXCEPT ![r] = to]
      <4>1. CASE CheckRaise(r)
        BY <4>1 DEF CheckRaise, Step, Go
      <4>2. CASE AddKey(r)
        BY <4>2 DEF AddKey, Go
      <4>3. CASE CheckResolve(r)
        BY <4>3 DEF CheckResolve, Step, Go
      <4>4. CASE FindRow(r)
        BY <4>4 DEF FindRow, Go
      <4> QED
        BY <2>1, <4>1, <4>2, <4>3, <4>4
    <3> QED
      BY <3>1, <3>2, <3>3
  <2>2. CASE DropKey(r)
    <3> DEFINE to == [rd EXCEPT !.at = "insert", !.resolved = DropMarks(rd), !.mine = DropMine(rd)]
    <3>1. rd.at = "drop_key" /\ ~rd.fired /\ reader' = [reader EXCEPT ![r] = to]
      BY <1>2, <2>2 DEF DropKey, Go, DropMarks, DropMine, Sane
    <3>2. to.at = "insert" /\ ~to.fired
      BY <1>2, <3>1 DEF ReaderRec
    <3> HIDE DEF to
    <3> QED
      BY <3>1, <3>2 DEF Holding
  <2>3. CASE Insert(r)
    <3> DEFINE mine == IF rd.fired THEN Append(rd.mine, "active") ELSE rd.mine
               to == [rd EXCEPT !.at = "next", !.mine = mine]
    <3>1. rd.at = "insert" /\ reader' = [reader EXCEPT ![r] = to] /\ key' = key
      BY <2>3 DEF Insert, Go
    <3>2. to.at = "next" /\ to.mine = mine
      <4> HIDE DEF mine
      <4> QED
        BY <1>2 DEF ReaderRec
    <3>3. ~rd.fired => mine = << >>
      BY <1>2, <3>1 DEF Single
    <3> HIDE DEF to, mine
    <3> QED
      BY <1>2, <3>1, <3>2, <3>3 DEF Holding
  <2>4. CASE FrameFails(r)
    <3> DEFINE to == [rd EXCEPT !.at = "next"]
    <3>1. rd.at # "next" /\ reader' = [reader EXCEPT ![r] = to] /\ key' = key
      BY <2>4 DEF FrameFails, Go
    <3>2. to.at = "next" /\ to.mine = rd.mine
      BY <1>2, MovedTo
    <3>3. rd.mine = << >>
      BY <1>2, <3>1 DEF Single
    <3> HIDE DEF to
    <3> QED
      BY <3>1, <3>2, <3>3 DEF Holding
  <2>5. CASE CommitFails(r)
    <3>1. reader' = [reader EXCEPT ![r] = Idle] /\ key' = key
      BY <2>5 DEF CommitFails, Go
    <3> QED
      BY <3>1, IdleHolds
  <2> QED
    BY <2>1, <2>2, <2>3, <2>4, <2>5
<1>6. d \in Nat
  BY <1>4
<1> QED
  BY <1>1, <1>3, <1>4, <1>5, <1>6, OtherQuiet

\* Another transaction commits: its one row is paid for.
LEMMA OtherCommits ==
  ASSUME TypeOK, TypeOK', Readings, NEW m \in Readers, Sound(m), NEW r \in Readers, r # m, Commit(r)
  PROVE  Sound(m)'
<1> DEFINE rd == reader[r]
           k == Len(rd.mine)
<1>1. /\ rd.at = "next" /\ Busy(r) /\ reader' = [reader EXCEPT ![r] = Idle] /\ rows' = Seen(r)
      /\ key' = key /\ last' = last /\ returns' = returns /\ mishaps' = mishaps
  BY DEF Commit, Go, Busy, audit
<1>2. /\ r # Flusher /\ Single(rd) /\ Sane(rd, Len(rows)) /\ rd \in ReaderRec
      /\ rd.mine \in Seq(RowState)
  BY <1>1, OtherIsRequest DEF ReaderRec
<1>3. k \in {0, 1} /\ (k = 1 <=> rd.mine # << >>)
  <2>1. Len(rd.mine) \in Nat /\ Len(rd.mine) <= 1 /\ (Len(rd.mine) = 0 <=> rd.mine = << >>)
    <3>1. \A s \in Seq(RowState) : Len(s) \in Nat /\ (Len(s) = 0 <=> s = << >>)
      OBVIOUS
    <3> HIDE DEF rd
    <3> QED
      BY <1>2, <3>1 DEF Single
  <2>2. Len(rd.mine) = 0 \/ Len(rd.mine) = 1
    <3>1. \A i \in Nat : i <= 1 => i = 0 \/ i = 1
      OBVIOUS
    <3> QED
      BY <2>1, <3>1
  <2> QED
    BY <2>1, <2>2
<1>4. /\ reader'[m] = reader[m] /\ IsFiniteSet(HoldersIn(m, reader'))
      /\ Cardinality(HoldersIn(m, reader')) + k <= Cardinality(HoldersIn(m, reader)) + 0
  <2>1. IsFiniteSet(HoldersIn(m, reader)) /\ ~Holding(Idle)
    BY IdleHolds DEF Sound
  <2>2. /\ reader'[m] = reader[m] /\ IsFiniteSet(HoldersIn(m, reader'))
        /\ Cardinality(HoldersIn(m, reader)) \in Nat /\ Cardinality(HoldersIn(m, reader')) \in Nat
        /\ Cardinality(HoldersIn(m, reader')) <= Cardinality(HoldersIn(m, reader))
        /\ Holding(rd) =>
             Cardinality(HoldersIn(m, reader')) + 1 = Cardinality(HoldersIn(m, reader))
    BY <1>1, <2>1, HoldersAfter
  <2>3. k = 1 => Holding(rd)
    BY <1>1, <1>3 DEF Holding
  <2> HIDE DEF k
  <2> QED
    BY <1>3, <2>2, <2>3
<1>5. Busy(Flusher)' => m = Flusher
  <2>1. Flusher \in Readers /\ reader \in [Readers -> ReaderRec]
    BY DEF Readers, TypeOK, ReaderRec, Measured
  <2>2. reader'[Flusher] = reader[Flusher]
    BY <1>1, <1>2, <2>1
  <2> QED
    BY <2>2 DEF Busy, Sound
<1>6. Len(rows') = Len(rows) + k /\ Len(rows) \in Nat
  BY <1>1, SeenParts, OtherFields
<1>7. ASSUME NEW marks \in SUBSET (1 .. Len(rows))
      PROVE  Count(rows', marks) <= Count(rows, marks) + k
  <2>1. rows \in Seq(RowState)
    BY OtherFields
  <2>2. Count(rows', marks) = Count(rows, marks \cup rd.resolved) + Count(rd.mine, {})
    BY <1>1, SeenParts
  <2>3. LiveIn(rows, marks \cup rd.resolved) \subseteq LiveIn(rows, marks)
    BY DEF LiveIn
  <2>4. Count(rows, marks \cup rd.resolved) <= Count(rows, marks)
    BY <2>1, <2>3, CountFewer
  <2>5. /\ Count(rd.mine, {}) \in Nat /\ Count(rd.mine, {}) <= k
        /\ Count(rows, marks) \in Nat /\ Count(rows, marks \cup rd.resolved) \in Nat
    BY <1>2, <2>1, CountIsNat
  <2> HIDE DEF k, rd
  <2> QED
    BY <1>3, <2>2, <2>4, <2>5
<1>8. returns' = returns + Number(Raises(last) /\ ~Raises(last'))
  BY <1>1, OtherFields DEF Number
<1>9. mishaps' = mishaps + 0 /\ 0 \in Nat /\ k \in Nat
  BY <1>1, <1>3, OtherFields
<1>10. Number(key) + k <= Number(key') + k /\ k <= k
  BY <1>1, <1>3 DEF Number
<1>11. Len(rows') <= Len(rows) + k
  BY <1>3, <1>6
<1> HIDE DEF k, rd
<1> QED
  BY <1>4, <1>5, <1>7, <1>8, <1>9, <1>10, <1>11, OthersKeep

\* Between transactions, every reader is the main one.
LEMMA SwapIdle ==
  ASSUME TypeOK, Readings, NEW m \in Readers, Sound(m), NEW r \in Readers, \A s \in Readers : ~Busy(s)
  PROVE  Sound(r)
<1>1. \A s \in Readers : reader[s] = Idle
  BY DEF Readings, Sane, Busy
<1>2. HoldersIn(m, reader) = {} /\ HoldersIn(r, reader) = {}
  BY <1>1, IdleHolds DEF HoldersIn
<1>3. reader[m] = Idle /\ reader[r] = Idle /\ Credit(m) = Credit(r)
  BY <1>1, <1>2 DEF Credit
<1>4. ~Busy(Flusher)
  BY DEF Readers
<1> QED
  BY <1>2, <1>3, <1>4 DEF Sound

\* A request that starts beside another transaction pays.
LEMMA RequestStarts ==
  ASSUME TypeOK, TypeOK', Readings, NEW m \in Readers, Sound(m), NEW r \in Readers, r # m,
         r # Flusher, NEW value \in Values, NEW n \in BatchSizes, TakeFrame(r, value, n),
         ~Busy(r), \E s \in Readers \ {r} : Busy(s)
  PROVE  Sound(m)'
<1>1. /\ reader[r].at = "idle" /\ reader' = [reader EXCEPT ![r] = Started(value, n)]
      /\ mishaps' = mishaps + 1 /\ rows' = rows /\ key' = key
      /\ returns' = returns + Number(Raises(last) /\ ~Raises(last'))
  BY DEF TakeFrame, Busy, Go, Started, Mishap, Number
<1>2. IsFiniteSet(HoldersIn(m, reader))
  BY DEF Sound
<1>3. /\ reader'[m] = reader[m] /\ IsFiniteSet(HoldersIn(m, reader'))
      /\ Cardinality(HoldersIn(m, reader')) + 0 <= Cardinality(HoldersIn(m, reader)) + 1
  <2>1. /\ reader'[m] = reader[m] /\ IsFiniteSet(HoldersIn(m, reader'))
        /\ Cardinality(HoldersIn(m, reader')) <= Cardinality(HoldersIn(m, reader)) + 1
        /\ Cardinality(HoldersIn(m, reader')) \in Nat
    BY <1>1, <1>2, HoldersAfter
  <2> QED
    BY <2>1
<1>4. Busy(Flusher)' => m = Flusher
  <2>1. Flusher \in Readers /\ reader \in [Readers -> ReaderRec]
    BY DEF Readers, TypeOK, ReaderRec, Measured
  <2>2. reader'[Flusher] = reader[Flusher]
    BY <1>1, <2>1
  <2> QED
    BY <2>2 DEF Busy, Sound
<1>5. /\ Len(rows') <= Len(rows) + 0
      /\ \A marks \in SUBSET (1 .. Len(rows)) : Count(rows', marks) <= Count(rows, marks) + 0
  <2>1. rows \in Seq(RowState)
    BY OtherFields
  <2> QED
    BY <1>1, <2>1, CountIsNat
<1>6. Number(key) + 0 <= Number(key') + 0 /\ 0 <= 0 /\ 0 \in Nat /\ 1 \in Nat
  BY <1>1 DEF Number
<1> QED
  BY <1>1, <1>3, <1>4, <1>5, <1>6, OthersKeep

\* The flusher that starts beside a request becomes the main reader: the request's mishap is
\* paid now.
LEMMA FlusherStarts ==
  ASSUME TypeOK, TypeOK', Readings, NEW m \in Readers, Sound(m), m # Flusher,
         NEW value \in Values, NEW n \in BatchSizes, TakeFrame(Flusher, value, n),
         ~Busy(Flusher), \E s \in Readers \ {Flusher} : Busy(s)
  PROVE  Sound(Flusher)'
<1> DEFINE rd == reader[m]
           to == Started(value, n)
           H == HoldersIn(m, reader)
           K == HoldersIn(Flusher, reader')
           c == Credit(m)
           c1 == mishaps + 1 - Cardinality(K)
<1>0. Flusher \in Readers /\ m \in Requests /\ value \in Measured
  BY DEF Readers, Measured
<1>1. /\ reader[Flusher] = Idle /\ reader' = [reader EXCEPT ![Flusher] = to]
      /\ mishaps' = mishaps + 1 /\ rows' = rows /\ key' = key /\ last' = value
      /\ returns' = returns + Number(Raises(last) /\ ~Raises(value))
  BY <1>0 DEF TakeFrame, Busy, Go, Started, Mishap, Number, Readings, Sane
<1>2. /\ rd \in ReaderRec /\ c \in Nat /\ Sane(rd, Len(rows)) /\ Single(rd)
      /\ key \in BOOLEAN /\ returns \in Nat /\ rows \in Seq(RowState) /\ mishaps \in Nat
      /\ Cardinality(H) \in Nat /\ IsFiniteSet(H) /\ c = mishaps - Cardinality(H)
      /\ last \in Measured /\ Cardinality(H) <= mishaps
  <2>1. c >= 0 /\ IsFiniteSet(H) /\ c = mishaps - Cardinality(H)
    BY DEF Sound, Credit
  <2>2. mishaps \in Nat /\ Cardinality(H) \in Nat
    BY SoundFields
  <2>3. Cardinality(H) <= mishaps
    <3> HIDE DEF H, c
    <3> QED
      BY <2>1, <2>2
  <2> QED
    BY <1>0, <2>1, <2>3, SoundFields, OtherFields DEF Readings
<1>3. /\ RowsSound(rows, rd, key, c) /\ EpisodesSound(rows, rd, key, c, returns, last)
  BY DEF Sound
<1>4. /\ reader'[Flusher] = to /\ \A s \in Readers \ {Flusher} : reader'[s] = reader[s]
  BY <1>0, <1>1 DEF TypeOK
<1>5. K = (IF Holding(rd) THEN H \cup {m} ELSE H) /\ m \notin H
  <2>1. ~Holding(reader[Flusher])
    BY <1>1, IdleHolds
  <2> QED
    BY <1>4, <2>1 DEF HoldersIn
<1> HIDE DEF H, K
<1>6. /\ IsFiniteSet(K) /\ Cardinality(K) \in Nat
      /\ Cardinality(K) = Cardinality(H) + Number(Holding(rd))
  <2>1. IsFiniteSet(H \cup {m}) /\ Cardinality(H \cup {m}) = Cardinality(H) + 1
    BY <1>2, <1>5, FS_AddElement
  <2>2. CASE Holding(rd)
    <3>1. K = H \cup {m}
      BY <1>5, <2>2
    <3> QED
      BY <1>2, <2>1, <2>2, <3>1 DEF Number
  <2>3. CASE ~Holding(rd)
    <3>1. K = H /\ Number(Holding(rd)) = 0
      BY <1>5, <2>3 DEF Number
    <3> HIDE DEF rd
    <3> QED
      BY <1>2, <3>1
  <2> QED
    BY <2>2, <2>3
<1>7. /\ c1 \in Nat /\ c1 >= c /\ (~Holding(rd) => c1 = c + 1)
  <2>1. Number(Holding(rd)) \in 0 .. 1 /\ (~Holding(rd) => Number(Holding(rd)) = 0)
    BY DEF Number
  <2> HIDE DEF rd, c
  <2> QED
    BY <1>2, <1>6, <2>1
<1>8. /\ to.at = "raise" /\ to.value = value /\ ~to.fired /\ to.mine = << >> /\ to.resolved = {}
      /\ to.savepoint = << << >>, {} >>
  BY DEF Started, Idle
<1> HIDE DEF to
<1>9. /\ Number(Firing(to)) = 0 /\ Held(rows, to) = Count(rows, {}) + 0
      /\ Total(rows, to) = Len(rows) + 0 + 0
      /\ Count(rows, to.savepoint[2]) + Count(to.savepoint[1], {}) = Count(rows, {}) + 0
  <2>1. Number(Firing(to)) = 0
    BY <1>8 DEF Firing, Number
  <2> QED
    BY <1>8, <2>1, CountEmpty DEF Held, Total
<1>10. Count(rows, {}) \in Nat /\ Len(rows) \in Nat /\ Number(key) \in 0 .. 1
  BY <1>2, CountIsNat DEF Number
<1>11. Number(Firing(rd)) \in 0 .. 1 /\ Held(rows, rd) \in Nat /\ Total(rows, rd) \in Nat
  BY <1>2, HeldIsNat
<1>12. Count(rows, {}) <= Number(key) + c1
  <2>1. CASE Holding(rd)
    <3>1. Count(rows, {}) <= Held(rows, rd)
      <4>1. rd.resolved = {} /\ Count(rd.mine, {}) \in Nat
        BY <1>2, <2>1, HeldIsNat DEF Single
      <4> HIDE DEF rd
      <4> QED
        BY <1>10, <4>1 DEF Held
    <3>2. Held(rows, rd) + Number(Firing(rd)) <= Number(key) + c
      BY <1>3 DEF RowsSound
    <3> HIDE DEF c, c1, rd
    <3> QED
      BY <1>2, <1>7, <1>10, <1>11, <3>1, <3>2
  <2>2. CASE ~Holding(rd)
    <3>1. Count(rows, {}) <= 1 + c /\ c1 = c + 1
      BY <1>3, <1>7, <2>2 DEF RowsSound
    <3> HIDE DEF c, c1
    <3> QED
      BY <1>2, <1>10, <3>1
  <2> QED
    BY <2>1, <2>2
<1>13. Len(rows) <= Total(rows, rd)
  BY <1>2, <1>11, HeldIsNat
<1>14. Total(rows, rd) <= returns + c + Number(key /\ Raises(last))
  BY <1>3 DEF EpisodesSound
<1>15. Raises(last) \in BOOLEAN /\ Raises(value) \in BOOLEAN
  BY <1>0, <1>2, RaisesIsBoolean
<1>20. Credit(Flusher)' = c1
  <2>1. Credit(Flusher)' = mishaps' - Cardinality(HoldersIn(Flusher, reader'))
    BY DEF Credit
  <2>2. mishaps' - Cardinality(HoldersIn(Flusher, reader')) = mishaps + 1 - Cardinality(K)
    BY <1>1, <1>2, <1>6 DEF K
  <2> QED
    BY <2>1, <2>2
<1> HIDE DEF c, c1, rd
<1>16. RowsSound(rows, to, key, c1)
  <2>1. Count(rows, {}) <= 1 + c1
    BY <1>7, <1>10, <1>12
  <2> QED
    BY <1>7, <1>8, <1>9, <1>10, <1>12, <2>1 DEF RowsSound
<1>17. EpisodesSound(rows, to, key, c1, returns', value)
  <2>1. CASE Raises(value)
    <3>1. returns' = returns /\ Len(rows) <= returns + c1 + Number(key)
      <4>1. Number(Raises(last) /\ ~Raises(value)) = 0 /\ Number(key /\ Raises(last)) <= Number(key)
        BY <2>1 DEF Number
      <4>2. Number(key /\ Raises(last)) \in 0 .. 1
        BY DEF Number
      <4> QED
        BY <1>1, <1>2, <1>7, <1>10, <1>11, <1>13, <1>14, <4>1, <4>2
    <3>2. Number(key /\ Raises(value)) = Number(key) /\ Number(Raises(value)) = 1
      BY <2>1 DEF Number
    <3>3. ~key => Number(key) = 0
      BY DEF Number
    <3>4. Total(rows, to) <= returns' + c1 + Number(key /\ Raises(value))
      BY <1>9, <1>10, <3>1, <3>2
    <3>5. ~key => Total(rows, to) + 1 <= returns' + c1 + Number(Raises(value))
      BY <1>2, <1>7, <1>9, <1>10, <3>1, <3>2, <3>3
    <3> QED
      BY <1>8, <2>1, <3>4, <3>5 DEF EpisodesSound
  <2>2. CASE ~Raises(value)
    <3>1. /\ Number(Raises(last) /\ ~Raises(value)) = Number(Raises(last))
          /\ Number(key /\ Raises(last)) <= Number(Raises(last)) /\ Number(Raises(last)) \in 0 .. 1
          /\ Number(key /\ Raises(last)) \in 0 .. 1
      BY <2>2 DEF Number
    <3>2. Len(rows) <= returns' + c1
      <4> DEFINE a == Number(key /\ Raises(last))
                 b == Number(Raises(last))
      <4>1. /\ a <= b /\ a \in 0 .. 1 /\ b \in 0 .. 1 /\ returns' = returns + b
            /\ Total(rows, rd) <= returns + c + a
        BY <1>1, <1>14, <3>1
      <4> HIDE DEF a, b
      <4> QED
        BY <1>2, <1>7, <1>10, <1>11, <1>13, <4>1
    <3>3. Number(key /\ Raises(value)) = 0
      BY <2>2 DEF Number
    <3>4. returns' \in Nat
      BY DEF TypeOK
    <3> QED
      BY <1>7, <1>8, <1>9, <1>10, <2>2, <3>2, <3>3, <3>4 DEF EpisodesSound
  <2> QED
    BY <2>1, <2>2
<1>18. IsFiniteSet(HoldersIn(Flusher, reader))' /\ Credit(Flusher)' >= 0
  BY <1>6, <1>7, <1>20 DEF K
<1> QED
  BY <1>1, <1>4, <1>16, <1>17, <1>18, <1>20 DEF Sound

-----------------------------------------------------------------------------
(* Operators, and the step of the invariant                                *)

\* An operator revives a row for a mishap, and otherwise leaves no more rows live.
LEMMA OperatorKeeps ==
  ASSUME TypeOK, TypeOK', Readings, NEW m \in Readers, Sound(m), NEW d \in {0, 1},
         reader' = reader, mishaps' = mishaps + d, key' = key, last' = last, returns' = returns,
         Len(rows') = Len(rows),
         \A marks \in SUBSET (1 .. Len(rows)) : Count(rows', marks) <= Count(rows, marks) + d
  PROVE  Sound(m)'
<1>1. IsFiniteSet(HoldersIn(m, reader')) /\ (Busy(Flusher)' => m = Flusher)
  BY DEF Sound, Busy
<1>2. Cardinality(HoldersIn(m, reader')) = Cardinality(HoldersIn(m, reader))
  OBVIOUS
<1>3. /\ Len(rows) \in Nat /\ Cardinality(HoldersIn(m, reader)) \in Nat /\ d \in Nat
  BY OtherFields, SoundFields
<1>4. returns' = returns + Number(Raises(last) /\ ~Raises(last'))
  BY OtherFields DEF Number
<1>5. /\ Number(key) + d <= Number(key') + d /\ d <= d /\ Len(rows') <= Len(rows) + d
      /\ Cardinality(HoldersIn(m, reader')) + d <= Cardinality(HoldersIn(m, reader)) + d
  BY <1>2, <1>3 DEF Number
<1> QED
  BY <1>1, <1>3, <1>4, <1>5, OthersKeep

\* An acknowledgement that is written over a resolution revives a row, and pays.
LEMMA AckWriteKeeps ==
  ASSUME TypeOK, TypeOK', Readings, NEW m \in Readers, Sound(m), AckWrite
  PROVE  Sound(m)'
<1> DEFINE v == IF ack.read = "active" THEN "acknowledged" ELSE rows[ack.row]
           i == ack.row
<1>1. /\ rows' = [rows EXCEPT ![i] = v] /\ rows \in Seq(RowState) /\ mishaps \in Nat
      /\ reader' = reader /\ key' = key /\ last' = last /\ returns' = returns
      /\ IF rows'[i] \in Live /\ rows[i] \notin Live THEN mishaps' = mishaps + 1
                                                     ELSE mishaps' = mishaps
  BY OtherFields DEF AckWrite, audit
<1>2. PICK d \in {0, 1} :
        /\ mishaps' = mishaps + d
        /\ d = 0 => ~(rows'[i] \in Live /\ rows[i] \notin Live)
  <2>1. mishaps = mishaps + 0
    BY <1>1
  <2> QED
    BY <1>1, <2>1
<1>3. CASE i \in DOMAIN rows
  <2>1. v \in RowState
    BY <1>1, <1>3 DEF RowState
  <2>2. rows'[i] = v
    BY <1>1, <1>3
  <2> HIDE DEF v
  <2>3. /\ Len(rows') = Len(rows)
        /\ \A marks : Count(rows', marks) <= Count(rows, marks) + 1
        /\ (v \in Live => rows[i] \in Live) =>
             \A marks : Count(rows', marks) <= Count(rows, marks)
    BY <1>1, <2>1, CountRewritten
  <2>4. \A marks : Count(rows', marks) \in Nat /\ Count(rows, marks) \in Nat
    BY <1>1, CountIsNat DEF TypeOK
  <2>5. \A marks \in SUBSET (1 .. Len(rows)) : Count(rows', marks) <= Count(rows, marks) + d
    BY <1>2, <2>2, <2>3, <2>4
  <2> HIDE DEF i
  <2> QED
    BY <1>1, <1>2, <2>3, <2>5, OperatorKeeps
<1>4. CASE i \notin DOMAIN rows
  <2>1. rows' = rows
    BY <1>1, <1>4
  <2>2. \A marks \in SUBSET (1 .. Len(rows)) : Count(rows', marks) <= Count(rows, marks) + d
    <3>1. \A marks : Count(rows, marks) \in Nat
      BY <1>1, CountIsNat
    <3> QED
      BY <1>2, <2>1, <3>1
  <2> HIDE DEF i
  <2> QED
    BY <1>1, <1>2, <2>1, <2>2, OperatorKeeps
<1> QED
  BY <1>3, <1>4

\* A row that an operator resolves is live no longer.
LEMMA ByHandKeeps ==
  ASSUME TypeOK, TypeOK', Readings, NEW m \in Readers, Sound(m), NEW i \in DOMAIN rows,
         ResolveByHand(i)
  PROVE  Sound(m)'
<1>1. /\ rows' = [rows EXCEPT ![i] = "resolved"] /\ rows \in Seq(RowState) /\ mishaps \in Nat
      /\ reader' = reader /\ key' = key /\ last' = last /\ returns' = returns
      /\ mishaps' = mishaps + 0
  BY OtherFields DEF ResolveByHand, audit
<1>2. "resolved" \in RowState /\ "resolved" \notin Live
  BY DEF RowState, Live
<1>3. Len(rows') = Len(rows) /\ \A marks : Count(rows', marks) <= Count(rows, marks)
  BY <1>1, <1>2, CountRewritten
<1>4. \A marks : Count(rows', marks) \in Nat /\ Count(rows, marks) \in Nat
  BY <1>1, CountIsNat DEF TypeOK
<1>5. \A marks \in SUBSET (1 .. Len(rows)) : Count(rows', marks) <= Count(rows, marks) + 0
  BY <1>3, <1>4
<1> QED
  BY <1>1, <1>3, <1>5, OperatorKeeps

\* Some reader is the main one after each step.
LEMMA MainStep ==
  ASSUME TypeOK, TypeOK', Readings, NoMargin, Main, [Next]_vars
  PROVE  Main'
<1>1. PICK m \in Readers : Sound(m)
  BY DEF Main
<1>2. SUFFICES \E x \in Readers : Sound(x)'
  BY DEF Main
<1>3. ASSUME NEW r \in Readers, ReaderStep(r) PROVE \E x \in Readers : Sound(x)'
  <2>1. CASE r = m
    BY <1>1, <1>3, <2>1, OwnKeeps
  <2>2. ASSUME r # m, NEW value \in Values, NEW n \in BatchSizes, TakeFrame(r, value, n)
        PROVE  \E x \in Readers : Sound(x)'
    <3>1. CASE Busy(r)
      <4>1. r \in Requests /\ Single(reader[r]) /\ reader[r] \in ReaderRec
        BY <1>1, <2>2, <3>1, OtherIsRequest
      <4>2. n = reader[r].left - 1 /\ n > 0
        BY <2>2, <3>1 DEF TakeFrame, Busy
      <4>3. reader[r].left \in Int /\ reader[r].left <= 1
        BY <4>1, ReaderFieldsOf, OtherFields DEF Single
      <4> QED
        BY <4>2, <4>3
    <3>2. CASE \A s \in Readers : ~Busy(s)
      BY <1>1, <1>3, <3>2, SwapIdle, OwnKeeps
    <3>3. CASE ~Busy(r) /\ \E s \in Readers \ {r} : Busy(s)
      <4>1. CASE r = Flusher
        <5>1. Sound(Flusher)'
          BY <1>1, <2>2, <3>3, <4>1, FlusherStarts
        <5> QED
          BY <5>1 DEF Readers
      <4>2. CASE r # Flusher
        BY <1>1, <2>2, <3>3, <4>2, RequestStarts
      <4> QED
        BY <4>1, <4>2
    <3> QED
      BY <3>1, <3>2, <3>3
  <2>3. CASE r # m /\ (CheckRaise(r) \/ AddKey(r) \/ CheckResolve(r) \/ FindRow(r) \/ DropKey(r)
                         \/ Insert(r) \/ FrameFails(r) \/ CommitFails(r))
    BY <1>1, <2>3, OtherMoves
  <2>4. CASE r # m /\ Commit(r)
    BY <1>1, <2>4, OtherCommits
  <2> QED
    BY <1>3, <2>1, <2>2, <2>3, <2>4 DEF ReaderStep
<1>4. CASE FrameRolledBack
  <2>1. Flusher \in Readers /\ Busy(Flusher)
    BY <1>4 DEF FrameRolledBack, Busy, Readers
  <2>2. m = Flusher
    BY <1>1, <2>1 DEF Sound
  <2> QED
    BY <1>1, <1>4, <2>1, <2>2, OwnRolledBack
<1>5. ASSUME NEW i \in DOMAIN rows, AckRead(i) PROVE \E x \in Readers : Sound(x)'
  <2>1. UNCHANGED <<reader, rows, key, mishaps, returns, last>>
    BY <1>5 DEF AckRead, audit
  <2>2. Sound(m)'
    BY <1>1, <2>1 DEF Sound, Busy, Credit
  <2> QED
    BY <2>2
<1>6. CASE UNCHANGED vars
  <2>1. UNCHANGED <<reader, rows, key, mishaps, returns, last>>
    BY <1>6 DEF vars, audit
  <2>2. Sound(m)'
    BY <1>1, <2>1 DEF Sound, Busy, Credit
  <2> QED
    BY <2>2
<1> QED
  BY <1>1, <1>3, <1>4, <1>5, <1>6, AckWriteKeeps, ByHandKeeps DEF Next

-----------------------------------------------------------------------------
(* The readers' records                                                    *)

\* One reader steps to a sane record, over as many rows or more.
LEMMA ReadingsKept ==
  ASSUME TypeOK, Readings, NEW r \in Readers, NEW to, reader' = [reader EXCEPT ![r] = to],
         rows' \in Seq(RowState), Len(rows) <= Len(rows'), Sane(to, Len(rows')),
         r \in Requests => Single(to)
  PROVE  Readings'
<1>1. reader \in [Readers -> ReaderRec] /\ Len(rows) \in Nat /\ Len(rows') \in Nat
  BY OtherFields DEF TypeOK, ReaderRec, Measured
<1>2. ASSUME NEW s \in Readers
      PROVE  Sane(reader'[s], Len(rows')) /\ (s \in Requests => Single(reader'[s]))
  <2>1. CASE s = r
    BY <1>1, <2>1
  <2>2. CASE s # r
    <3>1. reader'[s] = reader[s]
      BY <1>1, <2>2
    <3> QED
      BY <1>1, <3>1, SaneGrows DEF Readings
  <2> QED
    BY <2>1, <2>2
<1> QED
  BY <1>2 DEF Readings

\* The same over the same rows.
LEMMA ReadingsStay ==
  ASSUME TypeOK, Readings, NEW r \in Readers, NEW to, reader' = [reader EXCEPT ![r] = to],
         rows' = rows, Sane(to, Len(rows)), r \in Requests => Single(to)
  PROVE  Readings'
<1>1. Len(rows) \in Nat /\ rows \in Seq(RowState)
  BY OtherFields
<1>2. Len(rows) <= Len(rows') /\ rows' \in Seq(RowState) /\ Sane(to, Len(rows'))
  BY <1>1
<1> QED
  BY <1>2, ReadingsKept

\* A record whose step alone changes.
LEMMA MovedSane ==
  ASSUME NEW rd \in ReaderRec, NEW n, Sane(rd, n), NEW to,
         to.value = rd.value, to.found = rd.found, to.mine = rd.mine, to.resolved = rd.resolved,
         to.savepoint = rd.savepoint, to.at \notin {"idle", "drop_key"},
         to.at \in {"raise", "add_key", "find"} => ~to.fired,
         to.at = "add_key" \/ (to.at = "resolve" /\ to.fired) => Raises(to.value),
         to.at = "find" => ~Keeps(to.value)
  PROVE  Sane(to, n)
BY DEF Sane

\* A frame is taken up.
LEMMA TakeFrameReadings ==
  ASSUME TypeOK, Readings, NEW r \in Readers, NEW value \in Values, NEW n \in BatchSizes,
         TakeFrame(r, value, n)
  PROVE  Readings'
<1> DEFINE rd == reader[r]
<1>1. /\ rd \in ReaderRec /\ Sane(rd, Len(rows)) /\ (r \in Requests => Single(rd))
      /\ rows \in Seq(RowState) /\ Len(rows) \in Nat /\ rows' = rows /\ rd.left \in Int
      /\ rd.mine \in Seq(RowState)
  BY ReaderFieldsOf, OtherFields DEF Readings, TakeFrame
<1>2. CASE rd.at = "idle"
  <2> DEFINE to == Started(value, n)
  <2>1. reader' = [reader EXCEPT ![r] = to] /\ (r \in Requests => n = 1)
    BY <1>2 DEF TakeFrame, Go, Started
  <2>2. /\ to.at = "raise" /\ ~to.fired /\ to.mine = << >> /\ to.resolved = {} /\ to.left = n
        /\ to.savepoint = << << >>, {} >>
    BY DEF Started, Idle
  <2> HIDE DEF to
  <2>3. Sane(to, Len(rows))
    BY <1>1, <2>2 DEF Sane
  <2>4. r \in Requests => Single(to)
    BY <2>1, <2>2, CountEmpty DEF Single
  <2> QED
    BY <1>1, <2>1, <2>3, <2>4, ReadingsStay
<1>3. CASE rd.at = "next"
  <2> DEFINE to == Continued(rd, value, n)
  <2>1. reader' = [reader EXCEPT ![r] = to] /\ n = rd.left - 1 /\ n > 0
    BY <1>3 DEF TakeFrame, Go, Continued
  <2>2. /\ to.at = "raise" /\ ~to.fired /\ to.mine = rd.mine /\ to.resolved = rd.resolved
        /\ to.savepoint = <<rd.mine, rd.resolved>>
    BY <1>1 DEF Continued, ReaderRec
  <2>3. r \notin Requests
    <3>1. r \in Requests => rd.left <= 1
      BY <1>1 DEF Single
    <3> QED
      BY <1>1, <2>1, <3>1
  <2> HIDE DEF to
  <2>4. Sane(to, Len(rows))
    <3>1. Len(rd.mine) <= Len(rd.mine)
      BY <1>1
    <3> QED
      BY <1>1, <2>2, <3>1 DEF Sane
  <2> QED
    BY <1>1, <2>1, <2>3, <2>4, ReadingsStay
<1> QED
  BY <1>2, <1>3 DEF TakeFrame

\* The steps that write to the record's step alone.
LEMMA MoveReadings ==
  ASSUME TypeOK, Readings, NoMargin, NEW r \in Readers,
         CheckRaise(r) \/ CheckResolve(r) \/ FrameFails(r) \/ AddKey(r)
  PROVE  Readings'
<1> DEFINE rd == reader[r]
<1>1. /\ rd \in ReaderRec /\ Sane(rd, Len(rows)) /\ (r \in Requests => Single(rd))
      /\ rows \in Seq(RowState) /\ Len(rows) \in Nat /\ rows' = rows /\ rd.value \in Measured
      /\ rd.fired \in BOOLEAN
  BY ReaderFieldsOf, OtherFields DEF Readings, CheckRaise, CheckResolve, FrameFails, AddKey
<1>2. CASE CheckRaise(r) \/ CheckResolve(r) \/ FrameFails(r)
  <2>1. PICK at : /\ reader' = [reader EXCEPT ![r] = [rd EXCEPT !.at = at]] /\ rd.at # "next"
                  /\ at \in {"add_key", "resolve", "find", "insert", "next"}
                  /\ at \in {"add_key", "find"} => ~rd.fired
                  /\ at = "add_key" \/ (at = "resolve" /\ rd.fired) => Raises(rd.value)
                  /\ at = "find" => ~Keeps(rd.value)
                  /\ at \in {"add_key", "resolve", "find"} => rd.at \in {"raise", "resolve"}
                  /\ at = "insert" => rd.at = "resolve"
    <3>1. CASE CheckRaise(r)
      <4>1. rd.at = "raise" /\ ~rd.fired
        BY <1>1, <3>1 DEF CheckRaise, Step, Sane
      <4>2. CASE Raises(rd.value) /\ ~KeyOpen
        BY <3>1, <4>1, <4>2 DEF CheckRaise, Step, Go
      <4>3. CASE ~(Raises(rd.value) /\ ~KeyOpen)
        BY <3>1, <4>1, <4>3 DEF CheckRaise, Step, Go
      <4> QED
        BY <4>2, <4>3
    <3>2. CASE CheckResolve(r)
      <4>1. rd.at = "resolve" /\ (rd.fired => Raises(rd.value))
        BY <1>1, <3>2 DEF CheckResolve, Step, Sane
      <4>2. CASE key /\ ~Keeps(rd.value)
        <5>1. ~rd.fired
          BY <1>1, <4>1, <4>2, RaisedIsKept
        <5> QED
          BY <3>2, <4>1, <4>2, <5>1 DEF CheckResolve, Step, Go
      <4>3. CASE ~(key /\ ~Keeps(rd.value))
        BY <3>2, <4>1, <4>3 DEF CheckResolve, Step, Go
      <4> QED
        BY <4>2, <4>3
    <3>3. CASE FrameFails(r)
      <4>1. /\ reader' = [reader EXCEPT ![r] = [rd EXCEPT !.at = "next"]]
            /\ rd.at # "next"
        BY <3>3 DEF FrameFails, Go
      <4> WITNESS "next"
      <4> QED
        BY <4>1
    <3> QED
      BY <1>2, <3>1, <3>2, <3>3
  <2> DEFINE to == [rd EXCEPT !.at = at]
  <2>2. /\ to.at = at /\ to.value = rd.value /\ to.fired = rd.fired /\ to.found = rd.found
        /\ to.mine = rd.mine /\ to.resolved = rd.resolved /\ to.savepoint = rd.savepoint
        /\ to.left = rd.left
    BY <1>1 DEF ReaderRec
  <2> HIDE DEF to
  <2>3. Sane(to, Len(rows))
    BY <1>1, <2>1, <2>2, MovedSane
  <2>4. r \in Requests => Single(to)
    <3> SUFFICES ASSUME r \in Requests PROVE Single(to)
      OBVIOUS
    <3>1. rd.mine = << >> /\ Len(rd.mine) <= 1 /\ rd.left <= 1 /\ (Holding(rd) => rd.resolved = {})
      BY <1>1, <2>1 DEF Single
    <3>2. Holding(to) => Holding(rd)
      BY <2>1, <2>2, <3>1 DEF Holding
    <3> QED
      BY <2>2, <3>1, <3>2 DEF Single
  <2> QED
    BY <1>1, <2>1, <2>3, <2>4, ReadingsStay DEF to
<1>3. CASE AddKey(r)
  <2> DEFINE to == [rd EXCEPT !.at = "resolve", !.fired = TRUE]
  <2>1. rd.at = "add_key" /\ reader' = [reader EXCEPT ![r] = to] /\ Raises(rd.value)
    BY <1>1, <1>3 DEF AddKey, Go, Sane
  <2>2. /\ to.at = "resolve" /\ to.value = rd.value /\ to.found = rd.found
        /\ to.mine = rd.mine /\ to.resolved = rd.resolved /\ to.savepoint = rd.savepoint
        /\ to.left = rd.left
    BY <1>1 DEF ReaderRec
  <2> HIDE DEF to
  <2>3. Sane(to, Len(rows))
    BY <1>1, <2>1, <2>2, MovedSane
  <2>4. r \in Requests => Single(to)
    BY <1>1, <2>1, <2>2 DEF Single, Holding
  <2> QED
    BY <1>1, <2>1, <2>3, <2>4, ReadingsStay
<1> QED
  BY <1>2, <1>3

\* A row is found, and marked.
LEMMA ResolveReadings ==
  ASSUME TypeOK, Readings, NEW r \in Readers, FindRow(r) \/ DropKey(r)
  PROVE  Readings'
<1> DEFINE rd == reader[r]
<1>1. /\ rd \in ReaderRec /\ Sane(rd, Len(rows)) /\ (r \in Requests => Single(rd))
      /\ rows \in Seq(RowState) /\ Len(rows) \in Nat /\ rows' = rows
      /\ rd.mine \in Seq(RowState) /\ Len(rd.mine) \in Nat /\ DOMAIN rd.mine = 1 .. Len(rd.mine)
      /\ rd.found \in Int
  <2>1. rows' = rows
    BY DEF FindRow, DropKey
  <2>2. /\ rd.mine \in Seq(RowState) /\ rows \in Seq(RowState) /\ rd \in ReaderRec /\ rd.found \in Int
        /\ Sane(rd, Len(rows)) /\ (r \in Requests => Single(rd))
    BY ReaderFieldsOf, OtherFields DEF Readings
  <2>3. \A s \in Seq(RowState) : Len(s) \in Nat /\ DOMAIN s = 1 .. Len(s)
    OBVIOUS
  <2> HIDE DEF rd
  <2> QED
    BY <2>1, <2>2, <2>3
<1>2. CASE FindRow(r)
  <2> DEFINE found(i) == IF i <= Len(rows) THEN i ELSE Len(rows) - i
             to(i) == [rd EXCEPT !.at = "drop_key", !.found = found(i)]
  <2>1. PICK i \in LiveRows(Seen(r)) \cup {NoRow} : reader' = [reader EXCEPT ![r] = to(i)]
    BY <1>2 DEF FindRow, Go
  <2>2. /\ i \in Nat
        /\ i = 0 \/ i \in 1 .. Len(rows) \/ i - Len(rows) \in DOMAIN rd.mine
    <3>1. CASE i = NoRow
      BY <3>1 DEF NoRow
    <3>2. CASE i \in LiveRows(Seen(r))
      <4>1. /\ i \in Nat
            /\ i <= Len(rows) => i \in LiveIn(rows, rd.resolved)
            /\ i > Len(rows) => i - Len(rows) \in LiveIn(rd.mine, {})
        BY <3>2, SeenParts
      <4>2. LiveIn(rows, rd.resolved) \subseteq 1 .. Len(rows) /\ LiveIn(rd.mine, {}) \subseteq DOMAIN rd.mine
        BY <1>1 DEF LiveIn
      <4> HIDE DEF rd
      <4> QED
        BY <1>1, <4>1, <4>2
    <3> QED
      BY <2>1, <3>1, <3>2
  <2> DEFINE next == to(i)
             f == found(i)
  <2>3. rd.at = "find" /\ reader' = [reader EXCEPT ![r] = next] /\ ~rd.fired /\ ~Keeps(rd.value)
    BY <1>1, <1>2, <2>1 DEF FindRow, Sane
  <2>4. /\ next.at = "drop_key" /\ next.value = rd.value /\ next.found = f /\ ~next.fired
        /\ next.mine = rd.mine /\ next.resolved = rd.resolved /\ next.savepoint = rd.savepoint
        /\ next.left = rd.left
    <3> HIDE DEF f
    <3>1. next = [rd EXCEPT !.at = "drop_key", !.found = f]
      BY DEF f
    <3> HIDE DEF next
    <3> QED
      BY <1>1, <2>3, <3>1 DEF ReaderRec
  <2>5. /\ f < 0 => -f \in DOMAIN rd.mine
        /\ f > 0 => f \in 1 .. Len(rows)
    <3> HIDE DEF rd
    <3> QED
      BY <1>1, <2>2
  <2> HIDE DEF next, f
  <2>6. Sane(next, Len(rows))
    BY <1>1, <2>4, <2>3, <2>5 DEF Sane
  <2>7. r \in Requests => Single(next)
    BY <1>1, <2>3, <2>4 DEF Single, Holding
  <2> QED
    BY <1>1, <2>3, <2>6, <2>7, ReadingsStay
<1>3. CASE DropKey(r)
  <2> DEFINE marks == DropMarks(rd)
             mine == DropMine(rd)
             to == [rd EXCEPT !.at = "insert", !.resolved = marks, !.mine = mine]
  <2>1. rd.at = "drop_key" /\ reader' = [reader EXCEPT ![r] = to] /\ ~rd.fired
    BY <1>1, <1>3 DEF DropKey, Go, DropMarks, DropMine, Sane
  <2>2. /\ to.at = "insert" /\ ~to.fired /\ to.mine = mine /\ to.resolved = marks
        /\ to.savepoint = rd.savepoint /\ to.left = rd.left
    <3> HIDE DEF marks, mine
    <3> QED
      BY <1>1, <2>1 DEF ReaderRec
  <2>3. marks \subseteq 1 .. Len(rows)
    BY <1>1, <2>1 DEF Sane, DropMarks
  <2>4. Len(mine) = Len(rd.mine)
    <3>1. "resolved" \in RowState
      BY DEF RowState
    <3> QED
      BY <1>1, <3>1, RewrittenRow DEF DropMine
  <2>5. r \in Requests => mine = << >> /\ rd.left <= 1
    <3> SUFFICES ASSUME r \in Requests PROVE mine = << >> /\ rd.left <= 1
      OBVIOUS
    <3>1. rd.mine = << >> /\ rd.left <= 1 /\ DOMAIN rd.mine = {}
      BY <1>1, <2>1 DEF Single
    <3>2. ~(rd.found < 0)
      BY <1>1, <2>1, <3>1 DEF Sane
    <3> QED
      BY <3>1, <3>2 DEF DropMine
  <2> HIDE DEF to, marks, mine
  <2>6. Sane(to, Len(rows))
    BY <1>1, <2>2, <2>3, <2>4 DEF Sane
  <2>7. r \in Requests => Single(to)
    BY <2>2, <2>5, CountEmpty DEF Single, Holding
  <2> QED
    BY <1>1, <2>1, <2>6, <2>7, ReadingsStay
<1> QED
  BY <1>2, <1>3

\* A transaction grows, is rolled back to its savepoint, or ends.
LEMMA EndReadings ==
  ASSUME TypeOK, TypeOK', Readings, NEW r \in Readers, Insert(r) \/ Commit(r) \/ CommitFails(r)
  PROVE  Readings'
<1> DEFINE rd == reader[r]
<1>1. /\ rd \in ReaderRec /\ Sane(rd, Len(rows)) /\ (r \in Requests => Single(rd))
      /\ rows \in Seq(RowState) /\ Len(rows) \in Nat /\ rd.fired \in BOOLEAN
      /\ rd.mine \in Seq(RowState) /\ Len(rd.mine) \in Nat
      /\ rd.savepoint[1] \in Seq(RowState) /\ Len(rd.savepoint[1]) \in Nat
  <2>1. /\ rd.mine \in Seq(RowState) /\ rows \in Seq(RowState) /\ rd \in ReaderRec /\ rd.fired \in BOOLEAN
        /\ Sane(rd, Len(rows)) /\ (r \in Requests => Single(rd)) /\ rd.savepoint[1] \in Seq(RowState)
    BY ReaderFieldsOf, OtherFields DEF Readings
  <2>2. \A s \in Seq(RowState) : Len(s) \in Nat
    OBVIOUS
  <2> HIDE DEF rd
  <2> QED
    BY <2>1, <2>2
<1>2. CASE Insert(r)
  <2> DEFINE mine == IF rd.fired THEN Append(rd.mine, "active") ELSE rd.mine
             to == [rd EXCEPT !.at = "next", !.mine = mine]
  <2>1. rd.at = "insert" /\ reader' = [reader EXCEPT ![r] = to] /\ rows' = rows
    BY <1>2 DEF Insert, Go
  <2>2. /\ to.at = "next" /\ to.mine = mine /\ to.resolved = rd.resolved
        /\ to.savepoint = rd.savepoint /\ to.left = rd.left
    <3> HIDE DEF mine
    <3> QED
      BY <1>1 DEF ReaderRec
  <2>3. Len(rd.mine) <= Len(mine) /\ Len(mine) \in Nat /\ Len(mine) <= Len(rd.mine) + 1
    <3>1. CASE rd.fired
      BY <1>1, <3>1, CountAppended
    <3>2. CASE ~rd.fired
      BY <1>1, <3>2
    <3> QED
      BY <1>1, <3>1, <3>2
  <2>4. Len(rd.savepoint[1]) <= Len(mine)
    <3>1. Len(rd.savepoint[1]) <= Len(rd.mine)
      BY <1>1 DEF Sane
    <3> HIDE DEF rd, mine
    <3> QED
      BY <1>1, <2>3, <3>1
  <2>5. ~rd.fired => mine = rd.mine
    OBVIOUS
  <2> HIDE DEF to, mine
  <2>6. Sane(to, Len(rows))
    BY <1>1, <2>2, <2>4 DEF Sane
  <2>7. r \in Requests => Single(to)
    <3> SUFFICES ASSUME r \in Requests PROVE Single(to)
      OBVIOUS
    <3>1. rd.mine = << >> /\ rd.left <= 1 /\ (rd.fired => rd.resolved = {})
      BY <1>1, <2>1 DEF Single, Holding
    <3>2. Len(mine) <= 1
      BY <2>3, <3>1, CountEmpty
    <3> QED
      BY <2>2, <2>5, <3>1, <3>2 DEF Single, Holding
  <2> QED
    BY <1>1, <2>1, <2>6, <2>7, ReadingsStay
<1>3. CASE Commit(r) \/ CommitFails(r)
  <2>1. reader' = [reader EXCEPT ![r] = Idle] /\ (rows' = rows \/ rows' = Seen(r))
    BY <1>3 DEF Commit, CommitFails, Go
  <2>2. rows' \in Seq(RowState) /\ Len(rows) <= Len(rows')
    <3>1. Len(Seen(r)) = Len(rows) + Len(rd.mine) /\ Seen(r) \in Seq(RowState)
      BY SeenParts
    <3> HIDE DEF rd
    <3> QED
      BY <1>1, <2>1, <3>1
  <2>3. Len(Idle.mine) = 0 /\ Len(Idle.savepoint[1]) = 0 /\ Idle.left = 0
    BY CountEmpty, IdleHolds DEF Idle
  <2>4. Sane(Idle, Len(rows')) /\ Single(Idle)
    <3>1. 0 <= 0 /\ 0 <= 1
      OBVIOUS
    <3> QED
      BY <2>3, <3>1, IdleHolds DEF Sane, Single
  <2> QED
    BY <2>1, <2>2, <2>4, ReadingsKept
<1> QED
  BY <1>2, <1>3

\* The readers' records stay sane.
LEMMA ReadingsStep ==
  ASSUME TypeOK, TypeOK', Readings, NoMargin, [Next]_vars
  PROVE  Readings'
<1>1. CASE FrameRolledBack
  <2> DEFINE rd == reader[Flusher]
             to == [rd EXCEPT !.mine = rd.savepoint[1], !.resolved = rd.savepoint[2]]
  <2>1. Flusher \in Readers /\ Flusher \notin Requests
    BY AlarmsAssumption DEF Readers, AlarmsAssumption
  <2>2. /\ rd \in ReaderRec /\ Sane(rd, Len(rows)) /\ rd.savepoint[1] \in Seq(RowState)
        /\ reader' = [reader EXCEPT ![Flusher] = to] /\ rows' = rows /\ rd.at = "next"
    BY <1>1, <2>1, ReaderFieldsOf DEF Readings, FrameRolledBack, Go
  <2>3. /\ to.at = "next" /\ to.mine = rd.savepoint[1] /\ to.resolved = rd.savepoint[2]
        /\ to.savepoint = rd.savepoint
    BY <2>2 DEF ReaderRec
  <2> HIDE DEF to
  <2>4. Sane(to, Len(rows))
    <3>1. Len(rd.savepoint[1]) <= Len(rd.savepoint[1])
      BY <2>2
    <3> QED
      BY <2>2, <2>3, <3>1 DEF Sane
  <2> QED
    BY <2>1, <2>2, <2>4, ReadingsStay
<1>2. ASSUME UNCHANGED reader, Len(rows') = Len(rows)
      PROVE  Readings'
  BY <1>2 DEF Readings
<1>3. ASSUME NEW i \in DOMAIN rows, ResolveByHand(i) PROVE Readings'
  <2>1. rows' = [rows EXCEPT ![i] = "resolved"] /\ UNCHANGED reader
    BY <1>3 DEF ResolveByHand
  <2>2. Len(rows') = Len(rows)
    BY <2>1, OtherFields, RewrittenRow DEF RowState
  <2> QED
    BY <1>2, <2>1, <2>2
<1>4. CASE AckWrite
  <2> DEFINE v == IF ack.read = "active" THEN "acknowledged" ELSE rows[ack.row]
             i == ack.row
  <2>1. rows' = [rows EXCEPT ![i] = v] /\ UNCHANGED reader /\ rows \in Seq(RowState)
    BY <1>4, OtherFields DEF AckWrite
  <2>2. CASE i \in DOMAIN rows
    <3>1. v \in RowState
      BY <2>1, <2>2 DEF RowState
    <3> HIDE DEF v, i
    <3>2. Len(rows') = Len(rows)
      BY <2>1, <3>1, RewrittenRow
    <3> QED
      BY <1>2, <2>1, <3>2
  <2>3. CASE i \notin DOMAIN rows
    <3>1. rows' = rows
      BY <2>1, <2>3
    <3> QED
      BY <1>2, <2>1, <3>1
  <2> QED
    BY <2>2, <2>3
<1>5. ASSUME NEW i \in DOMAIN rows, AckRead(i) PROVE Readings'
  BY <1>2, <1>5 DEF AckRead
<1>6. CASE UNCHANGED vars
  BY <1>2, <1>6 DEF vars
<1>7. ASSUME NEW r \in Readers, ReaderStep(r) PROVE Readings'
  BY <1>7, TakeFrameReadings, MoveReadings, ResolveReadings, EndReadings DEF ReaderStep
<1> QED
  BY <1>1, <1>3, <1>4, <1>5, <1>6, <1>7 DEF Next

-----------------------------------------------------------------------------
(* Without a mishap                                                        *)

\* No live row is counted where there is none.
LEMMA CountZero ==
  ASSUME NEW s \in Seq(RowState), NEW marks
  PROVE  Count(s, marks) = 0 <=> LiveIn(s, marks) = {}
BY CountIsNat, FS_EmptySet DEF Count

\* Without a mishap, the reader that steps is alone.
LEMMA StepsAlone ==
  ASSUME TypeOK, Readings, Quiet, mishaps' = 0, NEW r \in Readers, ReaderStep(r)
  PROVE  /\ mishaps = 0 /\ \A s \in Readers \ {r} : ~Busy(s)
         /\ Covered(rows, reader[r], key, byHand, last)
<1>1. mishaps \in Nat /\ (mishaps' = mishaps \/ mishaps' = mishaps + 1)
  BY OtherFields DEF ReaderStep, TakeFrame, CheckRaise, AddKey, CheckResolve, FindRow, DropKey,
     Insert, FrameFails, Commit, CommitFails, Mishap
<1>2. mishaps = 0 /\ mishaps' = mishaps
  BY <1>1
<1>3. PICK a \in Readers : /\ \A s \in Readers \ {a} : ~Busy(s)
                           /\ Covered(rows, reader[a], key, byHand, last)
  BY <1>2 DEF Quiet
<1>4. CASE r = a
  BY <1>2, <1>3, <1>4
<1>5. CASE r # a
  <2>1. ~Busy(r)
    BY <1>3, <1>5
  <2>2. PICK value \in Values, n \in BatchSizes : TakeFrame(r, value, n)
    BY <2>1 DEF ReaderStep, CheckRaise, AddKey, CheckResolve, FindRow, DropKey, Insert, FrameFails,
                Commit, CommitFails, Step, Busy
  <2>3. \A s \in Readers \ {r} : ~Busy(s)
    BY <1>1, <1>2, <2>1, <2>2 DEF TakeFrame, Mishap, Busy
  <2>4. reader[r] = Idle /\ reader[a] = Idle
    BY <1>5, <2>1, <2>3 DEF Readings, Sane, Busy
  <2> QED
    BY <1>2, <1>3, <2>3, <2>4
<1> QED
  BY <1>4, <1>5

\* The step of a reader that is alone keeps the key covered, and the condition.
LEMMA CoveredStep ==
  ASSUME TypeOK, TypeOK', Readings, NoMargin, NEW r \in Readers, ReaderStep(r),
         mishaps = 0, mishaps' = 0, Covered(rows, reader[r], key, byHand, last)
  PROVE  Covered(rows', reader'[r], key', byHand', last')
<1> DEFINE rd == reader[r]
           to == reader'[r]
<1> SUFFICES Covered(rows', to, key', byHand', last')
  OBVIOUS
<1>1. /\ rd \in ReaderRec /\ Sane(rd, Len(rows)) /\ reader \in [Readers -> ReaderRec]
      /\ rd.fired \in BOOLEAN /\ rd.mine \in Seq(RowState) /\ rd.value \in Measured
  BY ReaderFieldsOf DEF Readings, TypeOK, ReaderRec, Measured
<1>0. /\ key => byHand \/ Firing(rd) \/ LiveIn(rows, rd.resolved) # {} \/ LiveIn(rd.mine, {}) # {}
      /\ rd.at # "idle" => last = rd.value
      /\ rd.at \in {"idle", "resolve", "insert", "next"} /\ Raises(last) => key
  BY DEF Covered
<1>2. ASSUME NEW value \in Values, NEW n \in BatchSizes, TakeFrame(r, value, n)
      PROVE  Covered(rows', to, key', byHand', last')
  <2>1. /\ rows' = rows /\ key' = key /\ byHand' = byHand /\ last' = value
        /\ rd.at \in {"idle", "next"}
    BY <1>2 DEF TakeFrame
  <2>2. /\ to.at = "raise" /\ to.value = value /\ to.mine = rd.mine /\ to.resolved = rd.resolved
    <3>1. CASE rd.at = "idle"
      <4>1. rd = Idle /\ to = Started(value, n)
        BY <1>1, <1>2, <3>1 DEF Sane, TakeFrame, Go, Started
      <4>2. /\ Started(value, n).at = "raise" /\ Started(value, n).value = value
            /\ Started(value, n).mine = Idle.mine /\ Started(value, n).resolved = Idle.resolved
        BY DEF Started, Idle
      <4> QED
        BY <4>1, <4>2
    <3>2. CASE rd.at = "next"
      <4>1. to = Continued(rd, value, n)
        BY <1>1, <1>2, <3>2 DEF TakeFrame, Go, Continued
      <4>2. /\ Continued(rd, value, n).at = "raise" /\ Continued(rd, value, n).value = value
            /\ Continued(rd, value, n).mine = rd.mine
            /\ Continued(rd, value, n).resolved = rd.resolved
        BY <1>1 DEF Continued, ReaderRec
      <4> HIDE DEF rd, to
      <4> QED
        BY <4>1, <4>2
    <3> QED
      BY <2>1, <3>1, <3>2
  <2>3. ~Firing(rd)
    BY <2>1 DEF Firing
  <2> HIDE DEF to, rd
  <2> QED
    BY <1>0, <2>1, <2>2, <2>3 DEF Covered
<1>3. CASE CheckRaise(r) \/ CheckResolve(r) \/ FindRow(r)
  <2>1. /\ rows' = rows /\ key' = key /\ byHand' = byHand /\ last' = last
    BY <1>3 DEF CheckRaise, CheckResolve, FindRow, audit
  <2>2. /\ to.value = rd.value /\ to.mine = rd.mine /\ to.resolved = rd.resolved
        /\ to.fired = rd.fired
        /\ \/ rd.at = "raise" /\ to.at = "add_key"
           \/ rd.at = "raise" /\ to.at = "resolve" /\ (Raises(rd.value) => key)
           \/ rd.at = "resolve" /\ to.at = "insert"
           \/ rd.at = "resolve" /\ to.at = "find" /\ ~Keeps(rd.value)
           \/ rd.at = "find" /\ to.at = "drop_key"
    <3>1. CASE CheckRaise(r)
      <4>1. CASE Raises(rd.value) /\ ~KeyOpen
        <5>1. rd.at = "raise" /\ to = [rd EXCEPT !.at = "add_key"]
          BY <1>1, <3>1, <4>1 DEF CheckRaise, Step, Go
        <5> HIDE DEF to, rd
        <5> QED
          BY <1>1, <5>1, MovedTo
      <4>2. CASE ~(Raises(rd.value) /\ ~KeyOpen)
        <5>1. rd.at = "raise" /\ to = [rd EXCEPT !.at = "resolve"] /\ (Raises(rd.value) => key)
          BY <1>1, <3>1, <4>2 DEF CheckRaise, Step, Go, KeyOpen
        <5> HIDE DEF to, rd
        <5> QED
          BY <1>1, <5>1, MovedTo
      <4> QED
        BY <4>1, <4>2
    <3>2. CASE CheckResolve(r)
      <4>1. CASE key /\ ~Keeps(rd.value)
        <5>1. rd.at = "resolve" /\ to = [rd EXCEPT !.at = "find"] /\ ~Keeps(rd.value)
          BY <1>1, <3>2, <4>1 DEF CheckResolve, Step, Go
        <5> HIDE DEF to, rd
        <5> QED
          BY <1>1, <5>1, MovedTo
      <4>2. CASE ~(key /\ ~Keeps(rd.value))
        <5>1. rd.at = "resolve" /\ to = [rd EXCEPT !.at = "insert"]
          BY <1>1, <3>2, <4>2 DEF CheckResolve, Step, Go
        <5> HIDE DEF to, rd
        <5> QED
          BY <1>1, <5>1, MovedTo
      <4> QED
        BY <4>1, <4>2
    <3>3. CASE FindRow(r)
      <4>1. \E i : to = [rd EXCEPT !.at = "drop_key", !.found = i]
        BY <1>1, <3>3 DEF FindRow, Go
      <4>2. rd.at = "find"
        BY <3>3 DEF FindRow
      <4> HIDE DEF to, rd
      <4> QED
        BY <1>1, <4>1, <4>2 DEF ReaderRec
    <3> QED
      BY <1>3, <3>1, <3>2, <3>3
  <2>3. rd.at \in {"raise", "find"} => ~Firing(rd)
    BY DEF Firing
  <2>4. rd.fired /\ rd.at = "resolve" => Keeps(rd.value)
    BY <1>1, RaisedIsKept DEF Sane
  <2>5. Firing(rd) => Firing(to)
    BY <2>2, <2>4 DEF Firing
  <2> HIDE DEF to, rd
  <2> QED
    BY <1>0, <2>1, <2>2, <2>3, <2>5 DEF Covered
<1>4. CASE AddKey(r)
  <2>1. /\ rows' = rows /\ key' = TRUE /\ last' = last /\ rd.at = "add_key"
        /\ to = [rd EXCEPT !.at = "resolve", !.fired = TRUE]
    BY <1>1, <1>4 DEF AddKey, Go, audit
  <2> HIDE DEF to, rd
  <2>2. to.at = "resolve" /\ to.fired /\ to.value = rd.value
    BY <1>1, <2>1 DEF ReaderRec
  <2> QED
    BY <1>0, <2>1, <2>2 DEF Covered, Firing
<1>5. CASE DropKey(r)
  <2>1. key' = FALSE /\ last' = last /\ rd.at = "drop_key" /\ ~Keeps(rd.value)
    BY <1>1, <1>5 DEF DropKey, audit, Sane
  <2>2. \E a, b : to = [rd EXCEPT !.at = "insert", !.resolved = a, !.mine = b]
    BY <1>1, <1>5 DEF DropKey, Go
  <2>3. ~Raises(last)
    BY <1>0, <1>1, <2>1, RaisedIsKept
  <2> HIDE DEF to, rd
  <2>4. to.at = "insert" /\ to.value = rd.value
    BY <1>1, <2>2 DEF ReaderRec
  <2> QED
    BY <1>0, <2>1, <2>3, <2>4 DEF Covered
<1>6. CASE Insert(r)
  <2> DEFINE mine == IF rd.fired THEN Append(rd.mine, "active") ELSE rd.mine
  <2>1. /\ rows' = rows /\ key' = key /\ byHand' = byHand /\ last' = last /\ rd.at = "insert"
        /\ to = [rd EXCEPT !.at = "next", !.mine = mine]
    BY <1>1, <1>6 DEF Insert, Go, audit
  <2>2. ~rd.fired => mine = rd.mine
    OBVIOUS
  <2>3. rd.fired => LiveIn(mine, {}) # {}
    <3> SUFFICES ASSUME rd.fired PROVE LiveIn(mine, {}) # {}
      OBVIOUS
    <3>1. /\ mine \in Seq(RowState) /\ Count(mine, {}) = Count(rd.mine, {}) + 1
          /\ Count(rd.mine, {}) \in Nat
      BY <1>1, CountAppended, CountIsNat
    <3> HIDE DEF mine, rd
    <3>2. Count(mine, {}) # 0
      BY <3>1
    <3> QED
      BY <3>1, <3>2, CountZero
  <2> HIDE DEF to, rd, mine
  <2>4. to.at = "next" /\ to.value = rd.value /\ to.mine = mine /\ to.resolved = rd.resolved
    BY <1>1, <2>1 DEF ReaderRec
  <2> QED
    BY <1>0, <2>1, <2>2, <2>3, <2>4 DEF Covered, Firing
<1>7. CASE Commit(r)
  <2>1. /\ rows' = Seen(r) /\ key' = key /\ byHand' = byHand /\ last' = last /\ rd.at = "next"
        /\ to = Idle
    BY <1>1, <1>7 DEF Commit, Go, audit
  <2>2. LiveIn(rows, rd.resolved) # {} \/ LiveIn(rd.mine, {}) # {} => LiveIn(Seen(r), {}) # {}
    <3>1. /\ rows \in Seq(RowState) /\ Seen(r) \in Seq(RowState)
          /\ Count(Seen(r), {}) = Count(rows, rd.resolved) + Count(rd.mine, {})
      BY OtherFields, SeenParts DEF Held
    <3>2. Count(rows, rd.resolved) \in Nat /\ Count(rd.mine, {}) \in Nat
      BY <1>1, <3>1, CountIsNat
    <3>3. Count(Seen(r), {}) = 0 => Count(rows, rd.resolved) = 0 /\ Count(rd.mine, {}) = 0
      <4> HIDE DEF rd
      <4> QED
        BY <3>1, <3>2
    <3> QED
      BY <1>1, <3>1, <3>3, CountZero
  <2>3. ~Firing(rd)
    BY <2>1 DEF Firing
  <2> HIDE DEF to, rd
  <2> QED
    BY <1>0, <2>1, <2>2, <2>3, IdleHolds DEF Covered
<1>8. ~FrameFails(r) /\ ~CommitFails(r)
  BY DEF FrameFails, CommitFails, Mishap
<1> QED
  BY <1>2, <1>3, <1>4, <1>5, <1>6, <1>7, <1>8 DEF ReaderStep

\* The key stays covered while no reader moves and no row stops being live unseen.
LEMMA QuietStays ==
  ASSUME Quiet, UNCHANGED <<reader, key, last>>, mishaps' = 0 => mishaps = 0,
         byHand => byHand',
         mishaps' = 0 =>
           byHand' \/ \A marks : LiveIn(rows, marks) # {} => LiveIn(rows', marks) # {}
  PROVE  Quiet'
<1> SUFFICES ASSUME mishaps' = 0
             PROVE  \E r \in Readers : /\ \A s \in Readers \ {r} : ~Busy(s)'
                                       /\ Covered(rows', reader'[r], key', byHand', last')
  BY DEF Quiet
<1>1. PICK r \in Readers : /\ \A s \in Readers \ {r} : ~Busy(s)
                           /\ Covered(rows, reader[r], key, byHand, last)
  BY DEF Quiet
<1>2. \A s \in Readers \ {r} : ~Busy(s)'
  BY <1>1 DEF Busy
<1>3. Covered(rows', reader[r], key, byHand', last)
  BY <1>1 DEF Covered
<1> WITNESS r \in Readers
<1> QED
  BY <1>2, <1>3

\* Without a mishap, the key stays covered, and the condition.
LEMMA QuietStep ==
  ASSUME TypeOK, TypeOK', Readings, NoMargin, Quiet, [Next]_vars
  PROVE  Quiet'
<1>1. ASSUME NEW r \in Readers, ReaderStep(r) PROVE Quiet'
  <2> SUFFICES ASSUME mishaps' = 0
               PROVE  \E x \in Readers : /\ \A s \in Readers \ {x} : ~Busy(s)'
                                         /\ Covered(rows', reader'[x], key', byHand', last')
    BY DEF Quiet
  <2>1. /\ mishaps = 0 /\ \A s \in Readers \ {r} : ~Busy(s)
        /\ Covered(rows, reader[r], key, byHand, last)
    BY <1>1, StepsAlone
  <2>2. Covered(rows', reader'[r], key', byHand', last')
    BY <1>1, <2>1, CoveredStep
  <2>3. \E to : reader' = [reader EXCEPT ![r] = to]
    BY <1>1 DEF ReaderStep, TakeFrame, CheckRaise, AddKey, CheckResolve, FindRow, DropKey, Insert,
       FrameFails, Commit, CommitFails, Step, Go
  <2>4. \A s \in Readers \ {r} : reader'[s] = reader[s]
    BY <2>3 DEF TypeOK
  <2>5. \A s \in Readers \ {r} : ~Busy(s)'
    BY <2>1, <2>4 DEF Busy
  <2> WITNESS r \in Readers
  <2> QED
    BY <2>2, <2>5
<1>2. ASSUME NEW i \in DOMAIN rows, AckRead(i) PROVE Quiet'
  BY <1>2, QuietStays DEF AckRead, audit
<1>3. ASSUME NEW i \in DOMAIN rows, ResolveByHand(i) PROVE Quiet'
  <2>1. /\ UNCHANGED <<reader, key, last, mishaps>> /\ rows' = [rows EXCEPT ![i] = "resolved"]
        /\ byHand' = (byHand \/ rows[i] \in Live)
    BY <1>3 DEF ResolveByHand, audit
  <2>2. ASSUME ~byHand', NEW marks PROVE LiveIn(rows', marks) = LiveIn(rows, marks)
    <3>1. rows[i] \notin Live /\ "resolved" \notin Live
      BY <2>1, <2>2 DEF Live
    <3>2. /\ DOMAIN rows' = DOMAIN rows
          /\ \A j \in DOMAIN rows : rows'[j] = IF j = i THEN "resolved" ELSE rows[j]
      BY <2>1
    <3> QED
      BY <3>1, <3>2 DEF LiveIn
  <2> QED
    BY <2>1, <2>2, QuietStays
<1>4. CASE AckWrite
  <2> DEFINE i == ack.row
             v == IF ack.read = "active" THEN "acknowledged" ELSE rows[i]
  <2>1. /\ UNCHANGED <<reader, key, last, byHand>> /\ rows' = [rows EXCEPT ![i] = v]
        /\ mishaps \in Nat
        /\ IF rows'[i] \in Live /\ rows[i] \notin Live THEN mishaps' = mishaps + 1
                                                       ELSE mishaps' = mishaps
    BY <1>4, OtherFields DEF AckWrite, audit
  <2>2. mishaps' = 0 => mishaps = 0 /\ ~(rows'[i] \in Live /\ rows[i] \notin Live)
    BY <2>1
  <2>3. /\ DOMAIN rows' = DOMAIN rows
        /\ \A j \in DOMAIN rows : rows'[j] = IF j = i THEN v ELSE rows[j]
    BY <2>1
  <2>4. rows[i] \in Live => v \in Live
    BY DEF Live
  <2> HIDE DEF v, i
  <2>5. \A marks : LiveIn(rows, marks) \subseteq LiveIn(rows', marks)
    BY <2>3, <2>4 DEF LiveIn
  <2> QED
    BY <2>1, <2>2, <2>5, QuietStays
<1>5. CASE FrameRolledBack
  <2>1. mishaps \in Nat /\ mishaps' = mishaps + 1
    BY <1>5, OtherFields DEF FrameRolledBack, Mishap
  <2>2. mishaps' # 0
    BY <2>1
  <2> QED
    BY <2>2 DEF Quiet
<1>6. CASE UNCHANGED vars
  BY <1>6 DEF vars, audit, Quiet, Busy
<1> QED
  BY <1>1, <1>2, <1>3, <1>4, <1>5, <1>6 DEF Next

-----------------------------------------------------------------------------
\* A fresh store keeps the invariant: nobody works, and nothing is raised.
LEMMA AlarmsInit == Init => Readings /\ Main /\ Quiet
<1> SUFFICES ASSUME Init PROVE Readings /\ Main /\ Quiet
  OBVIOUS
<1>1. /\ key = FALSE /\ rows = << >> /\ returns = 0 /\ mishaps = 0 /\ ~Raises(last)
      /\ \A r \in Readers : reader[r] = Idle
  BY DEF Init
<1>2. << >> \in Seq(RowState) /\ Len(<< >>) = 0 /\ Count(<< >>, {}) = 0
  BY CountEmpty
<1>3. Flusher \in Readers
  BY DEF Readers
<1>4. Readings
  <2>1. Sane(Idle, 0) /\ Single(Idle)
    <3>1. Idle.left = 0 /\ Idle.savepoint[1] = << >> /\ Idle.savepoint[2] = {}
      BY DEF Idle
    <3> QED
      BY <1>2, <3>1, IdleHolds DEF Sane, Single
  <2> QED
    BY <1>1, <1>2, <2>1 DEF Readings
<1>5. Main
  <2>1. HoldersIn(Flusher, reader) = {}
    BY <1>1, IdleHolds DEF HoldersIn
  <2>2. IsFiniteSet(HoldersIn(Flusher, reader)) /\ Cardinality(HoldersIn(Flusher, reader)) = 0
    BY <2>1, FS_EmptySet
  <2>3. Credit(Flusher) = 0
    BY <1>1, <2>2 DEF Credit
  <2>4. Held(<< >>, Idle) = 0 /\ Total(<< >>, Idle) = 0
    BY <1>2, IdleHolds DEF Total, Number, Held
  <2>5. RowsSound(<< >>, Idle, FALSE, 0)
    BY <1>2, <2>4, IdleHolds DEF RowsSound, Number
  <2>6. EpisodesSound(<< >>, Idle, FALSE, 0, 0, last)
    BY <2>4, IdleHolds DEF EpisodesSound, Number
  <2>7. /\ RowsSound(rows, reader[Flusher], key, Credit(Flusher))
        /\ EpisodesSound(rows, reader[Flusher], key, Credit(Flusher), returns, last)
    BY <1>1, <1>3, <2>3, <2>5, <2>6
  <2>8. Sound(Flusher)
    BY <2>2, <2>3, <2>7 DEF Sound
  <2> QED
    BY <1>3, <2>8 DEF Main
<1>6. Quiet
  <2>1. Covered(rows, Idle, key, byHand, last)
    BY <1>1, IdleHolds DEF Covered
  <2>2. \A s \in Readers \ {Flusher} : ~Busy(s)
    BY <1>1, IdleHolds DEF Busy
  <2> QED
    BY <1>1, <1>3, <2>1, <2>2 DEF Quiet
<1> QED
  BY <1>4, <1>5, <1>6

\* Between frames the main reader's invariant speaks of the committed rows only.
LEMMA IdleSound ==
  ASSUME TypeOK, Readings, AllIdle, NEW m \in Readers, Sound(m)
  PROVE  /\ reader[m] = Idle /\ Credit(m) = mishaps /\ mishaps \in Nat
         /\ Count(rows, {}) = LiveCount /\ LiveCount \in Nat
         /\ Held(rows, Idle) = LiveCount /\ Total(rows, Idle) = Len(rows)
<1>1. \A r \in Readers : reader[r] = Idle
  BY DEF AllIdle, Readings, Sane, Busy
<1>2. HoldersIn(m, reader) = {}
  BY <1>1, IdleHolds DEF HoldersIn
<1>3. Cardinality(HoldersIn(m, reader)) = 0
  BY <1>2, FS_EmptySet
<1>4. mishaps \in Nat /\ rows \in Seq(RowState)
  BY OtherFields
<1>5. LiveIn(rows, {}) = {i \in DOMAIN rows : rows[i] \in Live}
  BY DEF LiveIn
<1>6. Count(rows, {}) = LiveCount /\ Count(rows, {}) \in Nat
  BY <1>4, <1>5, CountIsNat DEF Count, LiveCount
<1>7. Held(rows, Idle) = LiveCount
  BY <1>6, IdleHolds, CountEmpty
<1>8. Len(rows) \in Nat /\ Total(rows, Idle) = Len(rows)
  BY <1>4, IdleHolds, CountEmpty DEF Total, Number
<1>9. Credit(m) = mishaps
  BY <1>3, <1>4 DEF Credit
<1> QED
  BY <1>1, <1>4, <1>6, <1>7, <1>8, <1>9

-----------------------------------------------------------------------------
\* Whatever the interleaving of flusher, requests and operators, one reader works on
\* what is committed and every other one has a mishap of its own (pipeline.py: process).
THEOREM AlarmsInvHolds ==
  ASSUME NoMargin
  PROVE  Spec => []AlarmsInv
<1>1. Init => AlarmsInv
  <2>1. Init => TypeOK
    BY InitTyped
  <2> QED
    BY <2>1, AlarmsInit DEF AlarmsInv
<1>2. AlarmsInv /\ [Next]_vars => AlarmsInv'
  <2> SUFFICES ASSUME AlarmsInv, [Next]_vars PROVE AlarmsInv'
    OBVIOUS
  <2>1. TypeOK /\ Readings /\ Main /\ Quiet
    BY DEF AlarmsInv
  <2>2. TypeOK'
    BY <2>1, TypeStep
  <2>3. Readings'
    BY <2>1, <2>2, ReadingsStep
  <2>4. Main'
    BY <2>1, <2>2, MainStep
  <2>5. Quiet'
    BY <2>1, <2>2, QuietStep
  <2> QED
    BY <2>2, <2>3, <2>4, <2>5 DEF AlarmsInv
<1> QED
  BY <1>1, <1>2, PTL DEF Spec

\* The key in Redis and the alarm rows go together (pipeline.py:377 and :239), whatever
\* the number of frames, requests and mishaps, for a type without a clearing margin.
THEOREM KeyMatchesRowsHolds ==
  ASSUME NoMargin
  PROVE  Spec => []KeyMatchesRows
<1>1. AlarmsInv => KeyMatchesRows
  <2> SUFFICES ASSUME AlarmsInv, AllIdle
               PROVE  /\ LiveCount <= (IF key THEN 1 ELSE 0) + mishaps
                      /\ mishaps = 0 /\ Raises(last) => LiveCount > 0 \/ byHand
    BY DEF KeyMatchesRows, LiveAlarmsHaveKey, NoSilentAlarm
  <2>1. TypeOK /\ Readings /\ Main /\ Quiet
    BY DEF AlarmsInv
  <2>2. PICK m \in Readers : Sound(m)
    BY <2>1 DEF Main
  <2>3. /\ reader[m] = Idle /\ Credit(m) = mishaps /\ mishaps \in Nat /\ LiveCount \in Nat
        /\ Held(rows, Idle) = LiveCount /\ Count(rows, {}) = LiveCount
    BY <2>1, <2>2, IdleSound
  <2>4. Held(rows, Idle) + Number(Firing(Idle)) <= Number(key) + mishaps
    <3>1. Held(rows, reader[m]) + Number(Firing(reader[m])) <= Number(key) + Credit(m)
      BY <2>2 DEF Sound, RowsSound
    <3> QED
      BY <2>3, <3>1
  <2>5. LiveCount <= (IF key THEN 1 ELSE 0) + mishaps
    BY <2>3, <2>4, IdleHolds DEF Number
  <2>6. ASSUME mishaps = 0, Raises(last), ~byHand PROVE LiveCount > 0
    <3>1. PICK r \in Readers : Covered(rows, reader[r], key, byHand, last)
      BY <2>1, <2>6 DEF Quiet
    <3>2. reader[r] = Idle
      BY <2>1 DEF AllIdle, Busy, Readings, Sane
    <3>3. key /\ (LiveIn(rows, {}) # {} \/ LiveIn(<< >>, {}) # {})
      BY <2>6, <3>1, <3>2, IdleHolds DEF Covered
    <3>4. LiveIn(<< >>, {}) = {}
      BY CountEmpty, CountZero
    <3>5. LiveCount # 0
      BY <2>1, <2>3, <3>3, <3>4, OtherFields, CountZero
    <3> QED
      BY <2>3, <3>5
  <2> QED
    BY <2>5, <2>6
<1> QED
  BY <1>1, AlarmsInvHolds, PTL

\* A condition that stays true raises one alarm, not one per frame (pipeline.py:372-373),
\* whatever the number of frames and requests, for a type without a clearing margin.
THEOREM OneAlarmPerConditionHolds ==
  ASSUME NoMargin
  PROVE  Spec => []OneAlarmPerCondition
<1>1. AlarmsInv => OneAlarmPerCondition
  <2> SUFFICES ASSUME AlarmsInv, AllIdle PROVE Len(rows) <= 1 + returns + mishaps
    BY DEF OneAlarmPerCondition
  <2>1. TypeOK /\ Readings /\ Main
    BY DEF AlarmsInv
  <2>2. PICK m \in Readers : Sound(m)
    BY <2>1 DEF Main
  <2>3. /\ reader[m] = Idle /\ Credit(m) = mishaps /\ mishaps \in Nat
        /\ Total(rows, Idle) = Len(rows) /\ returns \in Nat /\ Len(rows) \in Nat
    BY <2>1, <2>2, IdleSound, OtherFields
  <2>4. Total(rows, reader[m]) <= returns + Credit(m) + Number(key /\ Raises(last))
    BY <2>2 DEF Sound, EpisodesSound
  <2>5. Number(key /\ Raises(last)) \in {0, 1}
    BY DEF Number
  <2> QED
    BY <2>3, <2>4, <2>5
<1> QED
  BY <1>1, AlarmsInvHolds, PTL
=============================================================================
