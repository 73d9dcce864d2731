------------------------------- MODULE Alarms -------------------------------
(***************************************************************************)
(* One alarm type of one tank (ingestion/pipeline.py): the Redis key       *)
(* alarm:open:<tank>:<type>, which says "an alarm is open", against the    *)
(* alarm rows in PostgreSQL.  A reader works through the frames of a       *)
(* transaction (the batch flusher, or a request with a single frame); it   *)
(* changes the key at once and the rows when it commits.  Operators        *)
(* acknowledge and resolve rows and know nothing of the key.               *)
(*                                                                         *)
(* The types of a tank share nothing but the commit, so one is enough.     *)
(* Abstracted: how a frame becomes a level or a volume, messages, events.  *)
(***************************************************************************)
EXTENDS Integers, Sequences, FiniteSets

CONSTANTS
  Flusher,       \* the task that handles queued frames in batches
  Requests,      \* HTTP callers: one frame, one transaction
  AlarmType,     \* one of AlarmTypes
  Values,        \* measured levels or volumes, integers
  Threshold,     \* the tank's threshold for AlarmType
  Hysteresis,    \* ALARM_CLEAR_HYSTERESIS_METERS or _LITERS
  BatchSize,     \* frames of one transaction of the flusher
  MaxFrames,     \* bound: frames in all
  MaxMishaps     \* bound: failing frames and commits, frames handled concurrently

Readers == {Flusher} \cup Requests
AlarmTypes == {"low_level", "critical_level", "high_level",
               "low_volume", "high_volume", "sensor_fault"}

ASSUME AlarmsAssumption ==
  /\ Flusher \notin Requests
  /\ AlarmType \in AlarmTypes
  /\ Values \subseteq Int
  /\ Threshold \in Int
  /\ Hysteresis \in Nat
  /\ BatchSize \in Nat \ {0}
  /\ MaxFrames \in Nat
  /\ MaxMishaps \in Nat

VARIABLES
  key,           \* the Redis open-set of the type has its member
  rows,          \* states of the committed alarm rows, oldest first
  reader,        \* per reader: step, value, rows it will insert, rows it resolved
  ack,           \* an operator's ack_alarm under way: row, state read
  last,          \* history: the value of the frame processed last
  returns,       \* history: frames that found a raised condition gone
  byHand,        \* history: an operator resolved a live alarm since the key was set
  frames, mishaps

audit == <<last, returns>>
vars == <<key, rows, reader, ack, audit, byHand, frames, mishaps>>

-----------------------------------------------------------------------------
(* Types *)

RowState == {"active", "acknowledged", "resolved"}
Live == {"active", "acknowledged"}
NoRow == 0

Idle == [at |-> "idle", value |-> Threshold, fired |-> FALSE, found |-> NoRow,
         mine |-> << >>, resolved |-> {}, left |-> 0,
         savepoint |-> << << >>, {} >>]
NoAck == [row |-> NoRow, read |-> "active"]

TypeOK ==
  /\ key \in BOOLEAN
  /\ rows \in Seq(RowState)
  /\ reader \in [Readers ->
       [at : {"idle", "raise", "add_key", "resolve", "find", "drop_key", "insert", "next"},
        value : Values \cup {Threshold}, fired : BOOLEAN, found : Int,
        mine : Seq(RowState), resolved : SUBSET Nat, left : 0 .. BatchSize,
        savepoint : Seq(RowState) \X SUBSET Nat]]
  /\ ack \in [row : Nat, read : RowState]
  /\ last \in Values \cup {Threshold}
  /\ returns \in Nat
  /\ byHand \in BOOLEAN
  /\ frames \in 0 .. MaxFrames
  /\ mishaps \in Nat

-----------------------------------------------------------------------------
(* The rules *)

(* _is_violated, with the margin the caller passes *)
IsViolated(value, margin) ==
  CASE AlarmType \in {"low_level", "critical_level"} -> value <= Threshold
    [] AlarmType \in {"high_level", "high_volume"} -> value >= Threshold + margin
    [] AlarmType = "low_volume" -> value <= Threshold - margin
    [] AlarmType = "sensor_fault" -> value > Threshold   \* over the tank's height

(* evaluate_alarm_rules: a candidate to raise *)
Raises(value) == IsViolated(value, 0)
(* _resolve_cleared: the condition is still there *)
Keeps(value) == IsViolated(value, Hysteresis)

Init ==
  /\ key = FALSE
  /\ rows = << >>
  /\ reader = [r \in Readers |-> Idle]
  /\ ack = NoAck
  /\ \E value \in Values : ~Raises(value) /\ last = value
  /\ returns = 0
  /\ byHand = FALSE
  /\ frames = 0
  /\ mishaps = 0

-----------------------------------------------------------------------------
(* A reader at work *)

Busy(r) == reader[r].at # "idle"
Go(r, to) == reader' = [reader EXCEPT ![r] = to]
Step(r, from, to) == reader[r].at = from /\ Go(r, [reader[r] EXCEPT !.at = to])
Mishap == mishaps < MaxMishaps /\ mishaps' = mishaps + 1

\* mutant: the drain stops one frame late
BatchSizes_OneMore == 1 .. BatchSize + 1
BatchSizes == 1 .. BatchSize

(* A frame is taken up: the first of a transaction of n, or its next one,  *)
(* under a savepoint of its own.                                           *)
TakeFrame(r, value, n) ==
  /\ frames < MaxFrames
  /\ frames' = frames + 1
  /\ \/ /\ reader[r].at = "idle"
        /\ Go(r, [Idle EXCEPT !.at = "raise", !.value = value, !.left = n])
        /\ r \in Requests => n = 1
        /\ IF \E s \in Readers \ {r} : Busy(s) THEN Mishap ELSE UNCHANGED mishaps
     \/ /\ reader[r].at = "next"
        /\ n = reader[r].left - 1 /\ n > 0
        /\ Go(r, [reader[r] EXCEPT !.at = "raise", !.value = value, !.left = n,
                                   !.fired = FALSE, !.found = NoRow,
                                   !.savepoint = <<reader[r].mine, reader[r].resolved>>])
        /\ UNCHANGED mishaps
  /\ last' = value
  /\ returns' = returns + (IF Raises(last) /\ ~Raises(value) THEN 1 ELSE 0)
  /\ UNCHANGED <<key, rows, ack, byHand>>

\* mutant: the open-set is not consulted
KeyOpen_Never == FALSE
KeyOpen == key

(* raise: SISMEMBER, then SADD *)
CheckRaise(r) ==
  /\ IF Raises(reader[r].value) /\ ~KeyOpen
       THEN Step(r, "raise", "add_key")
       ELSE Step(r, "raise", "resolve")
  /\ UNCHANGED <<key, rows, ack, audit, byHand, frames, mishaps>>

AddKey(r) ==
  /\ reader[r].at = "add_key"
  /\ Go(r, [reader[r] EXCEPT !.at = "resolve", !.fired = TRUE])
  /\ key' = TRUE
  /\ byHand' = FALSE
  /\ UNCHANGED <<rows, ack, audit, frames, mishaps>>

(* _resolve_cleared: SISMEMBER, SELECT a live row, SREM *)
CheckResolve(r) ==
  /\ IF key /\ ~Keeps(reader[r].value)
       THEN Step(r, "resolve", "find")
       ELSE Step(r, "resolve", "insert")
  /\ UNCHANGED <<key, rows, ack, audit, byHand, frames, mishaps>>

\* the rows a reader's session sees: the committed ones and its own
Seen(r) ==
  [i \in DOMAIN rows |-> IF i \in reader[r].resolved THEN "resolved" ELSE rows[i]]
  \o reader[r].mine

\* mutant: only rows nobody acknowledged are resolved
LiveRows_Active(seen) == {i \in DOMAIN seen : seen[i] = "active"}
LiveRows(seen) == {i \in DOMAIN seen : seen[i] \in Live}

\* the one raised last by the clocks of the devices, which is any of them
FindRow(r) ==
  /\ reader[r].at = "find"
  /\ LET live == LiveRows(Seen(r))
     IN \E i \in IF live = {} THEN {NoRow} ELSE live :
          Go(r, [reader[r] EXCEPT !.at = "drop_key",
                   !.found = IF i <= Len(rows) THEN i ELSE Len(rows) - i])
  /\ UNCHANGED <<key, rows, ack, audit, byHand, frames, mishaps>>

\* a negative `found` is a row of the reader's own transaction
DropKey(r) ==
  /\ reader[r].at = "drop_key"
  /\ LET i == reader[r].found IN
       Go(r, [reader[r] EXCEPT !.at = "insert",
                !.resolved = IF i > 0 THEN @ \cup {i} ELSE @,
                !.mine = IF i < 0 THEN [@ EXCEPT ![-i] = "resolved"] ELSE @])
  /\ key' = FALSE
  /\ UNCHANGED <<rows, ack, audit, byHand, frames, mishaps>>

(* the fired alarm joins the session *)
Insert(r) ==
  /\ reader[r].at = "insert"
  /\ Go(r, [reader[r] EXCEPT !.at = "next",
              !.mine = IF reader[r].fired THEN Append(@, "active") ELSE @])
  /\ UNCHANGED <<key, rows, ack, audit, byHand, frames, mishaps>>

(* a Redis call or the query raises; process logs it and returns None *)
FrameFails(r) ==
  /\ reader[r].at \notin {"idle", "next"}
  /\ Mishap
  /\ Go(r, [reader[r] EXCEPT !.at = "next"])
  /\ UNCHANGED <<key, rows, ack, audit, byHand, frames>>

(* publish_live raises after process returned: the flusher rolls the frame *)
(* back and goes on with the batch                                         *)
FrameRolledBack ==
  /\ reader[Flusher].at = "next"
  /\ Mishap
  /\ Go(Flusher, [reader[Flusher] EXCEPT !.mine = reader[Flusher].savepoint[1],
                                  !.resolved = reader[Flusher].savepoint[2]])
  /\ UNCHANGED <<key, rows, ack, audit, byHand, frames>>

Commit(r) ==
  /\ reader[r].at = "next"
  /\ rows' = Seen(r)
  /\ Go(r, Idle)
  /\ UNCHANGED <<key, ack, audit, byHand, frames, mishaps>>

CommitFails(r) ==
  /\ reader[r].at = "next"
  /\ Mishap
  /\ Go(r, Idle)
  /\ UNCHANGED <<key, rows, ack, audit, byHand, frames>>

-----------------------------------------------------------------------------
(* Operators *)

AckRead(i) ==
  /\ ack = NoAck
  /\ ack' = [row |-> i, read |-> rows[i]]
  /\ UNCHANGED <<key, rows, reader, audit, byHand, frames, mishaps>>

(* ack_alarm writes the state it derives from the one it read *)
AckWrite ==
  /\ ack.row # NoRow
  /\ ack' = NoAck
  /\ rows' = [rows EXCEPT ![ack.row] = IF ack.read = "active" THEN "acknowledged" ELSE @]
  /\ IF rows'[ack.row] \in Live /\ rows[ack.row] \notin Live
       THEN mishaps' = mishaps + 1 ELSE UNCHANGED mishaps
  /\ UNCHANGED <<key, reader, audit, byHand, frames>>

ResolveByHand(i) ==
  /\ rows' = [rows EXCEPT ![i] = "resolved"]
  /\ byHand' = (byHand \/ rows[i] \in Live)
  /\ UNCHANGED <<key, reader, ack, audit, frames, mishaps>>

-----------------------------------------------------------------------------
ReaderStep(r) ==
  \/ \E value \in Values : \E n \in BatchSizes : TakeFrame(r, value, n)
  \/ CheckRaise(r) \/ AddKey(r) \/ CheckResolve(r) \/ FindRow(r) \/ DropKey(r)
  \/ Insert(r) \/ FrameFails(r) \/ Commit(r) \/ CommitFails(r)

Next ==
  \/ \E r \in Readers : ReaderStep(r)
  \/ \E i \in DOMAIN rows : AckRead(i) \/ ResolveByHand(i)
  \/ AckWrite
  \/ FrameRolledBack

Spec == Init /\ [][Next]_vars

-----------------------------------------------------------------------------
(* Properties *)

AllIdle == \A r \in Readers : ~Busy(r)
LiveCount == Cardinality({i \in DOMAIN rows : rows[i] \in Live})

\* Between frames, a live alarm has its key: else nothing ever resolves it.  Each
\* exception is owed to a failed frame or commit, to frames processed
\* concurrently, or to an ack written over a resolution.
LiveAlarmsHaveKey ==
  AllIdle => LiveCount <= (IF key THEN 1 ELSE 0) + mishaps

\* A tank past its threshold has a live alarm, unless an operator resolved it or
\* something failed: the key never suppresses an alarm that was not raised.
NoSilentAlarm ==
  AllIdle /\ mishaps = 0 /\ Raises(last) => LiveCount > 0 \/ byHand

\* The key in Redis and the alarm rows go together (pipeline.py:377 and :239).
KeyMatchesRows == LiveAlarmsHaveKey /\ NoSilentAlarm

\* "a condition that stays true produces exactly one alarm, not one per frame"
\* (pipeline.py:372-373): a new alarm needs the condition to have gone before.
OneAlarmPerCondition ==
  AllIdle => Len(rows) <= 1 + returns + mishaps
=============================================================================
