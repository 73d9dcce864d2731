----------------------------- MODULE IngestBatch -----------------------------
(***************************************************************************)
(* Intake of reading frames (ingestion/main.py): a bounded queue in the    *)
(* process, a flusher that turns up to BatchSize frames into one           *)
(* transaction with a savepoint per frame, and the counters in Redis by    *)
(* which operators judge whether frames are lost (metrics_counters.py).    *)
(* The HTTP fallback writes frames one by one and counts nothing.          *)
(*                                                                         *)
(* A frame stands for its (tank, timestamp) pair, so that a redelivered    *)
(* frame is the same element.  What a frame does to alarms is in Alarms.   *)
(***************************************************************************)
EXTENDS Integers, Sequences, FiniteSets

CONSTANTS
  Frames,        \* frames the devices send
  Posted,        \* those a device may also send over HTTP
  QueueMax,      \* READ_QUEUE_MAX
  BatchSize,     \* BATCH_SIZE
  Milestones,    \* totals of dropped frames that are recorded: 1, 100, 1000, ...
  MaxMishaps     \* bound: failing calls, restarts and redelivered frames

ASSUME IngestAssumption ==
  /\ Posted \subseteq Frames
  /\ QueueMax \in Nat \ {0}
  /\ BatchSize \in Nat \ {0}
  /\ Milestones \subseteq Nat /\ 1 \in Milestones
  /\ MaxMishaps \in Nat

VARIABLES
  queue,         \* _READ_QUEUE
  flush,         \* _flush_readings: step, batch, frames left, rows, persisted
  table,         \* the committed measurements
  counter,       \* the Redis counters
  droppedMem,    \* _dropped_reading_frames, in the process
  recorder,      \* _overflow_record_task is under way
  live,          \* history: frames published on telemetry:live
  arrived,       \* history: frames handed over by the broker
  written,       \* history: rows of the transactions that were committed
  hidden,        \* history: frames counted persisted that left no row
  forgotten,     \* history: frames the process forgot when it stopped
  undone,        \* history: frames of transactions that were lost
  muted,         \* history: a call that records drops failed
  mishaps

audit == <<arrived, written, hidden, forgotten, undone, muted>>
vars == <<queue, flush, table, counter, droppedMem, recorder, live, audit, mishaps>>

-----------------------------------------------------------------------------
Idle == [at |-> "idle", batch |-> << >>, left |-> << >>, rows |-> << >>, persisted |-> 0]

TypeOK ==
  /\ queue \in Seq(Frames) /\ Len(queue) <= QueueMax
  /\ flush \in [at : {"idle", "frames", "received", "persisted", "fail_received",
                      "fail_dropped"},
                batch : Seq(Frames), left : Seq(Frames), rows : Seq(Frames),
                persisted : Nat]
  /\ Len(flush.batch) <= BatchSize
  /\ table \subseteq Frames /\ live \subseteq Frames
  /\ arrived \subseteq Frames /\ undone \subseteq Frames
  /\ counter \in [received : Nat, persisted : Nat, dropped : Nat]
  /\ droppedMem \in Nat /\ recorder \in BOOLEAN
  /\ written \in Nat /\ hidden \in Nat /\ forgotten \in Nat
  /\ muted \in BOOLEAN /\ mishaps \in 0 .. MaxMishaps

Init ==
  /\ queue = << >>
  /\ flush = Idle
  /\ table = {} /\ live = {} /\ arrived = {} /\ undone = {}
  /\ counter = [received |-> 0, persisted |-> 0, dropped |-> 0]
  /\ droppedMem = 0 /\ recorder = FALSE
  /\ written = 0 /\ hidden = 0 /\ forgotten = 0 /\ muted = FALSE
  /\ mishaps = 0

Elements(s) == {s[i] : i \in DOMAIN s}
Mishap == mishaps < MaxMishaps /\ mishaps' = mishaps + 1
Count(name, n) == counter' = [counter EXCEPT ![name] = @ + n]

-----------------------------------------------------------------------------
(* The intake *)

\* mutant: the first dropped frame is not recorded
IsMilestone_NotFirst(n) == n \in Milestones \ {1}
IsMilestone(n) == n \in Milestones

\* mutant: one frame more than the queue holds
QueueFull_OneMore == Len(queue) > QueueMax
QueueFull == Len(queue) >= QueueMax

LostWith(n) == droppedMem + n

(* _on_message and _route: QoS 1 may hand a frame over again *)
HandOver(f) ==
  /\ IF f \in arrived THEN Mishap ELSE UNCHANGED mishaps
  /\ arrived' = arrived \cup {f}

(* _enqueue_reading *)
Enqueue(f) ==
  /\ HandOver(f)
  /\ \/ /\ ~QueueFull
        /\ queue' = Append(queue, f)
        /\ UNCHANGED <<droppedMem, recorder>>
     \/ /\ QueueFull
        /\ droppedMem' = LostWith(1)
        /\ recorder' = (recorder \/ IsMilestone(droppedMem'))
        /\ UNCHANGED queue
  /\ UNCHANGED <<flush, table, counter, live, written, hidden, forgotten, undone, muted>>

(* _record_overflow adds the total as it stands when the task gets to run *)
RecordOverflow ==
  /\ recorder
  /\ recorder' = FALSE
  /\ \/ Count("dropped", droppedMem) /\ UNCHANGED <<muted, mishaps>>
     \/ Mishap /\ muted' = TRUE /\ UNCHANGED counter
  /\ UNCHANGED <<queue, flush, table, droppedMem, live, arrived, written, hidden,
                 forgotten, undone>>

-----------------------------------------------------------------------------
(* The flusher *)

\* mutant: the flusher waits for a full batch
BatchLen_Full(q) == IF Len(q) < BatchSize THEN 0 ELSE BatchSize
BatchLen(q) == IF Len(q) < BatchSize THEN Len(q) ELSE BatchSize

Drain ==
  /\ flush.at = "idle" /\ queue # << >>
  /\ LET n == BatchLen(queue)
         batch == SubSeq(queue, 1, n)
     IN /\ flush' = [Idle EXCEPT !.at = "frames", !.batch = batch, !.left = batch]
        /\ queue' = SubSeq(queue, n + 1, Len(queue))
  /\ UNCHANGED <<table, counter, droppedMem, recorder, live, audit, mishaps>>

(* How _process_reading and the savepoint around it can end: whether the   *)
(* frame's row was queued, whether it went out live, whether it is counted *)
(* persisted, and whether something failed.                                *)
Outcome(row, shown, counted, fails) ==
  [row |-> row, shown |-> shown, counted |-> counted, fails |-> fails]
Stored == Outcome(TRUE, TRUE, TRUE, FALSE)
Unknown == Outcome(FALSE, FALSE, TRUE, FALSE)        \* no tank matched
Swallowed == Outcome(FALSE, FALSE, TRUE, TRUE)       \* process() returned None
Raised == Outcome(FALSE, FALSE, FALSE, TRUE)         \* before the row was queued
Unpublished == Outcome(TRUE, FALSE, FALSE, TRUE)     \* publish_live raised
Unreleased == Outcome(TRUE, TRUE, TRUE, TRUE)        \* savepoint.commit() raised

Outcomes == {Stored, Unknown, Swallowed, Raised, Unpublished, Unreleased}
Hides(o) == o.counted /\ ~o.row

\* mutant: the rollback of a savepoint takes the frame's row back as well
RowsWith_RolledBack(f, o) == IF o.row /\ ~o.fails THEN Append(flush.rows, f) ELSE flush.rows
RowsWith(f, o) == IF o.row THEN Append(flush.rows, f) ELSE flush.rows

HandleFrame(o) ==
  /\ flush.at = "frames" /\ flush.left # << >>
  /\ IF o.fails THEN Mishap ELSE UNCHANGED mishaps
  /\ LET f == Head(flush.left) IN
       /\ flush' = [flush EXCEPT !.left = Tail(@), !.rows = RowsWith(f, o),
                                 !.persisted = @ + (IF o.counted THEN 1 ELSE 0)]
       /\ live' = IF o.shown THEN live \cup {f} ELSE live
  /\ hidden' = hidden + (IF Hides(o) THEN 1 ELSE 0)
  /\ UNCHANGED <<queue, table, counter, droppedMem, recorder, arrived, written,
                 forgotten, undone, muted>>

\* mutant: received is not counted before persisted
CommitTo_Persisted == "persisted"
CommitTo == "received"

(* insert_measurements (ON CONFLICT DO NOTHING) and the commit *)
CommitBatch ==
  /\ flush.at = "frames" /\ flush.left = << >>
  /\ table' = table \cup Elements(flush.rows)
  /\ written' = written + Len(flush.rows)
  /\ flush' = [flush EXCEPT !.at = CommitTo]
  /\ UNCHANGED <<queue, counter, droppedMem, recorder, live, arrived, hidden,
                 forgotten, undone, muted, mishaps>>

BatchFails ==
  /\ Mishap
  /\ flush' = [flush EXCEPT !.at = "fail_received"]
  /\ droppedMem' = LostWith(Len(flush.batch))

(* a savepoint that cannot be opened or rolled back, the bulk insert or    *)
(* the commit raises; a commit whose answer is lost may have happened      *)
TransactionFails ==
  /\ flush.at = "frames"
  /\ BatchFails
  /\ \/ UNCHANGED <<table, written>>
     \/ /\ flush.left = << >>
        /\ table' = table \cup Elements(flush.rows)
        /\ written' = written + Len(flush.rows)
  /\ undone' = undone \cup Elements(flush.batch)
  /\ UNCHANGED <<queue, counter, recorder, live, arrived, hidden, forgotten, muted>>

(* record_received, record_persisted, then record_batch, which never       *)
(* raises; a call that raises may have reached Redis                       *)
CountReceived ==
  /\ flush.at = "received"
  /\ Count("received", Len(flush.batch))
  /\ flush' = [flush EXCEPT !.at = "persisted"]
  /\ UNCHANGED <<queue, table, droppedMem, recorder, live, audit, mishaps>>

CountPersisted ==
  /\ flush.at = "persisted"
  /\ Count("persisted", flush.persisted)
  /\ flush' = Idle
  /\ UNCHANGED <<queue, table, droppedMem, recorder, live, audit, mishaps>>

CountFails ==
  /\ BatchFails
  /\ \/ flush.at \in {"received", "persisted"} /\ UNCHANGED counter
     \/ flush.at = "received" /\ Count("received", Len(flush.batch))
     \/ flush.at = "persisted" /\ Count("persisted", flush.persisted)
  /\ UNCHANGED <<queue, table, recorder, live, audit>>

(* the except branch counts the batch as received and dropped *)
FailReceived ==
  /\ flush.at = "fail_received"
  /\ Count("received", Len(flush.batch))
  /\ flush' = [flush EXCEPT !.at = "fail_dropped"]
  /\ UNCHANGED <<queue, table, droppedMem, recorder, live, audit, mishaps>>

FailDropped ==
  /\ flush.at = "fail_dropped"
  /\ Count("dropped", Len(flush.batch))
  /\ flush' = Idle
  /\ UNCHANGED <<queue, table, droppedMem, recorder, live, audit, mishaps>>

FailMuted ==
  /\ flush.at \in {"fail_received", "fail_dropped"}
  /\ Mishap
  /\ muted' = TRUE
  /\ flush' = Idle
  /\ UNCHANGED <<queue, table, counter, droppedMem, recorder, live, arrived, written,
                 hidden, forgotten, undone>>

FlusherStep ==
  \/ Drain \/ (\E o \in Outcomes : HandleFrame(o)) \/ CommitBatch \/ TransactionFails
  \/ CountReceived \/ CountPersisted \/ CountFails
  \/ FailReceived \/ FailDropped \/ FailMuted

-----------------------------------------------------------------------------
(* The process stops, in order or not: the flusher is cancelled, its       *)
(* transaction rolled back, and what is in memory is gone.                 *)
Restart ==
  /\ Mishap
  /\ forgotten' = forgotten + Len(queue) + Len(flush.batch) + droppedMem
  /\ undone' = undone \cup Elements(flush.batch)
  /\ queue' = << >> /\ flush' = Idle
  /\ droppedMem' = 0 /\ recorder' = FALSE
  /\ UNCHANGED <<table, counter, live, arrived, written, hidden, muted>>

(* ingest_reading, and each frame of ingest_backfill: a transaction of its *)
(* own, published after its commit                                         *)
PostFrame(f) ==
  /\ \/ live' = live \cup {f} /\ UNCHANGED mishaps
     \/ Mishap /\ UNCHANGED live
  /\ table' = table \cup {f}
  /\ UNCHANGED <<queue, flush, counter, droppedMem, recorder, audit>>

Next ==
  \/ \E f \in Frames : Enqueue(f)
  \/ \E f \in Posted : PostFrame(f)
  \/ RecordOverflow
  \/ FlusherStep
  \/ Restart

(* The flusher is a task of the event loop and is never starved by it.     *)
Spec == Init /\ [][Next]_vars /\ WF_vars(FlusherStep)

-----------------------------------------------------------------------------
(* Properties *)

\* frames_unaccounted (system.py): record_rejected is never called
Unaccounted == counter.received - counter.persisted
Resting == flush.at = "idle" /\ ~recorder

\* received - persisted never goes negative, whichever counter call fails: a batch
\* is counted received before it is counted persisted (main.py:521-522).
UnaccountedNotNegative == Unaccounted >= 0

\* "a failed commit means none of this batch reached TimescaleDB" (main.py:534):
\* frames are counted persisted only once their rows are committed, apart from
\* frames without a tank or with a failure process() hides.
PersistedIsWritten == counter.persisted <= written + hidden

\* Both: the counters never look better than the table.
CountersAreHonest == UnaccountedNotNegative /\ PersistedIsWritten

\* Frames the broker handed over and that are neither stored nor queued show in the
\* counters, apart from hidden ones and those in memory when the process stopped.
LossIsCounted ==
  Resting =>
    Cardinality(arrived \ (table \cup Elements(queue)))
      <= droppedMem + Unaccounted + hidden + forgotten

\* Once frames were dropped the operators' counter says so, unless recording failed:
\* the milestones and the failing batches share one total (main.py:468, 532).
DropIsVisible == Resting /\ droppedMem > 0 => counter.dropped > 0 \/ muted

\* No frame is lost without a number that says so (main.py:466 and :532).
LossShows == LossIsCounted /\ DropIsVisible

\* A frame shown on the live channel is stored, or its transaction was lost: the
\* rollback of a savepoint leaves the row queued for the bulk insert (main.py:514).
LiveIsStored == live \subseteq table \cup Elements(flush.rows) \cup undone

\* A queued frame leaves the queue: no failure ends the flusher (main.py:529).
QueueDrains == \A f \in Frames : f \in Elements(queue) ~> f \notin Elements(queue)
=============================================================================
