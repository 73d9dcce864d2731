----------------------------- MODULE TankHistory -----------------------------
(***************************************************************************)
(* What is read back from one tank's measurements while they still arrive, *)
(* late ones included: the paged CSV export (api/v1/tanks.py) and the      *)
(* daily consumption that services/analytics/consumption.py computes and   *)
(* workers/tasks/analytics.py stores.                                      *)
(*                                                                         *)
(* Time is counted in hours, with one sample each, the hour's last volume. *)
(* The two jobs only read the samples, and run one at a time.              *)
(***************************************************************************)
EXTENDS Integers, Sequences, SequencesExt, FiniteSetsExt

CONSTANTS
  LastHour,      \* bound: the clock
  HoursPerDay,
  Volumes,
  BatchSize,     \* CSV_EXPORT_BATCH_SIZE
  LookBack,      \* `days` of a consumption task
  MaxLate        \* bound: samples that arrive after their hour

ASSUME TankHistoryAssumption ==
  /\ LastHour \in Nat /\ LookBack \in Nat /\ MaxLate \in Nat
  /\ {HoursPerDay, BatchSize} \subseteq Nat \ {0} /\ Volumes \subseteq Nat

VARIABLES
  now,
  volume,   \* volume of each hour, or NoSample
  task,     \* the export or consumption task under way
  summary,  \* consumption_summaries: litres of each day, or 0 for no row
  arrived,  \* history: hours whose sample arrived since the task read or began
  late

historyVars == <<now, volume, task, summary, arrived, late>>

NoSample == -1
Hours == 0 .. LastHour
Day(t) == t \div HoursPerDay
DaysSeen == 0 .. Day(LastHour)
Sampled == {t \in Hours : volume[t] # NoSample}
Rest == [at |-> "rest"]

TankHistoryTypeOK ==
  /\ now \in Hours
  /\ volume \in [Hours -> Volumes \cup {NoSample}]
  /\ \A t \in Sampled : t <= now
  /\ task \in {Rest} \cup
       [at : {"export", "exported"}, from : Hours, to : Hours, cursor : Hours,
        out : Seq(Hours)] \cup
       [at : {"computed", "stored"}, day : DaysSeen, series : [DaysSeen -> Nat]]
  /\ summary \in [DaysSeen -> Nat]
  /\ arrived \subseteq Hours /\ late \in 0 .. MaxLate

TankHistoryInit ==
  /\ now = 0
  /\ volume = [t \in Hours |-> NoSample]
  /\ task = Rest
  /\ summary = [d \in DaysSeen |-> 0]
  /\ arrived = {} /\ late = 0

-----------------------------------------------------------------------------
(* The next hour, with or without its sample *)
Advance ==
  /\ now < LastHour /\ now' = now + 1
  /\ \E v \in Volumes \cup {NoSample} :
       /\ volume' = [volume EXCEPT ![now + 1] = v]
       /\ arrived' = arrived \cup {t \in {now + 1} : v # NoSample}
  /\ UNCHANGED <<task, summary, late>>

(* A gateway that was offline replays a reading. *)
Replay(t, v) ==
  /\ late < MaxLate /\ late' = late + 1
  /\ t < now /\ volume[t] = NoSample
  /\ volume' = [volume EXCEPT ![t] = v]
  /\ arrived' = arrived \cup {t}
  /\ UNCHANGED <<now, task, summary>>

-----------------------------------------------------------------------------
(* export_measurements: pages ordered by timestamp, each after the cursor *)

StartExport ==
  /\ task = Rest
  /\ \E from, to \in Hours :
       task' = [at |-> "export", from |-> from, to |-> to, cursor |-> from, out |-> <<>>]
  /\ arrived' = {}
  /\ UNCHANGED <<now, volume, summary, late>>

\* mutant: the next page starts an hour after the last row
CursorAfter_Skips(page) == Last(page) + 1
CursorAfter(page) == Last(page)

(* ORDER BY timestamp LIMIT batch_size *)
IsPage(page, rows) ==
  /\ Range(page) \subseteq rows
  /\ \A i, j \in DOMAIN page : i < j => page[i] < page[j]
  /\ Len(page) < BatchSize => Range(page) = rows
  /\ \A t \in rows \ Range(page), s \in Range(page) : s < t

ExportPage ==
  /\ task.at = "export"
  /\ \E page \in SeqOf(Hours, BatchSize) :
       /\ IsPage(page, {t \in Sampled : task.cursor < t /\ t <= task.to})
       /\ task' = IF page = <<>> \/ task.cursor > task.to THEN [task EXCEPT !.at = "exported"]
                 ELSE [task EXCEPT !.out = @ \o page, !.cursor = Min({CursorAfter(page), LastHour})]
  /\ UNCHANGED <<now, volume, summary, arrived, late>>

-----------------------------------------------------------------------------
(* Consumption *)

\* mutant: a drop counts for the day it ends in
DayOfDrop_Later(earlier, t) == Day(t)
DayOfDrop(earlier, t) == Day(earlier)

(* one sample of the pass of daily_consumption_series *)
Accumulated(acc, t) ==
  LET drop == volume[acc.prev] - volume[t] IN
  IF acc.prev = NoSample \/ drop <= 0 THEN [acc EXCEPT !.prev = t]
  ELSE [prev |-> t, daily |-> [acc.daily EXCEPT ![DayOfDrop(acc.prev, t)] = @ + drop]]

(* the pass over the samples from `start` on, hour by hour *)
daily_consumption_series(start) ==
  LET none == [prev |-> NoSample, daily |-> [d \in DaysSeen |-> 0]]
      pass[t \in -1 .. LastHour] ==
        IF t < start THEN none
        ELSE IF volume[t] = NoSample THEN pass[t - 1] ELSE Accumulated(pass[t - 1], t)
  IN pass[LastHour].daily

FirstDay(today) == IF today > LookBack THEN today - LookBack ELSE 0

(* compute_consumption: the window opens at a midnight *)
ComputeConsumption ==
  /\ task = Rest
  /\ task' = [at |-> "computed", day |-> Day(now),
             series |-> daily_consumption_series(FirstDay(Day(now)) * HoursPerDay)]
  /\ arrived' = {}
  /\ UNCHANGED <<now, volume, summary, late>>

(* _compute_and_store: the rows it deletes are counted from today, which a *)
(* midnight may have moved on; the day left behind then clashes with its   *)
(* old row and nothing is stored.  An empty series deletes nothing.        *)
StoreConsumption ==
  LET first == FirstDay(Day(now))
      days == {d \in DaysSeen : task.series[d] > 0}
      clash == \E d \in days : d < first /\ summary[d] > 0
  IN
  /\ task.at = "computed"
  /\ IF days = {} \/ clash
       THEN UNCHANGED summary /\ task' = Rest
       ELSE /\ summary' = [d \in DaysSeen |-> IF d >= first \/ d \in days THEN task.series[d]
                                              ELSE summary[d]]
            /\ task' = [task EXCEPT !.at = "stored", !.day = Day(now)]
  /\ UNCHANGED <<now, volume, arrived, late>>

EndJob ==
  /\ task.at \in {"exported", "stored"}
  /\ task' = Rest
  /\ UNCHANGED <<now, volume, summary, arrived, late>>

TankHistoryNext ==
  \/ Advance
  \/ \E t \in Hours, v \in Volumes : Replay(t, v)
  \/ StartExport \/ ExportPage
  \/ ComputeConsumption \/ StoreConsumption \/ EndJob

TankHistorySpec == TankHistoryInit /\ [][TankHistoryNext]_historyVars

-----------------------------------------------------------------------------
\* An export holds every measurement in (start, end] that was there when it began, once
\* and in order, whatever arrives behind or ahead of its cursor (tanks.py:315-345).
ExportComplete ==
  task.at = "exported" =>
    /\ \A i, j \in DOMAIN task.out : i < j => task.out[i] < task.out[j]
    /\ \A t \in Sampled \ arrived : task.from < t /\ t <= task.to <=> t \in Range(task.out)

\* What is stored for a day is the fuel drawn after each of its samples, up to the next
\* sample (consumption.py:3-5), for every day of the window it is stored for, unless samples
\* arrived after it was computed.  (The day that a midnight moves out of the window between
\* the two may keep a row that a replayed sample has made wrong.)
Drawn(t) ==
  LET later == {s \in Sampled : s > t}
      litres == volume[t] - volume[Min(later)] IN
  IF later = {} \/ litres <= 0 THEN 0 ELSE litres
\* the litres drawn after the samples of a day, added up hour by hour
DrawnOn(d) ==
  LET sum[t \in -1 .. LastHour] ==
        IF t = -1 THEN 0
        ELSE IF t \in Sampled /\ Day(t) = d THEN sum[t - 1] + Drawn(t) ELSE sum[t - 1]
  IN sum[LastHour]
StoredIsDrawn ==
  task.at = "stored" /\ arrived = {} =>
    \A d \in DaysSeen : d >= FirstDay(task.day) => summary[d] = DrawnOn(d)
=============================================================================
