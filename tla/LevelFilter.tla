---------------------------- MODULE LevelFilter ----------------------------
(***************************************************************************)
(* From a frame's pressure to the level and volume of a tank: the part of  *)
(* IngestionPipeline.process (ingestion/pipeline.py) before its alarms,    *)
(* with processor.py and tank_geometry.py, for one tank and the smoothing  *)
(* state of one process (an API worker that takes frames has its own).     *)
(*                                                                         *)
(* A unit of pressure above the atmosphere lifts the level by one, so      *)
(* density, gravity and temperature are left out, and quotients are        *)
(* rounded down.  The tank is a box or has a calibration table; cylinders, *)
(* spheres and splines are left out.  Its dimensions do not change.        *)
(* MADAnomalyDetector only marks readings.                                 *)
(***************************************************************************)
EXTENDS Integers, Sequences, FiniteSets

CONSTANTS
  Pressures, Atmospheric,
  Height,       \* of the tank; 0 is unknown
  Area,         \* of the box
  Capacity,
  Window,       \* of the anomaly detector
  Tables        \* calibration tables an operator may send

ASSUME LevelFilterAssumption ==
  /\ Pressures \subseteq Nat /\ Atmospheric \in Nat
  /\ Height \in Nat /\ Area \in Nat /\ Capacity \in Nat /\ Window \in Nat \ {0}
  /\ \A t \in Tables : t \in Seq([height : Nat, volume : Nat])

VARIABLES
  shape,    \* tank_shape
  table,    \* the tank's strapping table, empty if there is none
  ema,      \* pressure_ema.value
  samples,  \* the detector's window
  reading,  \* what the last step made of a frame, if it was a frame
  since     \* history: raw levels since the smoothing was last empty

filterVars == <<shape, table, ema, samples, reading, since>>

NoValue == -1
NoResult == [is |-> "no reading"]
Levels == {0} \cup {p - Atmospheric : p \in {q \in Pressures : q > Atmospheric}}
Reading == [raw : Levels, level : Nat, volume : Nat, fill : 0..100,
            fault : BOOLEAN, outlier : BOOLEAN]

LevelFilterTypeOK ==
  /\ shape \in {"rectangular", "custom_strapping"}
  /\ table \in Tables \cup {<< >>}
  /\ ema \in Nat \cup {NoValue}
  /\ samples \in Seq(Levels) /\ Len(samples) <= Window
  /\ reading \in Reading \cup {NoResult}
  /\ since \subseteq Levels

\* TankCreate wants a table for custom_strapping, and takes another tank's.
LevelFilterInit ==
  /\ \/ shape = "rectangular" /\ table = << >>
     \/ shape = "custom_strapping" /\ table \in Tables
  /\ ema = NoValue /\ samples = << >>
  /\ reading = NoResult /\ since = {}

-----------------------------------------------------------------------------
Least(a, b) == IF a < b THEN a ELSE b
Most(a, b) == IF a > b THEN a ELSE b
Clamp(x, low, high) == Most(low, Least(x, high))

pressure_to_level(p) == Most(0, p - Atmospheric)

\* EMA.update, with the span of 10 of TankTelemetryState
Smoothed(sample) ==
  IF ema = NoValue THEN sample ELSE (2 * sample + 9 * ema) \div 11

OverRange(level) == Height > 0 /\ 100 * level > 105 * Height

\* mutant: the smoothing survives a fault
AfterMeasure_Kept(smoothed) == smoothed
\* an implausible value leaves nothing behind
AfterMeasure(smoothed) == IF OverRange(smoothed) THEN NoValue ELSE smoothed

(* MADAnomalyDetector.update *)
Pushed(sample) ==
  LET all == Append(samples, sample) IN
  IF Len(all) > Window THEN Tail(all) ELSE all

\* the element at Len(s) \div 2 of the sorted sequence, counted from 0
Median(s) ==
  CHOOSE m \in {s[i] : i \in DOMAIN s} :
    /\ Cardinality({i \in DOMAIN s : s[i] < m}) <= Len(s) \div 2
    /\ Cardinality({i \in DOMAIN s : s[i] <= m}) > Len(s) \div 2

Apart(a, b) == Most(a, b) - Least(a, b)

Outlier(sample, all) ==
  LET median == Median(all)
      mad == Median([i \in DOMAIN all |-> Apart(all[i], median)])
  IN
  /\ Len(all) = Window
  /\ IF mad = 0 THEN sample # median
     ELSE 6745 * Apart(sample, median) >= 35000 * mad

-----------------------------------------------------------------------------
(* calculate_volume, of a box and from a table *)

\* The points are mappings, and a loop over pairs takes a mapping apart into its keys.
Unpacked(point) == DOMAIN point

\* interpolate_strapping: float() raises on the name of a field.
Interpolable(points) ==
  /\ Len(points) >= 2
  /\ \A i \in DOMAIN points : Unpacked(points[i]) \cap {"height", "volume"} = {}

\* load_strapping hands on the table; what raises there or below loses the frame.
Convertible == shape = "rectangular" \/ Interpolable(table)

\* of the box
calculate_volume(level) == Area * Clamp(level, 0, Height)

fill_percent(volume) ==
  IF Capacity = 0 THEN 0 ELSE Clamp((100 * volume) \div Capacity, 0, 100)

-----------------------------------------------------------------------------
(* process *)

Smooth(p) ==
  LET raw == pressure_to_level(p)
      smoothed == Smoothed(raw)
      fault == OverRange(smoothed)
  IN
  /\ ema' = AfterMeasure(smoothed)
  /\ samples' = IF fault THEN << >> ELSE Pushed(raw)
  /\ since' = IF fault THEN {} ELSE since \cup {raw}
  /\ UNCHANGED <<shape, table>>

Read(p) ==
  LET raw == pressure_to_level(p)
      fault == OverRange(Smoothed(raw))
      level == IF fault THEN Height ELSE Smoothed(raw)
  IN
  [raw |-> raw, level |-> level, volume |-> calculate_volume(level),
   fill |-> fill_percent(calculate_volume(level)),
   fault |-> fault, outlier |-> Outlier(raw, Pushed(raw))]

\* A frame that cannot be converted has been smoothed all the same,
Measure(p) ==
  /\ Smooth(p)
  /\ reading' = IF Convertible THEN Read(p) ELSE NoResult

\* and so has one whose alarms or rows fail.
FrameFails(p) == Smooth(p) /\ reading' = NoResult

\* upsert_strapping: for a tank of any shape
UpsertStrapping ==
  /\ table' \in Tables
  /\ reading' = NoResult
  /\ UNCHANGED <<shape, ema, samples, since>>

\* The state is in the process.
RestartIngestion ==
  /\ ema' = NoValue /\ samples' = << >> /\ since' = {}
  /\ reading' = NoResult
  /\ UNCHANGED <<shape, table>>

LevelFilterNext ==
  \/ \E p \in Pressures : Measure(p) \/ FrameFails(p)
  \/ UpsertStrapping \/ RestartIngestion

LevelFilterSpec == LevelFilterInit /\ [][LevelFilterNext]_filterVars

-----------------------------------------------------------------------------
\* A fault is reported only for a frame that is itself out of range ("an EMA that absorbed
\* an impossible level would keep reporting it after the probe is fixed", pipeline.py:340).
FaultHasCause == reading # NoResult /\ reading.fault => OverRange(reading.raw)

\* A level without a fault lies between levels measured since the smoothing was empty.
LevelWasMeasured ==
  reading # NoResult /\ ~reading.fault =>
    \E low, high \in since : low <= reading.level /\ reading.level <= high

\* What is stored of a frame comes from frames of a working probe.
ReadingIsGrounded == FaultHasCause /\ LevelWasMeasured

\* what interpolate_strapping asks of heights
UsableTable ==
  Len(table) >= 2 /\ \A i \in 1..(Len(table) - 1) : table[i].height < table[i + 1].height

\* "custom_strapping: lookup level against strapping.calibration_data; interpolate volume"
\* (2026-09-07-fuel-dynamics-scada-frontend-design.md:91): with a usable table, a frame
\* that fails nowhere else gets a reading.
CalibratedIsConverted ==
  [][\A p \in Pressures : Measure(p) /\ shape = "custom_strapping" /\ UsableTable
       => reading' # NoResult]_filterVars
=============================================================================
