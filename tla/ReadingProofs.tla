---------------------------- MODULE ReadingProofs ----------------------------
(***************************************************************************)
(* Theorems about what becomes of a reading: LevelFilter, TankLookup,      *)
(* StaleSweep and TankHistory, for any number of tanks, pressures,         *)
(* readings, sweeps, pages and days.                                       *)
(***************************************************************************)
EXTENDS LevelFilter, TankLookup, StaleSweep, TankHistory, WellFoundedInduction, TLAPS

(***************************************************************************)
(* LevelFilter: what smoothing may make of pressures.                      *)
(***************************************************************************)

\* What the smoothing holds is itself plausible and lies between raw levels measured since
\* it was last empty.
EmaGrounded ==
  ema # NoValue =>
    /\ ema \in Nat
    /\ ~OverRange(ema)
    /\ \E low, high \in since : low <= ema /\ ema <= high

\* What is proved to be inductive of LevelFilter.
FilterInv ==
  /\ since \subseteq Nat
  /\ ema \in Nat \cup {NoValue}
  /\ EmaGrounded
  /\ ReadingIsGrounded

-----------------------------------------------------------------------------
\* A raw level is never negative (processor.py, pressure_to_level).
LEMMA RawIsNat == ASSUME NEW p \in Pressures PROVE pressure_to_level(p) \in Nat
BY LevelFilterAssumption DEF LevelFilterAssumption, pressure_to_level, Most

\* A step of the EMA ends between the sample and the value before it.
LEMMA SmoothedBetween ==
  ASSUME NEW sample \in Nat, ema \in Nat
  PROVE  /\ Smoothed(sample) \in Nat
         /\ sample <= Smoothed(sample) \/ ema <= Smoothed(sample)
         /\ Smoothed(sample) <= sample \/ Smoothed(sample) <= ema
<1>1. PICK e \in Nat : e = ema
  OBVIOUS
<1>2. Smoothed(sample) = (2 * sample + 9 * e) \div 11
  BY <1>1 DEF Smoothed, NoValue
<1>3. PICK q \in Int : q = (2 * sample + 9 * e) \div 11
  OBVIOUS
<1>4. 11 * q <= 2 * sample + 9 * e /\ 2 * sample + 9 * e < 11 * q + 11
  BY <1>3
<1> QED
  BY <1>1, <1>2, <1>3, <1>4

\* Over a plausible value, only an implausible sample makes the EMA implausible.
LEMMA OverRangeNeedsSample ==
  ASSUME NEW sample \in Nat, ema \in Nat, ~OverRange(ema), OverRange(Smoothed(sample))
  PROVE  OverRange(sample)
<1>1. PICK s \in Nat : /\ s = Smoothed(sample)
                       /\ s <= sample \/ s <= ema
  BY SmoothedBetween
<1> QED
  BY <1>1, LevelFilterAssumption DEF OverRange, LevelFilterAssumption

-----------------------------------------------------------------------------
\* Smoothing and faults stay grounded in what the probe measured, step by step.
THEOREM FilterInvHolds == LevelFilterSpec => []FilterInv
<1> USE DEF ReadingIsGrounded
<1>1. LevelFilterInit => FilterInv
  BY DEF LevelFilterInit, FilterInv, EmaGrounded, FaultHasCause, LevelWasMeasured
<1>2. FilterInv /\ [LevelFilterNext]_filterVars => FilterInv'
  <2> SUFFICES ASSUME FilterInv, [LevelFilterNext]_filterVars PROVE FilterInv'
    OBVIOUS
  <2>1. ASSUME NEW p \in Pressures, Smooth(p), reading' \in {Read(p), NoResult}
        PROVE  FilterInv'
    <3> DEFINE raw == pressure_to_level(p)
               smoothed == Smoothed(raw)
               level == IF OverRange(smoothed) THEN Height ELSE smoothed
    <3>1. raw \in Nat
      BY RawIsNat
    <3> HIDE DEF raw
    <3>2. smoothed \in Nat
      BY <3>1, SmoothedBetween DEF FilterInv, Smoothed
    <3>3. OverRange(smoothed) => OverRange(raw)
      BY <3>1, OverRangeNeedsSample DEF FilterInv, EmaGrounded, Smoothed
    <3>4. ~OverRange(smoothed) =>
            \E low, high \in since \cup {raw} : low <= smoothed /\ smoothed <= high
      <4>1. CASE ema = NoValue
        BY <4>1, <3>1 DEF Smoothed
      <4>2. CASE ema # NoValue
        <5>1. PICK low, high \in since : low <= ema /\ ema <= high
          BY <4>2 DEF FilterInv, EmaGrounded
        <5>2. ema \in Nat /\ low \in Nat /\ high \in Nat
          BY <4>2 DEF FilterInv
        <5>3. /\ raw <= smoothed \/ ema <= smoothed
              /\ smoothed <= raw \/ smoothed <= ema
          BY <3>1, <5>2, SmoothedBetween
        <5> HIDE DEF smoothed
        <5> QED
          BY <5>1, <5>2, <5>3, <3>1, <3>2
      <4> QED
        BY <4>1, <4>2
    <3>5. /\ ema' = AfterMeasure(smoothed)
          /\ since' = IF OverRange(smoothed) THEN {} ELSE since \cup {raw}
          /\ reading' # NoResult =>
               /\ reading'.raw = raw
               /\ reading'.fault <=> OverRange(smoothed)
               /\ reading'.level = level
      BY <2>1 DEF Smooth, Read, raw
    <3> HIDE DEF smoothed
    <3>6. (since \subseteq Nat)' /\ (ema \in Nat \cup {NoValue})'
      BY <3>1, <3>2, <3>5 DEF FilterInv, AfterMeasure
    <3>7. EmaGrounded'
      BY <3>2, <3>4, <3>5 DEF EmaGrounded, AfterMeasure, OverRange
    <3>8. FaultHasCause' /\ LevelWasMeasured'
      BY <3>3, <3>4, <3>5 DEF FaultHasCause, LevelWasMeasured, OverRange
    <3> QED
      BY <3>6, <3>7, <3>8 DEF FilterInv
  <2>2. ASSUME NEW p \in Pressures, Measure(p) \/ FrameFails(p) PROVE FilterInv'
    BY <2>1, <2>2 DEF Measure, FrameFails
  <2>3. CASE UpsertStrapping
    BY <2>3 DEF UpsertStrapping, FilterInv, EmaGrounded, FaultHasCause, LevelWasMeasured,
                OverRange
  <2>4. CASE RestartIngestion
    BY <2>4 DEF RestartIngestion, FilterInv, EmaGrounded, FaultHasCause, LevelWasMeasured
  <2>5. CASE UNCHANGED filterVars
    BY <2>5 DEF filterVars, FilterInv, EmaGrounded, FaultHasCause, LevelWasMeasured, OverRange
  <2> QED
    BY <2>2, <2>3, <2>4, <2>5 DEF LevelFilterNext
<1> QED
  BY <1>1, <1>2, PTL DEF LevelFilterSpec

\* What is stored of a frame comes from frames of a working probe: no fault is carried over
\* by the smoothing, and no level lies outside what was measured, frames that fail after
\* the smoothing and tanks whose frames are never converted included (pipeline.py:340).
THEOREM ReadingIsGroundedHolds == LevelFilterSpec => []ReadingIsGrounded
<1>1. FilterInv => ReadingIsGrounded
  BY DEF FilterInv
<1> QED
  BY <1>1, FilterInvHolds, PTL

\* A tank with a calibration table has no readings.
TableGivesNoReading == shape = "custom_strapping" => reading = NoResult

\* A calibration table, as rows of numbers.
Calibration == [height : Nat, volume : Nat]

\* What TablesAreNotReadHolds needs: the table is one an operator may send, or none.
TableInv == table \in Seq(Calibration) /\ TableGivesNoReading

\* No table can be interpolated: each of its points is taken apart into two names.
LEMMA NotInterpolable ==
  ASSUME NEW points \in Seq(Calibration)
  PROVE  ~Interpolable(points)
<1> SUFFICES ASSUME Interpolable(points) PROVE FALSE
  OBVIOUS
<1>1. 1 \in DOMAIN points /\ points[1] \in Calibration
  BY DEF Interpolable
<1>2. DOMAIN points[1] = {"height", "volume"}
  BY <1>1 DEF Calibration
<1> QED
  BY <1>1, <1>2 DEF Interpolable, Unpacked

\* Whatever table an operator sends, no frame of a custom_strapping tank becomes a reading:
\* load_strapping hands on mappings where interpolate_strapping unpacks pairs
\* (pipeline.py:166, tank_geometry.py:84).
THEOREM TablesAreNotReadHolds == LevelFilterSpec => []TableGivesNoReading
<1>0. << >> \in Seq(Calibration)
  OBVIOUS
<1>t. \A t \in Tables : t \in Seq(Calibration)
  BY LevelFilterAssumption, Zenon DEF LevelFilterAssumption, Calibration
<1>1. LevelFilterInit => TableInv
  BY <1>0, <1>t DEF LevelFilterInit, TableInv, TableGivesNoReading
<1>2. TableInv /\ [LevelFilterNext]_filterVars => TableInv'
  <2> SUFFICES ASSUME TableInv, [LevelFilterNext]_filterVars PROVE TableInv'
    OBVIOUS
  <2>1. ASSUME NEW p \in Pressures, Measure(p) PROVE TableInv'
    <3>1. ~Interpolable(table)
      BY NotInterpolable DEF TableInv
    <3> QED
      BY <2>1, <3>1 DEF Measure, Smooth, Convertible, TableInv, TableGivesNoReading
  <2>2. ASSUME NEW p \in Pressures, FrameFails(p) PROVE TableInv'
    BY <2>2 DEF FrameFails, Smooth, TableInv, TableGivesNoReading
  <2>3. CASE UpsertStrapping
    BY <1>t, <2>3 DEF UpsertStrapping, TableInv, TableGivesNoReading
  <2>4. CASE RestartIngestion
    BY <2>4 DEF RestartIngestion, TableInv, TableGivesNoReading
  <2>5. CASE UNCHANGED filterVars
    BY <2>5 DEF filterVars, TableInv, TableGivesNoReading
  <2> QED
    BY <2>1, <2>2, <2>3, <2>4, <2>5 DEF LevelFilterNext
<1>3. TableInv => TableGivesNoReading
  BY DEF TableInv
<1> QED
  BY <1>1, <1>2, <1>3, PTL DEF LevelFilterSpec

\* The volume of a box is a natural number.
LEMMA VolumeIsNat ==
  ASSUME NEW level \in Nat
  PROVE  calculate_volume(level) \in Nat
<1>1. Area \in Nat /\ Clamp(level, 0, Height) \in Nat
  BY LevelFilterAssumption DEF Clamp, Least, Most, LevelFilterAssumption
<1> QED
  BY <1>1 DEF calculate_volume

\* A volume fills a tank from 0 to 100 per cent.
LEMMA FillIsPercent ==
  ASSUME NEW litres \in Int
  PROVE  fill_percent(litres) \in 0..100
<1>1. CASE Capacity = 0
  BY <1>1 DEF fill_percent
<1>2. CASE Capacity # 0
  <2>1. (100 * litres) \div Capacity \in Int
    BY <1>2, LevelFilterAssumption DEF LevelFilterAssumption
  <2> DEFINE x == (100 * litres) \div Capacity
  <2>2. fill_percent(litres) = Clamp(x, 0, 100)
    BY <1>2 DEF fill_percent
  <2> HIDE DEF x
  <2>3. x \in Int
    BY <2>1 DEF x
  <2> QED
    BY <2>2, <2>3 DEF Clamp, Least, Most
<1> QED
  BY <1>1, <1>2

\* The window of the detector takes a level and keeps its length.
LEMMA WindowSlides ==
  ASSUME samples \in Seq(Levels), Len(samples) <= Window, NEW raw \in Levels
  PROVE  Pushed(raw) \in Seq(Levels) /\ Len(Pushed(raw)) <= Window
<1> DEFINE all == Append(samples, raw)
<1>1. all \in Seq(Levels) /\ Len(all) = Len(samples) + 1 /\ Len(samples) \in Nat
  OBVIOUS
<1>2. Window \in Nat \ {0}
  BY LevelFilterAssumption DEF LevelFilterAssumption
<1>3. all # << >>
  BY <1>1
<1> HIDE DEF all
<1>4. Tail(all) \in Seq(Levels) /\ Len(Tail(all)) = Len(all) - 1
  BY <1>1, <1>3
<1>5. Pushed(raw) = IF Len(all) > Window THEN Tail(all) ELSE all
  BY DEF Pushed, all
<1> QED
  BY <1>1, <1>2, <1>4, <1>5

\* The variables of LevelFilter hold what they are meant to hold.
LEMMA LevelFilterTypes == LevelFilterSpec => []LevelFilterTypeOK
<1>1. LevelFilterInit => LevelFilterTypeOK
  <2>1. << >> \in Seq(Levels) /\ Len(<< >>) = 0 /\ 0 <= Window
    BY LevelFilterAssumption DEF LevelFilterAssumption
  <2> QED
    BY <2>1 DEF LevelFilterInit, LevelFilterTypeOK
<1>2. FilterInv /\ LevelFilterTypeOK /\ [LevelFilterNext]_filterVars => LevelFilterTypeOK'
  <2> SUFFICES ASSUME FilterInv, LevelFilterTypeOK, [LevelFilterNext]_filterVars
               PROVE  LevelFilterTypeOK'
    OBVIOUS
  <2>0. << >> \in Seq(Levels) /\ Len(<< >>) <= Window
    BY LevelFilterAssumption DEF LevelFilterAssumption
  <2>1. ASSUME NEW p \in Pressures, Smooth(p), reading' \in {Read(p), NoResult}
        PROVE  LevelFilterTypeOK'
    <3> DEFINE raw == pressure_to_level(p)
               smoothed == Smoothed(raw)
               level == IF OverRange(smoothed) THEN Height ELSE smoothed
               all == Pushed(raw)
    <3>1. raw \in Levels /\ raw \in Nat
      BY RawIsNat, LevelFilterAssumption
         DEF Levels, pressure_to_level, Most, LevelFilterAssumption
    <3>2. smoothed \in Nat
      BY <3>1, SmoothedBetween DEF FilterInv, Smoothed
    <3>3. level \in Nat
      BY <3>2, LevelFilterAssumption DEF LevelFilterAssumption
    <3>4. all \in Seq(Levels) /\ Len(all) <= Window
      BY <3>1, WindowSlides DEF LevelFilterTypeOK
    <3>5. Outlier(raw, all) \in BOOLEAN /\ OverRange(smoothed) \in BOOLEAN
      BY DEF Outlier, OverRange
    <3>6. calculate_volume(level) \in Nat
      BY <3>3, VolumeIsNat
    <3>7. fill_percent(calculate_volume(level)) \in 0..100
      BY <3>6, FillIsPercent
    <3>8. /\ ema' = AfterMeasure(smoothed)
          /\ samples' = IF OverRange(smoothed) THEN << >> ELSE all
          /\ since' = IF OverRange(smoothed) THEN {} ELSE since \cup {raw}
          /\ reading' # NoResult =>
               reading' = [raw |-> raw, level |-> level, volume |-> calculate_volume(level),
                           fill |-> fill_percent(calculate_volume(level)),
                           fault |-> OverRange(smoothed), outlier |-> Outlier(raw, all)]
          /\ UNCHANGED <<shape, table>>
      BY <2>1 DEF Smooth, Read
    <3> HIDE DEF raw, smoothed, level, all
    <3>9. reading' \in Reading \cup {NoResult}
      BY <3>1, <3>3, <3>5, <3>6, <3>7, <3>8 DEF Reading
    <3>10. ema' \in Nat \cup {NoValue}
      BY <3>2, <3>8 DEF AfterMeasure
    <3>11. samples' \in Seq(Levels) /\ Len(samples') <= Window
      BY <2>0, <3>4, <3>8
    <3>12. since' \subseteq Levels
      BY <3>1, <3>8 DEF LevelFilterTypeOK
    <3> QED
      BY <3>8, <3>9, <3>10, <3>11, <3>12 DEF LevelFilterTypeOK
  <2>2. ASSUME NEW p \in Pressures, Measure(p) \/ FrameFails(p) PROVE LevelFilterTypeOK'
    BY <2>1, <2>2 DEF Measure, FrameFails
  <2>3. CASE UpsertStrapping
    BY <2>3 DEF UpsertStrapping, LevelFilterTypeOK
  <2>4. CASE RestartIngestion
    BY <2>0, <2>4 DEF RestartIngestion, LevelFilterTypeOK
  <2>5. CASE UNCHANGED filterVars
    BY <2>5 DEF filterVars, LevelFilterTypeOK
  <2> QED
    BY <2>2, <2>3, <2>4, <2>5 DEF LevelFilterNext
<1> QED
  BY <1>1, <1>2, FilterInvHolds, PTL DEF LevelFilterSpec

------------------------------------------------------------------------------
(***************************************************************************)
(* TankLookup: the tank a reading is filed under.                          *)
(***************************************************************************)
\* What each variable holds, as far as the argument needs it.
LookupTypes ==
  /\ tankMac \in [Serials -> Gateways \cup {NoGateway, NoTank}]
  /\ wiring \in [Gateways -> SUBSET Serials]
  /\ byMac \in [Gateways -> Entry \cup {None}] /\ bySerial \in [Serials -> Entry \cup {None}]
  /\ negative \in [Keys -> Age \cup {"none"}]
  /\ reader \in [Readers -> {NoReading} \cup
       [at : {"resolve", "negative", "query"}, frame : Frame] \cup
       [at : {"store"}, frame : Frame, found : Serials \cup {NoTank}]]

\* What a reader holds that has a fresh frame: the wiring is the one the frame was sent
\* under, and a query found what is registered now.
FreshFrame(r) ==
  LET f == reader[r].frame IN
  ~At(r, "idle") /\ f.age = "fresh" =>
    /\ f.mac \in Gateways => f.serial \in wiring[f.mac]
    /\ At(r, "store") /\ Registered(f.serial) => reader[r].found = f.serial

\* What a fresh entry says is so.
FreshEntries ==
  /\ \A g \in Gateways : byMac[g].age = "fresh" =>
       \A s \in wiring[g] : Registered(s) => byMac[g].tank = s
  /\ \A s \in Serials : bySerial[s].age = "fresh" /\ Registered(s) => bySerial[s].tank = s
  /\ \A g \in Gateways : negative[g] = "fresh" => \A s \in wiring[g] : ~Registered(s)
  /\ \A s \in Serials : negative[s] = "fresh" => ~Registered(s)

\* A gateway has one sensor: its address alone names the tank.
OneSensorEach == \A g \in Gateways : \A a, b \in wiring[g] : a = b

\* What is proved to be inductive of TankLookup.
LookupInv ==
  /\ LookupTypes /\ OneSensorEach /\ FreshEntries
  /\ \A r \in Readers : FreshFrame(r)
  /\ ~misfiled

\* What a reader holds, by its step.
LEMMA ReaderFields ==
  ASSUME LookupTypes, NEW r \in Readers
  PROVE  /\ reader[r].at \in {"idle", "resolve", "negative", "query", "store"}
         /\ reader[r].at # "idle" =>
              /\ reader[r].frame \in Frame
              /\ reader[r].frame.mac \in Gateways \cup {NoGateway}
              /\ reader[r].frame.serial \in Serials /\ reader[r].frame.age \in Age
         /\ reader[r].at \in {"resolve", "negative", "query"} =>
              reader[r] \in [at : {"resolve", "negative", "query"}, frame : Frame]
         /\ reader[r].at = "store" => reader[r].found \in Serials \cup {NoTank}
<1>1. NoReading.at = "idle"
  BY DEF NoReading
<1> QED
  BY <1>1 DEF LookupTypes, Frame

\* A step of one reader that changes no entry and no table.
LEMMA OneReader ==
  ASSUME LookupInv, NEW r \in Readers, LookupTypes',
         UNCHANGED <<tankMac, wiring, byMac, bySerial, negative>>,
         \A q \in Readers \ {r} : reader'[q] = reader[q],
         FreshFrame(r)', ~misfiled'
  PROVE  LookupInv'
<1>1. ASSUME NEW q \in Readers PROVE FreshFrame(q)'
  <2>1. CASE q = r
    BY <2>1
  <2>2. CASE q # r
    <3>1. FreshFrame(q) /\ reader'[q] = reader[q] /\ tankMac' = tankMac /\ wiring' = wiring
      BY <2>2 DEF LookupInv
    <3> QED
      BY <3>1 DEF FreshFrame, At, Registered
  <2> QED
    BY <2>1, <2>2
<1>2. FreshEntries' /\ OneSensorEach'
  BY DEF LookupInv, FreshEntries, OneSensorEach, Registered
<1> QED
  BY <1>1, <1>2 DEF LookupInv

\* A frame arrives.
LEMMA ArriveKeeps ==
  ASSUME LookupInv, NEW r \in Readers, NEW g \in Gateways \cup {NoGateway}, NEW s \in Serials,
         Arrive(r, g, s)
  PROVE  LookupInv'
<1> DEFINE f == [mac |-> g, serial |-> s, age |-> "fresh"]
           to == [at |-> "resolve", frame |-> f]
<1>1. /\ g \in Gateways => s \in wiring[g]
      /\ reader' = [reader EXCEPT ![r] = to]
      /\ UNCHANGED <<tankMac, wiring, byMac, bySerial, negative>> /\ misfiled' = misfiled
  BY DEF Arrive
<1>2. f \in Frame /\ f.mac = g /\ f.serial = s /\ to.at = "resolve" /\ to.frame = f
      /\ to \in [at : {"resolve", "negative", "query"}, frame : Frame]
  BY DEF Frame, Age
<1> HIDE DEF f, to
<1>3. LookupTypes
  BY DEF LookupInv
<1>4. reader'[r] = to /\ \A q \in Readers \ {r} : reader'[q] = reader[q]
  BY <1>1, <1>3 DEF LookupTypes
<1>5. LookupTypes'
  BY <1>1, <1>2, <1>3 DEF LookupTypes
<1>6. FreshFrame(r)'
  BY <1>1, <1>2, <1>4 DEF FreshFrame, At
<1> QED
  BY <1>1, <1>4, <1>5, <1>6, OneReader DEF LookupInv

\* A reader that files nothing, or files rightly, and goes on with its frame or ends.
LEMMA GoesOn ==
  ASSUME LookupInv, NEW r \in Readers, ~At(r, "idle"), ~At(r, "store"),
         UNCHANGED <<tankMac, wiring, byMac, bySerial, negative>>, ~misfiled',
         NEW step \in {"negative", "query"},
         \/ reader' = [reader EXCEPT ![r] = NoReading]
         \/ reader' = [reader EXCEPT ![r].at = step]
  PROVE  LookupInv'
<1>1. LookupTypes /\ FreshFrame(r)
  BY DEF LookupInv
<1>2. reader[r] \in [at : {"resolve", "negative", "query"}, frame : Frame]
  BY <1>1, ReaderFields DEF At
<1>3. CASE reader' = [reader EXCEPT ![r] = NoReading]
  <2>1. LookupTypes' /\ reader'[r] = NoReading /\ \A q \in Readers \ {r} : reader'[q] = reader[q]
    BY <1>1, <1>3 DEF LookupTypes
  <2>2. FreshFrame(r)'
    BY <2>1 DEF FreshFrame, At, NoReading
  <2> QED
    BY <2>1, <2>2, OneReader
<1>4. CASE reader' = [reader EXCEPT ![r].at = step]
  <2> DEFINE to == [reader[r] EXCEPT !.at = step]
  <2>1. /\ to \in [at : {"resolve", "negative", "query"}, frame : Frame]
        /\ to.at = step /\ to.frame = reader[r].frame
    BY <1>2
  <2>2. reader' = [reader EXCEPT ![r] = to]
    BY <1>4
  <2> HIDE DEF to
  <2>3. LookupTypes' /\ reader'[r] = to /\ \A q \in Readers \ {r} : reader'[q] = reader[q]
    BY <1>1, <2>1, <2>2 DEF LookupTypes
  <2>4. FreshFrame(r)'
    BY <1>1, <2>1, <2>3 DEF FreshFrame, At
  <2> QED
    BY <2>3, <2>4, OneReader
<1> QED
  BY <1>3, <1>4

\* A hit in the cache is right as long as nothing changed.
LEMMA ResolveKeeps ==
  ASSUME LookupInv, NEW r \in Readers, Resolve(r)
  PROVE  LookupInv'
<1> DEFINE f == reader[r].frame
<1>1. LookupTypes /\ FreshFrame(r) /\ FreshEntries /\ ~misfiled
  BY DEF LookupInv
<1>2. /\ At(r, "resolve") /\ ~At(r, "idle") /\ ~At(r, "store")
      /\ f.mac \in Gateways \cup {NoGateway} /\ f.serial \in Serials
  BY <1>1, ReaderFields DEF Resolve, At
<1>3. CASE File(f, Cached(f).tank, Cached(f).age) /\ Cached(f) # None
           /\ byMac' = Renewed(f, byMac) /\ reader' = [reader EXCEPT ![r] = NoReading]
  <2>1. ~misfiled'
    BY <1>1, <1>2, <1>3 DEF File, Cached, FreshFrame, FreshEntries
  <2> QED
    BY <1>2, <1>3, <2>1, GoesOn DEF Resolve, Renewed
<1>4. CASE reader' = [reader EXCEPT ![r].at = "negative"] /\ UNCHANGED <<misfiled, byMac>>
  BY <1>1, <1>2, <1>4, GoesOn DEF Resolve
<1> QED
  BY <1>3, <1>4 DEF Resolve

\* So is a negative entry, of the gateway or of the sensor.
LEMMA CheckNegativeKeeps ==
  ASSUME LookupInv, NEW r \in Readers, CheckNegative(r)
  PROVE  LookupInv'
<1> DEFINE f == reader[r].frame
           hits == {k \in Keyed(f) : negative[k] # "none"}
<1>1. LookupTypes /\ FreshFrame(r) /\ FreshEntries /\ ~misfiled
  BY DEF LookupInv
<1>2. /\ At(r, "negative") /\ ~At(r, "idle") /\ ~At(r, "store")
      /\ f.mac \in Gateways \cup {NoGateway} /\ f.serial \in Serials
      /\ UNCHANGED <<tankMac, wiring, byMac, bySerial, negative>>
  BY <1>1, ReaderFields DEF CheckNegative, At
<1>3. ASSUME NEW k \in hits, File(f, NoTank, negative[k]),
             reader' = [reader EXCEPT ![r] = NoReading]
      PROVE  LookupInv'
  <2>1. (k \in Gateways /\ k = f.mac) \/ k = f.serial
    BY <1>2 DEF Keyed
  <2>2. ~misfiled'
    BY <1>1, <1>2, <1>3, <2>1 DEF File, FreshFrame, FreshEntries
  <2> QED
    BY <1>2, <1>3, <2>2, GoesOn
<1>4. CASE reader' = [reader EXCEPT ![r].at = "query"] /\ UNCHANGED misfiled
  BY <1>1, <1>2, <1>4, GoesOn
<1> QED
  BY <1>3, <1>4 DEF CheckNegative

\* The query finds the frame's own tank if it is registered.
LEMMA QueryTankKeeps ==
  ASSUME LookupInv, NEW r \in Readers, QueryTank(r)
  PROVE  LookupInv'
<1> DEFINE f == reader[r].frame
<1>1. LookupTypes /\ FreshFrame(r) /\ ~misfiled
  BY DEF LookupInv
<1>2. /\ At(r, "query") /\ ~At(r, "idle") /\ ~At(r, "store") /\ f \in Frame
      /\ f.serial \in Serials
      /\ UNCHANGED <<tankMac, wiring, byMac, bySerial, negative>> /\ ~misfiled'
  BY <1>1, ReaderFields DEF QueryTank, At
<1>3. ASSUME NEW s \in Serials \cup {NoTank}, Registered(f.serial) => s = f.serial,
             reader' = [reader EXCEPT ![r] = [at |-> "store", frame |-> f, found |-> s]]
      PROVE  LookupInv'
  <2> DEFINE to == [at |-> "store", frame |-> f, found |-> s]
  <2>1. /\ to \in [at : {"store"}, frame : Frame, found : Serials \cup {NoTank}]
        /\ to.at = "store" /\ to.frame = f /\ to.found = s
    BY <1>2
  <2>2. reader' = [reader EXCEPT ![r] = to]
    BY <1>3
  <2> HIDE DEF to
  <2>3. LookupTypes' /\ reader'[r] = to /\ \A q \in Readers \ {r} : reader'[q] = reader[q]
    BY <1>1, <1>2, <2>1, <2>2 DEF LookupTypes
  <2>4. FreshFrame(r)'
    BY <1>1, <1>2, <1>3, <2>1, <2>3 DEF FreshFrame, At, Registered
  <2> QED
    BY <1>2, <2>3, <2>4, OneReader
<1>4. CASE reader' = [reader EXCEPT ![r] = NoReading]
  BY <1>2, <1>4, GoesOn
<1> QED
  BY <1>2, <1>3, <1>4 DEF QueryTank

\* The entries a fresh frame fills say what is so now.
LEMMA StoreEntryKeeps ==
  ASSUME LookupInv, TankLookupAssumption, Gateways \cap Serials = {},
         NEW r \in Readers, StoreEntry(r)
  PROVE  LookupInv'
<1> DEFINE f == reader[r].frame
           found == reader[r].found
           entry == [tank |-> found, age |-> f.age]
<1>1. LookupTypes /\ FreshFrame(r) /\ FreshEntries /\ OneSensorEach /\ ~misfiled
  BY DEF LookupInv
<1>2. /\ At(r, "store") /\ ~At(r, "idle")
      /\ f.mac \in Gateways \cup {NoGateway} /\ f.serial \in Serials /\ f.age \in Age
      /\ found \in Serials \cup {NoTank}
  BY <1>1, ReaderFields DEF StoreEntry, At
<1>3. /\ f.age = "fresh" /\ f.mac \in Gateways => \A s \in wiring[f.mac] : s = f.serial
      /\ f.age = "fresh" /\ Registered(f.serial) => found = f.serial
  BY <1>1, <1>2 DEF FreshFrame, OneSensorEach
<1>4. /\ reader' = [reader EXCEPT ![r] = NoReading] /\ tankMac' = tankMac /\ wiring' = wiring
      /\ File(f, found, f.age)
  BY DEF StoreEntry
<1>5. ~misfiled'
  BY <1>1, <1>3, <1>4 DEF File
<1>6. \A q \in Readers : FreshFrame(q)'
  <2>1. ASSUME NEW q \in Readers, q # r PROVE FreshFrame(q)'
    <3>1. reader'[q] = reader[q] /\ FreshFrame(q)
      BY <1>4, <2>1 DEF LookupInv, LookupTypes
    <3> QED
      BY <1>4, <3>1 DEF FreshFrame, At, Registered
  <2>2. reader'[r] = NoReading
    BY <1>1, <1>4 DEF LookupTypes
  <2>3. FreshFrame(r)'
    BY <2>2 DEF FreshFrame, At, NoReading
  <2> QED
    BY <2>1, <2>3
<1>7. reader' \in [Readers -> {NoReading} \cup
        [at : {"resolve", "negative", "query"}, frame : Frame] \cup
        [at : {"store"}, frame : Frame, found : Serials \cup {NoTank}]]
  BY <1>1, <1>4 DEF LookupTypes
<1>8. LookupTypes' /\ FreshEntries'
  <2>1. CASE found = NoTank
    <3>1. /\ negative' = [k \in Keys |-> IF k \in Keyed(f) THEN f.age ELSE negative[k]]
          /\ byMac' = byMac /\ bySerial' = bySerial
      BY <2>1 DEF StoreEntry
    <3>2. f.age = "fresh" => ~Registered(f.serial)
      BY <1>2, <1>3, <2>1 DEF TankLookupAssumption
    <3>3. LookupTypes'
      BY <1>1, <1>2, <1>4, <1>7, <3>1 DEF LookupTypes
    <3>4. ASSUME NEW g \in Gateways, negative'[g] = "fresh", NEW s \in wiring[g]
          PROVE  ~Registered(s)
      <4>1. g \in Keys /\ g # f.serial
        BY <1>2 DEF Keys
      <4>2. CASE g = f.mac /\ g \in Keyed(f)
        BY <1>3, <3>1, <3>2, <3>4, <4>1, <4>2
      <4>3. CASE g \notin Keyed(f)
        BY <1>1, <3>1, <3>4, <4>1, <4>3 DEF FreshEntries
      <4> QED
        BY <4>1, <4>2, <4>3 DEF Keyed
    <3>5. ASSUME NEW s \in Serials, negative'[s] = "fresh"
          PROVE  ~Registered(s)
      <4>1. s \in Keys /\ (s = f.mac => s = NoGateway)
        BY <1>2 DEF Keys
      <4>2. CASE s = f.serial /\ s \in Keyed(f)
        BY <3>1, <3>2, <3>5, <4>1, <4>2
      <4>3. CASE s \notin Keyed(f)
        BY <1>1, <3>1, <3>5, <4>1, <4>3 DEF FreshEntries
      <4> QED
        BY <4>1, <4>2, <4>3 DEF Keyed
    <3> QED
      BY <1>1, <1>4, <3>1, <3>3, <3>4, <3>5 DEF FreshEntries, Registered
  <2>2. CASE found # NoTank
    <3>1. /\ byMac' = [g \in Gateways |-> IF g = f.mac THEN entry ELSE byMac[g]]
          /\ bySerial' = [bySerial EXCEPT ![f.serial] = entry] /\ negative' = negative
      BY <2>2 DEF StoreEntry
    <3>2. entry \in Entry /\ entry.tank = found /\ entry.age = f.age
      BY <1>2, <2>2 DEF Entry
    <3> HIDE DEF entry
    <3>3. LookupTypes'
      BY <1>1, <1>2, <1>4, <1>7, <3>1, <3>2 DEF LookupTypes
    <3>4. \A g \in Gateways : byMac'[g].age = "fresh" =>
            \A s \in wiring[g] : Registered(s) => byMac'[g].tank = s
      BY <1>1, <1>3, <3>1, <3>2 DEF FreshEntries
    <3>5. \A s \in Serials : bySerial'[s].age = "fresh" /\ Registered(s) => bySerial'[s].tank = s
      BY <1>1, <1>2, <1>3, <3>1, <3>2 DEF FreshEntries, LookupTypes
    <3> QED
      BY <1>1, <1>4, <3>1, <3>3, <3>4, <3>5 DEF FreshEntries, Registered
  <2> QED
    BY <2>1, <2>2
<1> QED
  BY <1>1, <1>4, <1>5, <1>6, <1>8 DEF LookupInv, OneSensorEach

\* An entry that is gone says nothing.
LEMMA ExpireKeeps ==
  ASSUME LookupInv, ExpireEntry
  PROVE  LookupInv'
<1>1. /\ LookupTypes /\ FreshEntries
      /\ UNCHANGED <<tankMac, wiring, reader, misfiled>>
  BY DEF LookupInv, ExpireEntry
<1>2. None.age = "none"
  BY DEF None
<1>3. LookupTypes' /\ FreshEntries'
  <2>1. ASSUME NEW g \in Gateways, byMac' = [byMac EXCEPT ![g] = None],
               bySerial' = bySerial, negative' = negative
        PROVE  LookupTypes' /\ FreshEntries'
    BY <1>1, <1>2, <2>1 DEF LookupTypes, FreshEntries, Registered
  <2>2. ASSUME NEW s \in Serials, bySerial' = [bySerial EXCEPT ![s] = None],
               byMac' = byMac, negative' = negative
        PROVE  LookupTypes' /\ FreshEntries'
    BY <1>1, <1>2, <2>2 DEF LookupTypes, FreshEntries, Registered
  <2>3. ASSUME NEW k \in Keys, negative' = [negative EXCEPT ![k] = "none"],
               byMac' = byMac, bySerial' = bySerial
        PROVE  LookupTypes' /\ FreshEntries'
    BY <1>1, <2>3 DEF LookupTypes, FreshEntries, Registered, Keys
  <2> QED
    BY <2>1, <2>2, <2>3 DEF ExpireEntry
<1> QED
  BY <1>1, <1>3 DEF LookupInv, FreshFrame, At, Registered, OneSensorEach

\* After a change nothing is fresh.
LEMMA ChangeAges ==
  ASSUME LookupTypes, Change
  PROVE  /\ \A g \in Gateways : byMac'[g].age # "fresh"
         /\ \A s \in Serials : bySerial'[s].age # "fresh"
         /\ \A k \in Keys : negative'[k] # "fresh"
         /\ \A r \in Readers : ~At(r, "idle")' => reader'[r].frame.age # "fresh"
         /\ byMac' \in [Gateways -> Entry \cup {None}]
         /\ bySerial' \in [Serials -> Entry \cup {None}]
         /\ negative' \in [Keys -> Age \cup {"none"}]
         /\ reader' \in [Readers -> {NoReading} \cup
              [at : {"resolve", "negative", "query"}, frame : Frame] \cup
              [at : {"store"}, frame : Frame, found : Serials \cup {NoTank}]]
<1>1. ASSUME NEW e \in Entry \cup {None} PROVE Older(e) \in Entry \cup {None} /\ Older(e).age # "fresh"
  BY DEF Older, Entry, None, Age
<1>2. /\ byMac' \in [Gateways -> Entry \cup {None}]
      /\ \A g \in Gateways : byMac'[g].age # "fresh"
  BY <1>1 DEF Change, LookupTypes
<1>3. /\ bySerial' \in [Serials -> Entry \cup {None}]
      /\ \A s \in Serials : bySerial'[s].age # "fresh"
  BY <1>1 DEF Change, LookupTypes
<1>4. /\ negative' \in [Keys -> Age \cup {"none"}] /\ \A k \in Keys : negative'[k] # "fresh"
  BY DEF Change, LookupTypes, Age
<1>5. ASSUME NEW r \in Readers
      PROVE  /\ reader'[r] \in {NoReading} \cup
                  [at : {"resolve", "negative", "query"}, frame : Frame] \cup
                  [at : {"store"}, frame : Frame, found : Serials \cup {NoTank}]
             /\ ~At(r, "idle")' => reader'[r].frame.age # "fresh"
  <2>1. CASE At(r, "idle")
    BY <2>1 DEF Change, At, NoReading
  <2>2. CASE ~At(r, "idle")
    <3> DEFINE f == reader[r].frame
               old == Older(f)
    <3>1. f \in Frame
      BY <2>2, ReaderFields DEF At
    <3>2. old \in Frame /\ old.age # "fresh"
      BY <3>1 DEF Older, Frame, Age
    <3>3. reader'[r] = [reader[r] EXCEPT !.frame = old]
      BY <2>2 DEF Change
    <3> HIDE DEF f, old
    <3>4. reader'[r].frame = old
      BY <2>2, <3>3 DEF LookupTypes, At, NoReading
    <3> QED
      BY <2>2, <3>2, <3>3, <3>4 DEF LookupTypes, At, NoReading
  <2> QED
    BY <2>1, <2>2
<1>6. reader' \in [Readers -> {NoReading} \cup
        [at : {"resolve", "negative", "query"}, frame : Frame] \cup
        [at : {"store"}, frame : Frame, found : Serials \cup {NoTank}]]
  BY <1>5 DEF Change
<1> QED
  BY <1>2, <1>3, <1>4, <1>5, <1>6

\* Registering or moving a tank, and plugging in a sensor.
LEMMA ChangeKeeps ==
  ASSUME LookupInv, ~SharedWiring, NEW s \in Serials,
         \/ \E g \in Gateways \cup {NoGateway} : EditTank(s, g)
         \/ \E g \in Gateways : Rewire(s, g)
  PROVE  LookupInv'
<1>1. LookupTypes /\ OneSensorEach /\ Change /\ misfiled' = misfiled /\ ~misfiled
  BY DEF LookupInv, EditTank, Rewire
<1>2. /\ \A g \in Gateways : byMac'[g].age # "fresh"
      /\ \A t \in Serials : bySerial'[t].age # "fresh"
      /\ \A k \in Keys : negative'[k] # "fresh"
      /\ \A r \in Readers : ~At(r, "idle")' => reader'[r].frame.age # "fresh"
      /\ byMac' \in [Gateways -> Entry \cup {None}]
      /\ bySerial' \in [Serials -> Entry \cup {None}]
      /\ negative' \in [Keys -> Age \cup {"none"}]
      /\ reader' \in [Readers -> {NoReading} \cup
           [at : {"resolve", "negative", "query"}, frame : Frame] \cup
           [at : {"store"}, frame : Frame, found : Serials \cup {NoTank}]]
  BY <1>1, ChangeAges
<1>3. FreshEntries' /\ \A r \in Readers : FreshFrame(r)'
  BY <1>2 DEF FreshEntries, FreshFrame, Keys
<1>4. /\ tankMac' \in [Serials -> Gateways \cup {NoGateway, NoTank}]
      /\ wiring' \in [Gateways -> SUBSET Serials] /\ OneSensorEach'
  <2>1. CASE \E g \in Gateways \cup {NoGateway} : EditTank(s, g)
    BY <1>1, <2>1 DEF EditTank, LookupTypes, OneSensorEach
  <2>2. ASSUME NEW g \in Gateways, Rewire(s, g)
        PROVE  /\ tankMac' \in [Serials -> Gateways \cup {NoGateway, NoTank}]
               /\ wiring' \in [Gateways -> SUBSET Serials] /\ OneSensorEach'
    <3>1. /\ wiring' = [h \in Gateways |-> IF h = g THEN {s} ELSE wiring[h] \ {s}]
          /\ tankMac' = tankMac
      BY <2>2 DEF Rewire
    <3> QED
      BY <1>1, <3>1 DEF LookupTypes, OneSensorEach
  <2> QED
    BY <2>1, <2>2
<1> QED
  BY <1>1, <1>2, <1>3, <1>4 DEF LookupInv, LookupTypes

\* Where no gateway is shared, all that is fresh is right.
THEOREM LookupInvHolds ==
  ASSUME ~SharedWiring, Gateways \cap Serials = {}
  PROVE  TankLookupSpec => []LookupInv
<1>1. TankLookupInit => LookupInv
  BY DEF TankLookupInit, LookupInv, LookupTypes, OneSensorEach, FreshEntries, FreshFrame,
         At, NoReading, None, Keys
<1>2. LookupInv /\ [TankLookupNext]_lookupVars => LookupInv'
  <2> SUFFICES ASSUME LookupInv, [TankLookupNext]_lookupVars PROVE LookupInv'
    OBVIOUS
  <2>1. ASSUME NEW r \in Readers, NEW g \in Gateways \cup {NoGateway}, NEW s \in Serials,
               Arrive(r, g, s)
        PROVE  LookupInv'
    BY <2>1, ArriveKeeps
  <2>2. ASSUME NEW r \in Readers, Resolve(r) PROVE LookupInv'
    BY <2>2, ResolveKeeps
  <2>3. ASSUME NEW r \in Readers, CheckNegative(r) PROVE LookupInv'
    BY <2>3, CheckNegativeKeeps
  <2>4. ASSUME NEW r \in Readers, QueryTank(r) PROVE LookupInv'
    BY <2>4, QueryTankKeeps
  <2>5. ASSUME NEW r \in Readers, StoreEntry(r) PROVE LookupInv'
    BY <2>5, StoreEntryKeeps, TankLookupAssumption
  <2>6. CASE ExpireEntry
    BY <2>6, ExpireKeeps
  <2>7. ASSUME NEW s \in Serials,
               \/ \E g \in Gateways \cup {NoGateway} : EditTank(s, g)
               \/ \E g \in Gateways : Rewire(s, g)
        PROVE  LookupInv'
    BY <2>7, ChangeKeeps
  <2>8. CASE UNCHANGED lookupVars
    BY <2>8 DEF LookupInv, LookupTypes, OneSensorEach, FreshEntries, FreshFrame, At,
                Registered, lookupVars
  <2> QED
    BY <2>1, <2>2, <2>3, <2>4, <2>5, <2>6, <2>7, <2>8 DEF TankLookupNext
<1> QED
  BY <1>1, <1>2, PTL DEF TankLookupSpec

\* A reading is filed under the tank of the sensor that sent it, unless a tank or the wiring
\* changed since it or what filled the entry was sent (cache.py:12-13), for any number of
\* readers and whatever expires between their steps.  Two gateways or sensors with one
\* lookup key would share a negative entry (cache.py:25-26): the keys are taken as distinct.
THEOREM FiledUnderItsTankHolds ==
  ASSUME ~SharedWiring, Gateways \cap Serials = {}
  PROVE  TankLookupSpec => []FiledUnderItsTank
<1>1. LookupInv => FiledUnderItsTank
  BY DEF LookupInv, FiledUnderItsTank
<1> QED
  BY <1>1, LookupInvHolds, PTL

\* What each variable of TankLookup holds, also where gateways are shared.
LEMMA TankLookupTypes == TankLookupSpec => []TankLookupTypeOK
<1> DEFINE Inv == LookupTypes /\ misfiled \in BOOLEAN
           Reads == {NoReading} \cup
                      [at : {"resolve", "negative", "query"}, frame : Frame] \cup
                      [at : {"store"}, frame : Frame, found : Serials \cup {NoTank}]
<1>1. TankLookupInit => Inv
  BY DEF TankLookupInit, LookupTypes, Keys
<1>2. Inv /\ [TankLookupNext]_lookupVars => Inv'
  <2> SUFFICES ASSUME Inv, [TankLookupNext]_lookupVars PROVE Inv'
    OBVIOUS
  <2>0. LookupTypes /\ misfiled \in BOOLEAN
    OBVIOUS
  <2>1. ASSUME NEW r \in Readers, NEW to \in Reads, reader' = [reader EXCEPT ![r] = to]
        PROVE  reader' \in [Readers -> Reads]
    BY <2>0, <2>1 DEF LookupTypes
  <2>2. ASSUME NEW f, NEW t, NEW a, File(f, t, a) PROVE misfiled' \in BOOLEAN
    BY <2>2 DEF File
  <2>3. ASSUME NEW r \in Readers, NEW step \in {"negative", "query"},
               reader[r].at \in {"resolve", "negative", "query"},
               reader' = [reader EXCEPT ![r].at = step]
        PROVE  reader' \in [Readers -> Reads]
    <3> DEFINE to == [reader[r] EXCEPT !.at = step]
    <3>1. reader[r] \in [at : {"resolve", "negative", "query"}, frame : Frame]
      BY <2>0, <2>3, ReaderFields
    <3>2. to \in Reads
      BY <3>1
    <3>3. reader' = [reader EXCEPT ![r] = to]
      BY <2>3
    <3> HIDE DEF to
    <3> QED
      BY <2>1, <3>2, <3>3
  <2>4. NoReading \in Reads
    OBVIOUS
  <2>5. ASSUME NEW r \in Readers, NEW g \in Gateways \cup {NoGateway}, NEW s \in Serials,
               Arrive(r, g, s)
        PROVE  Inv'
    <3> DEFINE to == [at |-> "resolve", frame |-> [mac |-> g, serial |-> s, age |-> "fresh"]]
    <3>1. to \in Reads
      BY DEF Frame, Age
    <3>2. /\ reader' = [reader EXCEPT ![r] = to]
          /\ UNCHANGED <<tankMac, wiring, byMac, bySerial, negative, misfiled>>
      BY <2>5 DEF Arrive
    <3> HIDE DEF to
    <3>3. reader' \in [Readers -> Reads]
      BY <2>1, <3>1, <3>2
    <3> QED
      BY <2>0, <3>2, <3>3 DEF LookupTypes
  <2>6. ASSUME NEW r \in Readers, Resolve(r) PROVE Inv'
    <3>1. UNCHANGED <<tankMac, wiring, byMac, bySerial, negative>> /\ misfiled' \in BOOLEAN
      BY <2>0, <2>6 DEF Resolve, Renewed, File
    <3>2. \/ reader' = [reader EXCEPT ![r] = NoReading]
          \/ reader' = [reader EXCEPT ![r].at = "negative"] /\ reader[r].at = "resolve"
      BY <2>6 DEF Resolve, At
    <3>3. reader' \in [Readers -> Reads]
      BY <2>1, <2>3, <2>4, <3>2
    <3> QED
      BY <2>0, <3>1, <3>3 DEF LookupTypes
  <2>7. ASSUME NEW r \in Readers, CheckNegative(r) PROVE Inv'
    <3>1. UNCHANGED <<tankMac, wiring, byMac, bySerial, negative>> /\ misfiled' \in BOOLEAN
      BY <2>0, <2>7 DEF CheckNegative, File
    <3>2. \/ reader' = [reader EXCEPT ![r] = NoReading]
          \/ reader' = [reader EXCEPT ![r].at = "query"] /\ reader[r].at = "negative"
      BY <2>7 DEF CheckNegative, At
    <3>3. reader' \in [Readers -> Reads]
      BY <2>1, <2>3, <2>4, <3>2
    <3> QED
      BY <2>0, <3>1, <3>3 DEF LookupTypes
  <2>8. ASSUME NEW r \in Readers, QueryTank(r) PROVE Inv'
    <3>1. /\ UNCHANGED <<tankMac, wiring, byMac, bySerial, negative, misfiled>>
          /\ reader[r].at = "query"
      BY <2>8 DEF QueryTank, At
    <3>2. reader[r].frame \in Frame /\ reader[r].frame.serial \in Serials
      BY <2>0, <3>1, ReaderFields
    <3>3. ASSUME NEW s \in Serials \cup {NoTank},
                 reader' = [reader EXCEPT ![r] =
                              [at |-> "store", frame |-> reader[r].frame, found |-> s]]
          PROVE  reader' \in [Readers -> Reads]
      <4> DEFINE to == [at |-> "store", frame |-> reader[r].frame, found |-> s]
      <4>1. to \in Reads /\ reader' = [reader EXCEPT ![r] = to]
        BY <3>2, <3>3
      <4> HIDE DEF to
      <4> QED
        BY <2>1, <4>1
    <3>4. \/ reader' = [reader EXCEPT ![r] = NoReading]
          \/ \E s \in Serials \cup {NoTank} :
               reader' = [reader EXCEPT ![r] =
                            [at |-> "store", frame |-> reader[r].frame, found |-> s]]
      BY <2>8, <3>2 DEF QueryTank
    <3>5. reader' \in [Readers -> Reads]
      BY <2>1, <2>4, <3>3, <3>4
    <3> QED
      BY <2>0, <3>1, <3>5 DEF LookupTypes
  <2>9. ASSUME NEW r \in Readers, StoreEntry(r) PROVE Inv'
    <3> DEFINE f == reader[r].frame
               found == reader[r].found
               entry == [tank |-> found, age |-> f.age]
    <3>1. /\ UNCHANGED <<tankMac, wiring>> /\ misfiled' \in BOOLEAN /\ reader[r].at = "store"
          /\ reader' = [reader EXCEPT ![r] = NoReading]
      BY <2>9 DEF StoreEntry, File, At
    <3>2. f \in Frame /\ f.age \in Age /\ f.serial \in Serials /\ found \in Serials \cup {NoTank}
      BY <2>0, <3>1, ReaderFields
    <3>3. reader' \in [Readers -> Reads]
      BY <2>1, <2>4, <3>1
    <3>4. CASE found = NoTank
      <4>1. /\ negative' = [k \in Keys |-> IF k \in Keyed(f) THEN f.age ELSE negative[k]]
            /\ UNCHANGED <<byMac, bySerial>>
        BY <2>9, <3>4 DEF StoreEntry
      <4> QED
        BY <2>0, <3>1, <3>2, <3>3, <4>1 DEF LookupTypes
    <3>5. CASE found # NoTank
      <4>1. /\ byMac' = [g \in Gateways |-> IF g = f.mac THEN entry ELSE byMac[g]]
            /\ bySerial' = [bySerial EXCEPT ![f.serial] = entry] /\ UNCHANGED negative
        BY <2>9, <3>5 DEF StoreEntry
      <4>2. entry \in Entry
        BY <3>2, <3>5 DEF Entry
      <4> HIDE DEF entry
      <4> QED
        BY <2>0, <3>1, <3>2, <3>3, <4>1, <4>2 DEF LookupTypes
    <3> QED
      BY <3>4, <3>5
  <2>10. CASE ExpireEntry
    BY <2>0, <2>10 DEF ExpireEntry, LookupTypes
  <2>11. ASSUME NEW s \in Serials, NEW g \in Gateways \cup {NoGateway}, EditTank(s, g)
         PROVE  Inv'
    BY <2>0, <2>11, ChangeAges DEF EditTank, LookupTypes
  <2>12. ASSUME NEW s \in Serials, NEW g \in Gateways, Rewire(s, g) PROVE Inv'
    <3>1. wiring' \in [Gateways -> SUBSET Serials] /\ tankMac' = tankMac /\ misfiled' = misfiled
      BY <2>0, <2>12 DEF Rewire, LookupTypes
    <3> QED
      BY <2>0, <2>12, <3>1, ChangeAges DEF Rewire, LookupTypes
  <2>13. CASE UNCHANGED lookupVars
    BY <2>0, <2>13 DEF lookupVars, LookupTypes
  <2> QED
    BY <2>5, <2>6, <2>7, <2>8, <2>9, <2>10, <2>11, <2>12, <2>13 DEF TankLookupNext
<1>3. Inv => TankLookupTypeOK
  BY DEF LookupTypes, TankLookupTypeOK
<1> QED
  BY <1>1, <1>2, <1>3, PTL DEF TankLookupSpec

------------------------------------------------------------------------------
(***************************************************************************)
(* StaleSweep: the tanks that fell silent.                                 *)
(***************************************************************************)

\* A sweep under way, with what it has read and what it has pending.
Sweeping ==
  [at : {"tanks", "notify", "commit"}, todo : SUBSET Tanks,
   heard : [Tanks -> {"recent", "silent"}], status : [Tanks -> {"online", "offline"}],
   pending : Writes]

\* What the variables of StaleSweep hold.
SweepTypes ==
  /\ heard \in [Devices -> {"never", "recent", "silent"}]
  /\ status \in [Devices -> {"online", "offline"}]
  /\ openKeys \subseteq Tanks
  /\ live \in [Tanks -> Nat]
  /\ sweep \in {Idle, Swept} \cup Sweeping

\* The status and the live alarms of a device once these writes are in the database.
StatusAfter(w, d) ==
  IF d \in w.online THEN "online" ELSE IF d \in w.offline THEN "offline" ELSE status[d]
LiveAfter(w, t) ==
  (IF t \in w.resolved /\ live[t] > 0 THEN live[t] - 1 ELSE live[t])
  + (IF t \in w.raised THEN 1 ELSE 0)

\* A sweep has nothing pending for what it has yet to sweep, nor for a link until the end.
PendingIsSwept ==
  LET w == sweep.pending IN
  Running =>
    /\ (w.online \cup w.offline \cup w.raised \cup w.resolved) \cap sweep.todo = {}
    /\ sweep.at # "commit" => (w.online \cup w.offline) \cap Links = {}
    /\ sweep.at = "commit" => sweep.todo = {}

\* What a sweep has read of a tank that has not changed since, and made of it.
TankIsSwept(t) ==
  Running /\ t \notin touched =>
    /\ sweep.heard[t] = "recent" <=> heard[t] = "recent"
    /\ heard[t] = "never" <=> t \in sweep.pending.backfill
    /\ t \in sweep.todo => status[t] = sweep.status[t]
    /\ t \notin sweep.todo =>
         /\ StatusAfter(sweep.pending, t) = "offline" <=> sweep.heard[t] = "silent"
         /\ t \in openKeys <=> sweep.heard[t] = "silent"

\* What the last step of a sweep, before its commit, has made of a gateway or a link.
LinkIsSwept(l) ==
  sweep.at = "commit" /\ l \notin touched /\ heard[l] # "never" =>
    (StatusAfter(sweep.pending, l) = "offline" <=> heard[l] = "silent")

\* A tank's key against its live alarms, with those that are pending.
KeyIsLive(t) ==
  t \notin lost =>
    (IF Running THEN LiveAfter(sweep.pending, t) ELSE live[t]) = IF t \in openKeys THEN 1 ELSE 0

\* What the property says of one device.
AgreesOnStatus(d) ==
  sweep = Swept /\ d \notin touched /\ heard[d] # "never" =>
    (status[d] = "offline" <=> heard[d] = "silent")
AgreesOnKey(t) ==
  sweep = Swept /\ t \notin touched => (t \in openKeys <=> heard[t] = "silent") /\ heard[t] # "never"

\* What is proved to be inductive of StaleSweep.
SweepInv ==
  /\ SweepTypes /\ PendingIsSwept
  /\ \A t \in Tanks : TankIsSwept(t) /\ KeyIsLive(t) /\ AgreesOnKey(t)
  /\ \A l \in Links : LinkIsSwept(l)
  /\ \A d \in Devices : AgreesOnStatus(d)

\* What a sweep holds by its step.
LEMMA SweepFields ==
  ASSUME SweepTypes
  PROVE  /\ Running <=> sweep \in Sweeping
         /\ Running => sweep.pending \in Writes /\ sweep.todo \in SUBSET Tanks
         /\ sweep = Swept => ~Running
         /\ sweep = Idle => ~Running
BY DEF SweepTypes, Sweeping, Running, Idle, Swept

\* A frame, a heartbeat or silence touches the devices it changes.
LEMMA HearKeeps ==
  ASSUME SweepInv, NEW devices \in SUBSET Devices, Hear(devices)
  PROVE  SweepInv'
<1>1. /\ UNCHANGED <<openKeys, live, sweep, lost>> /\ touched' = touched \cup devices
      /\ heard' \in [Devices -> {"never", "recent", "silent"}]
      /\ status' \in [Devices -> {"online", "offline"}]
      /\ \A d \in Devices \ devices : heard'[d] = heard[d] /\ status'[d] = status[d]
  BY DEF Hear, Touch, SweepInv, SweepTypes
<1>2. SweepTypes' /\ PendingIsSwept'
  BY <1>1 DEF SweepInv, SweepTypes, PendingIsSwept, Running
<1>3. ASSUME NEW t \in Tanks PROVE TankIsSwept(t)' /\ KeyIsLive(t)' /\ AgreesOnKey(t)'
  <2>1. t \in Devices /\ TankIsSwept(t) /\ KeyIsLive(t) /\ AgreesOnKey(t)
    BY DEF SweepInv, Devices
  <2> QED
    BY <1>1, <2>1 DEF TankIsSwept, KeyIsLive, AgreesOnKey, StatusAfter, LiveAfter, Running
<1>4. ASSUME NEW l \in Links PROVE LinkIsSwept(l)'
  <2>1. l \in Devices /\ LinkIsSwept(l)
    BY DEF SweepInv, Devices
  <2> QED
    BY <1>1, <2>1 DEF LinkIsSwept, StatusAfter
<1>5. ASSUME NEW d \in Devices PROVE AgreesOnStatus(d)'
  BY <1>1 DEF SweepInv, AgreesOnStatus
<1> QED
  BY <1>2, <1>3, <1>4, <1>5 DEF SweepInv

\* A device that falls silent is touched.
LEMMA FallSilentKeeps ==
  ASSUME SweepInv, NEW d \in Devices, FallSilent(d)
  PROVE  SweepInv'
<1>1. /\ UNCHANGED <<openKeys, live, sweep, lost, status>> /\ touched' = touched \cup {d}
      /\ heard' \in [Devices -> {"never", "recent", "silent"}]
      /\ \A e \in Devices \ {d} : heard'[e] = heard[e]
  BY DEF FallSilent, Touch, SweepInv, SweepTypes
<1>2. SweepTypes' /\ PendingIsSwept'
  BY <1>1 DEF SweepInv, SweepTypes, PendingIsSwept, Running
<1>3. ASSUME NEW t \in Tanks PROVE TankIsSwept(t)' /\ KeyIsLive(t)' /\ AgreesOnKey(t)'
  <2>1. t \in Devices /\ TankIsSwept(t) /\ KeyIsLive(t) /\ AgreesOnKey(t)
    BY DEF SweepInv, Devices
  <2> QED
    BY <1>1, <2>1 DEF TankIsSwept, KeyIsLive, AgreesOnKey, StatusAfter, LiveAfter, Running
<1>4. ASSUME NEW l \in Links PROVE LinkIsSwept(l)'
  <2>1. l \in Devices /\ LinkIsSwept(l)
    BY DEF SweepInv, Devices
  <2> QED
    BY <1>1, <2>1 DEF LinkIsSwept, StatusAfter
<1>5. ASSUME NEW e \in Devices PROVE AgreesOnStatus(e)'
  BY <1>1 DEF SweepInv, AgreesOnStatus
<1> QED
  BY <1>2, <1>3, <1>4, <1>5 DEF SweepInv

\* An alarm resolved by hand sets its tank apart.
LEMMA ResolveByHandKeeps ==
  ASSUME SweepInv, NEW t \in Tanks, ResolveByHand(t)
  PROVE  SweepInv'
<1>1. /\ UNCHANGED <<openKeys, heard, sweep, status>> /\ touched' = touched \cup {t}
      /\ lost' = lost \cup {t} /\ live' \in [Tanks -> Nat]
      /\ \A u \in Tanks \ {t} : live'[u] = live[u]
  BY DEF ResolveByHand, Touch, SweepInv, SweepTypes
<1>2. SweepTypes' /\ PendingIsSwept'
  BY <1>1 DEF SweepInv, SweepTypes, PendingIsSwept, Running
<1>3. ASSUME NEW u \in Tanks PROVE TankIsSwept(u)' /\ KeyIsLive(u)' /\ AgreesOnKey(u)'
  <2>1. u \in Devices /\ TankIsSwept(u) /\ KeyIsLive(u) /\ AgreesOnKey(u)
    BY DEF SweepInv, Devices
  <2> QED
    BY <1>1, <2>1 DEF TankIsSwept, KeyIsLive, AgreesOnKey, StatusAfter, LiveAfter, Running
<1>4. ASSUME NEW l \in Links PROVE LinkIsSwept(l)'
  BY <1>1 DEF SweepInv, LinkIsSwept, StatusAfter
<1>5. ASSUME NEW e \in Devices PROVE AgreesOnStatus(e)'
  BY <1>1 DEF SweepInv, AgreesOnStatus
<1> QED
  BY <1>2, <1>3, <1>4, <1>5 DEF SweepInv

\* A sweep starts from what it reads.
LEMMA StartSweepKeeps ==
  ASSUME SweepInv, StartSweep
  PROVE  SweepInv'
<1> DEFINE read == [t \in Tanks |-> IF heard[t] = "recent" THEN "recent" ELSE "silent"]
           was == [t \in Tanks |-> status[t]]
           w == [NoTanks EXCEPT !.backfill = {t \in Tanks : heard[t] = "never"}]
<1>1. /\ ~Running /\ UNCHANGED <<heard, status, openKeys, live, lost>> /\ touched' = {}
      /\ sweep' = [at |-> "tanks", todo |-> Tanks, heard |-> read, status |-> was, pending |-> w]
  BY DEF StartSweep
<1>2. /\ w \in Writes /\ w.backfill = {t \in Tanks : heard[t] = "never"}
      /\ w.online = {} /\ w.offline = {} /\ w.raised = {} /\ w.resolved = {}
  BY DEF NoTanks, Writes
<1>3. /\ read \in [Tanks -> {"recent", "silent"}] /\ was \in [Tanks -> {"online", "offline"}]
      /\ \A t \in Tanks : (read[t] = "recent" <=> heard[t] = "recent") /\ was[t] = status[t]
  BY DEF SweepInv, SweepTypes, Devices
<1> HIDE DEF read, was, w
<1>4. /\ sweep' \in Sweeping /\ sweep'.at = "tanks" /\ sweep'.todo = Tanks /\ sweep'.heard = read
      /\ sweep'.status = was /\ sweep'.pending = w /\ Running'
  BY <1>1, <1>2, <1>3 DEF Sweeping, Running
<1>5. SweepTypes' /\ PendingIsSwept'
  BY <1>1, <1>2, <1>4 DEF SweepInv, SweepTypes, PendingIsSwept
<1>6. ASSUME NEW t \in Tanks PROVE TankIsSwept(t)' /\ KeyIsLive(t)' /\ AgreesOnKey(t)'
  <2>1. KeyIsLive(t) /\ live[t] \in Nat
    BY DEF SweepInv, SweepTypes
  <2>2. TankIsSwept(t)'
    BY <1>1, <1>2, <1>3, <1>4 DEF TankIsSwept
  <2>3. KeyIsLive(t)'
    BY <1>1, <1>2, <1>4, <2>1 DEF KeyIsLive, LiveAfter
  <2>4. AgreesOnKey(t)'
    BY <1>4 DEF AgreesOnKey, Swept
  <2> QED
    BY <2>2, <2>3, <2>4
<1>7. \A l \in Links : LinkIsSwept(l)'
  BY <1>4 DEF LinkIsSwept
<1>8. \A d \in Devices : AgreesOnStatus(d)'
  BY <1>4 DEF AgreesOnStatus, Swept
<1> QED
  BY <1>5, <1>6, <1>7, <1>8 DEF SweepInv

\* The sweep of one tank leaves what others wait for alone.
LEMMA OtherTanks ==
  ASSUME SweepInv, NEW t \in Tanks, sweep.at = "tanks", t \in sweep.todo, sweep' \in Sweeping,
         UNCHANGED <<heard, status, live, touched, lost>>, openKeys' \subseteq Tanks,
         openKeys' \ {t} = openKeys \ {t},
         sweep'.at \in {"tanks", "notify"}, sweep'.todo = sweep.todo \ {t},
         sweep'.heard = sweep.heard, sweep'.status = sweep.status,
         sweep'.pending.backfill = sweep.pending.backfill,
         sweep'.pending.online \ {t} = sweep.pending.online \ {t},
         sweep'.pending.offline \ {t} = sweep.pending.offline \ {t},
         sweep'.pending.raised \ {t} = sweep.pending.raised \ {t},
         sweep'.pending.resolved \ {t} = sweep.pending.resolved \ {t},
         TankIsSwept(t)', KeyIsLive(t)', StaleSweepAssumption
  PROVE  SweepInv'
<1>1. Running /\ Running' /\ SweepTypes
  BY DEF SweepInv, Running
<1>2. SweepTypes'
  BY <1>1 DEF SweepTypes
<1>3. PendingIsSwept'
  <2>1. PendingIsSwept
    BY DEF SweepInv
  <2> QED
    BY <1>1, <2>1 DEF PendingIsSwept, StaleSweepAssumption
<1>4. ASSUME NEW u \in Tanks PROVE TankIsSwept(u)' /\ KeyIsLive(u)' /\ AgreesOnKey(u)'
  <2>1. CASE u = t
    BY <1>1, <2>1, SweepFields DEF AgreesOnKey, Swept
  <2>2. CASE u # t
    <3>1. TankIsSwept(u) /\ KeyIsLive(u)
      BY DEF SweepInv
    <3>2. /\ u \in sweep'.todo <=> u \in sweep.todo
          /\ u \in openKeys' <=> u \in openKeys
          /\ u \in sweep'.pending.online <=> u \in sweep.pending.online
          /\ u \in sweep'.pending.offline <=> u \in sweep.pending.offline
          /\ u \in sweep'.pending.raised <=> u \in sweep.pending.raised
          /\ u \in sweep'.pending.resolved <=> u \in sweep.pending.resolved
      BY <2>2
    <3>3. TankIsSwept(u)'
      BY <1>1, <3>1, <3>2 DEF TankIsSwept, StatusAfter
    <3>4. KeyIsLive(u)'
      BY <1>1, <3>1, <3>2 DEF KeyIsLive, LiveAfter
    <3>5. AgreesOnKey(u)'
      BY DEF AgreesOnKey, Swept
    <3> QED
      BY <3>3, <3>4, <3>5
  <2> QED
    BY <2>1, <2>2
<1>5. \A l \in Links : LinkIsSwept(l)'
  BY DEF LinkIsSwept
<1>6. \A d \in Devices : AgreesOnStatus(d)'
  BY DEF AgreesOnStatus, Swept
<1> QED
  BY <1>2, <1>3, <1>4, <1>5, <1>6 DEF SweepInv

\* A silent tank has its alarm and its key, or gets both.
LEMMA SweepSilentKeeps ==
  ASSUME SweepInv, NEW t \in Tanks, SweepSilent(t), StaleSweepAssumption
  PROVE  SweepInv'
<1> DEFINE raised == {t} \ openKeys
           o == sweep.pending.offline \cup {x \in {t} : sweep.status[x] # "offline"}
           p == sweep.pending.raised \cup raised
           to == [sweep.pending EXCEPT !.offline = o, !.raised = p]
<1>1. /\ sweep.at = "tanks" /\ t \in sweep.todo /\ sweep.heard[t] = "silent"
      /\ openKeys' = openKeys \cup raised
      /\ UNCHANGED <<heard, status, live, touched, lost>>
  BY DEF SweepSilent
<1>2. /\ Running /\ SweepTypes /\ PendingIsSwept /\ TankIsSwept(t) /\ KeyIsLive(t)
      /\ sweep \in Sweeping /\ sweep.pending \in Writes /\ live[t] \in Nat
      /\ sweep.status[t] \in {"online", "offline"}
  BY <1>1, SweepFields DEF SweepInv, Running, Sweeping, SweepTypes
<1>3. sweep' = [sweep EXCEPT !.at = IF raised = {} THEN "tanks" ELSE "notify",
                             !.todo = sweep.todo \ {t}, !.pending = to]
  BY <1>2 DEF SweepSilent, Sweeping, Writes
<1>4. /\ o \in SUBSET Devices /\ p \in SUBSET Tanks
  BY <1>1, <1>2 DEF Writes, Devices
<1>5. /\ to \in Writes /\ to.offline = o /\ to.raised = p /\ to.online = sweep.pending.online
      /\ to.resolved = sweep.pending.resolved /\ to.backfill = sweep.pending.backfill
  <2> HIDE DEF o, p
  <2> QED
    BY <1>2, <1>4 DEF Writes
<1>6. /\ t \notin sweep.pending.online /\ t \notin sweep.pending.offline
      /\ t \notin sweep.pending.raised /\ t \notin sweep.pending.resolved
  BY <1>1, <1>2 DEF PendingIsSwept
<1> HIDE DEF to
<1>7. /\ sweep' \in Sweeping /\ sweep'.at \in {"tanks", "notify"} /\ sweep'.todo = sweep.todo \ {t}
      /\ sweep'.heard = sweep.heard /\ sweep'.status = sweep.status /\ sweep'.pending = to
  BY <1>2, <1>3, <1>5 DEF Sweeping
<1>8. Running'
  BY <1>7 DEF Running
<1>9. TankIsSwept(t)'
  BY <1>1, <1>2, <1>5, <1>6, <1>7, <1>8 DEF TankIsSwept, StatusAfter
<1>10. KeyIsLive(t)'
  <2>1. t \notin lost => live[t] = IF t \in openKeys THEN 1 ELSE 0
    BY <1>2, <1>6 DEF KeyIsLive, LiveAfter
  <2> QED
    BY <1>1, <1>2, <1>5, <1>6, <1>7, <1>8, <2>1 DEF KeyIsLive, LiveAfter
<1>11. openKeys' \subseteq Tanks /\ openKeys' \ {t} = openKeys \ {t}
  BY <1>1, <1>2 DEF SweepTypes
<1>12. /\ to.online \ {t} = sweep.pending.online \ {t} /\ to.offline \ {t} = sweep.pending.offline \ {t}
       /\ to.raised \ {t} = sweep.pending.raised \ {t} /\ to.resolved \ {t} = sweep.pending.resolved \ {t}
  BY <1>5
<1> QED
  BY <1>1, <1>5, <1>7, <1>9, <1>10, <1>11, <1>12, OtherTanks

\* A tank heard from has neither, or loses both.
LEMMA SweepRecentKeeps ==
  ASSUME SweepInv, NEW t \in Tanks, SweepRecent(t), StaleSweepAssumption
  PROVE  SweepInv'
<1> DEFINE o == sweep.pending.online \cup {x \in {t} : sweep.status[x] # "online"}
           p == sweep.pending.resolved \cup {x \in {t} \cap openKeys : live[x] > 0}
           to == [sweep.pending EXCEPT !.online = o, !.resolved = p]
<1>1. /\ sweep.at = "tanks" /\ t \in sweep.todo /\ sweep.heard[t] = "recent"
      /\ openKeys' = openKeys \ {t}
      /\ UNCHANGED <<heard, status, live, touched, lost>>
  BY DEF SweepRecent, Cleared
<1>2. /\ Running /\ SweepTypes /\ PendingIsSwept /\ TankIsSwept(t) /\ KeyIsLive(t)
      /\ sweep \in Sweeping /\ sweep.pending \in Writes /\ live[t] \in Nat
      /\ sweep.status[t] \in {"online", "offline"}
  BY <1>1, SweepFields DEF SweepInv, Running, Sweeping, SweepTypes
<1>3. sweep' = [sweep EXCEPT !.todo = sweep.todo \ {t}, !.pending = to]
  BY <1>2 DEF SweepRecent, Sweeping, Writes
<1>4. /\ o \in SUBSET Devices /\ p \in SUBSET Tanks
  BY <1>1, <1>2 DEF Writes, Devices
<1>5. /\ to \in Writes /\ to.online = o /\ to.resolved = p /\ to.offline = sweep.pending.offline
      /\ to.raised = sweep.pending.raised /\ to.backfill = sweep.pending.backfill
  <2> HIDE DEF o, p
  <2> QED
    BY <1>2, <1>4 DEF Writes
<1>6. /\ t \notin sweep.pending.online /\ t \notin sweep.pending.offline
      /\ t \notin sweep.pending.raised /\ t \notin sweep.pending.resolved
  BY <1>1, <1>2 DEF PendingIsSwept
<1> HIDE DEF to
<1>7. /\ sweep' \in Sweeping /\ sweep'.at \in {"tanks", "notify"} /\ sweep'.todo = sweep.todo \ {t}
      /\ sweep'.heard = sweep.heard /\ sweep'.status = sweep.status /\ sweep'.pending = to
  BY <1>1, <1>2, <1>3, <1>5 DEF Sweeping
<1>8. Running'
  BY <1>7 DEF Running
<1>9. TankIsSwept(t)'
  BY <1>1, <1>2, <1>5, <1>6, <1>7, <1>8 DEF TankIsSwept, StatusAfter
<1>10. KeyIsLive(t)'
  <2>1. t \notin lost => live[t] = IF t \in openKeys THEN 1 ELSE 0
    BY <1>2, <1>6 DEF KeyIsLive, LiveAfter
  <2> QED
    BY <1>1, <1>2, <1>5, <1>6, <1>7, <1>8, <2>1 DEF KeyIsLive, LiveAfter
<1>11. openKeys' \subseteq Tanks /\ openKeys' \ {t} = openKeys \ {t}
  BY <1>1, <1>2 DEF SweepTypes
<1>12. /\ to.online \ {t} = sweep.pending.online \ {t} /\ to.offline \ {t} = sweep.pending.offline \ {t}
       /\ to.raised \ {t} = sweep.pending.raised \ {t} /\ to.resolved \ {t} = sweep.pending.resolved \ {t}
  BY <1>5
<1> QED
  BY <1>1, <1>5, <1>7, <1>9, <1>10, <1>11, <1>12, OtherTanks

\* What a flush leaves in the database.
LEMMA FlushWrites ==
  ASSUME SweepTypes, NEW w \in Writes, Flush(w)
  PROVE  /\ heard' \in [Devices -> {"never", "recent", "silent"}]
         /\ status' \in [Devices -> {"online", "offline"}] /\ live' \in [Tanks -> Nat]
         /\ \A d \in Devices : /\ heard'[d] = IF d \in w.backfill THEN "silent" ELSE heard[d]
                               /\ status'[d] = StatusAfter(w, d)
         /\ \A t \in Tanks : live'[t] = LiveAfter(w, t)
<1>1. \A t \in Tanks : live[t] \in Nat /\ LiveAfter(w, t) \in Nat
  BY DEF SweepTypes, LiveAfter
<1>2. live' = [t \in Tanks |-> LiveAfter(w, t)]
  BY DEF Flush, LiveAfter
<1> QED
  BY <1>1, <1>2 DEF SweepTypes, Flush, StatusAfter

\* A notification commits what is pending, or not.
LEMMA NotifyKeeps ==
  ASSUME SweepInv, Notify, StaleSweepAssumption
  PROVE  SweepInv'
<1> DEFINE w == sweep.pending
<1>1. /\ Running /\ SweepTypes /\ PendingIsSwept /\ sweep \in Sweeping /\ w \in Writes
      /\ sweep.at = "notify" /\ UNCHANGED <<openKeys, touched, lost>>
  BY SweepFields DEF SweepInv, Running, Notify
<1>2. CASE sweep' = [sweep EXCEPT !.at = "tanks"] /\ UNCHANGED <<heard, status, live>>
  <2>1. /\ sweep' \in Sweeping /\ sweep'.at = "tanks" /\ sweep'.todo = sweep.todo
        /\ sweep'.heard = sweep.heard /\ sweep'.status = sweep.status /\ sweep'.pending = w
    BY <1>1, <1>2 DEF Sweeping
  <2>2. Running'
    BY <2>1 DEF Running
  <2>3. SweepTypes' /\ PendingIsSwept'
    BY <1>1, <1>2, <2>1, <2>2 DEF SweepTypes, PendingIsSwept
  <2>4. \A t \in Tanks : TankIsSwept(t)' /\ KeyIsLive(t)' /\ AgreesOnKey(t)'
    BY <1>1, <1>2, <2>1, <2>2 DEF SweepInv, TankIsSwept, KeyIsLive, AgreesOnKey, StatusAfter,
       LiveAfter, Swept
  <2> QED
    BY <2>1, <2>3, <2>4 DEF SweepInv, LinkIsSwept, AgreesOnStatus, Swept
<1>3. CASE Flush(w) /\ sweep' = [sweep EXCEPT !.at = "tanks", !.pending = NoTanks]
  <2>1. /\ NoTanks \in Writes /\ NoTanks.backfill = {} /\ NoTanks.online = {}
        /\ NoTanks.offline = {} /\ NoTanks.raised = {} /\ NoTanks.resolved = {}
    BY DEF NoTanks, Writes
  <2>2. /\ sweep' \in Sweeping /\ sweep'.at = "tanks" /\ sweep'.todo = sweep.todo
        /\ sweep'.heard = sweep.heard /\ sweep'.status = sweep.status /\ sweep'.pending = NoTanks
    BY <1>1, <1>3, <2>1 DEF Sweeping
  <2>3. Running'
    BY <2>2 DEF Running
  <2>4. /\ heard' \in [Devices -> {"never", "recent", "silent"}]
        /\ status' \in [Devices -> {"online", "offline"}] /\ live' \in [Tanks -> Nat]
        /\ \A d \in Devices : /\ heard'[d] = IF d \in w.backfill THEN "silent" ELSE heard[d]
                              /\ status'[d] = StatusAfter(w, d)
        /\ \A t \in Tanks : live'[t] = LiveAfter(w, t)
    BY <1>1, <1>3, FlushWrites
  <2>5. SweepTypes' /\ PendingIsSwept'
    BY <1>1, <2>1, <2>2, <2>3, <2>4 DEF SweepTypes, PendingIsSwept
  <2>6. ASSUME NEW t \in Tanks PROVE TankIsSwept(t)' /\ KeyIsLive(t)' /\ AgreesOnKey(t)'
    <3>1. TankIsSwept(t) /\ KeyIsLive(t) /\ t \in Devices
      BY DEF SweepInv, Devices
    <3>2. t \in sweep.todo => StatusAfter(w, t) = status[t]
      BY <1>1 DEF PendingIsSwept, StatusAfter
    <3>3. TankIsSwept(t)'
      <4>1. StatusAfter(sweep.pending, t)' = status'[t]
        BY <2>1, <2>2 DEF StatusAfter
      <4> QED
        BY <1>1, <2>1, <2>2, <2>3, <2>4, <3>1, <3>2, <4>1 DEF TankIsSwept
    <3>4. KeyIsLive(t)'
      <4>1. LiveAfter(sweep.pending, t)' = live'[t]
        BY <2>1, <2>2, <2>4 DEF LiveAfter
      <4> QED
        BY <1>1, <2>3, <2>4, <3>1, <4>1 DEF KeyIsLive
    <3>5. AgreesOnKey(t)'
      BY <2>2 DEF AgreesOnKey, Swept
    <3> QED
      BY <3>3, <3>4, <3>5
  <2> QED
    BY <2>2, <2>5, <2>6 DEF SweepInv, LinkIsSwept, AgreesOnStatus, Swept
<1> QED
  BY <1>2, <1>3 DEF Notify

\* Last, the gateways and stations are read and swept at once.
LEMMA SweepLinksKeeps ==
  ASSUME SweepInv, SweepLinks, StaleSweepAssumption
  PROVE  SweepInv'
<1> DEFINE off == sweep.pending.offline \cup {l \in Links : heard[l] = "silent"}
           on == sweep.pending.online \cup {l \in Links : heard[l] = "recent" /\ status[l] = "offline"}
           to == [sweep.pending EXCEPT !.offline = off, !.online = on]
<1>1. /\ Running /\ SweepTypes /\ PendingIsSwept /\ sweep \in Sweeping /\ sweep.pending \in Writes
      /\ sweep.at = "tanks" /\ sweep.todo = {} /\ touched' = touched \ Links
      /\ UNCHANGED <<heard, status, openKeys, live, lost>>
  BY SweepFields DEF SweepInv, Running, SweepLinks
<1>2. sweep' = [sweep EXCEPT !.at = "commit", !.pending = to]
  BY <1>1 DEF SweepLinks, Sweeping, Writes
<1>3. off \in SUBSET Devices /\ on \in SUBSET Devices
  BY <1>1 DEF Writes, Devices
<1>4. /\ to \in Writes /\ to.offline = off /\ to.online = on /\ to.raised = sweep.pending.raised
      /\ to.resolved = sweep.pending.resolved /\ to.backfill = sweep.pending.backfill
  <2> HIDE DEF on, off
  <2> QED
    BY <1>1, <1>3 DEF Writes
<1> HIDE DEF to
<1>5. /\ sweep' \in Sweeping /\ sweep'.at = "commit" /\ sweep'.todo = sweep.todo
      /\ sweep'.heard = sweep.heard /\ sweep'.status = sweep.status /\ sweep'.pending = to
  BY <1>1, <1>2, <1>4 DEF Sweeping
<1>6. Running'
  BY <1>5 DEF Running
<1>7. SweepTypes' /\ PendingIsSwept'
  BY <1>1, <1>4, <1>5, <1>6 DEF SweepTypes, PendingIsSwept
<1>8. ASSUME NEW t \in Tanks PROVE TankIsSwept(t)' /\ KeyIsLive(t)' /\ AgreesOnKey(t)'
  <2>1. TankIsSwept(t) /\ KeyIsLive(t) /\ t \notin Links
    BY DEF SweepInv, StaleSweepAssumption
  <2>2. /\ t \in to.online <=> t \in sweep.pending.online
        /\ t \in to.offline <=> t \in sweep.pending.offline
        /\ t \in touched' <=> t \in touched
    BY <1>1, <1>4, <2>1
  <2>3. StatusAfter(sweep.pending, t)' = StatusAfter(sweep.pending, t)
    BY <1>1, <1>5, <2>2 DEF StatusAfter
  <2>4. LiveAfter(sweep.pending, t)' = LiveAfter(sweep.pending, t)
    BY <1>1, <1>4, <1>5 DEF LiveAfter
  <2>5. TankIsSwept(t)'
    BY <1>1, <1>4, <1>5, <1>6, <2>1, <2>2, <2>3 DEF TankIsSwept
  <2>6. KeyIsLive(t)'
    BY <1>1, <1>6, <2>1, <2>4 DEF KeyIsLive
  <2> QED
    BY <1>5, <2>5, <2>6 DEF AgreesOnKey, Swept
<1>9. ASSUME NEW l \in Links PROVE LinkIsSwept(l)'
  <2>1. /\ l \notin sweep.pending.online /\ l \notin sweep.pending.offline
        /\ heard[l] \in {"never", "recent", "silent"} /\ status[l] \in {"online", "offline"}
    BY <1>1 DEF PendingIsSwept, SweepTypes, Devices
  <2>2. /\ l \in to.offline <=> heard[l] = "silent"
        /\ l \in to.online <=> heard[l] = "recent" /\ status[l] = "offline"
    BY <1>4, <2>1
  <2> QED
    BY <1>1, <1>5, <2>1, <2>2 DEF LinkIsSwept, StatusAfter
<1>10. \A d \in Devices : AgreesOnStatus(d)'
  BY <1>5 DEF AgreesOnStatus, Swept
<1> QED
  BY <1>7, <1>8, <1>9, <1>10 DEF SweepInv

\* The commit makes what the sweep found so.
LEMMA EndSweepKeeps ==
  ASSUME SweepInv, EndSweep, StaleSweepAssumption
  PROVE  SweepInv'
<1> DEFINE w == sweep.pending
<1>1. /\ Running /\ SweepTypes /\ PendingIsSwept /\ sweep \in Sweeping /\ w \in Writes
      /\ sweep.at = "commit" /\ sweep.todo = {} /\ UNCHANGED <<openKeys, touched, lost>>
      /\ Flush(w) /\ sweep' = Swept
  BY SweepFields DEF SweepInv, Running, EndSweep, PendingIsSwept
<1>2. /\ heard' \in [Devices -> {"never", "recent", "silent"}]
      /\ status' \in [Devices -> {"online", "offline"}] /\ live' \in [Tanks -> Nat]
      /\ \A d \in Devices : /\ heard'[d] = IF d \in w.backfill THEN "silent" ELSE heard[d]
                            /\ status'[d] = StatusAfter(w, d)
      /\ \A t \in Tanks : live'[t] = LiveAfter(w, t)
  BY <1>1, FlushWrites
<1>3. Swept.at = "swept" /\ ~Running'
  BY <1>1 DEF Swept, Running
<1>4. SweepTypes' /\ PendingIsSwept'
  BY <1>1, <1>2, <1>3 DEF SweepTypes, PendingIsSwept
<1>5. ASSUME NEW t \in Tanks
      PROVE  TankIsSwept(t)' /\ KeyIsLive(t)' /\ AgreesOnKey(t)' /\ AgreesOnStatus(t)'
  <2>1. /\ TankIsSwept(t) /\ KeyIsLive(t) /\ t \in Devices
        /\ heard[t] \in {"never", "recent", "silent"} /\ sweep.heard[t] \in {"recent", "silent"}
    BY <1>1 DEF SweepInv, Devices, SweepTypes, Sweeping
  <2>2. KeyIsLive(t)'
    BY <1>1, <1>2, <1>3, <2>1 DEF KeyIsLive
  <2>3. AgreesOnKey(t)' /\ AgreesOnStatus(t)'
    BY <1>1, <1>2, <2>1 DEF TankIsSwept, AgreesOnKey, AgreesOnStatus
  <2> QED
    BY <1>3, <2>2, <2>3 DEF TankIsSwept
<1>6. ASSUME NEW l \in Links PROVE LinkIsSwept(l)' /\ AgreesOnStatus(l)'
  <2>1. LinkIsSwept(l) /\ l \in Devices /\ l \notin w.backfill
    BY <1>1 DEF SweepInv, Devices, Writes, StaleSweepAssumption
  <2> QED
    BY <1>1, <1>2, <1>3, <2>1 DEF LinkIsSwept, AgreesOnStatus
<1> QED
  BY <1>4, <1>5, <1>6 DEF SweepInv, Devices

\* A sweep that fails may have set keys whose alarms are lost with it.
LEMMA SweepFailsKeeps ==
  ASSUME SweepInv, SweepFails
  PROVE  SweepInv'
<1>1. /\ Running /\ SweepTypes /\ sweep.pending \in Writes /\ sweep' = Idle
      /\ lost' = lost \cup sweep.pending.raised \cup sweep.pending.resolved
      /\ UNCHANGED <<heard, status, openKeys, live, touched>>
  BY SweepFields DEF SweepInv, SweepFails
<1>2. Idle.at = "idle" /\ ~Running' /\ Idle # Swept
  BY <1>1 DEF Idle, Swept, Running
<1>3. SweepTypes' /\ PendingIsSwept'
  BY <1>1, <1>2 DEF SweepTypes, PendingIsSwept
<1>4. ASSUME NEW t \in Tanks PROVE TankIsSwept(t)' /\ KeyIsLive(t)' /\ AgreesOnKey(t)'
  <2>1. KeyIsLive(t) /\ live[t] \in Nat
    BY <1>1 DEF SweepInv, SweepTypes
  <2>2. KeyIsLive(t)'
    BY <1>1, <1>2, <2>1 DEF KeyIsLive, LiveAfter
  <2> QED
    BY <1>1, <1>2, <2>2 DEF TankIsSwept, AgreesOnKey
<1> QED
  BY <1>1, <1>2, <1>3, <1>4 DEF SweepInv, LinkIsSwept, AgreesOnStatus

\* A sweep keeps keys, alarms and statuses in step with what it has read.
THEOREM SweepInvHolds == StaleSweepSpec => []SweepInv
<1>1. StaleSweepInit => SweepInv
  <2> SUFFICES ASSUME StaleSweepInit PROVE SweepInv
    OBVIOUS
  <2>1. ~Running /\ sweep # Swept /\ sweep = Idle /\ sweep.at = "idle"
    BY DEF StaleSweepInit, Idle, Swept, Running
  <2>2. SweepTypes
    BY DEF StaleSweepInit, SweepTypes
  <2>3. ASSUME NEW t \in Tanks PROVE KeyIsLive(t)
    BY <2>1 DEF StaleSweepInit, KeyIsLive
  <2> QED
    BY <2>1, <2>2, <2>3 DEF SweepInv, PendingIsSwept, TankIsSwept, AgreesOnKey, LinkIsSwept,
                            AgreesOnStatus
<1>2. SweepInv /\ [StaleSweepNext]_sweepVars => SweepInv'
  <2> SUFFICES ASSUME SweepInv, [StaleSweepNext]_sweepVars PROVE SweepInv'
    OBVIOUS
  <2>1. ASSUME NEW t \in Tanks, Hear({t}) \/ Hear({t} \cup Links) PROVE SweepInv'
    <3>1. {t} \in SUBSET Devices /\ {t} \cup Links \in SUBSET Devices
      BY DEF Devices
    <3> QED
      BY <2>1, <3>1, HearKeeps
  <2>2. ASSUME NEW t \in Tanks, ResolveByHand(t) PROVE SweepInv'
    BY <2>2, ResolveByHandKeeps
  <2>3. ASSUME NEW t \in Tanks, SweepSilent(t) PROVE SweepInv'
    BY <2>3, SweepSilentKeeps, StaleSweepAssumption
  <2>4. ASSUME NEW t \in Tanks, SweepRecent(t) PROVE SweepInv'
    BY <2>4, SweepRecentKeeps, StaleSweepAssumption
  <2>5. ASSUME NEW d \in Devices, FallSilent(d) PROVE SweepInv'
    BY <2>5, FallSilentKeeps
  <2>6. CASE StartSweep
    BY <2>6, StartSweepKeeps
  <2>7. CASE Notify
    BY <2>7, NotifyKeeps, StaleSweepAssumption
  <2>8. CASE SweepLinks
    BY <2>8, SweepLinksKeeps, StaleSweepAssumption
  <2>9. CASE EndSweep
    BY <2>9, EndSweepKeeps, StaleSweepAssumption
  <2>10. CASE SweepFails
    BY <2>10, SweepFailsKeeps
  <2>11. CASE UNCHANGED sweepVars
    BY <2>11 DEF SweepInv, SweepTypes, PendingIsSwept, TankIsSwept, KeyIsLive, AgreesOnKey,
                 LinkIsSwept, AgreesOnStatus, StatusAfter, LiveAfter, Running, sweepVars
  <2> QED
    BY <2>1, <2>2, <2>3, <2>4, <2>5, <2>6, <2>7, <2>8, <2>9, <2>10, <2>11 DEF StaleSweepNext
<1> QED
  BY <1>1, <1>2, PTL DEF StaleSweepSpec

\* After a sweep, statuses, keys and alarms of what did not change since it read them agree
\* with who is silent (telemetry.py:120-121), for any number of devices, whatever happened
\* during the sweep and in the sweeps before, failed ones included.
THEOREM SweptAgreesHolds == StaleSweepSpec => []SweptAgrees
<1>1. SweepInv => SweptAgrees
  <2> SUFFICES ASSUME SweepInv, sweep = Swept
               PROVE  /\ \A d \in Devices \ touched :
                           heard[d] # "never" => (status[d] = "offline" <=> heard[d] = "silent")
                      /\ \A t \in Tanks \ touched : t \in openKeys <=> heard[t] = "silent"
                      /\ \A t \in Tanks \ (touched \cup lost) :
                           live[t] = IF heard[t] = "silent" THEN 1 ELSE 0
    BY DEF SweptAgrees
  <2>1. ~Running
    BY SweepFields DEF SweepInv
  <2> QED
    BY <2>1 DEF SweepInv, AgreesOnStatus, AgreesOnKey, KeyIsLive
<1> QED
  BY <1>1, SweepInvHolds, PTL

\* The alarms a tank will have once what is pending is written.
DueAlarms(t) == IF Running THEN LiveAfter(sweep.pending, t) ELSE live[t]

\* A tank has an alarm with its key, and one for each upset; only keys that are set have an
\* alarm pending, and only keys that are not have one to resolve.
HasFewAlarms(t) ==
  /\ DueAlarms(t) <= sweepUpsets + IF t \in openKeys THEN 1 ELSE 0
  /\ Running => /\ t \in sweep.pending.raised => t \in openKeys
                /\ t \in sweep.pending.resolved => t \notin openKeys
AlarmsAreFew ==
  /\ touched \subseteq Devices /\ lost \subseteq Tanks /\ sweepUpsets \in 0 .. MaxSweepUpsets
  /\ \A t \in Tanks : HasFewAlarms(t)

\* A step that leaves keys, alarms and pending alarms alone leaves them few.
LEMMA SameAlarms ==
  ASSUME AlarmsAreFew, UNCHANGED <<openKeys, live, sweep, lost, sweepUpsets>>,
         touched' \subseteq Devices
  PROVE  AlarmsAreFew'
<1>1. \A t \in Tanks : HasFewAlarms(t)'
  BY DEF AlarmsAreFew, HasFewAlarms, DueAlarms, LiveAfter, Running
<1> QED
  BY <1>1 DEF AlarmsAreFew

\* The sweep of one tank, silent or heard from, leaves the alarms of all few.
LEMMA SweptAlarmsAreFew ==
  ASSUME SweepInv, AlarmsAreFew, NEW t \in Tanks, SweepSilent(t) \/ SweepRecent(t)
  PROVE  AlarmsAreFew'
<1> DEFINE w == sweep.pending
           v == sweep'.pending
<1>1. /\ Running /\ SweepTypes /\ PendingIsSwept /\ sweep \in Sweeping /\ w \in Writes
      /\ sweep.at = "tanks" /\ t \in sweep.todo /\ UNCHANGED <<live, touched, lost, sweepUpsets>>
  BY SweepFields DEF SweepInv, Running, SweepSilent, SweepRecent
<1>2. t \notin w.raised /\ t \notin w.resolved
  BY <1>1 DEF PendingIsSwept
<1>3. CASE SweepSilent(t)
  <2>1. /\ openKeys' = openKeys \cup {t} /\ v.resolved = w.resolved
        /\ v.raised = w.raised \cup ({t} \ openKeys) /\ sweep'.at \in {"tanks", "notify"}
    BY <1>1, <1>3 DEF SweepSilent, Sweeping, Writes
  <2>2. Running'
    BY <2>1 DEF Running
  <2>3. ASSUME NEW u \in Tanks PROVE HasFewAlarms(u)'
    <3>1. HasFewAlarms(u) /\ live[u] \in Nat /\ sweepUpsets \in Int
      BY <1>1 DEF AlarmsAreFew, SweepTypes
    <3>2. CASE u = t
      BY <1>1, <1>2, <2>1, <2>2, <3>1, <3>2 DEF HasFewAlarms, DueAlarms, LiveAfter
    <3>3. CASE u # t
      BY <1>1, <2>1, <2>2, <3>1, <3>3 DEF HasFewAlarms, DueAlarms, LiveAfter
    <3> QED
      BY <3>2, <3>3
  <2> QED
    BY <1>1, <2>3 DEF AlarmsAreFew
<1>4. CASE SweepRecent(t)
  <2>1. /\ openKeys' = openKeys \ {t} /\ v.raised = w.raised
        /\ v.resolved = w.resolved \cup {x \in {t} \cap openKeys : live[x] > 0}
        /\ sweep'.at = "tanks"
    BY <1>1, <1>4 DEF SweepRecent, Cleared, Sweeping, Writes
  <2>2. Running'
    BY <2>1 DEF Running
  <2>3. ASSUME NEW u \in Tanks PROVE HasFewAlarms(u)'
    <3>1. HasFewAlarms(u) /\ live[u] \in Nat /\ sweepUpsets \in Nat
      BY <1>1 DEF AlarmsAreFew, SweepTypes
    <3>2. CASE u = t
      <4>1. live[u] <= sweepUpsets + 1 /\ (t \notin openKeys => live[u] <= sweepUpsets)
        BY <1>1, <1>2, <3>1, <3>2 DEF HasFewAlarms, DueAlarms, LiveAfter
      <4>2. u \in v.resolved <=> t \in openKeys /\ live[u] > 0
        BY <1>2, <2>1, <3>2
      <4> QED
        BY <1>1, <1>2, <2>1, <2>2, <3>1, <3>2, <4>1, <4>2 DEF HasFewAlarms, DueAlarms, LiveAfter
    <3>3. CASE u # t
      BY <1>1, <2>1, <2>2, <3>1, <3>3 DEF HasFewAlarms, DueAlarms, LiveAfter
    <3> QED
      BY <3>2, <3>3
  <2> QED
    BY <1>1, <2>3 DEF AlarmsAreFew
<1> QED
  BY <1>3, <1>4

\* What is flushed is what was due.
LEMMA FlushedAlarmsAreFew ==
  ASSUME SweepInv, AlarmsAreFew, Running, Flush(sweep.pending),
         UNCHANGED <<openKeys, touched, lost, sweepUpsets>>,
         sweep' = Swept \/ sweep'.pending = NoTanks
  PROVE  AlarmsAreFew'
<1>1. SweepTypes /\ sweep.pending \in Writes
  BY SweepFields DEF SweepInv
<1>2. \A t \in Tanks : live'[t] = LiveAfter(sweep.pending, t)
  BY <1>1, FlushWrites
<1>3. NoTanks.raised = {} /\ NoTanks.resolved = {}
  BY DEF NoTanks
<1>4. sweep' = Swept => ~Running'
  BY DEF Swept, Running
<1>5. ASSUME NEW t \in Tanks PROVE HasFewAlarms(t)'
  <2>1. HasFewAlarms(t) /\ live'[t] \in Nat
    BY <1>1, FlushWrites DEF AlarmsAreFew
  <2>2. DueAlarms(t)' = live'[t]
    BY <1>3, <1>4, <2>1 DEF DueAlarms, LiveAfter
  <2> QED
    BY <1>2, <1>3, <1>4, <2>1, <2>2 DEF HasFewAlarms, DueAlarms
<1> QED
  BY <1>5 DEF AlarmsAreFew

\* What the variables of StaleSweep hold: a tank has at most one alarm, and one for each upset.
LEMMA StaleSweepTypes == StaleSweepSpec => []StaleSweepTypeOK
<1>1. StaleSweepInit => AlarmsAreFew
  <2> SUFFICES ASSUME StaleSweepInit PROVE AlarmsAreFew
    OBVIOUS
  <2>1. ~Running
    BY DEF StaleSweepInit, Idle, Running
  <2> QED
    BY <2>1, StaleSweepAssumption DEF StaleSweepInit, AlarmsAreFew, HasFewAlarms, DueAlarms
<1>2. SweepInv /\ AlarmsAreFew /\ [StaleSweepNext]_sweepVars => AlarmsAreFew'
  <2> SUFFICES ASSUME SweepInv, AlarmsAreFew, [StaleSweepNext]_sweepVars PROVE AlarmsAreFew'
    OBVIOUS
  <2>0. /\ SweepTypes /\ touched \subseteq Devices /\ lost \subseteq Tanks
        /\ sweepUpsets \in 0 .. MaxSweepUpsets /\ MaxSweepUpsets \in Nat
        /\ Running => sweep \in Sweeping /\ sweep.pending \in Writes
    BY StaleSweepAssumption, SweepFields DEF SweepInv, AlarmsAreFew
  <2>1. ASSUME NEW t \in Tanks, Hear({t}) \/ Hear({t} \cup Links) PROVE AlarmsAreFew'
    <3>1. touched' \subseteq Devices
      BY <2>0, <2>1 DEF Hear, Touch, Devices
    <3> QED
      BY <2>1, <3>1, SameAlarms DEF Hear
  <2>2. ASSUME NEW d \in Devices, FallSilent(d) PROVE AlarmsAreFew'
    BY <2>0, <2>2, SameAlarms DEF FallSilent, Touch
  <2>3. ASSUME NEW t \in Tanks, SweepSilent(t) \/ SweepRecent(t) PROVE AlarmsAreFew'
    BY <2>3, SweptAlarmsAreFew
  <2>4. ASSUME NEW t \in Tanks, ResolveByHand(t) PROVE AlarmsAreFew'
    <3>1. /\ sweepUpsets < MaxSweepUpsets /\ sweepUpsets' = sweepUpsets + 1
          /\ live' = [live EXCEPT ![t] = live[t] - 1] /\ live[t] > 0
          /\ lost' \subseteq Tanks /\ touched' \subseteq Devices
          /\ UNCHANGED <<openKeys, sweep>>
      BY <2>0, <2>4 DEF ResolveByHand, SweepUpset, Touch, Devices
    <3>2. ASSUME NEW u \in Tanks PROVE HasFewAlarms(u)'
      <4>1. HasFewAlarms(u) /\ live[u] \in Nat /\ live'[u] \in Nat /\ live'[u] <= live[u]
        BY <2>0, <3>1 DEF AlarmsAreFew, SweepTypes
      <4>2. DueAlarms(u)' <= DueAlarms(u)
        BY <3>1, <4>1 DEF DueAlarms, LiveAfter, Running
      <4>3. DueAlarms(u) \in Int /\ DueAlarms(u)' \in Int
        BY <3>1, <4>1 DEF DueAlarms, LiveAfter, Running
      <4> QED
        BY <2>0, <3>1, <4>1, <4>2, <4>3 DEF HasFewAlarms, Running
    <3> QED
      BY <2>0, <3>1, <3>2 DEF AlarmsAreFew
  <2>5. CASE StartSweep
    <3>1. /\ ~Running /\ UNCHANGED <<openKeys, live, lost, sweepUpsets>> /\ touched' = {}
          /\ sweep'.pending.raised = {} /\ sweep'.pending.resolved = {}
      BY <2>5 DEF StartSweep, NoTanks
    <3>2. ASSUME NEW t \in Tanks PROVE HasFewAlarms(t)'
      <4>1. HasFewAlarms(t) /\ live[t] \in Nat
        BY <2>0 DEF AlarmsAreFew, SweepTypes
      <4> QED
        BY <3>1, <4>1 DEF HasFewAlarms, DueAlarms, LiveAfter
    <3> QED
      BY <2>0, <3>1, <3>2 DEF AlarmsAreFew
  <2>6. CASE Notify
    <3>1. Running /\ UNCHANGED <<openKeys, touched, lost, sweepUpsets>>
      BY <2>6 DEF Notify, Running
    <3>2. CASE sweep' = [sweep EXCEPT !.at = "tanks"] /\ UNCHANGED <<heard, status, live>>
      <4>1. sweep'.pending = sweep.pending /\ sweep'.at = "tanks"
        BY <2>0, <3>1, <3>2 DEF Sweeping
      <4>2. Running'
        BY <4>1 DEF Running
      <4>3. \A t \in Tanks : HasFewAlarms(t)'
        BY <3>1, <3>2, <4>1, <4>2 DEF AlarmsAreFew, HasFewAlarms, DueAlarms, LiveAfter
      <4> QED
        BY <2>0, <3>1, <4>3 DEF AlarmsAreFew
    <3>3. CASE Flush(sweep.pending) /\ sweep' = [sweep EXCEPT !.at = "tanks", !.pending = NoTanks]
      <4>1. sweep'.pending = NoTanks
        BY <2>0, <3>1, <3>3 DEF Sweeping
      <4> QED
        BY <3>1, <3>3, <4>1, FlushedAlarmsAreFew
    <3> QED
      BY <2>6, <3>2, <3>3 DEF Notify
  <2>7. CASE SweepLinks
    <3>1. /\ Running /\ UNCHANGED <<openKeys, live, lost, sweepUpsets>> /\ touched' \subseteq Devices
      BY <2>0, <2>7 DEF SweepLinks, Running
    <3>2. /\ sweep'.at = "commit" /\ sweep'.pending.raised = sweep.pending.raised
          /\ sweep'.pending.resolved = sweep.pending.resolved
      BY <2>0, <2>7, <3>1 DEF SweepLinks, Sweeping, Writes
    <3>3. Running'
      BY <3>2 DEF Running
    <3>4. \A t \in Tanks : HasFewAlarms(t)'
      BY <3>1, <3>2, <3>3 DEF AlarmsAreFew, HasFewAlarms, DueAlarms, LiveAfter
    <3> QED
      BY <2>0, <3>1, <3>4 DEF AlarmsAreFew
  <2>8. CASE EndSweep
    <3>1. Running /\ Flush(sweep.pending) /\ sweep' = Swept
          /\ UNCHANGED <<openKeys, touched, lost, sweepUpsets>>
      BY <2>8 DEF EndSweep, Running
    <3> QED
      BY <3>1, FlushedAlarmsAreFew
  <2>9. CASE SweepFails
    <3>1. /\ Running /\ sweep' = Idle /\ sweepUpsets < MaxSweepUpsets
          /\ sweepUpsets' = sweepUpsets + 1 /\ UNCHANGED <<openKeys, live, touched>>
          /\ lost' \subseteq Tanks
      BY <2>0, <2>9 DEF SweepFails, SweepUpset, Writes
    <3>2. ~Running'
      BY <3>1 DEF Idle, Running
    <3>3. ASSUME NEW t \in Tanks PROVE HasFewAlarms(t)'
      <4>1. HasFewAlarms(t) /\ live[t] \in Nat
        BY <2>0 DEF AlarmsAreFew, SweepTypes
      <4>2. live[t] <= sweepUpsets + 1
        BY <2>0, <3>1, <4>1 DEF HasFewAlarms, DueAlarms, LiveAfter
      <4>3. t \in openKeys => live[t] <= sweepUpsets + 1
        BY <4>2
      <4> QED
        BY <2>0, <3>1, <3>2, <4>1, <4>2 DEF HasFewAlarms, DueAlarms
    <3> QED
      BY <2>0, <3>1, <3>3 DEF AlarmsAreFew
  <2>10. CASE UNCHANGED sweepVars
    BY <2>0, <2>10, SameAlarms DEF sweepVars
  <2> QED
    BY <2>1, <2>2, <2>3, <2>4, <2>5, <2>6, <2>7, <2>8, <2>9, <2>10 DEF StaleSweepNext
<1>3. SweepInv /\ AlarmsAreFew => StaleSweepTypeOK
  <2> SUFFICES ASSUME SweepInv, AlarmsAreFew PROVE StaleSweepTypeOK
    OBVIOUS
  <2>1. SweepTypes /\ sweepUpsets \in 0 .. MaxSweepUpsets /\ MaxSweepUpsets \in Nat
    BY StaleSweepAssumption DEF SweepInv, AlarmsAreFew
  <2>2. ASSUME NEW t \in Tanks PROVE live[t] \in 0 .. MaxSweepUpsets + 1
    <3>1. live[t] \in Nat /\ HasFewAlarms(t)
      BY <2>1 DEF SweepTypes, AlarmsAreFew
    <3>2. live[t] <= sweepUpsets + 1
      BY <2>1, <3>1 DEF HasFewAlarms, DueAlarms, LiveAfter
    <3> QED
      BY <2>1, <3>1, <3>2
  <2>3. live \in [Tanks -> 0 .. MaxSweepUpsets + 1]
    BY <2>1, <2>2 DEF SweepTypes
  <2> QED
    BY <2>1, <2>3 DEF SweepTypes, AlarmsAreFew, StaleSweepTypeOK, Sweeping
<1> QED
  BY <1>1, <1>2, <1>3, SweepInvHolds, PTL DEF StaleSweepSpec

-----------------------------------------------------------------------------
(* TankHistory: days and hours *)

\* An hour lies between the midnights of its day.
LEMMA DayBounds ==
  ASSUME NEW t \in Nat
  PROVE  /\ Day(t) \in Nat
         /\ Day(t) * HoursPerDay <= t /\ t < Day(t) * HoursPerDay + HoursPerDay
  <1>1. HoursPerDay \in Nat \ {0}
    BY TankHistoryAssumption
  <1> QED
    BY <1>1 DEF Day

\* The hours before a midnight are on earlier days.
LEMMA DayBefore ==
  ASSUME NEW t \in Nat, NEW d \in Nat, t < d * HoursPerDay
  PROVE  Day(t) < d
  <1>1. HoursPerDay \in Nat \ {0} /\ Day(t) \in Nat /\ Day(t) * HoursPerDay <= t
    BY DayBounds, TankHistoryAssumption
  <1>2. ASSUME Day(t) >= d PROVE FALSE
    <2>1. PICK k \in Nat : Day(t) = d + k
      <3>1. Day(t) - d \in Nat /\ Day(t) = d + (Day(t) - d)
        BY <1>1, <1>2
      <3> QED
        BY <3>1
    <2>2. /\ Day(t) * HoursPerDay = d * HoursPerDay + k * HoursPerDay
          /\ k * HoursPerDay \in Nat /\ d * HoursPerDay \in Nat
      BY <1>1, <2>1
    <2> QED
      BY <1>1, <2>2
  <1> QED
    BY <1>1, <1>2

\* A later hour is on the same day or on a later one.
LEMMA DayMonotone ==
  ASSUME NEW t \in Nat, NEW s \in Nat, t <= s
  PROVE  Day(t) <= Day(s)
  <1> DEFINE q == Day(s)
  <1>1. HoursPerDay \in Nat \ {0} /\ q \in Nat /\ s < q * HoursPerDay + HoursPerDay
    BY DayBounds, TankHistoryAssumption
  <1> HIDE DEF q
  <1>2. /\ (q + 1) * HoursPerDay = q * HoursPerDay + HoursPerDay
        /\ (q + 1) * HoursPerDay \in Nat /\ q + 1 \in Nat
    BY <1>1
  <1>3. Day(t) < q + 1
    BY <1>1, <1>2, DayBefore
  <1>4. Day(t) \in Nat
    BY DayBounds
  <1> QED
    BY <1>1, <1>3, <1>4 DEF q

\* Hours and days count from zero, and every hour has its day.
LEMMA HoursAreNat ==
  /\ LastHour \in Nat /\ Hours \subseteq Nat /\ Day(LastHour) \in Nat
  /\ \A t \in Hours : Day(t) \in DaysSeen
  /\ \A d \in DaysSeen : d \in Nat
  <1>1. LastHour \in Nat /\ Hours \subseteq Nat /\ Day(LastHour) \in Nat
    BY TankHistoryAssumption, DayBounds DEF Hours
  <1>2. ASSUME NEW t \in Hours PROVE Day(t) \in DaysSeen
    BY <1>1, DayBounds, DayMonotone DEF Hours, DaysSeen
  <1> QED
    BY <1>1, <1>2 DEF DaysSeen

\* What holds before the first hour, and at an hour if it does at the one before, holds
\* at every hour.
LEMMA HourInduction ==
  ASSUME NEW N \in Nat, NEW Good, -1 \in Good,
         \A t \in 0..N : t - 1 \in Good => t \in Good
  PROVE  \A t \in -1..N : t \in Good
  <1> DEFINE Bad == {n \in 0..(N + 1) : n - 1 \notin Good}
  <1>1. ASSUME Bad # {} PROVE FALSE
    <2>1. Bad \subseteq Nat
      OBVIOUS
    <2>2. PICK m \in Bad : \A x \in Bad : ~(<<x, m>> \in OpToRel(<, Nat))
      <3> HIDE DEF Bad
      <3> QED
        BY <1>1, <2>1, NatLessThanWellFounded, WFMin
    <2>3. \A x \in Bad : ~(x < m)
      BY <2>1, <2>2 DEF OpToRel
    <2>4. m \in 0..(N + 1) /\ m - 1 \notin Good
      BY <2>2
    <2>5. m # 0
      BY <2>4
    <2>6. m - 1 \in 0..(N + 1) /\ ~(m - 1 \in Bad)
      BY <2>3, <2>4, <2>5
    <2>7. (m - 1) - 1 \in Good
      BY <2>6
    <2>8. m - 1 \in 0..N
      BY <2>4, <2>5
    <2> QED
      BY <2>4, <2>7, <2>8
  <1>2. ASSUME NEW t \in -1..N PROVE t \in Good
    <2>1. t + 1 \in 0..(N + 1) /\ (t + 1) - 1 = t
      OBVIOUS
    <2>2. t + 1 \notin Bad
      BY <1>1
    <2> QED
      BY <2>1, <2>2
  <1> QED
    BY <1>2

-----------------------------------------------------------------------------
(* TankHistory: the pass of daily_consumption_series and the sum of a day *)

\* The pass before the first sample of its window.
NoneYet == [prev |-> NoSample, daily |-> [d \in DaysSeen |-> 0]]

\* f is the pass of daily_consumption_series, up to hour N.
IsPass(f, N, start) ==
  f = [t \in -1..N |->
         IF t < start THEN NoneYet
         ELSE IF volume[t] = NoSample THEN f[t - 1] ELSE Accumulated(f[t - 1], t)]
\* f adds up what was drawn on day d, up to hour N.
IsDaySum(f, N, d) ==
  f = [t \in -1..N |->
         IF t = -1 THEN 0
         ELSE IF t \in Sampled /\ Day(t) = d THEN f[t - 1] + Drawn(t) ELSE f[t - 1]]

\* Both recursions have a solution, hour by hour.
LEMMA PassExists ==
  ASSUME NEW N \in Nat, NEW start \in Nat
  PROVE  \E f : IsPass(f, N, start)
  <1> DEFINE Good == {n \in -1..N : \E f : IsPass(f, n, start)}
  <1>1. -1 \in Good
    <2>1. IsPass([t \in -1..-1 |-> NoneYet], -1, start)
      BY DEF IsPass
    <2> QED
      BY <2>1
  <1>2. ASSUME NEW n \in 0..N, n - 1 \in Good PROVE n \in Good
    <2>1. PICK g : IsPass(g, n - 1, start)
      BY <1>2
    <2> DEFINE at == IF n < start THEN NoneYet
                     ELSE IF volume[n] = NoSample THEN g[n - 1] ELSE Accumulated(g[n - 1], n)
               f == [t \in -1..n |-> IF t < n THEN g[t] ELSE at]
    <2>2. IsPass(f, n, start)
      <3> DEFINE h == [t \in -1..n |->
                         IF t < start THEN NoneYet
                         ELSE IF volume[t] = NoSample THEN f[t - 1] ELSE Accumulated(f[t - 1], t)]
      <3>1. ASSUME NEW t \in -1..n PROVE f[t] = h[t]
        <4>1. CASE t < start
          BY <2>1, <4>1 DEF IsPass
        <4>2. CASE ~(t < start) /\ t < n
          <5>1. t \in -1..(n - 1) /\ t - 1 \in -1..n /\ t - 1 < n
            BY <4>2
          <5>2. f[t] = g[t] /\ f[t - 1] = g[t - 1]
            BY <4>2, <5>1
          <5>3. g[t] = IF volume[t] = NoSample THEN g[t - 1] ELSE Accumulated(g[t - 1], t)
            BY <2>1, <4>2, <5>1 DEF IsPass
          <5> QED
            BY <4>2, <5>2, <5>3
        <4>3. CASE ~(t < start) /\ t = n
          <5>1. t - 1 \in -1..n /\ f[t - 1] = g[t - 1] /\ f[t] = at
            BY <4>3
          <5> QED
            BY <4>3, <5>1
        <4> QED
          BY <4>1, <4>2, <4>3
      <3>2. f = h
        BY <3>1
      <3> QED
        BY <3>2 DEF IsPass
    <2> QED
      BY <2>2
  <1> HIDE DEF Good
  <1>3. N \in Good
    BY <1>1, <1>2, HourInduction
  <1> QED
    BY <1>3 DEF Good

\* So has the sum of a day.
LEMMA DaySumExists ==
  ASSUME NEW N \in Nat, NEW d
  PROVE  \E f : IsDaySum(f, N, d)
  <1> DEFINE Good == {n \in -1..N : \E f : IsDaySum(f, n, d)}
  <1>1. -1 \in Good
    <2>1. IsDaySum([t \in -1..-1 |-> 0], -1, d)
      BY DEF IsDaySum
    <2> QED
      BY <2>1
  <1>2. ASSUME NEW n \in 0..N, n - 1 \in Good PROVE n \in Good
    <2>1. PICK g : IsDaySum(g, n - 1, d)
      BY <1>2
    <2> DEFINE f == [t \in -1..n |->
                       IF t < n THEN g[t]
                       ELSE IF n \in Sampled /\ Day(n) = d THEN g[n - 1] + Drawn(n) ELSE g[n - 1]]
    <2>2. IsDaySum(f, n, d)
      BY <2>1 DEF IsDaySum
    <2> QED
      BY <2>2
  <1> HIDE DEF Good
  <1>3. N \in Good
    BY <1>1, <1>2, HourInduction
  <1> QED
    BY <1>3 DEF Good

\* The series is the last entry of such a pass, and the litres of a day of such a sum.
LEMMA SeriesIsPass ==
  ASSUME NEW start \in Nat
  PROVE  \E f : IsPass(f, LastHour, start) /\ daily_consumption_series(start) = f[LastHour].daily
  <1> DEFINE f == CHOOSE f : f = [t \in -1..LastHour |->
                    IF t < start THEN NoneYet
                    ELSE IF volume[t] = NoSample THEN f[t - 1] ELSE Accumulated(f[t - 1], t)]
  <1>1. IsPass(f, LastHour, start)
    BY PassExists, HoursAreNat DEF IsPass
  <1>2. daily_consumption_series(start) = f[LastHour].daily
    BY DEF daily_consumption_series, NoneYet
  <1> QED
    BY <1>1, <1>2

\* The litres of a day are the last entry of such a sum.
LEMMA DrawnOnIsSum ==
  ASSUME NEW d
  PROVE  \E f : IsDaySum(f, LastHour, d) /\ DrawnOn(d) = f[LastHour]
  <1> DEFINE f == CHOOSE f : f = [t \in -1..LastHour |->
                    IF t = -1 THEN 0
                    ELSE IF t \in Sampled /\ Day(t) = d THEN f[t - 1] + Drawn(t) ELSE f[t - 1]]
  <1>1. IsDaySum(f, LastHour, d)
    BY DaySumExists, HoursAreNat DEF IsDaySum
  <1>2. DrawnOn(d) = f[LastHour]
    BY DEF DrawnOn
  <1> QED
    BY <1>1, <1>2

\* The next sample of an hour decides what was drawn after it.
LEMMA DrawnUntil ==
  ASSUME NEW p \in Sampled, NEW t \in Sampled, p < t, \A s \in Sampled : s > p => t <= s
  PROVE  Drawn(p) = IF volume[p] - volume[t] <= 0 THEN 0 ELSE volume[p] - volume[t]
  <1> DEFINE later == {s \in Sampled : s > p}
  <1>1. Sampled \subseteq Nat
    BY HoursAreNat DEF Sampled
  <1>2. t \in later /\ \A s \in later : t <= s
    BY <1>1
  <1>3. Min(later) = t
    <2>1. \A x \in later : (\A y \in later : x <= y) => x = t
      BY <1>1, <1>2
    <2> HIDE DEF later
    <2> QED
      BY <1>2, <2>1 DEF Min
  <1> QED
    BY <1>2, <1>3 DEF Drawn

\* After the last sample nothing is known to be drawn.
LEMMA NoneDrawnAfterLast ==
  ASSUME NEW p, \A s \in Sampled : ~(s > p)
  PROVE  Drawn(p) = 0
  BY DEF Drawn

\* What a pass has counted at an hour: of day d all that was drawn so far, except for the
\* drop that its last sample may still begin.
Caught(acc, q, t, d) ==
  /\ acc \in [prev : Hours \cup {NoSample}, daily : [DaysSeen -> Nat]]
  /\ acc.prev = NoSample => q = 0 /\ acc.daily[d] = 0
  /\ acc.prev # NoSample =>
       /\ acc.prev \in Sampled /\ acc.prev <= t
       /\ \A s \in Sampled : s > acc.prev => s > t
       /\ q = IF Day(acc.prev) = d THEN acc.daily[d] + Drawn(acc.prev) ELSE acc.daily[d]

\* All that the series needs to know of the samples.
VolumesTyped == volume \in [Hours -> Volumes \cup {NoSample}]

\* One sample keeps the pass in line with the sum.
LEMMA AccumulatedCatches ==
  ASSUME VolumesTyped, NEW t \in Sampled, NEW d \in DaysSeen, NEW acc, NEW q,
         Caught(acc, q, t - 1, d)
  PROVE  Caught(Accumulated(acc, t), IF Day(t) = d THEN q + Drawn(t) ELSE q, t, d)
  <1> DEFINE new == Accumulated(acc, t)
             drop == volume[acc.prev] - volume[t]
  <1>0. /\ Sampled \subseteq Hours /\ Sampled \subseteq Nat /\ Hours \subseteq Nat
        /\ \A s \in Sampled : volume[s] \in Nat
        /\ \A s \in Sampled : Day(s) \in DaysSeen
        /\ NoSample \notin Hours
    <2>1. Sampled \subseteq Hours /\ Hours \subseteq Nat /\ NoSample \notin Nat
      BY HoursAreNat DEF Sampled, NoSample
    <2>2. \A s \in Sampled : volume[s] \in Nat
      BY TankHistoryAssumption DEF Sampled, VolumesTyped
    <2> QED
      BY <2>1, <2>2, HoursAreNat
  <1>1. acc \in [prev : Hours \cup {NoSample}, daily : [DaysSeen -> Nat]]
    BY DEF Caught
  <1>2. \A s \in Sampled : s > t => ~(s <= t)
    BY <1>0
  <1>3. ASSUME new.prev = t, new \in [prev : Hours \cup {NoSample}, daily : [DaysSeen -> Nat]],
               new.daily[d] = q
        PROVE  Caught(new, IF Day(t) = d THEN q + Drawn(t) ELSE q, t, d)
    <2> HIDE DEF new
    <2> QED
      BY <1>0, <1>3 DEF Caught
  <1>4. CASE acc.prev = NoSample
    <2>1. new = [acc EXCEPT !.prev = t]
      BY <1>4 DEF Accumulated
    <2>2. new.prev = t /\ new.daily = acc.daily
      BY <1>1, <2>1
    <2>3. new \in [prev : Hours \cup {NoSample}, daily : [DaysSeen -> Nat]]
      BY <1>0, <1>1, <2>1
    <2>4. acc.daily[d] = q
      BY <1>4 DEF Caught
    <2> QED
      BY <1>3, <2>2, <2>3, <2>4
  <1>5. CASE acc.prev # NoSample
    <2>1. /\ acc.prev \in Sampled /\ acc.prev < t
          /\ \A s \in Sampled : s > acc.prev => t <= s
          /\ q = IF Day(acc.prev) = d THEN acc.daily[d] + Drawn(acc.prev) ELSE acc.daily[d]
      <3>1. /\ acc.prev \in Sampled /\ acc.prev <= t - 1
            /\ \A s \in Sampled : s > acc.prev => s > t - 1
            /\ q = IF Day(acc.prev) = d THEN acc.daily[d] + Drawn(acc.prev) ELSE acc.daily[d]
        BY <1>5 DEF Caught
      <3>2. acc.prev \in Nat /\ t \in Nat /\ \A s \in Sampled : s \in Nat /\ (s > t - 1 => t <= s)
        <4>1. acc.prev \in Nat /\ t \in Nat
          BY <1>0, <3>1
        <4>2. ASSUME NEW s \in Sampled PROVE s \in Nat /\ (s > t - 1 => t <= s)
          <5>1. s \in Nat
            BY <1>0
          <5> QED
            BY <4>1, <5>1
        <4> QED
          BY <4>1, <4>2
      <3> QED
        BY <3>1, <3>2
    <2>2. Drawn(acc.prev) = IF drop <= 0 THEN 0 ELSE drop
      BY <2>1, DrawnUntil
    <2>3. acc.daily[d] \in Nat /\ drop \in Int
      <3>1. volume[acc.prev] \in Nat /\ volume[t] \in Nat
        BY <1>0, <2>1
      <3>2. acc.daily \in [DaysSeen -> Nat]
        BY <1>1
      <3> QED
        BY <3>1, <3>2
    <2>4. CASE drop <= 0
      <3>1. new = [acc EXCEPT !.prev = t]
        BY <2>4 DEF Accumulated
      <3>2. new.prev = t /\ new.daily = acc.daily
        BY <1>1, <3>1
      <3>3. new \in [prev : Hours \cup {NoSample}, daily : [DaysSeen -> Nat]]
        BY <1>0, <1>1, <3>1
      <3>4. acc.daily[d] = q
        BY <2>1, <2>2, <2>3, <2>4
      <3> QED
        BY <1>3, <3>2, <3>3, <3>4
    <2>5. CASE ~(drop <= 0)
      <3> DEFINE daily == [acc.daily EXCEPT ![Day(acc.prev)] = @ + drop]
      <3>1. new = [prev |-> t, daily |-> daily]
        BY <1>5, <2>5 DEF Accumulated, DayOfDrop
      <3>2. acc.daily \in [DaysSeen -> Nat] /\ Day(acc.prev) \in DaysSeen
        BY <1>0, <1>1, <2>1
      <3>3. acc.daily[Day(acc.prev)] + drop \in Nat
        <4>1. acc.daily[Day(acc.prev)] \in Nat
          BY <3>2
        <4> QED
          BY <2>3, <2>5, <4>1
      <3>4. daily \in [DaysSeen -> Nat]
        BY <3>2, <3>3
      <3>5. daily[d] = IF Day(acc.prev) = d THEN acc.daily[d] + drop ELSE acc.daily[d]
        BY <3>2
      <3> HIDE DEF daily
      <3>6. daily[d] = q
        BY <2>1, <2>2, <2>5, <3>5
      <3>7. new \in [prev : Hours \cup {NoSample}, daily : [DaysSeen -> Nat]]
        BY <1>0, <3>1, <3>4
      <3>8. new.prev = t /\ new.daily[d] = q
        BY <3>1, <3>6
      <3> QED
        BY <1>3, <3>7, <3>8
    <2> QED
      BY <2>4, <2>5
  <1> QED
    BY <1>4, <1>5

\* A series computed from midnight on has, for each of its days, what was drawn after the
\* samples of that day.
LEMMA SeriesIsDrawn ==
  ASSUME VolumesTyped, NEW first \in Nat, NEW d \in DaysSeen, d >= first
  PROVE  /\ daily_consumption_series(first * HoursPerDay) \in [DaysSeen -> Nat]
         /\ daily_consumption_series(first * HoursPerDay)[d] = DrawnOn(d)
  <1> DEFINE start == first * HoursPerDay
  <1>0. /\ start \in Nat /\ LastHour \in Nat /\ d \in Nat
        /\ Sampled \subseteq Hours /\ Hours \subseteq Nat /\ Hours = 0..LastHour
        /\ NoSample = -1
    BY HoursAreNat, TankHistoryAssumption DEF Sampled, Hours, NoSample
  <1>1. PICK f : IsPass(f, LastHour, start) /\ daily_consumption_series(start) = f[LastHour].daily
    BY <1>0, SeriesIsPass
  <1>2. PICK g : IsDaySum(g, LastHour, d) /\ DrawnOn(d) = g[LastHour]
    BY DrawnOnIsSum
  <1> DEFINE Good == {t \in -1..LastHour : Caught(f[t], g[t], t, d)}
  <1>3. Caught(NoneYet, 0, -1, d) /\ \A t \in Nat : Caught(NoneYet, 0, t, d)
    BY DEF Caught, NoneYet
  <1>4. -1 \in Good
    <2>1. -1 \in -1..LastHour /\ -1 < start
      BY <1>0
    <2>2. f[-1] = NoneYet
      BY <1>1, <2>1 DEF IsPass
    <2>3. g[-1] = 0
      BY <1>2, <2>1 DEF IsDaySum
    <2> QED
      BY <1>3, <2>1, <2>2, <2>3
  <1>5. ASSUME NEW t \in 0..LastHour, t - 1 \in Good PROVE t \in Good
    <2>1. t \in -1..LastHour /\ t \in Nat /\ t \in Hours /\ Caught(f[t - 1], g[t - 1], t - 1, d)
      BY <1>0, <1>5
    <2>2. g[t] = IF t \in Sampled /\ Day(t) = d THEN g[t - 1] + Drawn(t) ELSE g[t - 1]
      <3>1. t # -1
        BY <1>5
      <3> QED
        BY <1>2, <2>1, <3>1 DEF IsDaySum
    <2>3. f[t] = IF t < start THEN NoneYet
                 ELSE IF volume[t] = NoSample THEN f[t - 1] ELSE Accumulated(f[t - 1], t)
      BY <1>1, <2>1 DEF IsPass
    <2>4. CASE t < start
      <3>1. Day(t) < first /\ Day(t) \in Nat
        BY <2>1, <2>4, DayBefore, DayBounds
      <3>2. g[t] = g[t - 1]
        BY <1>0, <2>2, <3>1
      <3>3. f[t - 1] = NoneYet
        <4>1. t - 1 \in -1..LastHour /\ t - 1 < start
          BY <1>0, <2>1, <2>4
        <4> QED
          BY <1>1, <4>1 DEF IsPass
      <3>4. g[t - 1] = 0
        BY <2>1, <3>3 DEF Caught, NoneYet
      <3> QED
        BY <1>3, <2>1, <2>3, <2>4, <3>2, <3>4
    <2>5. CASE ~(t < start) /\ volume[t] = NoSample
      <3>1. t \notin Sampled /\ f[t] = f[t - 1] /\ g[t] = g[t - 1]
        BY <2>2, <2>3, <2>5 DEF Sampled
      <3>2. \A s \in Sampled : s > t - 1 => s > t
        BY <1>0, <2>1, <3>1
      <3>3. Caught(f[t - 1], g[t - 1], t, d)
        <4> DEFINE acc == f[t - 1]
        <4>1. acc.prev # NoSample => /\ acc.prev \in Sampled /\ acc.prev <= t - 1
                                     /\ \A s \in Sampled : s > acc.prev => s > t - 1
          BY <2>1 DEF Caught
        <4>2. acc.prev # NoSample => acc.prev <= t /\ \A s \in Sampled : s > acc.prev => s > t
          <5>1. acc.prev # NoSample => acc.prev \in Nat /\ acc.prev <= t
            <6> SUFFICES ASSUME acc.prev # NoSample PROVE acc.prev \in Nat /\ acc.prev <= t
              OBVIOUS
            <6>1. acc.prev \in Nat /\ acc.prev <= t - 1 /\ t \in Nat
              BY <1>0, <2>1, <4>1
            <6> HIDE DEF acc
            <6> QED
              BY <6>1
          <5> QED
            BY <3>2, <4>1, <5>1
        <4> QED
          BY <2>1, <4>1, <4>2 DEF Caught
      <3> QED
        BY <2>1, <3>1, <3>3
    <2>6. CASE ~(t < start) /\ volume[t] # NoSample
      <3>1. t \in Sampled /\ f[t] = Accumulated(f[t - 1], t)
        BY <2>1, <2>3, <2>6 DEF Sampled
      <3>2. g[t] = IF Day(t) = d THEN g[t - 1] + Drawn(t) ELSE g[t - 1]
        BY <2>2, <3>1
      <3>3. Caught(Accumulated(f[t - 1], t), g[t], t, d)
        BY <2>1, <3>1, <3>2, AccumulatedCatches
      <3> QED
        BY <2>1, <3>1, <3>3
    <2> QED
      BY <2>4, <2>5, <2>6
  <1>6. Caught(f[LastHour], g[LastHour], LastHour, d)
    <2> HIDE DEF Good
    <2>1. \A t \in -1..LastHour : t \in Good
      BY <1>0, <1>4, <1>5, HourInduction
    <2>2. LastHour \in Good
      <3>1. LastHour \in -1..LastHour
        BY <1>0
      <3> QED
        BY <2>1, <3>1
    <2> QED
      BY <2>2 DEF Good
  <1>7. f[LastHour].daily \in [DaysSeen -> Nat]
    BY <1>6 DEF Caught
  <1>8. f[LastHour].daily[d] = g[LastHour]
    <2> DEFINE p == f[LastHour].prev
    <2>1. CASE p = NoSample
      BY <1>6, <2>1 DEF Caught
    <2>2. CASE p # NoSample
      <3>1. \A s \in Sampled : ~(s > p)
        BY <1>0, <1>6, <2>2 DEF Caught
      <3>2. Drawn(p) = 0
        BY <3>1, NoneDrawnAfterLast
      <3>3. f[LastHour].daily[d] \in Nat
        BY <1>7
      <3> QED
        BY <1>6, <2>2, <3>2, <3>3 DEF Caught
    <2> QED
      BY <2>1, <2>2
  <1> QED
    BY <1>1, <1>2, <1>7, <1>8

-----------------------------------------------------------------------------
(* TankHistory: types *)

\* The two kinds of job, with their fields.
ExportTask(k) ==
  /\ k \in [at : {"export", "exported"}, from : Hours, to : Hours, cursor : Hours, out : Seq(Hours)]
  /\ k.at \in {"export", "exported"} /\ k.from \in Hours /\ k.to \in Hours
  /\ k.cursor \in Hours /\ k.out \in Seq(Hours)
ConsumptionTask(k) ==
  /\ k \in [at : {"computed", "stored"}, day : DaysSeen, series : [DaysSeen -> Nat]]
  /\ k.at \in {"computed", "stored"} /\ k.day \in DaysSeen /\ k.series \in [DaysSeen -> Nat]

\* The job under way is told by where it is.
LEMMA TaskKinds ==
  ASSUME TankHistoryTypeOK
  PROVE  /\ task = Rest \/ ExportTask(task) \/ ConsumptionTask(task)
         /\ task.at \in {"export", "exported"} => ExportTask(task)
         /\ task.at \in {"computed", "stored"} => ConsumptionTask(task)
         /\ task.at = "rest" => task = Rest
  BY DEF TankHistoryTypeOK, ExportTask, ConsumptionTask, Rest

\* Only an hour that is new, or replayed, becomes sampled, and it then has arrived.
LEMMA SamplesArrive ==
  ASSUME TankHistoryTypeOK, Advance \/ \E t \in Hours, v \in Volumes : Replay(t, v)
  PROVE  /\ volume' \in [Hours -> Volumes \cup {NoSample}]
         /\ \A t \in Sampled' : t <= now'
         /\ now' \in Hours /\ now <= now' /\ arrived' \subseteq Hours
         /\ Sampled' \ arrived' \subseteq Sampled \ arrived
         /\ arrived' = {} => arrived = {} /\ volume' = volume
         /\ UNCHANGED <<task, summary>>
  <1>0. /\ now \in Hours /\ volume \in [Hours -> Volumes \cup {NoSample}]
        /\ \A t \in Sampled : t <= now
        /\ arrived \subseteq Hours /\ Hours \subseteq Nat /\ Hours = 0..LastHour
        /\ LastHour \in Nat
    BY HoursAreNat DEF TankHistoryTypeOK, Hours
  <1>1. ASSUME Advance
        PROVE  /\ volume' \in [Hours -> Volumes \cup {NoSample}]
               /\ \A t \in Sampled' : t <= now'
               /\ now' \in Hours /\ now <= now' /\ arrived' \subseteq Hours
               /\ Sampled' \ arrived' \subseteq Sampled \ arrived
               /\ arrived' = {} => arrived = {} /\ volume' = volume
               /\ UNCHANGED <<task, summary>>
    <2>1. PICK v \in Volumes \cup {NoSample} :
                 /\ volume' = [volume EXCEPT ![now + 1] = v]
                 /\ arrived' = arrived \cup {t \in {now + 1} : v # NoSample}
      BY <1>1 DEF Advance
    <2>2. now' = now + 1 /\ now' \in Hours /\ now <= now' /\ UNCHANGED <<task, summary>>
      BY <1>0, <1>1 DEF Advance
    <2>3. volume' \in [Hours -> Volumes \cup {NoSample}]
      BY <1>0, <2>1
    <2>4. \A t \in Hours : volume'[t] = IF t = now + 1 THEN v ELSE volume[t]
      BY <1>0, <2>1
    <2>5. \A t \in Sampled' : t <= now'
      BY <1>0, <2>2, <2>4 DEF Sampled
    <2>6. Sampled' \ arrived' \subseteq Sampled \ arrived
      BY <2>1, <2>4 DEF Sampled
    <2>7. ASSUME arrived' = {} PROVE arrived = {} /\ volume' = volume
      <3>1. v = NoSample /\ arrived = {}
        BY <2>1, <2>7
      <3>2. now + 1 \in Hours /\ ~(now + 1 <= now)
        BY <1>0, <2>2
      <3>3. volume[now + 1] = NoSample
        BY <1>0, <3>2 DEF Sampled
      <3>4. volume' = volume
        BY <1>0, <2>1, <3>1, <3>3
      <3> QED
        BY <3>1, <3>4
    <2>8. arrived' \subseteq Hours
      BY <1>0, <2>1, <2>2
    <2> QED
      BY <2>2, <2>3, <2>5, <2>6, <2>7, <2>8
  <1>2. ASSUME NEW s \in Hours, NEW v \in Volumes, Replay(s, v)
        PROVE  /\ volume' \in [Hours -> Volumes \cup {NoSample}]
               /\ \A t \in Sampled' : t <= now'
               /\ now' \in Hours /\ now <= now' /\ arrived' \subseteq Hours
               /\ Sampled' \ arrived' \subseteq Sampled \ arrived
               /\ arrived' = {} => arrived = {} /\ volume' = volume
               /\ UNCHANGED <<task, summary>>
    <2>1. /\ s < now /\ volume' = [volume EXCEPT ![s] = v] /\ arrived' = arrived \cup {s}
          /\ now' = now /\ UNCHANGED <<task, summary>>
      BY <1>2 DEF Replay
    <2>2. \A t \in Hours : volume'[t] = IF t = s THEN v ELSE volume[t]
      BY <1>0, <2>1
    <2>3. \A t \in Sampled' : t <= now'
      BY <1>0, <2>1, <2>2 DEF Sampled
    <2>4. Sampled' \ arrived' \subseteq Sampled \ arrived
      BY <2>1, <2>2 DEF Sampled
    <2>5. volume' \in [Hours -> Volumes \cup {NoSample}]
      BY <1>0, <2>1
    <2> QED
      BY <1>0, <2>1, <2>3, <2>4, <2>5
  <1> QED
    BY <1>1, <1>2

\* Where the volumes stay, so do the hours that have one.
LEMMA SampledUnchanged ==
  ASSUME volume' = volume PROVE Sampled' = Sampled
  BY DEF Sampled

\* The window of a task opens later, or not earlier, on a later day.
LEMMA FirstDayIsNat ==
  ASSUME NEW d \in Nat, NEW e \in Nat, d <= e
  PROVE  FirstDay(d) \in Nat /\ FirstDay(d) <= FirstDay(e)
  BY TankHistoryAssumption DEF FirstDay

\* The volumes of the stored readings, out of the types.
LEMMA VolumesAreTyped == TankHistoryTypeOK => VolumesTyped
  BY DEF TankHistoryTypeOK, VolumesTyped

\* What a page adds: hours behind the cursor, the last of which is the next cursor.
LEMMA PageHours ==
  ASSUME NEW page \in SeqOf(Hours, BatchSize), NEW rows, IsPage(page, rows), page # <<>>
  PROVE  /\ page \in Seq(Hours) /\ Len(page) \in DOMAIN page
         /\ CursorAfter(page) = page[Len(page)] /\ CursorAfter(page) \in Hours
         /\ Min({CursorAfter(page), LastHour}) = CursorAfter(page)
         /\ \A i \in DOMAIN page : page[i] <= page[Len(page)]
  <1>1. page \in Seq(Hours)
    BY DEF SeqOf
  <1>2. Len(page) \in DOMAIN page /\ page[Len(page)] \in Hours /\ DOMAIN page = 1..Len(page)
    BY <1>1
  <1>3. CursorAfter(page) = page[Len(page)]
    BY DEF CursorAfter, Last
  <1>4. CursorAfter(page) \in Nat /\ CursorAfter(page) <= LastHour /\ LastHour \in Nat
    BY <1>2, <1>3, HoursAreNat DEF Hours
  <1>5. Min({CursorAfter(page), LastHour}) = CursorAfter(page)
    <2> DEFINE c == CursorAfter(page)
    <2> HIDE DEF c
    <2> SUFFICES Min({c, LastHour}) = c
      BY DEF c
    <2>1. c \in Nat /\ c <= LastHour /\ LastHour \in Nat
      BY <1>4 DEF c
    <2>2. \A x \in {c, LastHour} : (\A y \in {c, LastHour} : x <= y) => x = c
      BY <2>1
    <2> QED
      BY <2>1, <2>2 DEF Min
  <1>6. \A i \in DOMAIN page : page[i] <= page[Len(page)]
    <2> SUFFICES ASSUME NEW i \in DOMAIN page PROVE page[i] <= page[Len(page)]
      OBVIOUS
    <2>1. page[i] \in Nat /\ i \in 1..Len(page)
      <3>1. i \in 1..Len(page) /\ page[i] \in Hours
        BY <1>1, <1>2
      <3> QED
        BY <3>1, HoursAreNat
    <2>2. i = Len(page) \/ i < Len(page)
      BY <1>1, <2>1
    <2>3. page[Len(page)] \in Nat
      BY <1>2, HoursAreNat
    <2> QED
      BY <1>2, <2>1, <2>2, <2>3 DEF IsPage
  <1> QED
    BY <1>1, <1>2, <1>3, <1>5, <1>6

\* Every step of the tank's history and of its jobs keeps the types.
LEMMA TankHistoryTypes == TankHistorySpec => []TankHistoryTypeOK
  <1>1. TankHistoryInit => TankHistoryTypeOK
    <2>1. 0 \in Hours /\ 0 \in 0..MaxLate
      BY HoursAreNat, TankHistoryAssumption DEF Hours
    <2> QED
      BY <2>1 DEF TankHistoryInit, TankHistoryTypeOK, Sampled
  <1>2. TankHistoryTypeOK /\ [TankHistoryNext]_historyVars => TankHistoryTypeOK'
    <2> SUFFICES ASSUME TankHistoryTypeOK, [TankHistoryNext]_historyVars PROVE TankHistoryTypeOK'
      OBVIOUS
    <2>0. /\ now \in Hours /\ volume \in [Hours -> Volumes \cup {NoSample}]
          /\ \A t \in Sampled : t <= now
          /\ summary \in [DaysSeen -> Nat] /\ arrived \subseteq Hours /\ late \in 0..MaxLate
          /\ MaxLate \in Nat
      BY TankHistoryAssumption DEF TankHistoryTypeOK
    <2>1. ASSUME Advance \/ \E t \in Hours, v \in Volumes : Replay(t, v) PROVE TankHistoryTypeOK'
      <3>1. late' \in 0..MaxLate
        BY <2>0, <2>1 DEF Advance, Replay
      <3> QED
        BY <2>1, <3>1, SamplesArrive DEF TankHistoryTypeOK
    <2>2. ASSUME UNCHANGED <<now, volume, late>>, task' = Rest \/ ExportTask(task') \/ ConsumptionTask(task'),
                 summary' \in [DaysSeen -> Nat], arrived' \subseteq Hours
          PROVE  TankHistoryTypeOK'
      <3>1. Sampled' = Sampled
        BY <2>2, SampledUnchanged
      <3> QED
        BY <2>0, <2>2, <3>1 DEF TankHistoryTypeOK, ExportTask, ConsumptionTask
    <2>3. ASSUME StartExport PROVE TankHistoryTypeOK'
      <3>1. PICK from \in Hours, to \in Hours :
              task' = [at |-> "export", from |-> from, to |-> to, cursor |-> from, out |-> <<>>]
        BY <2>3 DEF StartExport
      <3>2. ExportTask(task')
        BY <3>1 DEF ExportTask
      <3> QED
        BY <2>0, <2>2, <2>3, <3>2 DEF StartExport
    <2>4. ASSUME ExportPage PROVE TankHistoryTypeOK'
      <3>1. ExportTask(task)
        BY <2>4, TaskKinds DEF ExportPage
      <3>2. PICK page \in SeqOf(Hours, BatchSize) :
              /\ IsPage(page, {t \in Sampled : task.cursor < t /\ t <= task.to})
              /\ task' = IF page = <<>> \/ task.cursor > task.to THEN [task EXCEPT !.at = "exported"]
                         ELSE [task EXCEPT !.out = @ \o page,
                                           !.cursor = Min({CursorAfter(page), LastHour})]
        BY <2>4 DEF ExportPage
      <3>3. CASE page = <<>> \/ task.cursor > task.to
        <4>1. ExportTask([task EXCEPT !.at = "exported"])
          BY <3>1 DEF ExportTask
        <4> QED
          BY <2>0, <2>2, <2>4, <3>2, <3>3, <4>1 DEF ExportPage
      <3>4. CASE ~(page = <<>> \/ task.cursor > task.to)
        <4>1. Min({CursorAfter(page), LastHour}) \in Hours /\ page \in Seq(Hours)
          BY <3>2, <3>4, PageHours
        <4>2. task.out \o page \in Seq(Hours)
          BY <3>1, <4>1 DEF ExportTask
        <4>3. ExportTask([task EXCEPT !.out = @ \o page, !.cursor = Min({CursorAfter(page), LastHour})])
          BY <3>1, <4>1, <4>2 DEF ExportTask
        <4> QED
          BY <2>0, <2>2, <2>4, <3>2, <3>4, <4>3 DEF ExportPage
      <3> QED
        BY <3>3, <3>4
    <2>5. ASSUME ComputeConsumption PROVE TankHistoryTypeOK'
      <3>1. now \in Nat /\ Day(now) \in DaysSeen /\ Day(now) \in Nat
        BY <2>0, HoursAreNat
      <3>2. FirstDay(Day(now)) \in Nat /\ FirstDay(Day(now)) <= Day(now)
        BY <3>1, TankHistoryAssumption DEF FirstDay
      <3>3. daily_consumption_series(FirstDay(Day(now)) * HoursPerDay) \in [DaysSeen -> Nat]
        BY <3>1, <3>2, VolumesAreTyped, SeriesIsDrawn
      <3>4. ConsumptionTask(task')
        BY <2>5, <3>1, <3>3 DEF ComputeConsumption, ConsumptionTask
      <3> QED
        BY <2>0, <2>2, <2>5, <3>4 DEF ComputeConsumption
    <2>6. ASSUME StoreConsumption PROVE TankHistoryTypeOK'
      <3>1. ConsumptionTask(task) /\ Day(now) \in DaysSeen
        BY <2>0, <2>6, TaskKinds, HoursAreNat DEF StoreConsumption
      <3>2. task' = Rest \/ ConsumptionTask(task')
        BY <2>6, <3>1 DEF StoreConsumption, ConsumptionTask
      <3>3. summary' \in [DaysSeen -> Nat]
        <4>1. task.series \in [DaysSeen -> Nat]
          BY <3>1 DEF ConsumptionTask
        <4> QED
          BY <2>0, <2>6, <4>1 DEF StoreConsumption
      <3> QED
        BY <2>0, <2>2, <2>6, <3>2, <3>3 DEF StoreConsumption
    <2>7. ASSUME EndJob \/ UNCHANGED historyVars PROVE TankHistoryTypeOK'
      <3>1. task' = Rest \/ ExportTask(task') \/ ConsumptionTask(task')
        BY <2>7, TaskKinds DEF EndJob, historyVars
      <3> QED
        BY <2>0, <2>2, <2>7, <3>1 DEF EndJob, historyVars
    <2> QED
      BY <2>1, <2>3, <2>4, <2>5, <2>6, <2>7 DEF TankHistoryNext
  <1> QED
    BY <1>1, <1>2, PTL DEF TankHistorySpec

-----------------------------------------------------------------------------
(* TankHistory: the export *)

\* Behind the cursor, and everywhere once the export has ended, nothing that was there
\* when it began is missing.
CopiedTo(t) == task.at = "exported" \/ t <= task.cursor

\* What an export has sent is in order, within its interval, and complete behind its cursor.
ExportInv ==
  task.at \in {"export", "exported"} =>
    /\ task.from <= task.cursor
    /\ \A i, j \in DOMAIN task.out : i < j => task.out[i] < task.out[j]
    /\ \A i \in DOMAIN task.out :
         task.from < task.out[i] /\ task.out[i] <= task.to /\ task.out[i] <= task.cursor
    /\ \A t \in Sampled \ arrived :
         task.from < t /\ t <= task.to /\ CopiedTo(t) => t \in Range(task.out)

\* The hours of two sequences put together, in order if the second follows the first.
LEMMA RangeOfBoth ==
  ASSUME NEW o \in Seq(Hours), NEW p \in Seq(Hours)
  PROVE  Range(o \o p) = Range(o) \cup Range(p)
  <1>1. /\ DOMAIN o = 1..Len(o) /\ DOMAIN p = 1..Len(p)
        /\ Len(o) \in Nat /\ Len(p) \in Nat
        /\ DOMAIN (o \o p) = 1..(Len(o) + Len(p))
    OBVIOUS
  <1>2. \A i \in 1..Len(o) : (o \o p)[i] = o[i] /\ i \in 1..(Len(o) + Len(p))
    BY <1>1
  <1>3. \A i \in 1..Len(p) : (o \o p)[Len(o) + i] = p[i] /\ Len(o) + i \in 1..(Len(o) + Len(p))
    BY <1>1
  <1>4. ASSUME NEW i \in 1..(Len(o) + Len(p)) PROVE i \in 1..Len(o) \/ i - Len(o) \in 1..Len(p)
    BY <1>1
  <1>5. \A i \in 1..(Len(o) + Len(p)) : (o \o p)[i] \in Range(o) \cup Range(p)
    <2> SUFFICES ASSUME NEW i \in 1..(Len(o) + Len(p)) PROVE (o \o p)[i] \in Range(o) \cup Range(p)
      OBVIOUS
    <2>1. CASE i \in 1..Len(o)
      BY <1>1, <1>2, <2>1 DEF Range
    <2>2. CASE i - Len(o) \in 1..Len(p)
      <3>1. (o \o p)[i] = p[i - Len(o)]
        BY <1>1, <1>3, <2>2
      <3> QED
        BY <1>1, <2>2, <3>1 DEF Range
    <2> QED
      BY <1>4, <2>1, <2>2
  <1>6. \A v \in Range(o) : v \in Range(o \o p)
    BY <1>1, <1>2 DEF Range
  <1>7. \A v \in Range(p) : v \in Range(o \o p)
    BY <1>1, <1>3 DEF Range
  <1>8. \A v \in Range(o \o p) : v \in Range(o) \cup Range(p)
    BY <1>1, <1>5 DEF Range
  <1> QED
    BY <1>6, <1>7, <1>8

\* Two ordered sequences, one after the other, are in order if their hours are.
LEMMA BothInOrder ==
  ASSUME NEW o \in Seq(Hours), NEW p \in Seq(Hours),
         \A i, j \in DOMAIN o : i < j => o[i] < o[j],
         \A i, j \in DOMAIN p : i < j => p[i] < p[j],
         \A i \in DOMAIN o, j \in DOMAIN p : o[i] < p[j]
  PROVE  \A i, j \in DOMAIN (o \o p) : i < j => (o \o p)[i] < (o \o p)[j]
  <1>1. /\ DOMAIN o = 1..Len(o) /\ DOMAIN p = 1..Len(p)
        /\ Len(o) \in Nat /\ Len(p) \in Nat
        /\ DOMAIN (o \o p) = 1..(Len(o) + Len(p))
    OBVIOUS
  <1>2. \A i \in 1..Len(o) : (o \o p)[i] = o[i]
    BY <1>1
  <1>3. \A i \in 1..(Len(o) + Len(p)) :
          ~(i \in 1..Len(o)) => i - Len(o) \in 1..Len(p) /\ (o \o p)[i] = p[i - Len(o)]
    BY <1>1
  <1> SUFFICES ASSUME NEW i \in 1..(Len(o) + Len(p)), NEW j \in 1..(Len(o) + Len(p)), i < j
               PROVE  (o \o p)[i] < (o \o p)[j]
    BY <1>1
  <1>4. CASE i \in 1..Len(o) /\ j \in 1..Len(o)
    BY <1>1, <1>2, <1>4
  <1>5. CASE i \in 1..Len(o) /\ ~(j \in 1..Len(o))
    <2>1. (o \o p)[i] = o[i] /\ (o \o p)[j] = p[j - Len(o)] /\ j - Len(o) \in DOMAIN p
      BY <1>1, <1>2, <1>3, <1>5
    <2> QED
      BY <1>1, <1>5, <2>1
  <1>6. CASE ~(i \in 1..Len(o))
    <2>1. ~(j \in 1..Len(o))
      BY <1>1, <1>6
    <2>2. /\ (o \o p)[i] = p[i - Len(o)] /\ (o \o p)[j] = p[j - Len(o)]
          /\ i - Len(o) \in DOMAIN p /\ j - Len(o) \in DOMAIN p
      BY <1>1, <1>3, <1>6, <2>1
    <2>3. i - Len(o) < j - Len(o)
      BY <1>1
    <2> QED
      BY <2>2, <2>3
  <1> QED
    BY <1>4, <1>5, <1>6

\* A query always has its page, so the export never waits for one: the empty page for
\* no rows at all, and a page that is short of a row followed by the earliest one left.
PageOf(k, page, rows) ==
  /\ page \in Seq(Hours) /\ Len(page) <= k
  /\ Range(page) \subseteq rows
  /\ \A i, j \in DOMAIN page : i < j => page[i] < page[j]
  /\ Len(page) < k => Range(page) = rows
  /\ \A t \in rows \ Range(page), s \in Range(page) : s < t

\* A page may be made one row longer.
LEMMA LongerPage ==
  ASSUME NEW rows \in SUBSET Hours, NEW k \in Nat, NEW page, PageOf(k, page, rows)
  PROVE  \E more : PageOf(k + 1, more, rows)
  <1>1. /\ page \in Seq(Hours) /\ Len(page) \in Nat /\ DOMAIN page = 1..Len(page)
        /\ rows \subseteq Nat /\ Hours \subseteq Nat
    BY HoursAreNat DEF PageOf
  <1>2. CASE Range(page) = rows
    BY <1>1, <1>2 DEF PageOf
  <1>3. CASE Range(page) # rows
    <2> DEFINE left == rows \ Range(page)
    <2>1. Len(page) = k /\ left # {} /\ left \subseteq Nat
      <3>1. Len(page) <= k /\ ~(Len(page) < k)
        BY <1>3 DEF PageOf
      <3>2. left # {}
        BY <1>3 DEF PageOf
      <3>3. left \subseteq Nat
        BY <1>1
      <3>4. Len(page) = k
        <4> DEFINE n == Len(page)
        <4>1. n \in Nat /\ n <= k /\ ~(n < k)
          BY <1>1, <3>1
        <4> HIDE DEF n
        <4>2. n = k
          BY <4>1
        <4> QED
          BY <4>2 DEF n
      <3> QED
        BY <3>2, <3>3, <3>4
    <2>2. PICK m \in left : \A x \in left : ~(<<x, m>> \in OpToRel(<, Nat))
      <3> HIDE DEF left
      <3> QED
        BY <2>1, NatLessThanWellFounded, WFMin
    <2>3. m \in Hours /\ m \in Nat /\ m \in left /\ \A x \in left : ~(x < m)
      BY <1>1, <2>1, <2>2 DEF OpToRel
    <2> DEFINE one == <<m>>
    <2>4. one \in Seq(Hours) /\ Len(one) = 1 /\ DOMAIN one = {1} /\ one[1] = m
      BY <2>3
    <2>5. Range(one) = {m}
      BY <2>4 DEF Range
    <2> HIDE DEF one
    <2> DEFINE more == page \o one
    <2>6. more \in Seq(Hours) /\ Len(more) = k + 1
      <3>1. more \in Seq(Hours) /\ Len(more) = Len(page) + Len(one)
        <4>1. page \in Seq(Hours) /\ one \in Seq(Hours)
          BY <1>1, <2>4
        <4> QED
          BY <4>1
      <3> QED
        BY <2>1, <2>4, <3>1
    <2>7. Range(more) = Range(page) \cup {m}
      BY <1>1, <2>4, <2>5, RangeOfBoth
    <2>8. \A i, j \in DOMAIN more : i < j => more[i] < more[j]
      <3>1. \A i \in DOMAIN page : page[i] < m
        BY <2>3 DEF PageOf, Range
      <3>2. \A i \in DOMAIN page, j \in DOMAIN one : page[i] < one[j]
        BY <2>4, <3>1
      <3>3. \A i, j \in DOMAIN one : i < j => one[i] < one[j]
        BY <2>4
      <3>4. \A i, j \in DOMAIN page : i < j => page[i] < page[j]
        BY DEF PageOf
      <3> QED
        BY <1>1, <2>4, <3>2, <3>3, <3>4, BothInOrder
    <2> HIDE DEF more
    <2>9. \A t \in rows \ Range(more), s \in Range(more) : s < t
      <3> SUFFICES ASSUME NEW t \in rows \ Range(more), NEW s \in Range(more) PROVE s < t
        OBVIOUS
      <3>1. t \in left /\ t \in Nat /\ t # m
        BY <1>1, <2>7
      <3>2. CASE s \in Range(page)
        BY <3>1, <3>2 DEF PageOf
      <3>3. CASE s = m
        BY <2>3, <3>1, <3>3
      <3> QED
        BY <2>7, <3>2, <3>3
    <2>10. Range(more) \subseteq rows
      BY <2>3, <2>7 DEF PageOf
    <2>11. PageOf(k + 1, more, rows)
      BY <2>1, <2>6, <2>8, <2>9, <2>10 DEF PageOf
    <2> QED
      BY <2>11
  <1> QED
    BY <1>2, <1>3

\* Every set of rows has a page, whatever the page size.
LEMMA PageExists ==
  ASSUME NEW rows \in SUBSET Hours
  PROVE  \E page \in SeqOf(Hours, BatchSize) : IsPage(page, rows)
  <1> DEFINE Good == {n \in -1..BatchSize : n = -1 \/ \E page : PageOf(n, page, rows)}
  <1>0. BatchSize \in Nat
    BY TankHistoryAssumption
  <1>1. \E page : PageOf(0, page, rows)
    <2>1. PageOf(0, <<>>, rows)
      BY DEF PageOf, Range
    <2> QED
      BY <2>1
  <1>2. -1 \in Good
    BY <1>0
  <1>3. ASSUME NEW n \in 0..BatchSize, n - 1 \in Good PROVE n \in Good
    <2>1. CASE n = 0
      BY <1>0, <1>1, <2>1
    <2>2. CASE n # 0
      <3>1. n - 1 \in Nat /\ n - 1 # -1 /\ (n - 1) + 1 = n
        BY <2>2
      <3>2. PICK page : PageOf(n - 1, page, rows)
        BY <1>3, <3>1
      <3>3. \E more : PageOf((n - 1) + 1, more, rows)
        BY <3>1, <3>2, LongerPage
      <3> QED
        BY <3>1, <3>3
    <2> QED
      BY <2>1, <2>2
  <1> HIDE DEF Good
  <1>4. BatchSize \in Good
    <2>1. \A n \in -1..BatchSize : n \in Good
      BY <1>0, <1>2, <1>3, HourInduction
    <2> QED
      BY <1>0, <2>1
  <1>5. PICK page : PageOf(BatchSize, page, rows)
    BY <1>0, <1>4 DEF Good
  <1>6. page \in SeqOf(Hours, BatchSize)
    <2>1. page \in [1..Len(page) -> Hours] /\ Len(page) \in 0..BatchSize
      BY <1>0, <1>5 DEF PageOf
    <2> QED
      BY <2>1 DEF SeqOf
  <1>7. IsPage(page, rows)
    BY <1>5 DEF PageOf, IsPage
  <1> QED
    BY <1>6, <1>7

\* Samples that arrive have arrived, and what was there stays.
LEMMA ExportArrives ==
  ASSUME TankHistoryTypeOK, ExportInv, Advance \/ \E t \in Hours, v \in Volumes : Replay(t, v)
  PROVE  ExportInv'
  <1>1. task' = task /\ Sampled' \ arrived' \subseteq Sampled \ arrived
    BY SamplesArrive
  <1> QED
    BY <1>1 DEF ExportInv, CopiedTo

\* A page follows what was exported before it, and leaves out nothing up to its last row.
LEMMA ExportPageKeeps ==
  ASSUME TankHistoryTypeOK, ExportInv, ExportPage
  PROVE  ExportInv'
  <1> DEFINE rows == {t \in Sampled : task.cursor < t /\ t <= task.to}
             o == task.out
  <1>1. /\ ExportTask(task) /\ task.at = "export"
        /\ Sampled \subseteq Hours /\ Hours \subseteq Nat
    BY TaskKinds, HoursAreNat DEF ExportPage, Sampled
  <1>2. /\ task.from \in Nat /\ task.to \in Nat /\ task.cursor \in Nat /\ o \in Seq(Hours)
    BY <1>1 DEF ExportTask
  <1>3. PICK page \in SeqOf(Hours, BatchSize) :
          /\ IsPage(page, rows)
          /\ task' = IF page = <<>> \/ task.cursor > task.to THEN [task EXCEPT !.at = "exported"]
                     ELSE [task EXCEPT !.out = @ \o page,
                                       !.cursor = Min({CursorAfter(page), LastHour})]
    BY DEF ExportPage
  <1>4. Sampled' = Sampled /\ arrived' = arrived
    BY SampledUnchanged DEF ExportPage
  <1>5. /\ task.from <= task.cursor
        /\ \A i, j \in DOMAIN o : i < j => o[i] < o[j]
        /\ \A i \in DOMAIN o : task.from < o[i] /\ o[i] <= task.to /\ o[i] <= task.cursor
        /\ \A t \in Sampled \ arrived :
             task.from < t /\ t <= task.to /\ t <= task.cursor => t \in Range(o)
    BY <1>1 DEF ExportInv, CopiedTo
  <1>6. CASE page = <<>> \/ task.cursor > task.to
    <2>1. /\ task'.at = "exported" /\ task'.out = o /\ task'.from = task.from
          /\ task'.to = task.to /\ task'.cursor = task.cursor
      BY <1>1, <1>3, <1>6 DEF ExportTask
    <2>2. ASSUME page = <<>> PROVE rows = {}
      <3>1. Len(page) = 0 /\ 0 < BatchSize /\ Range(page) = {}
        BY <2>2, TankHistoryAssumption DEF Range
      <3> QED
        BY <1>3, <3>1 DEF IsPage
    <2>3. ASSUME NEW t \in Sampled \ arrived, task.from < t, t <= task.to
          PROVE  t \in Range(o)
      <3>1. t \in Nat
        BY <1>1
      <3>2. t <= task.cursor
        BY <1>2, <1>6, <2>2, <2>3, <3>1
      <3> QED
        BY <1>5, <2>3, <3>2
    <2>4. \A t \in Sampled' \ arrived' :
            task'.from < t /\ t <= task'.to => t \in Range(task'.out)
      BY <1>4, <2>1, <2>3
    <2> QED
      BY <1>5, <2>1, <2>4 DEF ExportInv
  <1>7. CASE ~(page = <<>> \/ task.cursor > task.to)
    <2> DEFINE last == page[Len(page)]
    <2>1. /\ page \in Seq(Hours) /\ Len(page) \in DOMAIN page /\ last \in Nat
          /\ CursorAfter(page) = last /\ Min({CursorAfter(page), LastHour}) = last
          /\ \A i \in DOMAIN page : page[i] <= last
      BY <1>1, <1>3, <1>7, PageHours
    <2>2. /\ task'.at = "export" /\ task'.out = o \o page /\ task'.from = task.from
          /\ task'.to = task.to /\ task'.cursor = last
      BY <1>1, <1>3, <1>7, <2>1 DEF ExportTask
    <2>3. \A i \in DOMAIN page : page[i] \in Range(page) /\ page[i] \in rows
      BY <1>3 DEF IsPage, Range
    <2>4. \A i \in DOMAIN page : page[i] \in Nat /\ task.cursor < page[i] /\ page[i] <= task.to
      BY <1>1, <2>3
    <2>5. last \in Range(page) /\ task.cursor < last
      BY <2>1, <2>3, <2>4
    <2>6. \A i \in DOMAIN o : o[i] \in Nat
      <3> HIDE DEF o
      <3>1. \A i \in DOMAIN o : o[i] \in Hours
        BY <1>2
      <3> QED
        BY <1>1, <3>1
    <2>7. \A i, j \in DOMAIN (o \o page) : i < j => (o \o page)[i] < (o \o page)[j]
      <3>1. \A i \in DOMAIN o, j \in DOMAIN page : o[i] < page[j]
        BY <1>2, <1>5, <2>4, <2>6
      <3>2. \A i, j \in DOMAIN page : i < j => page[i] < page[j]
        BY <1>3 DEF IsPage
      <3> QED
        BY <1>2, <1>5, <2>1, <3>1, <3>2, BothInOrder
    <2>8. Range(o \o page) = Range(o) \cup Range(page)
      BY <1>2, <2>1, RangeOfBoth
    <2>9. \A v \in Range(o \o page) : task.from < v /\ v <= task.to /\ v <= last
      <3>1. \A v \in Range(o) : task.from < v /\ v <= task.to /\ v <= last
        <4>1. \A i \in DOMAIN o : task.from < o[i] /\ o[i] <= task.to /\ o[i] <= last
          BY <1>2, <1>5, <2>1, <2>5, <2>6
        <4> QED
          BY <4>1 DEF Range
      <3>2. \A v \in Range(page) : task.from < v /\ v <= task.to /\ v <= last
        <4>1. \A i \in DOMAIN page : task.from < page[i]
          BY <1>2, <1>5, <2>4
        <4>2. \A i \in DOMAIN page : task.from < page[i] /\ page[i] <= task.to /\ page[i] <= last
          BY <2>1, <2>4, <4>1
        <4> QED
          BY <4>2 DEF Range
      <3> QED
        BY <2>8, <3>1, <3>2
    <2>10. ASSUME NEW t \in Sampled \ arrived, task.from < t, t <= task.to, t <= last
           PROVE  t \in Range(o \o page)
      <3>1. t \in Nat
        BY <1>1
      <3>2. CASE t <= task.cursor
        BY <1>5, <2>8, <2>10, <3>2
      <3>3. CASE ~(t <= task.cursor)
        <4>1. t \in rows
          BY <1>2, <2>10, <3>1, <3>3
        <4>2. t \in Range(page)
          BY <1>3, <2>1, <2>5, <2>10, <3>1, <4>1 DEF IsPage
        <4> QED
          BY <2>8, <4>2
      <3> QED
        BY <3>2, <3>3
    <2>11. \A i \in DOMAIN (o \o page) : (o \o page)[i] \in Range(o \o page)
      BY DEF Range
    <2> HIDE DEF last, o
    <2>12. \A i \in DOMAIN task'.out :
             task'.from < task'.out[i] /\ task'.out[i] <= task'.to /\ task'.out[i] <= task'.cursor
      BY <2>2, <2>9, <2>11
    <2>13. \A t \in Sampled' \ arrived' :
             task'.from < t /\ t <= task'.to /\ CopiedTo(t)' => t \in Range(task'.out)
      BY <1>4, <2>2, <2>10 DEF CopiedTo
    <2>14. task'.from <= task'.cursor
      BY <1>2, <1>5, <2>1, <2>2, <2>5
    <2> QED
      BY <2>2, <2>7, <2>12, <2>13, <2>14 DEF ExportInv
  <1> QED
    BY <1>6, <1>7

\* Everything else starts an export with nothing behind the cursor, or is no export.
LEMMA ExportInvStep ==
  TankHistoryTypeOK /\ ExportInv /\ [TankHistoryNext]_historyVars => ExportInv'
  <1> SUFFICES ASSUME TankHistoryTypeOK, ExportInv, [TankHistoryNext]_historyVars PROVE ExportInv'
    OBVIOUS
  <1>1. CASE StartExport
    <2>1. PICK from \in Hours, to \in Hours :
            task' = [at |-> "export", from |-> from, to |-> to, cursor |-> from, out |-> <<>>]
      BY <1>1 DEF StartExport
    <2>2. from \in Nat /\ Sampled' \subseteq Nat
      BY HoursAreNat DEF Sampled
    <2>3. \A t \in Sampled' \ arrived' : ~(from < t /\ t <= from)
      BY <2>2
    <2> QED
      BY <2>1, <2>2, <2>3 DEF ExportInv, CopiedTo
  <1>2. CASE ComputeConsumption \/ StoreConsumption \/ EndJob
    <2>1. task'.at \notin {"export", "exported"}
      <3>1. StoreConsumption => ConsumptionTask(task)
        BY TaskKinds DEF StoreConsumption
      <3>2. StoreConsumption => task'.at \in {"rest", "stored"}
        <4>1. ASSUME StoreConsumption
              PROVE  \E d : task' \in {Rest, [task EXCEPT !.at = "stored", !.day = d]}
          BY <4>1 DEF StoreConsumption
        <4>2. Rest.at = "rest"
          BY DEF Rest
        <4>3. ASSUME StoreConsumption, NEW d PROVE [task EXCEPT !.at = "stored", !.day = d].at = "stored"
          BY <3>1, <4>3 DEF ConsumptionTask
        <4> QED
          BY <4>1, <4>2, <4>3
      <3>3. ComputeConsumption => task'.at = "computed"
        BY DEF ComputeConsumption
      <3>4. EndJob => task'.at = "rest"
        BY DEF EndJob, Rest
      <3> QED
        BY <1>2, <3>2, <3>3, <3>4
    <2> QED
      BY <2>1 DEF ExportInv
  <1>3. CASE UNCHANGED historyVars
    <2>1. Sampled' = Sampled /\ task' = task /\ arrived' = arrived
      BY <1>3, SampledUnchanged DEF historyVars
    <2> QED
      BY <2>1 DEF ExportInv, CopiedTo
  <1> QED
    BY <1>1, <1>2, <1>3, ExportArrives, ExportPageKeeps DEF TankHistoryNext

\* For any page size, however many readings arrive late while the pages are read, an export
\* holds each measurement of its interval that was there when it began, once and in order.
THEOREM ExportCompleteHolds == TankHistorySpec => []ExportComplete
  <1>1. TankHistoryInit => ExportInv
    BY DEF TankHistoryInit, ExportInv, Rest
  <1>2. TankHistoryTypeOK /\ ExportInv => ExportComplete
    <2> SUFFICES ASSUME TankHistoryTypeOK, ExportInv, task.at = "exported" PROVE ExportComplete
      BY DEF ExportComplete
    <2>1. /\ \A i, j \in DOMAIN task.out : i < j => task.out[i] < task.out[j]
          /\ \A i \in DOMAIN task.out : task.from < task.out[i] /\ task.out[i] <= task.to
          /\ \A t \in Sampled \ arrived : task.from < t /\ t <= task.to => t \in Range(task.out)
      BY DEF ExportInv, CopiedTo
    <2>2. \A v \in Range(task.out) : task.from < v /\ v <= task.to
      BY <2>1 DEF Range
    <2> QED
      BY <2>1, <2>2 DEF ExportComplete
  <1> QED
    BY <1>1, <1>2, ExportInvStep, TankHistoryTypes, PTL DEF TankHistorySpec

-----------------------------------------------------------------------------
(* TankHistory: the consumption that is stored *)

\* StoredIsDrawn holds because a series is right when it is computed, and because a sample
\* that arrives before it is stored is counted as arrived.
SeriesInv ==
  /\ task.at = "computed" =>
       /\ task.day <= Day(now)
       /\ arrived = {} =>
            \A d \in DaysSeen : d >= FirstDay(task.day) => task.series[d] = DrawnOn(d)
  /\ StoredIsDrawn

\* What was drawn is told by the volumes alone.
LEMMA DrawnUnchanged ==
  ASSUME volume' = volume, NEW d
  PROVE  DrawnOn(d)' = DrawnOn(d)
  <1>1. Sampled' = Sampled
    BY SampledUnchanged
  <1>2. \A t : Drawn(t)' = Drawn(t)
    BY <1>1 DEF Drawn
  <1> QED
    BY <1>1, <1>2 DEF DrawnOn

\* Each step keeps the series, and what is stored of it, in line with the samples.
LEMMA SeriesInvStep ==
  TankHistoryTypeOK /\ SeriesInv /\ [TankHistoryNext]_historyVars => SeriesInv'
  <1> SUFFICES ASSUME TankHistoryTypeOK, SeriesInv, [TankHistoryNext]_historyVars PROVE SeriesInv'
    OBVIOUS
  <1>0. /\ now \in Nat /\ now \in Hours /\ Day(now) \in Nat /\ Day(now) \in DaysSeen
        /\ \A d \in DaysSeen : d \in Nat
    BY HoursAreNat DEF TankHistoryTypeOK
  <1>1. CASE Advance \/ \E t \in Hours, v \in Volumes : Replay(t, v)
    <2>1. /\ task' = task /\ summary' = summary /\ now' \in Nat /\ now <= now'
          /\ arrived' = {} => arrived = {} /\ volume' = volume
      BY <1>1, SamplesArrive, HoursAreNat
    <2>2. task.at = "computed" => task.day \in Nat
      BY <1>0, TaskKinds DEF ConsumptionTask
    <2>3. Day(now) <= Day(now') /\ Day(now') \in Nat
      BY <1>0, <2>1, DayMonotone, DayBounds
    <2>4. task.at = "computed" => task.day <= Day(now)'
      <3>1. Day(now)' = Day(now')
        BY DEF Day
      <3> QED
        BY <1>0, <2>2, <2>3, <3>1 DEF SeriesInv
    <2>5. ASSUME arrived' = {} PROVE \A d \in DaysSeen : DrawnOn(d)' = DrawnOn(d)
      BY <2>1, <2>5, DrawnUnchanged
    <2> QED
      BY <2>1, <2>4, <2>5 DEF SeriesInv, StoredIsDrawn
  <1>2. CASE StartExport \/ ExportPage \/ EndJob
    <2>1. task'.at \notin {"computed", "stored"}
      <3>1. ExportPage => ExportTask(task)
        BY TaskKinds DEF ExportPage
      <3>2. ExportPage => task'.at \in {"export", "exported"}
        <4>1. ASSUME ExportPage
              PROVE  \E o, c : task' \in {[task EXCEPT !.at = "exported"],
                                         [task EXCEPT !.out = o, !.cursor = c]}
          BY <4>1 DEF ExportPage
        <4> QED
          BY <3>1, <4>1 DEF ExportTask
      <3>3. StartExport => task'.at = "export"
        BY DEF StartExport
      <3>4. EndJob => task'.at = "rest"
        BY DEF EndJob, Rest
      <3> QED
        BY <1>2, <3>2, <3>3, <3>4
    <2> QED
      BY <2>1 DEF SeriesInv, StoredIsDrawn
  <1>3. CASE ComputeConsumption
    <2> DEFINE first == FirstDay(Day(now))
    <2>1. first \in Nat
      BY <1>0, FirstDayIsNat
    <2>2. /\ task'.at = "computed" /\ task'.day = Day(now) /\ volume' = volume /\ now' = now
          /\ task'.series = daily_consumption_series(first * HoursPerDay)
      BY <1>3 DEF ComputeConsumption
    <2> HIDE DEF first
    <2>3. \A d \in DaysSeen : d >= first => task'.series[d] = DrawnOn(d)'
      BY <2>1, <2>2, SeriesIsDrawn, VolumesAreTyped, DrawnUnchanged
    <2>4. FirstDay(task'.day) = first /\ Day(now)' = Day(now)
      BY <2>2 DEF first, Day
    <2>5. task'.day <= Day(now)'
      BY <1>0, <2>2, <2>4
    <2> QED
      BY <2>2, <2>3, <2>4, <2>5 DEF SeriesInv, StoredIsDrawn, FirstDay
  <1>4. CASE StoreConsumption
    <2> DEFINE first == FirstDay(Day(now))
               days == {d \in DaysSeen : task.series[d] > 0}
    <2>1. /\ ConsumptionTask(task) /\ task.at = "computed" /\ task.day \in Nat
          /\ task.day <= Day(now)
      BY <1>0, <1>4, TaskKinds DEF StoreConsumption, ConsumptionTask, SeriesInv
    <2>2. volume' = volume /\ arrived' = arrived
      BY <1>4 DEF StoreConsumption
    <2>3. CASE task' = Rest
      BY <2>3 DEF SeriesInv, StoredIsDrawn, Rest
    <2>4. CASE task' # Rest
      <3>1. /\ summary' = [d \in DaysSeen |-> IF d >= first \/ d \in days THEN task.series[d]
                                              ELSE summary[d]]
            /\ task' = [task EXCEPT !.at = "stored", !.day = Day(now)]
        BY <1>4, <2>4 DEF StoreConsumption
      <3>2. task'.at = "stored" /\ task'.day = Day(now)
        BY <2>1, <3>1 DEF ConsumptionTask
      <3>3. first \in Nat /\ FirstDay(task.day) \in Nat /\ FirstDay(task.day) <= first
        BY <1>0, <2>1, FirstDayIsNat
      <3>4. ASSUME arrived' = {}, NEW d \in DaysSeen, d >= first PROVE summary'[d] = DrawnOn(d)'
        <4>1. summary'[d] = task.series[d]
          BY <3>1, <3>4
        <4>2. d >= FirstDay(task.day)
          BY <1>0, <3>3, <3>4
        <4>3. task.series[d] = DrawnOn(d)
          BY <2>1, <2>2, <3>4, <4>2 DEF SeriesInv
        <4>4. DrawnOn(d)' = DrawnOn(d)
          BY <2>2, DrawnUnchanged
        <4> QED
          BY <4>1, <4>3, <4>4
      <3>5. FirstDay(task.day)' = first
        BY <3>2 DEF FirstDay
      <3> QED
        BY <3>2, <3>4, <3>5 DEF SeriesInv, StoredIsDrawn
    <2> QED
      BY <2>3, <2>4
  <1>5. CASE UNCHANGED historyVars
    <2>1. UNCHANGED <<now, volume, task, summary, arrived>>
      BY <1>5 DEF historyVars
    <2>2. \A d \in DaysSeen : DrawnOn(d)' = DrawnOn(d)
      BY <2>1, DrawnUnchanged
    <2> QED
      BY <2>1, <2>2 DEF SeriesInv, StoredIsDrawn, Day
  <1> QED
    BY <1>1, <1>2, <1>3, <1>4, <1>5 DEF TankHistoryNext

\* For any volumes, days and window, the litres stored for a day of the window are those
\* drawn after each of its samples, unless a sample arrived since they were computed.
THEOREM StoredIsDrawnHolds == TankHistorySpec => []StoredIsDrawn
  <1>1. TankHistoryInit => SeriesInv
    BY DEF TankHistoryInit, SeriesInv, StoredIsDrawn, Rest
  <1>2. SeriesInv => StoredIsDrawn
    BY DEF SeriesInv
  <1> QED
    BY <1>1, <1>2, SeriesInvStep, TankHistoryTypes, PTL DEF TankHistorySpec

==============================================================================
