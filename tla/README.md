# Verification of the fuel monitoring platform

TLA+ models of the platform under `src/`: the intake of telemetry from the edge
gateway's flash to the measurements table, its alarms, dispensing of fuel against
single-use codes, the command plane, sessions, notifications, and the registers of
companies, tanks and users. TLC checks the models on small instances; TLAPS proves the
theorems of the `*Proofs` modules for every value of the constants. Paths below are
under `src/platform/fmp/` unless they start with `firmware/`, `docs/` or `web/`.

## 1. Inventory

The platform is a Python backend (a FastAPI service, an ingestion service fed over
MQTT, Celery workers, PostgreSQL/TimescaleDB and Redis; `docker-compose.yml:136` starts the API with two
workers), MicroPython firmware for the
edge gateways (`firmware/`), and a React front end (`web/`).

| Component | State | Operations | Hard behaviour | Correct when | Modules |
|---|---|---|---|---|---|
| Dispensing engine `services/dispensing/` | allocations, codes, transactions (PostgreSQL); lock keys, consumed set, cache (Redis) | upload a quota sheet, validate a code, complete a dispense | concurrent callbacks for one code, lock TTL under a slow holder, a death between commit and SADD, lost answers | a code is drawn once; a partial draw hands on exactly the rest; the ledger equals what was charged | `DispenseContract`, `Dispensing`, `QuotaDelivery` |
| Command plane `ingestion/relay.py`, `workers/tasks/commands.py`, `api/v1/iot_gateways.py` | `gateway_commands` rows; Redis lists outbound and inflight | issue, relay, mark sent, ack, sweep; register a gateway, bind its tanks | three writers of one row, at-least-once delivery, restart of the relay, publish refused | a command ends; an acknowledged one stays so; attempts are bounded; a queued frame is not lost | `GatewayCommands`, `TankRegistry` |
| Alarms `ingestion/pipeline.py`, `workers/tasks/telemetry.py`, `api/v1/alarms.py` | `alarms` rows; Redis open-alarm set | raise, resolve, acknowledge, sweep silent devices | the key is set before the row is committed; operators resolve rows, not keys; hysteresis; a sweep works on what it read | one open alarm per condition; no alarm is suppressed for good | `Alarms`, `StaleSweep` |
| Ingestion batch `ingestion/main.py`, `batch_writer.py`, `metrics_counters.py`, `cache.py` | bounded queue, batch, counters, tank cache | enqueue, drain, savepoints, commit, count; look up a tank | overflow; failure of one frame, of the commit, of a counter; stale cache | every lost frame shows in a counter; a frame is filed under its tank | `IngestBatch`, `TankLookup` |
| Edge gateway `firmware/` | flash file, command registry (RAM), pending effect | sample, publish, buffer, replay, handle a command, ack | power loss, broker loss, duplicate commands, callbacks that nest while waiting for a PUBACK | a lost reading has a cause; an effect is applied once | `EdgeGateway`, `EdgeCommands` |
| Authentication `core/security.py`, `services/auth.py`, `api/v1/auth.py`, `core/redis.py` | token denylist and login counters (Redis, and in each worker of the API) | login, refresh, logout, check | two refreshes of one token, Redis outage, workers that do not share their memory | a refresh token is used once; a revoked token is refused; failures are limited | `ApiProcesses`, `Sessions`, `LoginLimiter` |
| Notifications `services/notifications/` | channels with secrets, rules, delivery log | dispatch with retries and fail-over; edit channels | partial failure, timeouts, cancelled siblings; stale masked copies | a code is told once; every refusal is logged; no secret is lost | `QuotaDelivery`, `ChannelConfig` |
| Tank geometry, processor `ingestion/tank_geometry.py`, `processor.py` | smoothing and anomaly window, per tank, in the process | pressure to level, level to volume | range faults, calibration tables, numeric edges | nothing is stored that was not measured | `LevelFilter` |
| Analytics and exports `services/analytics/`, `workers/tasks/analytics.py`, `api/v1/tanks.py` | daily consumption | compute and store consumption, export measurements | late measurements, midnights | what is stored is what was drawn; an export is complete | `TankHistory` |
| Registers `api/v1/companies.py`, `sites.py`, `stations.py`, `tanks.py`, `fuel_types.py`, `services/users.py` | tables with soft deletion | create, change, delete, restore under the tenant scope | check-then-write races, deleted parents, shared gateways | keys are unique; references hold; a tenant writes its own rows only | `OrgRegistry`, `TankRegistry`, `UserDirectory` |
| Realtime `api/realtime.py` | subscriptions | publish, filter by tenant | vanished clients | an event reaches only its tenant | none |
| Front end `web/src/` | tokens, telemetry store | silent refresh, reconnect | parallel 401s | one refresh in flight | none |

Interactions. Stations call the dispensing engine over HTTP, or over MQTT through the
ingestion service, which only logs the result. The API inserts a command and pushes a
frame on a Redis list; the relay task of the ingestion service publishes it; the
firmware acks over MQTT; a Celery task sweeps. A reading goes from the firmware through
the broker to the ingestion queue, is looked up, smoothed and converted in a batch
transaction, raises or resolves alarms, and is published on Redis to the realtime API.
Celery tasks read the measurements (consumption) and the silence of devices (sweep).

## 2. Plan

Each module is written to be checked first and proved about second: constants with named
assumptions, one action per step, no RECURSIVE operators.

| Step | Modules | State |
|---|---|---|
| 1 | `Dispensing` with its abstract specification `DispenseContract` | checked; its safety and the refinement proved |
| 2 | `GatewayCommands` | checked; its safety proved |
| 3 | `Alarms` | checked; its safety proved for alarm types without a clearing margin |
| 4 | `IngestBatch`, `EdgeGateway`: the two ends of the intake | checked; their safety proved |
| 5 | `TankLookup`, `LevelFilter`, `StaleSweep`, `TankHistory`: what becomes of a reading | checked; proved |
| 6 | `EdgeCommands`, `Sessions` and `LoginLimiter` (over `ApiProcesses`) | checked; proved |
| 7 | `QuotaDelivery`, `ChannelConfig` | checked; proved |
| 8 | `OrgRegistry`, `TankRegistry` (together `Tenancy`), `UserDirectory` | checked; proved |

Every safety property that a passing run checks is a theorem, some under a hypothesis that
the code needs and that is named where the theorem is described: no fault for single use and
the contract, no clearing margin for the alarms, no shared gateway for the lookup.

What stays with TLC, and why: liveness (`WaitsEnd`, `UnackedFails`, `QueueDrains`,
`BufferedIsDelivered`), since fairness is out of the prover's reach; and the six
violations (`dispensing_crash_replay`, `gateway_ack_lost`, `alarms_storm`, `lookup_shared`,
`sessions_workers`, `calibrated`), which are counterexamples.

Sums over transactions and over samples, and the pages of an export, are recursive
functions or chosen by what they satisfy. What is proved of them holds for every input
without an induction theorem: were it false, there would be a least counterexample.

Next, should the project grow: `KeyMatchesRows` for alarm types with a margin once their
two margins agree in the code (section 5).

## 3. Dispensing

### Modules

* `DispenseContract.tla` is the promise: a code is issued for some litres, drawn at
  most once, and a partial draw passes the rest, to the litre, to one fresh code.
* `Dispensing.tla` is the engine. A worker is a request handler; `pc[w]` names the
  await it stands at. `code`, `alloc`, `txns` are committed rows, `rowLock` is the
  session that holds `SELECT ... FOR UPDATE`, `snap[w]` what that session read;
  `lock`, `consumedSet`, `cache` are the Redis keys `dispense:lock:<fp>`,
  `dispense:used_fingerprints`, `dispense:code:<fp>`; `ans[w]` is the answer under
  way; `told` records which codes a station was told are settled (history, read by
  properties only). An allocation and its code are created together, so both are
  indexed by the code.
* `MCDispensing.tla` has the symmetry set for TLC; `MCWaiting.tla` checks liveness,
  together with that of the commands (section 4).
* `DispensingProofs.tla` has the theorems, those about the contract included.

One action is one stretch between two awaits that another handler can observe.
`ValidateUsed` ... `ValidateWarm` are the numbered steps of `validate_code`;
`AcquireLock` ... `ReleaseLock` those of `complete_dispense`. `SettleAll` and
`SettlePart` are the commit together with everything computed before it, which no
other session can see earlier. `LockExpire`, `SlowExpire`, `CacheExpire` are TTLs;
`Crash` is the death of a process (its session is rolled back, its Redis lock stays).
A Redis call that fails inside `complete_dispense` has the effect of a crash at that
point followed by `LockExpire`.

### Runs

| Run | What it checks | What it shows |
|---|---|---|
| `dispensing_safe` | `TypeOK`, `SettledOnce`, `AnswerRecorded`, `ImplementsContract` | without deaths and expired locks the Redis lock, row lock and consumed set together give single use and the exact remainder, and replays answer with recorded litres |
| `dispensing_faults` | `FaultsBoundSettlements`, `NoLostUpdate`, `LedgerAgrees`, `RedisAgrees` (`ToldIsConsumed`, `CacheCoherent` and `SettledIsRefused`) | with one death and one expired lock: each extra settlement is paid for by a fault, no update is lost, the transactions of a code add up to its charged litres and leave the remaining ones, a station told "done" finds the code refused, the cache quotes the allocation of a code that can be drawn upon, and a settled code, whose quote may be stale, is refused before it is read |
| `waiting`, the part `completions` | `WaitsEnd` (`RequestsEnd` and `LockFreed`) | no request waits for ever and no lock key stays, also after a death |
| `dispensing_crash_replay` | `SettledOnce` | **violated**: death between commit and SADD, then a retry, settles twice |

Bounds. Two handlers are the fewest that race; two codes are a code and its
remainder, or two codes of one sheet. The quota is 4, the litres 1 (partial: 3 left,
above the minimum of 2) and 5 (within the grace of 1 against 4, over-dispense against
3). One attempt per code exhausts the counter. One death and one expired lock are
the budgets of `MaxCrashes` and `MaxSlow`; the theorems have no bound.

Fairness (`Fairness`). `WF Handle(w)`: the event loop runs a request that can go on.
`SF RowWait(w)`: PostgreSQL queues the waiters of a row lock. `WF LockExpire(c)`:
Redis removes expired keys. Nothing makes a request arrive or an answer get through.

### Proofs

* `TypeCorrect`: `Spec => []TypeOK`, for all constants, with all faults. `TypeInv` is
  `TypeOK` cut into the stores and the handlers, plus that a handler at work has a
  code (`RequestOK`).
* `NoLostUpdateHolds`: `Spec => []NoLostUpdate`, with all faults. The invariant adds
  that a handler between reading and writing owns the row lock, which alone excludes
  a second writer: the Redis lock is not needed for it.
* `SettledOnceHolds`: if `MaxCrashes = MaxSlow = 0` then `Spec => []SettledOnce`.
  `SettledOnce` is not inductive; `SettleInv` adds that a handler in the critical
  section holds the key and is alone with its code, that past the replay guard its
  code has no transaction, and that a transaction is in the consumed set or its
  handler is about to put it there.

* `AnswerRecordedHolds`: `Spec => []AnswerRecorded`, with all faults. `AnswerInv` says it
  of the answers still under way: one that reports a settlement reports litres that a
  transaction of its code has, and transactions are never removed.
* `RedisAgreesHolds`: `Spec => []RedisAgrees`, with all faults. `ConsumedInv` adds that a
  handler about to tell of a settlement has its code in the consumed set. `CacheInv` adds
  that what the cache holds, and what a handler is about to put there, may be quoted
  (`Quotable`): the rows change under a code only by its settlement, which ends its quotes.
  That a settled code is refused follows from `FaultInv` below: a settlement belongs to a
  handler about to mark it, or to a death.
* `ImplementsContractHolds`: if `MaxCrashes = MaxSlow = 0`, `Spec` implements
  `DispenseContract`, under the refinement mapping of `Dispensing`. A step maps to an issue,
  a settlement or a stutter (`MappedUpload`, `MappedSettleAll`, `MappedSettlePart`);
  `RowsFit` says what the rows of a code hold at each stage of its life, so that a
  settlement finds the code open and untouched. The hypothesis is the run
  `dispensing_crash_replay`: after a death the contract is broken.
* `FaultsBoundSettlementsHolds`: `Spec => []FaultsBoundSettlements`, with all faults.
  `FaultInv` counts, per code (`PaidFor`): the handlers in the critical section are at most
  the holder of the key and one for each lock that expired early. Until the code is in the
  consumed set, each settlement belongs to a handler about to put it there or to a death;
  from then on only the handlers already past the replay guard can settle again.

* `LedgerAgreesHolds`: `Spec => []LedgerAgrees`, with all faults. `Logged` adds up the
  transactions of a code, and one more adds its litres (`LoggedOfOneMore`). `LedgerInv` adds
  that a code that is not issued has no transaction, so an upload, or the rest of a partial
  draw, starts balanced. The row lock carries the proof: the handler that commits
  adds to rows that are as it read them (`NoLostUpdate`).

Liveness is model-checked only.

Observed beside the properties: a station that repeats a partial completion whose answer
was lost is told of success, but not of the code for the rest. `audit_totalizer` is
called by nothing ("called by ingestion worker after each settle", `dispense_engine.py:284`),
and compares the litres since its last call with all litres ever logged.
`redispatch_batch_codes` changes nothing, as its docstring says.

## 4. Command plane

### Module

`GatewayCommands.tla` has the row of a command, the Redis lists `outbound` and
`inflight`, and four writers of the row, none of which locks it:

* `IssueCommit`, `IssuePush`: `issue_command` commits the row, then pushes the frame.
* `Drain` ... `MarkWrite`, `RelayRaises`, `Requeue`: `command_relay_loop`. Marking a
  command sent is a read and a write (`MarkRead`, `MarkWrite`); another session may
  commit between them.
* `SweepSelect` ... `SweepFail`: `_scan_and_sweep`, cut at its awaits.
* `AckRead`, `AckWrite`: `_handle_command_ack`.

SQLAlchemy's UPDATE has only the columns whose value differs from what the session
read; `Write` says so, and it decides who overwrites whom. `wire` and `acks` are what
the broker still has to deliver: frames and acks are lost, repeated and reordered.
`published`, `retries` and `heard` are history.

Assumptions, each at its action: a deadline is seconds away when it is set, so one
set after the relay's read does not pass before the relay's write (`RetryDue`); Celery
beat starts one sweep at a time, which nothing in the code enforces; a publish that is
refused may still reach the wire, because the MQTT client keeps a QoS 1 message it
could not send (`PublishRefused`). `MCGatewayCommands` says which acks a gateway gives.

For TLC the model shares two runs with others, with which it has no state in common: each
behaviour is one of `commands` or the other (`part`), and the state space is the sum.
`MCWaiting` has it beside the completions of `Dispensing`: what waits for an answer.
A behaviour of `MCWaiting` is fair to its own part only, since the other takes no step.
`MCOperations` has it beside `Alarms`: rows that several writers share with Redis.

### Runs

| Run | What it checks | What it shows |
|---|---|---|
| `waiting`, the part `commands` | `RetriesBounded`, `PublishesPaid`, `UnackedFails` | a gateway that never answers: however increments of `attempts` are lost, the sweeper retries at most `max_attempts - 1` times, one more per fault; every publish beyond the first is a retry or is paid for by a fault; the command ends failed for good |
| `operations`, the part `commands` | `CommandTypeOK`, `FrameKept` | two commands share the lists: the LPOP that releases a frame never takes another one, and a pushed frame is published or still queued, whatever call fails |
| `gateway_ack_lost` | `AckIsFinal` | **violated**: an ack handled between publish and `_mark_sent` is overwritten, the command is `sent` again and retried |

Bounds. `waiting` has one command with the three attempts of the code and two
faults, a death or a failing call each: enough for a frame in both lists and a restart
that drains it. `operations` has two commands, one attempt and one fault: the
smallest instance in which LPOP could take the wrong frame.

Fairness (`Fairness`). The event loop runs the relay and the ack handlers, Celery beat
runs the sweeper, deadlines pass, the API's handler goes on to push, and the broker
stops redelivering. A dead relay need not restart; `UnackedFails` holds without it.

### Proofs

`GatewayCommandsProofs.tla`, for all constants and with all faults:

* `TypeCorrect`: `Spec => []TypeOK`; `TypeInv` adds that a relay past `Take` has a frame.
* `FrameKeptHolds`: `Spec => []FrameKept`. `HeldInv` adds that from `Take` to
  `Release` the leftmost frame of inflight is the one in hand, and that it is
  published when LPOP takes it.
* `RetriesBoundedHolds`: `Spec => []RetriesBounded`. `attempts` is not monotone, so the
  bound is not inductive. `RetryInv` says what makes lost increments harmless: any
  count that a writer is about to put back, plus one, still covers the retries made.
  It needs the timing assumption of `RetryDue`.

* `PublishesPaidHolds`: `Spec => []PublishesPaid`. `PaidInv` counts frames: those
  published, in either list, or in hand and about to be in a list, are at most the pushes
  of the command's frame, its retries and two for each fault. It has to leave out the frame
  that is published and not yet released from inflight, which would count twice.

`UnackedFails` is model-checked only; `AckIsFinal` is false.

## 5. Alarms

### Module

`Alarms.tla` follows one alarm type of one tank: the key `alarm:open:<tank>:<type>`
against the `alarms` rows. A reader is the flusher, which handles up to `BatchSize`
frames in a transaction with a savepoint each, or an HTTP request with one frame.
`CheckRaise`, `AddKey` are the raise loop of `process`; `CheckResolve`, `FindRow`,
`DropKey` are `_resolve_cleared`; `Insert` adds the row to the session. The key changes
at once, the rows with `Commit`. `FrameFails` (an exception inside `process`, which
swallows it), `FrameRolledBack` (one after it) and `CommitFails` are the failures.
`AckRead`, `AckWrite` and `ResolveByHand` are the operators' endpoints. Values are
integers; how a frame becomes a level or a volume is left out. `FindRow` may pick any
live row: the code takes the one with the latest capture time, which devices choose.

### Runs

| Run | What it checks | What it shows |
|---|---|---|
| `operations`, the part `alarms` | `TypeOK`, `KeyMatchesRows` (`LiveAlarmsHaveKey` and `NoSilentAlarm`), `OneAlarmPerCondition` | set and rows agree between frames, up to one row per mishap; the key suppresses no alarm that was never raised; a new alarm needs the condition to have gone |
| `alarms_storm` | `OneAlarmPerCondition` | **violated** with nothing failing: in the band above the high threshold each frame raises an alarm and drops the key again |

`mishaps` counts failing frames and commits, frames handled concurrently by two
readers, and acknowledgements written over a resolution; each may cost one alarm or
one key, and the invariants say that it costs no more.

Bounds. Four values are one below, one on and two above the threshold; four frames let
a condition rise, fall, rise and fall; batches of two have a frame after the first
savepoint; one mishap of the flusher or of the request. With two mishaps (1.3 million
states) the invariants hold too. The model stops after its frames, hence
`CHECK_DEADLOCK FALSE`.

### Proofs

`AlarmsProofs.tla`: for any number of requests, frames and mishaps, any batch size, and any
values. `AlarmsTypeCorrect` holds for every alarm type. `KeyMatchesRowsHolds` and
`OneAlarmPerConditionHolds` assume `NoMargin`, that a condition that raises an alarm also
keeps it: so it is for `low_level`, `critical_level` and `sensor_fault`, and for every type
when the hysteresis is 0. For the others the properties are false, as `alarms_storm` shows.

Neither property is inductive: in the middle of a frame the key is set and the row is not
there, and two readers may each be about to undo what the other counts on. `AlarmsInv` is

* `Readings`: what a reader carries fits its step, and a request has one frame;
* `Main`: some reader works on what is committed (the flusher, whenever it is busy), and
  each other reader that may still leave a live row or drop the key (`Holding`) started
  while another was at work, so it has a mishap of its own. What the main reader would
  leave is covered by the key and by the mishaps that no such reader owns (`Credit`).
  `RowsSound` says so of the live rows, also if the frame is rolled back or the commit
  fails; `EpisodesSound` says so of all rows, with the returns of the condition;
* `Quiet`: without a mishap at most one reader is busy, the key is covered by a live row, by
  one about to be inserted or by an operator's resolution, and a raised condition by the key.

Who the main reader is changes only when nobody is busy (`SwapIdle`) and when the flusher
starts beside requests (`FlusherStarts`); a step of it is one of `OwnKeeps`, a step of
another `OtherMoves` or `OtherCommits`, an operator's `AckWriteKeeps` or `ByHandKeeps`.
TLC checked `Readings`, `Main` and `Quiet` with two requests and two mishaps before.

## 6. The two ends of the intake

### Modules

* `IngestBatch.tla` is the service's end. `queue` is `_READ_QUEUE`, `flush` the record of
  `_flush_readings` (its step, its batch, the frames left, the rows queued for the bulk
  insert, the count of persisted frames), `table` the committed measurements, `counter`
  the Redis counters, `droppedMem` the process's own count. `Enqueue` is `_on_message`
  to `_enqueue_reading`; `Drain`, `HandleFrame`, `CommitBatch` are a batch;
  `CountReceived`, `CountPersisted` the calls after the commit; `TransactionFails`,
  `CountFails`, `FailReceived`, `FailDropped`, `FailMuted` the branches on failure.
  `Outcomes` names each way `_process_reading` and the savepoint around it can end.
  A commit whose answer is lost may have happened. `PostFrame` is the HTTP fallback.
* `EdgeGateway.tla` is the firmware's end: the loop of `firmware/main.py` (`at` is its
  step), the flash file of `frame_buffer.py` as a sequence of lines with their lengths,
  and the connection. The file is read in chunks that are split into lines on their own,
  so `Straddles` decides what of it can be read; a power cut may leave a part of a line,
  to which the next line is appended. `excused` collects the readings given up, by cause.
* `MCIntake.tla` joins the two. The broker is between them and they share no state, so a
  behaviour is one of the gateway or one of the service (`part`), never interleaved.

### Run

| Run | What it checks | What it shows |
|---|---|---|
| `intake` | `IntakeTypeOK` | the types of both |
| | `CountersAreHonest` | received is never behind persisted; persisted is never ahead of the rows, apart from frames without a tank or with a failure that `process` hides |
| | `LossShows` | each frame neither stored nor queued shows in the counters or was in memory when the process stopped; drops leave a trace in the operators' counter unless recording failed. Only the first milestone is claimed: `main.py:468` may jump a later one |
| | `LiveIsStored` | no savepoint takes back the row of a frame that was shown live |
| | `LossHasCause` | each reading sampled is delivered, in flash, in hand, or given up for a named cause; a replay that breaks off loses nothing |
| | `QueueDrains`, `BufferedIsDelivered` | no failure ends the flusher; what is in flash reaches the broker once the network is back, unless a replay broke off on a connection that lives on |

Bounds. Service: three frames, of which one is also posted, a queue of three and batches
of two, so that a batch can be full, partial or empty and the queue can overflow while a
batch is under way; two mishaps, since a failing commit must be able to meet a failing
counter. Milestones are 1 and 3 for the code's 1, 100, 1000. Gateway: four readings and a
file of two lines, so that trimming happens twice; lines of 4 characters in chunks of 9
(for 65536), so that the third line straddles; three faults (a broken connection, a
power cut and a refused call together). Both stop, hence `CHECK_DEADLOCK FALSE`.

Fairness. `WF FlusherStep`: the flusher is a task of the event loop. `WF LoopStep` and
`WF WatchdogReset`: the firmware is one thread, and a watchdog ends a dead one.
`SF PingRaises`: keepalives are sent in every iteration without other traffic, so a
connection broken for good is noticed although each iteration may also end quietly.
Nothing makes frames arrive or the network work; `MaxFaults` ends its failures.

### Proofs

`IngestBatchProofs.tla`, for any queue, batch size and number of failures:
`CountersAreHonestHolds`, `LiveIsStoredHolds` and `LossShowsHolds`. None is inductive.

* `Books` adds what the flusher has counted so far: at each of its steps, the persisted
  count it carries fits in the rows queued, committed or hidden, and in the frames counted
  received. `Rows` adds where the rows of the batch are while the transaction may still
  fail.
* `LossInv` adds to `LossShows` what a batch under way may still lose: while frames are
  handled, the whole batch can go with its transaction, and each handled frame without a
  row will show in received less persisted, or is hidden. `DropInv` adds that a drop is in
  the operators' counter, muted, or about to be recorded: the first drop is a milestone.
  That is an assumption (`1 \in Milestones`); the code's milestones are 1, 100 and 1000.

`EdgeProofs.tla`, `LossHasCauseHolds`: for any number of readings, any file and chunk size
and any failures. `EdgeLossInv` adds to the property that a whole line holds one
reading (`OneEach`), so that trimming and the snapshot of a replay take readings one by one,
and that during a replay the readings of the file are delivered, given up, or still in the
snapshot (`Replaying`): clearing the file at its end loses none.

`IntakeTypeOKHolds` (in `IngestBatchProofs.tla`) joins the types of both ends, for every
constant. `IngestTypes` has that the queue never holds more than `QueueMax` frames nor a
batch more than `BatchSize`; it needs `Books` for the counters. `EdgeGatewayTypes` has that
the lines of the file, the snapshot of a replay and the chunks read of it stay what they are
when the file is trimmed, torn or cleared.

The two liveness properties are model-checked only.

### Observed

Recorded in the model, and excused or bounded by its properties:

* `firmware/mqtt_client.py:220`: `_dispatch` skips two bytes of a packet from which
  `_read_packet` has already removed the length; a QoS 1 PUBLISH with a topic ends in an
  index error, which ends the loop until the watchdog resets it (`CommandArrives`).
* "Every produced reading is appended ... regardless of connectivity" (`docs/mqtt-protocol.md:174`)
  against `firmware/main.py:181`: a reading goes to flash only when the client is already
  disconnected. A publish that raises, or is not answered in time, loses it.
* A replay that breaks off on a connection that lives on is not resumed before the next
  connection. Trimming rewrites the file in place, and clearing it also drops the lines
  that could not be read.
* `set_interval` carries `interval_s` on the platform and `seconds` on the gateway.
* The overflow counter adds the running total at every milestone, so it overcounts.
  `record_rejected` is never called, so "unaccounted" is received minus persisted.
* The HTTP backfill posts a bare list, and its answer is ignored.

## 7. The parts

Twelve smaller models of parts of the system that share no state. `MCParts.tla` extends
them all, and a behaviour of the run `parts` is one of exactly one of them (`part`): the
state space is the sum of the twelve, and each is explored completely within its bounds.
The invariants of the other parts hold there in their initial states. They do not
terminate in general, but several stop at a bound, hence `CHECK_DEADLOCK FALSE`. They are
safety models: nothing is said of their progress.

| Module | State and actions | Property of run `parts` | What it says |
|---|---|---|---|
| `EdgeCommands` | `recent` is the registry, `open` the callbacks nested inside one another, `slot` the single pending effect | `EffectsAccounted` | an effect is applied once for each time the registry has forgotten it; an `executed` command had its effect, waits for it or lost it to a later effect, a failed ack or a reset |
| `Sessions` | denylists in Redis and in each worker; refresh, logout and check in one step per Redis call | `OneRotationPerStore`, `LoggedOutIsRefused` | in each store one request wins a refresh token; no access token passes a check after a logout that went to a store the check asks, which is the worker it runs in and, if it answers, Redis |
| `LoginLimiter` | counters in Redis and in each worker; counting and adding are two pipelines | `FailuresAreLimited` | Redis admits the limit and the logins that overlap or share a millisecond; each worker the limit, and again after a restart |
| `TankLookup` | positive and negative cache entries, readers, tanks and wiring that change | `FiledUnderItsTank` | a frame is filed under its sensor's tank unless something changed since the frame, or since the one that filled the entry |
| `QuotaDelivery` | the upload, its rows' dispatch tasks, what each employee was told | `DeliveryAccounted` | of an answered upload each code was told or refused by every gateway as often as configured, with a log row each; a code is told again only after a send without an answer |
| `StaleSweep` | what the sweep read, its pending writes, keys and alarms | `SweptAgrees` | after a sweep, status, key and alarm of each device that did not change meanwhile say whether it is silent |
| `UserDirectory` | the table, checked requests under way | `DirectoryRules` | a non-admin has a company unless two requests on one user overlapped; an active admin remains unless one was demoted, or while a request was under way its operator changed or its target became an admin |
| `ChannelConfig` | the stored configuration, the editors' masked copies, patches under way | `SecretsSurvive` | a secret keeps the last value given to it, however stale the copies sent back, unless patches overlapped |
| `TankHistory` | measurements, one export or consumption task at a time, stored days | `ExportComplete`, `StoredIsDrawn` | an export holds each row of (start, end] once and in order while rows arrive; what is stored for a day is the fuel drawn after its samples |
| `LevelFilter` | smoothing, anomaly window, shape and table; frames that are dropped after they were smoothed | `ReadingIsGrounded` | a fault is reported only for a frame that is out of range itself; any other level lies between levels measured since the smoothing was empty |
| `OrgRegistry` | companies, sites, stations, dispensers; checked creations under way | `KeysAreUnique`, in `WritesStayHome` | a name or serial has one row, deleted ones included; no operator writes another company's row (`RowsStayHome`) |
| `TankRegistry` | tanks, fuel types, gateways; checked writes under way | `FuelIsKnown`, in `WritesStayHome` | a tank's fuel type exists whatever interleaves; a rebinding touches tanks of its operator only (`BindingsStayHome`) |

The run `lookup_shared` checks `FiledUnderItsTank` with gateways that carry two sensors
and finds it **violated** with nothing changing: the entry of the gateway, filled by one
sensor's frame, answers for the other's.

The run `sessions_workers` checks `RevokedStaysRefused`, that with Redis back no access token
passes after its logout, and finds it **violated**: the Redis call of the logout fails, so
the token is on the denylist of the worker that served it, and the other worker accepts it.
"A revoked token is never silently re-accepted. Assumes a single-process deployment"
(`core/security.py:141-142`), but `docker-compose.yml:136` starts two. For the same reason
the limits of `LoginLimiter` do not add up: while Redis is away, an address has
`LOGIN_RATE_LIMIT_ATTEMPTS` failures in each worker.

The run `calibrated` checks `CalibratedIsConverted`, that with a usable calibration table a
frame that fails nowhere else becomes a reading, and finds it **violated** at the first
frame. `load_strapping` hands on points `{"height": ..., "volume": ...}`
(`ingestion/pipeline.py:166-170`); `interpolate_strapping` unpacks each as a pair
(`tank_geometry.py:84`), gets the two keys, and `float("height")` raises, which `process`
swallows (`pipeline.py:445`). `TablesAreNotReadHolds` proves that no table changes that. The
interpolation itself, which only unit tests reach, is left out.

### Bounds

Each part is the smallest instance in which its hazard can happen.

* `EdgeCommands`: the registry holds 2 of 6 command types, 4 deliveries, callbacks 2 deep,
  2 upsets: a command can be pushed out, come back, and meet a reset or a failed ack.
* `Sessions`: 2 workers, 2 requests, 2 token pairs, 2 upsets: a race, in one worker or in
  two, with Redis lost and back. `sessions_workers` needs 1 request, 1 pair and 1 upset.
* `LoginLimiter`: 2 workers, limit 2, 5 failures, 2 logins at once, 3 upsets.
* `TankLookup`: 2 sensors, 2 gateways and 1 reader; a reader's own steps are cut at each
  call to Redis, and changes happen between them.
* `QuotaDelivery`: 2 rows (one cancels the other), 2 gateways, 2 retries, 2 troubles.
* `StaleSweep`: 2 tanks, 1 link, 1 upset: a notification for one tank commits the other's
  writes. One sweep at a time is assumed, as for the command sweeper.
* `UserDirectory`: 2 users, 1 company, 2 requests; a move between two companies adds no
  case to the rules, which only ask for the presence of one. `ChannelConfig`: 2 editors,
  1 secret and 1 plain field, 2 values.
* `TankHistory`: 5 hours in days of 2, volumes 1 and 3, pages of 2, 1 day of look-back, 1
  late sample. `LevelFilter`: pressures that are below the atmosphere, plausible, at the
  top and impossible; tables that are usable and with a repeated height
  (`MCLevelFilter`); a window of 3. `calibrated` needs 2 pressures and a window of 2.
* `OrgRegistry`: 2 companies, 1 site, 2 stations, 1 dispenser, 2 keys, 2 creations at
  once. `TankRegistry`: 2 tanks, 2 companies, 1 fuel type, 1 gateway, 2 writes at once.

### Proofs

Every property of the run is a theorem.

`ReadingProofs`:

* `ReadingIsGroundedHolds`: for every probe, box and set of tables.
  `FilterInv` adds `EmaGrounded`: what the smoothing holds is plausible and lies between
  raw levels since it was last empty. A step of the smoothing ends between the sample and
  the value before it (`SmoothedBetween`), so a smoothed value over the range needs a
  sample over it.
* `TablesAreNotReadHolds`: no frame of a custom_strapping tank becomes a reading, for any
  tables with numbers of their points. `NotInterpolable` shows it of each table.
* `FiledUnderItsTankHolds`: for any sensors, gateways and readers. `LookupInv` says that
  what the caches hold, and what a reader has found, is right unless it is older than a
  change (`FreshEntries`, `FreshFrame`). Two hypotheses: no gateway is shared
  (`~SharedWiring`; the run `lookup_shared` refutes the rest), and no gateway has the
  identifier of a sensor, since both name entries `tank:neg:<lookup>` (`cache.py:25-26`).
* `SweptAgreesHolds`: for any tanks and links. `SweepInv` says of each device what
  the sweep's pending write will make of it, so the agreement already holds of the values
  after the writes; a notification that commits some of them early changes nothing.
* `ExportCompleteHolds`: for any page size and any late rows. `ExportInv` says that what an
  export has read is in order, holds the rows that were there when it began up to its cursor,
  and nothing outside the interval. A row that arrives late moves no row behind the cursor,
  since a page is asked for by time and not by offset.
* `StoredIsDrawnHolds`: for any volumes, days and window. The task adds up the drops of the
  series in one pass; the property asks for each day's samples on their own. `PassExists` and
  `DaySumExists` say that the two recursive functions are there, `SeriesIsDrawn` that they
  agree. `SeriesInv` says so of the series under way, unless a sample arrived meanwhile.

`RegistryProofs`:

* `FuelIsKnownHolds` and `BindingsStayHomeHolds`: for any number of
  tanks, companies, gateways and requests under way. A rebinding is checked on what it
  read and written later. `RebindingsAreHome` says that its tanks are still its
  operator's, because rows persist and a tank never changes company (`RowsPersist`).
* `KeysAreUniqueHolds`: for any tables and creations at once, given
  that no id is in two tables (`OrgRegistryAssumption`; `OneTable`). The check that comes
  before a creation plays no part in it: the unique constraint, evaluated with the write,
  carries the proof (`FreeKeyKept`), and deletion and restoration keep the key
  (`SameKeyKept`).
* `RowsStayHomeHolds`: the rows hang in a tree (`TreeInv`). Each row present fits its parent,
  a creation under way hangs below a row that is there, and deletion keeps the row, so no
  step moves what an operator was checked for. With the one above it gives
  `WritesStayHomeHolds`, of both registers (`Tenancy`).
* `SecretsSurviveHolds`: a patch under way was merged into the current configuration
  (`PatchIsCurrent`) unless patches overlapped.
* `DeliveryAccountedHolds`: for any rows, gateways and retries. `QuotaInv` has, per row,
  the refusals logged at each step of its task (`UnderWay`) and what it was told (`Told`).
  Gateways are tried in order, so a task knows them by their number.
* `PartsTypeOKHolds`: the types of the twelve parts, one lemma for each. Two need more than
  types: that a tank has at most one live alarm, and one more for each upset
  (`AlarmsAreFew`, for `StaleSweepTypes`), and that a command is in the registry of the
  firmware once (`EdgeCommandsTypes`).

`AccessProofs`:

* `OneRotationPerStoreHolds` and `LoggedOutIsRefusedHolds`: for any workers, requests, pairs
  and failures of Redis. `SessionsInv` adds two facts to the types: `WonIsDenied`, a token
  is rotated at most once in a store and is then denied there, and `LogoutIsHeld`, a logout
  is still recorded in the store it went to. A store forgets a denial only with its worker,
  whose logouts and claims then no longer count, which is what makes both inductive. That
  a check also refuses what went to another worker is false (`sessions_workers`).
* `FailuresAreLimitedHolds`: for any workers and any finite, non-empty set of logins at once. `LimiterInv`
  keeps books: the entries of the window, with the logins that it let through and that have
  not left theirs, are at most the limit and the other logins at once (`WindowInv`).
* `DirectoryRulesHolds`: for any users, companies and requests. `DirectoryInv` says what was
  checked of a request still holds of the table, or the request is marked. The proof
  found an exception that two users cannot show, and `unwatched` has since then: a company's
  administrator deactivates a user of the company who became a platform administrator, the
  last active one, after the request had read him.

`EdgeProofs`, `EffectsAccountedHolds`: for any commands, nesting and resets. `EffectInv` is a
count per command: effects applied, waiting in a callback or in the slot are at most the
times the registry forgot it, and one if it knows it (`EffectsFit`); and a command
acknowledged as executed has met its fate (`Met`).

### Observed

Each of these is in the model, and excused or bounded by its property:

* Commands: one effect slot, which a command handled inside the publish of another's ack
  overwrites although both were acknowledged; a repeated command is acknowledged
  `executed` also if it was rejected the first time.
* Sessions: the stores do not know of one another, so a token claimed in Redis or in one
  worker can be claimed again in the next while Redis is away. A restart of a worker erases
  what it recorded. The limiter counts in one pipeline and adds in
  another, with entries named by their millisecond.
* Lookup: the negative cache is keyed by the gateway too, so an unknown sensor behind a
  gateway hides a known one for its TTL.
* Quota sheets: `employee_id` is unique over all companies and looked up within one, so a
  row with another company's employee fails the whole upload. A failing log commit
  cancels the sibling deliveries; the upload's answer does not tell deliveries apart; with
  no gateway there is not even a log row. After a crash the plaintext codes are gone.
* Sweep: a notification's log row commits the sweep's session midway; a sweep that fails
  leaves keys set without alarms, or alarms without keys.
* Users: two PATCHes of one user each pass the check and may together leave a non-admin
  without a company; two administrators may deactivate one another; an administrator may
  demote himself.
* Channels: overlapping PATCHes write back stale secrets; a new secret sent masked or
  blank is stored as the mask.
* History: `/range` includes the row exactly at `start`, the export does not. A midnight
  between computing and storing makes a store meet its old row. A drop belongs to the day
  it starts in, which the last sentence of the docstring of `consumption.py` contradicts.
* Levels: the range test is on the smoothed value (`pipeline.py:326`), so an impossible
  level after low ones passes unflagged; a frame that fails is smoothed all the same, those
  of a custom_strapping tank always; the API takes tables with equal heights, and for tanks
  of any shape; outliers are marked, not dropped;
  a frame that is delivered again is smoothed again.
* Registers: the key of a deleted row passes the check and meets the unique column;
  deletion does not cascade, so a site can be created under a deleted company and the
  stations of a deleted site stay live. An administrator with a company is
  platform-wide for sites and tanks but not for gateways. A rebinding based on an old
  read may detach a tank that was moved meanwhile; a gateway with a deleted tank on it
  cannot be rebound.

## 8. Not modelled

Time is abstracted: a TTL may run out, a code may be expired, a device may fall silent at
any moment. So are hashing, signatures, the digits of codes, rounding to three decimals
and the contents of messages.

Left out, with the reason:

* Sensor and field-bus drivers, Wi-Fi: I/O with hardware, framing and unit conversion.
* The wire formats of SMPP, HTTP and SMTP: parsing of one message, without shared state.
* Realtime fan-out: a Redis subscription per websocket and a filter, no state of its own.
* Forecasts, reports, cylinders and spheres: real-valued formulas. The interpolation of
  calibration tables: no frame gets there (`calibrated`).
* System status, middleware, lists and audit rows: they read, or append, and decide nothing.
* Schema, retention, provisioning, seeds, deployment: run once, or configuration. The
  number of API workers is a constant, `ApiWorkers`.
* The front end: rendering; its silent refresh shares one promise.
* Overlapping sweeps of one task: Celery beat starts one at a time, which the models assume
  and name. `audit_totalizer`: nothing calls it.
