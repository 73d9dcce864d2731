----------------------------- MODULE StaleSweep -----------------------------
(***************************************************************************)
(* The sweep for silent devices: workers/tasks/telemetry.py, with the rule *)
(* dispatch it notifies through (services/notifications/rules.py), against *)
(* frames and heartbeats (ingestion/main.py).                              *)
(*                                                                         *)
(* A sweep reads the tanks and the clock once.  Its writes are pending in  *)
(* its session until it ends or until a notification's log row commits the *)
(* session; only attributes that differ from what was read are written.    *)
(* The open-alarm keys are in Redis and change at once.  A write that has  *)
(* been flushed locks its row, which a pending write abstracts.  Left out: *)
(* deleted tanks, and legacy rows with measurements but no last_connection *)
(***************************************************************************)
EXTENDS Integers, FiniteSets

CONSTANTS
  Tanks,
  Links,           \* IoT gateways and stations
  MaxSweepUpsets  \* bound: sweeps that fail, alarms resolved by hand

ASSUME StaleSweepAssumption == Tanks \cap Links = {} /\ MaxSweepUpsets \in Nat

VARIABLES
  heard,    \* last_connection, last_seen or last_heartbeat, against the cutoff
  status,   \* connection_status
  openKeys, \* tanks whose communication_lost key is set
  live,     \* live communication_lost alarms
  sweep,
  touched,  \* history: devices that changed since the sweep read them
  lost,     \* history: tanks whose key and alarms were set apart
  sweepUpsets

sweepVars == <<heard, status, openKeys, live, sweep, touched, lost, sweepUpsets>>

Devices == Tanks \cup Links
Idle == [at |-> "idle"]
Swept == [at |-> "swept"]
NoTanks == [backfill |-> {}, online |-> {}, offline |-> {}, raised |-> {}, resolved |-> {}]
Writes == [backfill : SUBSET Tanks, online : SUBSET Devices, offline : SUBSET Devices,
           raised : SUBSET Tanks, resolved : SUBSET Tanks]

StaleSweepTypeOK ==
  /\ heard \in [Devices -> {"never", "recent", "silent"}]
  /\ status \in [Devices -> {"online", "offline"}]
  /\ openKeys \subseteq Tanks
  /\ live \in [Tanks -> 0 .. MaxSweepUpsets + 1]
  /\ sweep \in {Idle, Swept} \cup
       [at : {"tanks", "notify", "commit"}, todo : SUBSET Tanks,
        heard : [Tanks -> {"recent", "silent"}], status : [Tanks -> {"online", "offline"}],
        pending : Writes]
  /\ touched \subseteq Devices /\ lost \subseteq Tanks
  /\ sweepUpsets \in 0 .. MaxSweepUpsets

StaleSweepInit ==
  /\ heard = [d \in Devices |-> "never"]
  /\ status = [d \in Devices |-> "offline"]
  /\ openKeys = {} /\ live = [t \in Tanks |-> 0]
  /\ sweep = Idle
  /\ touched = {} /\ lost = {} /\ sweepUpsets = 0

SweepUpset == sweepUpsets < MaxSweepUpsets /\ sweepUpsets' = sweepUpsets + 1
Running == sweep.at \in {"tanks", "notify", "commit"}
Touch(devices) == touched' = touched \cup devices

-----------------------------------------------------------------------------
(* Meanwhile *)

\* _process_reading; _handle_status, which reaches a tank and the links
Hear(devices) ==
  /\ heard' = [d \in Devices |-> IF d \in devices THEN "recent" ELSE heard[d]]
  /\ status' = [d \in Devices |-> IF d \in devices THEN "online" ELSE status[d]]
  /\ Touch(devices)
  /\ UNCHANGED <<openKeys, live, sweep, lost, sweepUpsets>>

FallSilent(d) ==
  /\ heard[d] = "recent" /\ heard' = [heard EXCEPT ![d] = "silent"]
  /\ Touch({d})
  /\ UNCHANGED <<status, openKeys, live, sweep, lost, sweepUpsets>>

(* resolve_alarm (api/v1/alarms.py) leaves the key *)
ResolveByHand(t) ==
  /\ SweepUpset
  /\ live[t] > 0 /\ live' = [live EXCEPT ![t] = @ - 1]
  /\ lost' = lost \cup {t}
  /\ Touch({t})
  /\ UNCHANGED <<heard, status, openKeys, sweep>>

-----------------------------------------------------------------------------
(* _sweep_async *)

\* What reaches the database.  With several alarms live, the newest is resolved.
Flush(w) ==
  /\ heard' = [d \in Devices |-> IF d \in w.backfill THEN "silent" ELSE heard[d]]
  /\ status' = [d \in Devices |-> IF d \in w.online THEN "online"
                                  ELSE IF d \in w.offline THEN "offline" ELSE status[d]]
  /\ live' = [t \in Tanks |-> (IF t \in w.resolved /\ live[t] > 0 THEN live[t] - 1 ELSE live[t])
                              + (IF t \in w.raised THEN 1 ELSE 0)]

(* A tank never heard, nor measured, is backfilled as silent. *)
StartSweep ==
  /\ ~Running
  /\ sweep' = [at |-> "tanks", todo |-> Tanks,
               heard |-> [t \in Tanks |-> IF heard[t] = "recent" THEN "recent" ELSE "silent"],
               status |-> [t \in Tanks |-> status[t]],
               pending |-> [NoTanks EXCEPT !.backfill = {t \in Tanks : heard[t] = "never"}]]
  /\ touched' = {}
  /\ UNCHANGED <<heard, status, openKeys, live, lost, sweepUpsets>>

(* A silent tank: _raise_or_clear raises unless the key says it has. *)
SweepSilent(t) ==
  /\ sweep.at = "tanks" /\ t \in sweep.todo /\ sweep.heard[t] = "silent"
  /\ LET raised == {t} \ openKeys IN
     /\ openKeys' = openKeys \cup raised
     /\ sweep' = [sweep EXCEPT
          !.at = IF raised = {} THEN "tanks" ELSE "notify",
          !.todo = @ \ {t},
          !.pending.offline = @ \cup {x \in {t} : sweep.status[x] # "offline"},
          !.pending.raised = @ \cup raised]
  /\ UNCHANGED <<heard, status, live, touched, lost, sweepUpsets>>

\* mutant: the key is dropped only together with a live alarm
Cleared_WithAlarm(t) == {x \in {t} : live[x] > 0}
Cleared(t) == {t}

(* A tank heard from: the key is dropped and its newest live alarm resolved. *)
SweepRecent(t) ==
  /\ sweep.at = "tanks" /\ t \in sweep.todo /\ sweep.heard[t] = "recent"
  /\ openKeys' = openKeys \ Cleared(t)
  /\ sweep' = [sweep EXCEPT
       !.todo = @ \ {t},
       !.pending.online = @ \cup {x \in {t} : sweep.status[x] # "online"},
       !.pending.resolved = @ \cup {x \in {t} \cap openKeys : live[x] > 0}]
  /\ UNCHANGED <<heard, status, live, touched, lost, sweepUpsets>>

(* dispatch_event: nothing without a matching rule with a gateway; else each *)
(* delivery's log row commits the sweep's session.                           *)
Notify ==
  /\ sweep.at = "notify"
  /\ \/ sweep' = [sweep EXCEPT !.at = "tanks"] /\ UNCHANGED <<heard, status, live>>
     \/ Flush(sweep.pending) /\ sweep' = [sweep EXCEPT !.at = "tanks", !.pending = NoTanks]
  /\ UNCHANGED <<openKeys, touched, lost, sweepUpsets>>

(* the gateways and stations, read now *)
SweepLinks ==
  /\ sweep.at = "tanks" /\ sweep.todo = {}
  /\ sweep' = [sweep EXCEPT
       !.at = "commit",
       !.pending.offline = @ \cup {l \in Links : heard[l] = "silent"},
       !.pending.online = @ \cup {l \in Links : heard[l] = "recent" /\ status[l] = "offline"}]
  /\ touched' = touched \ Links
  /\ UNCHANGED <<heard, status, openKeys, live, lost, sweepUpsets>>

EndSweep ==
  /\ sweep.at = "commit"
  /\ Flush(sweep.pending)
  /\ sweep' = Swept
  /\ UNCHANGED <<openKeys, touched, lost, sweepUpsets>>

(* A crash, a statement or the commit that fails (also after a notification, *)
(* whose exception is caught and whose session is not rolled back).          *)
SweepFails ==
  /\ SweepUpset
  /\ Running
  /\ sweep' = Idle
  /\ lost' = lost \cup sweep.pending.raised \cup sweep.pending.resolved
  /\ UNCHANGED <<heard, status, openKeys, live, touched>>

StaleSweepNext ==
  \/ \E t \in Tanks : \/ Hear({t}) \/ Hear({t} \cup Links) \/ ResolveByHand(t)
                      \/ SweepSilent(t) \/ SweepRecent(t)
  \/ \E d \in Devices : FallSilent(d)
  \/ StartSweep \/ Notify \/ SweepLinks \/ EndSweep \/ SweepFails

StaleSweepSpec == StaleSweepInit /\ [][StaleSweepNext]_sweepVars

-----------------------------------------------------------------------------
\* After a sweep, for each device that did not change since the sweep read it: its status
\* says whether it is silent; a tank's key is set exactly in silence, whatever happened
\* before ("still clear the key so the next outage fires", telemetry.py:120-121); and it
\* has one live alarm in silence and none otherwise, unless a failed sweep or an operator
\* has once set its key and its alarms apart.
SweptAgrees ==
  sweep = Swept =>
    /\ \A d \in Devices \ touched :
         heard[d] # "never" => (status[d] = "offline" <=> heard[d] = "silent")
    /\ \A t \in Tanks \ touched : t \in openKeys <=> heard[t] = "silent"
    /\ \A t \in Tanks \ (touched \cup lost) : live[t] = IF heard[t] = "silent" THEN 1 ELSE 0
=============================================================================
