----------------------------- MODULE TankLookup -----------------------------
(***************************************************************************)
(* Which tank a reading is filed under: _process_reading                   *)
(* (ingestion/main.py) with the positive and negative cache entries of     *)
(* ingestion/cache.py, while tanks are registered and gateways re-wired.   *)
(*                                                                         *)
(* A tank has one sensor, whose serial never changes, so that the tank is  *)
(* named by its serial.  Nothing drops a cache entry but its TTL.  Left    *)
(* out: the tanks a batch keeps to itself, and the legacy tank_id.         *)
(***************************************************************************)
EXTENDS Integers, FiniteSets

CONSTANTS
  Serials, Gateways,
  NoGateway,     \* of a legacy frame; of a tank without gateway_mac
  NoTank,
  Readers,       \* batch flusher and HTTP requests that resolve a frame
  SharedWiring   \* whether a gateway may carry several sensors

ASSUME TankLookupAssumption ==
  /\ NoTank \notin Serials /\ NoGateway \notin Gateways
  /\ SharedWiring \in BOOLEAN

VARIABLES
  tankMac,    \* gateway_mac of the registered tanks
  wiring,     \* the sensors at each gateway, which the platform does not see
  byMac,      \* tank:by:gateway
  bySerial,   \* tank:by:serial
  negative,   \* tank:neg
  reader,     \* what each reader does
  misfiled    \* history: frames filed wrongly although nothing had changed

lookupVars == <<tankMac, wiring, byMac, bySerial, negative, reader, misfiled>>

Keys == Gateways \cup Serials
\* A frame is fresh until something changes; so is an entry a fresh frame filled.
Age == {"fresh", "stale"}
None == [tank |-> NoTank, age |-> "none"]
Entry == [tank : Serials, age : Age]
Frame == [mac : Gateways \cup {NoGateway}, serial : Serials, age : Age]
NoReading == [at |-> "idle"]

TankLookupTypeOK ==
  /\ tankMac \in [Serials -> Gateways \cup {NoGateway, NoTank}]
  /\ wiring \in [Gateways -> SUBSET Serials]
  /\ byMac \in [Gateways -> Entry \cup {None}] /\ bySerial \in [Serials -> Entry \cup {None}]
  /\ negative \in [Keys -> Age \cup {"none"}]
  /\ reader \in [Readers -> {NoReading} \cup
       [at : {"resolve", "negative", "query"}, frame : Frame] \cup
       [at : {"store"}, frame : Frame, found : Serials \cup {NoTank}]]
  /\ misfiled \in BOOLEAN

TankLookupInit ==
  /\ tankMac = [s \in Serials |-> NoTank]
  /\ wiring = [g \in Gateways |-> {}]
  /\ byMac = [g \in Gateways |-> None] /\ bySerial = [s \in Serials |-> None]
  /\ negative = [k \in Keys |-> "none"]
  /\ reader = [r \in Readers |-> NoReading]
  /\ misfiled = FALSE

Registered(s) == tankMac[s] # NoTank
At(r, step) == reader[r].at = step
Keyed(f) == {f.mac, f.serial} \ {NoGateway}

-----------------------------------------------------------------------------
(* Filing a frame.  It is wrong when the tank is not the one of the frame's *)
(* sensor, and excused when anything changed since it, or the frame that   *)
(* filled the entry, was sent.                                             *)
File(f, tank, age) ==
  misfiled' = (misfiled \/ ( /\ Registered(f.serial) /\ tank # f.serial
                             /\ f.age = "fresh" /\ age = "fresh" ))

(* _handle_reading: a frame with the gateway of its topic, or without      *)
Arrive(r, g, s) ==
  /\ At(r, "idle")
  /\ g \in Gateways => s \in wiring[g]
  /\ reader' = [reader EXCEPT ![r] =
       [at |-> "resolve", frame |-> [mac |-> g, serial |-> s, age |-> "fresh"]]]
  /\ UNCHANGED <<tankMac, wiring, byMac, bySerial, negative, misfiled>>

\* the entry resolve_tank_id reads: the gateway's before the sensor's
Cached(f) == IF f.mac # NoGateway THEN byMac[f.mac] ELSE bySerial[f.serial]
Lookup(f) == IF f.mac # NoGateway THEN f.mac ELSE f.serial

\* mutant: a hit renews the entry
Renewed_OnHit(f, m) ==
  [g \in Gateways |-> IF g = f.mac THEN [m[g] EXCEPT !.age = "fresh"] ELSE m[g]]
Renewed(f, m) == m

Resolve(r) ==
  LET f == reader[r].frame IN
  /\ At(r, "resolve")
  /\ \/ /\ negative[Lookup(f)] = "none" /\ Cached(f) # None
        /\ File(f, Cached(f).tank, Cached(f).age)
        /\ byMac' = Renewed(f, byMac)
        /\ reader' = [reader EXCEPT ![r] = NoReading]
     \/ /\ negative[Lookup(f)] # "none" \/ Cached(f) = None
        /\ reader' = [reader EXCEPT ![r].at = "negative"]
        /\ UNCHANGED <<misfiled, byMac>>
  /\ UNCHANGED <<tankMac, wiring, bySerial, negative>>

(* a known-unknown device: the frame is dropped *)
CheckNegative(r) ==
  LET f == reader[r].frame
      hits == {k \in Keyed(f) : negative[k] # "none"}
  IN
  /\ At(r, "negative")
  /\ \/ \E k \in hits :
          /\ File(f, NoTank, negative[k])
          /\ reader' = [reader EXCEPT ![r] = NoReading]
     \/ hits = {} /\ reader' = [reader EXCEPT ![r].at = "query"] /\ UNCHANGED misfiled
  /\ UNCHANGED <<tankMac, wiring, byMac, bySerial, negative>>

(* by serial, then by gateway; two tanks with that gateway_mac raise *)
QueryTank(r) ==
  LET f == reader[r].frame
      ofMac == {s \in Serials : Registered(s) /\ f.mac # NoGateway /\ tankMac[s] = f.mac}
      Found(s) == [reader EXCEPT ![r] =
                     [at |-> "store", frame |-> f, found |-> s]]
  IN
  /\ At(r, "query")
  /\ \/ Registered(f.serial) /\ reader' = Found(f.serial)
     \/ ~Registered(f.serial) /\ \E s \in ofMac : ofMac = {s} /\ reader' = Found(s)
     \/ ~Registered(f.serial) /\ ofMac = {} /\ reader' = Found(NoTank)
     \/ /\ ~Registered(f.serial) /\ Cardinality(ofMac) > 1
        /\ reader' = [reader EXCEPT ![r] = NoReading]
  /\ UNCHANGED <<tankMac, wiring, byMac, bySerial, negative, misfiled>>

(* set_tank_cache and set_negative_cache *)
StoreEntry(r) ==
  LET f == reader[r].frame
      found == reader[r].found
      entry == [tank |-> found, age |-> f.age]
  IN
  /\ At(r, "store")
  /\ IF found = NoTank
       THEN /\ negative' = [k \in Keys |-> IF k \in Keyed(f) THEN f.age ELSE negative[k]]
            /\ UNCHANGED <<byMac, bySerial>>
       ELSE /\ byMac' = [g \in Gateways |-> IF g = f.mac THEN entry ELSE byMac[g]]
            /\ bySerial' = [bySerial EXCEPT ![f.serial] = entry]
            /\ UNCHANGED negative
  /\ File(f, found, f.age)
  /\ reader' = [reader EXCEPT ![r] = NoReading]
  /\ UNCHANGED <<tankMac, wiring>>

(* TANK_CACHE_TTL, TANK_NEG_TTL *)
ExpireEntry ==
  /\ \/ \E g \in Gateways : byMac[g] # None /\ byMac' = [byMac EXCEPT ![g] = None]
                            /\ UNCHANGED <<bySerial, negative>>
     \/ \E s \in Serials : bySerial[s] # None /\ bySerial' = [bySerial EXCEPT ![s] = None]
                           /\ UNCHANGED <<byMac, negative>>
     \/ \E k \in Keys : negative[k] # "none" /\ negative' = [negative EXCEPT ![k] = "none"]
                        /\ UNCHANGED <<byMac, bySerial>>
  /\ UNCHANGED <<tankMac, wiring, reader, misfiled>>

-----------------------------------------------------------------------------
(* What changes meanwhile *)

Older(e) == IF e.age = "none" THEN e ELSE [e EXCEPT !.age = "stale"]
Change ==
  /\ byMac' = [g \in Gateways |-> Older(byMac[g])]
  /\ bySerial' = [s \in Serials |-> Older(bySerial[s])]
  /\ negative' = [k \in Keys |-> IF negative[k] = "none" THEN "none" ELSE "stale"]
  /\ reader' = [r \in Readers |-> IF At(r, "idle") THEN NoReading
                                  ELSE [reader[r] EXCEPT !.frame = Older(@)]]

(* create_tank; a later PATCH moves the tank to another gateway_mac *)
EditTank(s, g) ==
  /\ Change
  /\ tankMac[s] # g /\ tankMac' = [tankMac EXCEPT ![s] = g]
  /\ UNCHANGED <<wiring, misfiled>>

(* A technician plugs a sensor in at a gateway, which it takes over unless *)
(* gateways are shared.                                                    *)
Rewire(s, g) ==
  /\ Change
  /\ s \notin wiring[g]
  /\ wiring' = [h \in Gateways |->
       IF h = g THEN {s} \cup (IF SharedWiring THEN wiring[g] ELSE {}) ELSE wiring[h] \ {s}]
  /\ UNCHANGED <<tankMac, misfiled>>

TankLookupNext ==
  \/ \E r \in Readers :
       \/ \E g \in Gateways \cup {NoGateway}, s \in Serials : Arrive(r, g, s)
       \/ Resolve(r) \/ CheckNegative(r) \/ QueryTank(r) \/ StoreEntry(r)
  \/ ExpireEntry
  \/ \E s \in Serials, g \in Gateways \cup {NoGateway} : EditTank(s, g)
  \/ \E s \in Serials, g \in Gateways : Rewire(s, g)

TankLookupSpec == TankLookupInit /\ [][TankLookupNext]_lookupVars

-----------------------------------------------------------------------------
\* A frame of a registered sensor is filed under that sensor's tank, and not dropped,
\* unless a tank or the wiring changed since it, or the frame that filled the entry used,
\* was sent: a stale entry lasts for one TTL and no hit prolongs it (cache.py:12-13).
FiledUnderItsTank == ~misfiled
=============================================================================
