---------------------------- MODULE TankRegistry ----------------------------
(***************************************************************************)
(* Tanks, the fuel types and gateways they refer to, and who may change    *)
(* them: api/v1/tanks.py, fuel_types.py and iot_gateways.py over           *)
(* core/tenancy.py.                                                        *)
(*                                                                         *)
(* A tank goes by its sensor serial, which is unique, and belongs to the   *)
(* company of its site for good.  A request that depends on what it read   *)
(* commits in a later step.  Dimensions, thresholds, the coefficients of a *)
(* fuel type and the name and is_active flag of a gateway are left out.    *)
(***************************************************************************)
EXTENDS Integers, FiniteSets

CONSTANTS
  Serial,      \* sensor serials
  Owners,      \* companies
  Fuels,       \* fuel types, each deleted at most once
  Radios,      \* gateways
  Nobody,      \* no company
  Unset,       \* a reference that is NULL
  MaxWrites    \* requests read and not committed

ASSUME TankRegistryAssumption ==
  Nobody \notin Owners /\ Unset \notin Fuels \cup Radios /\ MaxWrites \in Nat

VARIABLES
  tank,      \* rows, the deleted ones included
  fuel,      \* fuel types
  radio,     \* the operator company of a gateway, which may be nobody
  writing,   \* what requests are about to commit
  unpicked   \* history: an operator rebound another company's tank

assetVars == <<tank, fuel, radio, writing, unpicked>>

TankRow == [company : Owners, gateway : Radios \cup {Unset},
            fuel : Fuels \cup {Unset}, live : BOOLEAN]
Caller == [admin : BOOLEAN, company : Owners \cup {Nobody}]
\* Only an administrator may be without a company; one with a company was promoted.
Callers == {c \in Caller : c.admin \/ c.company # Nobody}
\* what an administrator does to a tank, an operator of its company does alike
CompanyUsers == {c \in Callers : ~c.admin}
NoRow == [live |-> "never created"]
NoRadio == [company |-> "unregistered"]

Pending ==
  [does : {"create tank"}, serial : Serial, row : TankRow]
    \cup [does : {"drop fuel"}, fuel : Fuels]
    \cup [does : {"rebind"}, radio : Radios, take : SUBSET Serial, had : SUBSET Serial,
          by : Callers]

TankRegistryTypeOK ==
  /\ tank \in [Serial -> TankRow \cup {NoRow}]
  /\ fuel \in [Fuels -> {"new", "listed", "deleted"}]
  /\ radio \in [Radios -> Owners \cup {Nobody, NoRadio}]
  /\ writing \subseteq Pending /\ Cardinality(writing) <= MaxWrites
  /\ unpicked \in BOOLEAN

TankRegistryInit ==
  /\ tank = [t \in Serial |-> NoRow]
  /\ fuel = [f \in Fuels |-> "new"]
  /\ radio = [g \in Radios |-> NoRadio]
  /\ writing = {} /\ unpicked = FALSE

-----------------------------------------------------------------------------
Stored(t) == tank[t] # NoRow
InUse(t) == Stored(t) /\ tank[t].live
On(g) == {t \in Serial : Stored(t) /\ tank[t].gateway = g}

Later(write) ==
  /\ Cardinality(writing) < MaxWrites
  /\ writing' = writing \cup {write}
  /\ UNCHANGED <<tank, fuel, radio, unpicked>>

(* tanks.py: the administrator with a company is not held to it *)
Sees(by, company) == by.admin \/ by.company = company

CreateTank(by, t, company, f) ==
  /\ Sees(by, company) /\ ~InUse(t)
  /\ Later([does |-> "create tank", serial |-> t,
            row |-> [company |-> company, gateway |-> Unset, fuel |-> f, live |-> TRUE]])

Rewrite(t, row) ==
  /\ tank' = [tank EXCEPT ![t] = row]
  /\ UNCHANGED <<fuel, radio, writing, unpicked>>

UpdateTank(by, t, f) ==
  /\ InUse(t) /\ Sees(by, tank[t].company)
  /\ f # Unset => fuel[f] = "listed"
  /\ Rewrite(t, [tank[t] EXCEPT !.fuel = f])

DeleteTank(by, t) ==
  /\ InUse(t) /\ Sees(by, tank[t].company)
  /\ Rewrite(t, [tank[t] EXCEPT !.live = FALSE])

RestoreTank(by, t) ==
  /\ Stored(t) /\ Sees(by, tank[t].company)
  /\ Rewrite(t, [tank[t] EXCEPT !.live = TRUE])

(* fuel_types.py *)
CreateFuelType(f) ==
  /\ fuel[f] = "new"
  /\ fuel' = [fuel EXCEPT ![f] = "listed"]
  /\ UNCHANGED <<tank, radio, writing, unpicked>>

\* AdminUser; counts deleted tanks too
DeleteFuelType(f) ==
  /\ fuel[f] = "listed" /\ \A t \in Serial : Stored(t) => tank[t].fuel # f
  /\ Later([does |-> "drop fuel", fuel |-> f])

(* iot_gateways.py: AdminUser *)
Platformwide(by) == by.admin /\ by.company = Nobody

CreateGateway(g, company) ==
  /\ radio[g] = NoRadio
  /\ radio' = [radio EXCEPT ![g] = company]
  /\ UNCHANGED <<tank, fuel, writing, unpicked>>

Visible(by, g) ==
  \/ Platformwide(by)
  \/ radio[g] = by.company
  \/ \E t \in On(g) : tank[t].company = by.company

_require_mutable_tank(by, t) == InUse(t) /\ (~Platformwide(by) => tank[t].company = by.company)

\* mutant: what is detached is not looked at (finding L4)
Rebindable_Requested(by, g, take) == \A t \in take : _require_mutable_tank(by, t)
Rebindable(by, g, take) == \A t \in take \cup On(g) : _require_mutable_tank(by, t)

UpdateGateway(by, g, take) ==
  /\ by.admin /\ radio[g] # NoRadio /\ Visible(by, g) /\ Rebindable(by, g, take)
  /\ Later([does |-> "rebind", radio |-> g, take |-> take, had |-> On(g), by |-> by])

-----------------------------------------------------------------------------
(* commits *)

\* mutant: the reference is not declared
Referenced_Never(f) == FALSE
\* the foreign key of tanks
Referenced(f) == \E t \in Serial : Stored(t) /\ tank[t].fuel = f

CommitTank(w) ==
  /\ w.does = "create tank"
  /\ tank' = IF Stored(w.serial) \/ fuel[w.row.fuel] # "listed" THEN tank
             ELSE [tank EXCEPT ![w.serial] = w.row]
  /\ UNCHANGED <<fuel, unpicked>>

CommitFuelType(w) ==
  /\ w.does = "drop fuel"
  /\ fuel' = IF Referenced(w.fuel) THEN fuel ELSE [fuel EXCEPT ![w.fuel] = "deleted"]
  /\ UNCHANGED <<tank, unpicked>>

\* Each look at a tank flushes the detachments before it, so the tanks that stay are
\* written again; only the last one looked at is not, if it stays.
CommitGateway(w) ==
  /\ w.does = "rebind"
  /\ \E last \in IF w.had = {} THEN {Unset} ELSE w.had :
       tank' = [t \in Serial |->
         IF t \in w.take /\ t # last THEN [tank[t] EXCEPT !.gateway = w.radio]
         ELSE IF t \in w.had \ w.take THEN [tank[t] EXCEPT !.gateway = Unset]
         ELSE tank[t]]
  /\ unpicked' = (unpicked \/ \E t \in w.take \cup w.had :
                     ~Platformwide(w.by) /\ tank[t].company # w.by.company)
  /\ UNCHANGED fuel

CommitWrite(w) ==
  /\ writing' = writing \ {w}
  /\ CommitTank(w) \/ CommitFuelType(w) \/ CommitGateway(w)
  /\ UNCHANGED radio

TankRegistryNext ==
  \/ \E f \in Fuels : CreateFuelType(f) \/ DeleteFuelType(f)
  \/ \E g \in Radios, company \in Owners \cup {Nobody} : CreateGateway(g, company)
  \/ \E by \in CompanyUsers :
       \/ \E t \in Serial, company \in Owners, f \in Fuels : CreateTank(by, t, company, f)
       \/ \E t \in Serial : DeleteTank(by, t) \/ RestoreTank(by, t)
       \/ \E t \in Serial, f \in Fuels \cup {Unset} : UpdateTank(by, t, f)
  \/ \E by \in Callers, g \in Radios, take \in SUBSET Serial : UpdateGateway(by, g, take)
  \/ \E w \in writing : CommitWrite(w)

TankRegistrySpec == TankRegistryInit /\ [][TankRegistryNext]_assetVars

-----------------------------------------------------------------------------
\* A tank's fuel type exists, also when the type was deleted, "refusing while tanks still
\* reference it" (fuel_types.py:85), between a tank's creation and its commit, and also for
\* a deleted tank, which may be restored.
FuelIsKnown ==
  \A t \in Serial : Stored(t) => tank[t].fuel = Unset \/ fuel[tank[t].fuel] = "listed"

\* "Detaching only ever touches tanks the caller owns" (iot_gateways.py:172), although a
\* gateway is visible to every company that has a tank on it.
BindingsStayHome == ~unpicked
=============================================================================
