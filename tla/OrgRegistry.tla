---------------------------- MODULE OrgRegistry ----------------------------
(***************************************************************************)
(* Companies, their sites, stations and dispensers: api/v1/companies.py,   *)
(* sites.py and stations.py over models/station.py.  Rows are deleted by a *)
(* mark (SoftDeleteMixin) and restored; a dispenser is only switched off.  *)
(*                                                                         *)
(* A creation checks in one step and commits in another.  The other        *)
(* requests are one step: a row never moves to another company, and        *)
(* requests that overlap on one row leave it as if they came one by one.   *)
(***************************************************************************)
EXTENDS Integers, FiniteSets

CONSTANTS
  Firms, Sites, Stations, Dispensers,   \* identities of rows
  Tags,                                 \* names of companies, serial numbers
  Platform,                             \* an operator with role admin
  MaxCreations                          \* creations under way at once

ASSUME OrgRegistryAssumption ==
  /\ Platform \notin Firms /\ MaxCreations \in Nat
  /\ Firms \cap (Sites \cup Stations \cup Dispensers) = {}
  /\ Sites \cap (Stations \cup Dispensers) = {} /\ Stations \cap Dispensers = {}

VARIABLES
  org,       \* the four tables
  creating,  \* rows checked and not committed
  strayed    \* history: an operator wrote a row of another company

orgVars == <<org, creating, strayed>>

Orgs == Firms \cup Sites \cup Stations \cup Dispensers
Operators == Firms \cup {Platform}      \* a company_admin goes by his company
NoOrg == [live |-> "never created"]
Unkeyed == [key |-> "none"]             \* site names may repeat
Top == [parent |-> "none"]

OrgRow == [key : Tags \cup {Unkeyed}, parent : Orgs \cup {Top}, live : BOOLEAN]

OrgRegistryTypeOK ==
  /\ org \in [Orgs -> OrgRow \cup {NoOrg}]
  /\ creating \subseteq [id : Orgs, row : OrgRow, by : Operators]
  /\ Cardinality(creating) <= MaxCreations
  /\ strayed \in BOOLEAN

OrgRegistryInit ==
  org = [o \in Orgs |-> NoOrg] /\ creating = {} /\ strayed = FALSE

-----------------------------------------------------------------------------
Present(o) == org[o] # NoOrg
Live(o) == Present(o) /\ org[o].live

\* the rows of the table o is in
Table(o) == CHOOSE t \in {Firms, Sites, Stations, Dispensers} : o \in t

\* dispenser, station, site, company
Up(o) == IF o \in Firms THEN o ELSE org[o].parent
Home(o) == Up(Up(Up(o)))

Operator(by) == by # Platform => Present(by)
Owns(by, o) == by # Platform => Home(o) = by

\* the _get_scoped of each router
Reachable(by, o) == Operator(by) /\ Live(o) /\ Owns(by, o)

Heard(o, key) == \E p \in Table(o) : Present(p) /\ org[p].key = key
HeardLive(o, key) == \E p \in Table(o) : Live(p) /\ org[p].key = key

\* of the row as written
Wrote(by, o) == strayed' = (strayed \/ ~Owns(by, o)')

(* creations: what they check, and the row that waits for its commit *)
Check(by, o, key, parent) ==
  /\ Operator(by)
  /\ ~Present(o) /\ \A c \in creating : c.id # o
  /\ Cardinality(creating) < MaxCreations
  /\ creating' = creating \cup
       {[id |-> o, row |-> [key |-> key, parent |-> parent, live |-> TRUE], by |-> by]}
  /\ UNCHANGED <<org, strayed>>

CreateCompany(by, o, key) ==
  by = Platform /\ ~HeardLive(o, key) /\ Check(by, o, key, Top)

\* The company may be deleted; one that never was meets the foreign key.
CreateSite(by, o, parent) ==
  (by = Platform \/ parent = by) /\ Check(by, o, Unkeyed, parent)

CreateStation(by, o, parent, key) ==
  Reachable(by, parent) /\ ~HeardLive(o, key) /\ Check(by, o, key, parent)

CreateDispenser(by, o, parent, key) ==
  Reachable(by, parent) /\ ~Heard(o, key) /\ Check(by, o, key, parent)

\* mutant: the index covers live rows only
Taken_Live(o, key) == key # Unkeyed /\ \E p \in Table(o) \ {o} : Live(p) /\ org[p].key = key
\* the unique columns, deleted rows included
Taken(o, key) == key # Unkeyed /\ \E p \in Table(o) \ {o} : Present(p) /\ org[p].key = key

CommitCreation(c) ==
  /\ creating' = creating \ {c}
  /\ IF Taken(c.id, c.row.key) \/ (c.row.parent # Top /\ ~Present(c.row.parent))
     THEN UNCHANGED <<org, strayed>>
     ELSE /\ org' = [org EXCEPT ![c.id] = c.row]
          /\ Wrote(c.by, c.id)

-----------------------------------------------------------------------------
Write(by, o, row) ==
  /\ org' = [org EXCEPT ![o] = row]
  /\ Wrote(by, o)
  /\ UNCHANGED creating

\* update_company renames without a check; serial numbers do not change
Rename(by, o, key) ==
  /\ o \in Firms /\ Reachable(by, o) /\ ~Taken(o, key)
  /\ Write(by, o, [org[o] EXCEPT !.key = key])

\* update_dispenser and delete_dispenser: on a live station
SwitchDispenser(by, o, on) ==
  /\ o \in Dispensers /\ Present(o) /\ Reachable(by, org[o].parent)
  /\ Write(by, o, [org[o] EXCEPT !.live = on])

SoftDelete(by, o) == Write(by, o, [org[o] EXCEPT !.live = FALSE])

\* AdminUser
DeleteCompany(by, o) == by = Platform /\ o \in Firms /\ Live(o) /\ SoftDelete(by, o)
DeleteSite(by, o) == o \in Sites /\ Reachable(by, o) /\ SoftDelete(by, o)
DeleteStation(by, o) == o \in Stations /\ Reachable(by, o) /\ SoftDelete(by, o)

\* mutant: a deleted row is looked up without its company
MayRestore_Unscoped(by, o) == Operator(by)
MayRestore(by, o) == Operator(by) /\ Owns(by, o)

Undelete(by, o) == Present(o) /\ Write(by, o, [org[o] EXCEPT !.live = TRUE])

\* AdminUser
RestoreCompany(by, o) == by = Platform /\ o \in Firms /\ Undelete(by, o)
RestoreSite(by, o) == o \in Sites /\ Present(o) /\ MayRestore(by, o) /\ Undelete(by, o)
RestoreStation(by, o) == o \in Stations /\ Present(o) /\ MayRestore(by, o) /\ Undelete(by, o)

OrgRegistryNext ==
  \/ \E by \in Operators, key \in Tags :
       \/ \E o \in Firms : CreateCompany(by, o, key) \/ Rename(by, o, key)
       \/ \E o \in Stations, s \in Sites : CreateStation(by, o, s, key)
       \/ \E o \in Dispensers, s \in Stations : CreateDispenser(by, o, s, key)
  \/ \E by \in Operators, o \in Sites, c \in Firms : CreateSite(by, o, c)
  \/ \E c \in creating : CommitCreation(c)
  \/ \E by \in Operators, o \in Orgs :
       \/ DeleteCompany(by, o) \/ DeleteSite(by, o) \/ DeleteStation(by, o)
       \/ RestoreCompany(by, o) \/ RestoreSite(by, o) \/ RestoreStation(by, o)
       \/ \E on \in BOOLEAN : SwitchDispenser(by, o, on)

OrgRegistrySpec == OrgRegistryInit /\ [][OrgRegistryNext]_orgVars

-----------------------------------------------------------------------------
\* A company name, station serial or dispenser serial belongs to one row, deleted ones
\* included: "scalar_one_or_none" (stations.py:82) fails on two, and a restored row would
\* meet its successor, which create_station lets take the serial of a deleted one.
KeysAreUnique ==
  \A o \in Orgs : \A p \in Table(o) \ {o} :
    Present(o) /\ Present(p) => org[o].key = Unkeyed \/ org[o].key # org[p].key

\* No operator of a company writes another company's rows, whatever was deleted or
\* restored above them (_get_scoped, stations.py:24; restore_station, :130).
RowsStayHome == ~strayed
=============================================================================
