--------------------------- MODULE RegistryProofs ----------------------------
(***************************************************************************)
(* Theorems about what the API keeps in its tables: OrgRegistry,           *)
(* TankRegistry, ChannelConfig and QuotaDelivery, for any number of rows,  *)
(* requests and notifications under way; last, about the types of all the  *)
(* parts that MCParts puts side by side.                                   *)
(***************************************************************************)
EXTENDS MCParts, AccessProofs, ReadingProofs, EdgeProofs

(***************************************************************************)
(* OrgRegistry: companies, sites, stations and dispensers.                 *)
(***************************************************************************)

\* What the variables of OrgRegistry hold.
OrgTables ==
  /\ org \in [Orgs -> OrgRow \cup {NoOrg}]
  /\ creating \subseteq [id : Orgs, row : OrgRow, by : Operators]

\* What is proved to be inductive of OrgRegistry.
OrgInv == OrgTables /\ KeysAreUnique

\* No other row of the table has the key.
FreeFor(o, key) ==
  key = Unkeyed \/ \A p \in Table(o) \ {o} : Present(p) => org[p].key # key

-----------------------------------------------------------------------------
\* A row is in one table, which all rows of that table are in.
LEMMA OneTable ==
  ASSUME NEW o \in Orgs
  PROVE  \A p \in Table(o) : p \in Orgs /\ o \in Table(p)
<1> DEFINE All == {Firms, Sites, Stations, Dispensers}
<1>1. \E t \in All : o \in t
  BY DEF Orgs
<1>2. Table(o) \in All /\ o \in Table(o)
  BY <1>1 DEF Table
<1>3. ASSUME NEW p \in Table(o) PROVE p \in Orgs /\ Table(p) = Table(o)
  <2>1. p \in Orgs
    BY <1>2, <1>3 DEF Orgs
  <2>2. \A s, t \in All : p \in s /\ p \in t => s = t
    BY OrgRegistryAssumption DEF OrgRegistryAssumption
  <2>3. Table(p) \in All /\ p \in Table(p)
    BY <1>2, <1>3 DEF Table
  <2> QED
    BY <1>2, <1>3, <2>1, <2>2, <2>3
<1> QED
  BY <1>2, <1>3

\* A row whose key no other row has may be written.
LEMMA FreeKeyKept ==
  ASSUME OrgTables, KeysAreUnique, NEW o \in Orgs, NEW row \in OrgRow,
         org' = [org EXCEPT ![o] = row], FreeFor(o, row.key)
  PROVE  /\ org' \in [Orgs -> OrgRow \cup {NoOrg}]
         /\ KeysAreUnique'
<1>1. org' \in [Orgs -> OrgRow \cup {NoOrg}] /\ org'[o] = row
  BY DEF OrgTables
<1>2. \A p \in Orgs \ {o} : org'[p] = org[p]
  BY DEF OrgTables
<1>3. ASSUME NEW a \in Orgs, NEW b \in Table(a) \ {a}, org'[a] # NoOrg, org'[b] # NoOrg
      PROVE  org'[a].key = Unkeyed \/ org'[a].key # org'[b].key
  <2>1. b \in Orgs /\ a \in Table(b)
    BY OneTable
  <2>2. CASE a = o
    BY <1>1, <1>2, <1>3, <2>1, <2>2 DEF FreeFor, Present
  <2>3. CASE b = o
    <3>1. org'[a] = org[a] /\ a \in Table(o) \ {o}
      BY <1>2, <2>1, <2>3
    <3> QED
      BY <1>1, <1>3, <2>3, <3>1 DEF FreeFor, Present
  <2>4. CASE a # o /\ b # o
    BY <1>2, <1>3, <2>1, <2>4 DEF KeysAreUnique, Present
  <2> QED
    BY <2>2, <2>3, <2>4
<1> QED
  BY <1>1, <1>3 DEF KeysAreUnique, Present

\* A write that keeps the key of a row keeps all keys apart.
LEMMA SameKeyKept ==
  ASSUME OrgInv, NEW o \in Orgs, Present(o), NEW row \in OrgRow,
         row.key = org[o].key, NEW by, Write(by, o, row)
  PROVE  OrgInv'
<1>1. OrgTables /\ KeysAreUnique /\ org' = [org EXCEPT ![o] = row] /\ creating' = creating
  BY DEF OrgInv, Write
<1>2. \A p \in Table(o) \ {o} : p \in Orgs
  BY OneTable
<1>3. FreeFor(o, row.key)
  BY <1>1, <1>2 DEF FreeFor, KeysAreUnique
<1>4. org' \in [Orgs -> OrgRow \cup {NoOrg}] /\ KeysAreUnique'
  BY <1>1, <1>3, FreeKeyKept
<1> QED
  BY <1>1, <1>4 DEF OrgInv, OrgTables

\* Marking a row deleted, or live again, keeps all keys apart.
LEMMA MarkKept ==
  ASSUME OrgInv, NEW o \in Orgs, Present(o), NEW on \in BOOLEAN, NEW by,
         Write(by, o, [org[o] EXCEPT !.live = on])
  PROVE  OrgInv'
<1>1. org[o] \in OrgRow
  BY DEF OrgInv, OrgTables, Present
<1>2. /\ [org[o] EXCEPT !.live = on] \in OrgRow
      /\ [org[o] EXCEPT !.live = on].key = org[o].key
  BY <1>1 DEF OrgRow
<1> QED
  BY <1>2, SameKeyKept

\* A creation that was checked waits, and touches no table.
LEMMA CheckKeeps ==
  ASSUME OrgInv, NEW by \in Operators, NEW o \in Orgs, NEW key \in Tags \cup {Unkeyed},
         NEW parent \in Orgs \cup {Top}, Check(by, o, key, parent)
  PROVE  OrgInv'
<1> DEFINE c == [id |-> o, row |-> [key |-> key, parent |-> parent, live |-> TRUE], by |-> by]
<1>1. c \in [id : Orgs, row : OrgRow, by : Operators]
  BY DEF OrgRow
<1>2. org' = org /\ creating' = creating \cup {c}
  BY DEF Check
<1> QED
  BY <1>1, <1>2 DEF OrgInv, OrgTables, KeysAreUnique, Present

-----------------------------------------------------------------------------
\* However creations overlap, the unique columns keep the keys of a table apart.
THEOREM OrgInvHolds == OrgRegistrySpec => []OrgInv
<1>1. OrgRegistryInit => OrgInv
  BY DEF OrgRegistryInit, OrgInv, OrgTables, KeysAreUnique, Present
<1>2. OrgInv /\ [OrgRegistryNext]_orgVars => OrgInv'
  <2> SUFFICES ASSUME OrgInv, [OrgRegistryNext]_orgVars PROVE OrgInv'
    OBVIOUS
  <2>1. ASSUME NEW by \in Operators, NEW key \in Tags, NEW o \in Firms, CreateCompany(by, o, key)
        PROVE  OrgInv'
    BY <2>1, CheckKeeps DEF CreateCompany, Orgs
  <2>2. ASSUME NEW by \in Operators, NEW key \in Tags, NEW o \in Firms, Rename(by, o, key)
        PROVE  OrgInv'
    <3>1. /\ o \in Orgs /\ OrgTables /\ KeysAreUnique /\ Present(o) /\ ~Taken(o, key)
          /\ org' = [org EXCEPT ![o] = [org[o] EXCEPT !.key = key]] /\ creating' = creating
      BY <2>2 DEF Rename, Write, Reachable, Live, OrgInv, Orgs
    <3>2. org[o] \in OrgRow
      BY <3>1 DEF OrgTables, Present
    <3>3. [org[o] EXCEPT !.key = key] \in OrgRow /\ [org[o] EXCEPT !.key = key].key = key
      BY <3>2 DEF OrgRow
    <3>4. FreeFor(o, key)
      BY <3>1 DEF FreeFor, Taken
    <3>5. org' \in [Orgs -> OrgRow \cup {NoOrg}] /\ KeysAreUnique'
      BY <3>1, <3>3, <3>4, FreeKeyKept
    <3> QED
      BY <3>1, <3>5 DEF OrgInv, OrgTables
  <2>3. ASSUME NEW by \in Operators, NEW key \in Tags, NEW o \in Stations, NEW s \in Sites,
               CreateStation(by, o, s, key)
        PROVE  OrgInv'
    BY <2>3, CheckKeeps DEF CreateStation, Orgs
  <2>4. ASSUME NEW by \in Operators, NEW key \in Tags, NEW o \in Dispensers, NEW s \in Stations,
               CreateDispenser(by, o, s, key)
        PROVE  OrgInv'
    BY <2>4, CheckKeeps DEF CreateDispenser, Orgs
  <2>5. ASSUME NEW by \in Operators, NEW o \in Sites, NEW c \in Firms, CreateSite(by, o, c)
        PROVE  OrgInv'
    BY <2>5, CheckKeeps DEF CreateSite, Orgs
  <2>6. ASSUME NEW c \in creating, CommitCreation(c) PROVE OrgInv'
    <3>1. /\ OrgTables /\ KeysAreUnique /\ creating' \subseteq creating
          /\ c.id \in Orgs /\ c.row \in OrgRow
      BY <2>6 DEF OrgInv, OrgTables, CommitCreation
    <3>2. CASE org' = org
      BY <3>1, <3>2 DEF OrgInv, OrgTables, KeysAreUnique, Present
    <3>3. CASE ~Taken(c.id, c.row.key) /\ org' = [org EXCEPT ![c.id] = c.row]
      <4>1. FreeFor(c.id, c.row.key)
        BY <3>3 DEF FreeFor, Taken
      <4>2. org' \in [Orgs -> OrgRow \cup {NoOrg}] /\ KeysAreUnique'
        BY <3>1, <3>3, <4>1, FreeKeyKept
      <4> QED
        BY <3>1, <4>2 DEF OrgInv, OrgTables
    <3> QED
      BY <2>6, <3>2, <3>3 DEF CommitCreation
  <2>7. ASSUME NEW by \in Operators, NEW o \in Orgs,
               \/ DeleteCompany(by, o) \/ DeleteSite(by, o) \/ DeleteStation(by, o)
        PROVE  OrgInv'
    BY <2>7, MarkKept
       DEF DeleteCompany, DeleteSite, DeleteStation, SoftDelete, Reachable, Live
  <2>8. ASSUME NEW by \in Operators, NEW o \in Orgs,
               \/ RestoreCompany(by, o) \/ RestoreSite(by, o) \/ RestoreStation(by, o)
        PROVE  OrgInv'
    BY <2>8, MarkKept DEF RestoreCompany, RestoreSite, RestoreStation, Undelete
  <2>9. ASSUME NEW by \in Operators, NEW o \in Orgs, NEW on \in BOOLEAN,
               SwitchDispenser(by, o, on)
        PROVE  OrgInv'
    BY <2>9, MarkKept DEF SwitchDispenser
  <2>10. CASE UNCHANGED orgVars
    BY <2>10 DEF orgVars, OrgInv, OrgTables, KeysAreUnique, Present
  <2> QED
    BY <2>1, <2>2, <2>3, <2>4, <2>5, <2>6, <2>7, <2>8, <2>9, <2>10 DEF OrgRegistryNext
<1> QED
  BY <1>1, <1>2, PTL DEF OrgRegistrySpec

\* A name or serial number belongs to one row, deleted ones included, whatever is created,
\* deleted, restored or renamed meanwhile (stations.py:78).
THEOREM KeysAreUniqueHolds == OrgRegistrySpec => []KeysAreUnique
<1>1. OrgInv => KeysAreUnique
  BY DEF OrgInv
<1> QED
  BY <1>1, OrgInvHolds, PTL

-----------------------------------------------------------------------------
\* A row hangs below one of the table above its own, which is there.  A site's company may
\* be waiting for its own commit.
Fits(o, parent) ==
  \/ o \in Firms /\ parent = Top
  \/ o \in Sites /\ parent \in Firms
  \/ o \in Stations /\ parent \in Sites /\ Present(parent)
  \/ o \in Dispensers /\ parent \in Stations /\ Present(parent)

\* The company that a row below parent is of.
HomeBelow(o, parent) ==
  IF o \in Firms THEN o
  ELSE IF o \in Sites THEN parent
  ELSE IF o \in Stations THEN org[parent].parent
  ELSE org[org[parent].parent].parent

\* A creation is of its operator's company, or the platform's, and of a row of its own.
Hangs(c) ==
  /\ Fits(c.id, c.row.parent)
  /\ c.by # Platform => HomeBelow(c.id, c.row.parent) = c.by
  /\ ~Present(c.id)

\* Rows hang in a tree.
Tree == \A o \in Orgs : Present(o) => Fits(o, org[o].parent)

\* What is proved to be inductive of the tree of rows.
TreeInv ==
  /\ OrgTables /\ RowsStayHome /\ Tree
  /\ \A c \in creating : Hangs(c)
  /\ \A c, d \in creating : c.id = d.id => c = d

\* A row that hangs in the tree is of the company above it.
LEMMA HomeIsAbove ==
  Tree => \A o \in Orgs : Present(o) => Home(o) = HomeBelow(o, org[o].parent)
<1> SUFFICES ASSUME Tree, NEW o \in Orgs, Present(o)
             PROVE  Home(o) = HomeBelow(o, org[o].parent)
  OBVIOUS
<1>1. CASE o \in Firms
  BY <1>1 DEF Home, Up, HomeBelow
<1>2. CASE o \in Sites
  <2>1. org[o].parent \in Firms /\ o \notin Firms
    BY <1>2, OrgRegistryAssumption DEF Tree, Fits, OrgRegistryAssumption
  <2> QED
    BY <1>2, <2>1 DEF Home, Up, HomeBelow
<1>3. CASE o \in Stations
  <2>1. org[o].parent \in Sites /\ Present(org[o].parent) /\ o \notin Firms \cup Sites
    BY <1>3, OrgRegistryAssumption DEF Tree, Fits, OrgRegistryAssumption
  <2>2. org[o].parent \in Orgs /\ org[o].parent \notin Firms /\ org[org[o].parent].parent \in Firms
    BY <2>1, OrgRegistryAssumption DEF Tree, Fits, OrgRegistryAssumption, Orgs
  <2> QED
    BY <1>3, <2>1, <2>2 DEF Home, Up, HomeBelow
<1>4. CASE o \in Dispensers
  <2> DEFINE s == org[o].parent
             i == org[s].parent
  <2>1. s \in Stations /\ Present(s) /\ o \notin Firms \cup Sites \cup Stations
    BY <1>4, OrgRegistryAssumption DEF Tree, Fits, OrgRegistryAssumption
  <2>2. s \in Orgs /\ s \notin Firms /\ i \in Sites /\ i \notin Firms
    BY <2>1, OrgRegistryAssumption DEF Tree, Fits, OrgRegistryAssumption, Orgs
  <2> QED
    BY <1>4, <2>1, <2>2 DEF Home, Up, HomeBelow
<1> QED
  BY <1>1, <1>2, <1>3, <1>4 DEF Orgs

\* The same of the next state.
LEMMA HomeIsAboveNext ==
  (Tree => \A o \in Orgs : Present(o) => Home(o) = HomeBelow(o, org[o].parent))'
BY HomeIsAbove, PTL

\* Rows stay, below the rows they are below.
Rooted == \A o \in Orgs : Present(o) => Present(o)' /\ org'[o].parent = org[o].parent

\* What hangs in the tree stays where it is.
LEMMA RootedKeeps ==
  ASSUME TreeInv, Rooted, NEW o \in Orgs, NEW parent \in Orgs \cup {Top}, Fits(o, parent)
  PROVE  Fits(o, parent)' /\ HomeBelow(o, parent)' = HomeBelow(o, parent)
<1>1. CASE o \in Firms \cup Sites
  BY <1>1, OrgRegistryAssumption DEF Fits, HomeBelow, OrgRegistryAssumption
<1>2. CASE o \in Stations
  <2>1. parent \in Sites /\ Present(parent) /\ parent \in Orgs
    BY <1>2, OrgRegistryAssumption DEF Fits, OrgRegistryAssumption, Orgs
  <2> QED
    BY <1>2, <2>1, OrgRegistryAssumption DEF Rooted, Fits, HomeBelow, OrgRegistryAssumption
<1>3. CASE o \in Dispensers
  <2>1. parent \in Stations /\ Present(parent) /\ parent \in Orgs
    BY <1>3, OrgRegistryAssumption DEF Fits, OrgRegistryAssumption, Orgs
  <2>2. org[parent].parent \in Sites /\ Present(org[parent].parent) /\ org[parent].parent \in Orgs
    BY <2>1, OrgRegistryAssumption DEF TreeInv, Tree, Fits, OrgRegistryAssumption, Orgs
  <2> QED
    BY <1>3, <2>1, <2>2, OrgRegistryAssumption DEF Rooted, Fits, HomeBelow, OrgRegistryAssumption
<1> QED
  BY <1>1, <1>2, <1>3 DEF Orgs

\* A step that moves no row, and adds only what hangs in the tree, keeps the tree.
LEMMA TreeGrows ==
  ASSUME TreeInv, Rooted, OrgTables',
         \A o \in Orgs : Present(o)' /\ ~Present(o) => Fits(o, org'[o].parent)
  PROVE  Tree'
<1> SUFFICES ASSUME NEW o \in Orgs, Present(o)' PROVE Fits(o, org[o].parent)'
  BY DEF Tree
<1>1. Fits(o, org'[o].parent) /\ org'[o].parent \in Orgs \cup {Top}
  BY DEF TreeInv, Tree, Rooted, OrgTables, OrgRow, Present
<1> QED
  BY <1>1, RootedKeeps

\* The creations that wait keep hanging in it.
LEMMA TreeKept ==
  ASSUME TreeInv, Rooted, OrgTables', Tree', RowsStayHome',
         \A c \in creating' : ~Present(c.id)',
         \A c \in creating' \ creating : Hangs(c),
         \A c, d \in creating' : c.id = d.id => c = d
  PROVE  TreeInv'
<1>1. ASSUME NEW c \in creating' PROVE Hangs(c)'
  <2>1. Hangs(c) /\ c.id \in Orgs /\ c.row.parent \in Orgs \cup {Top}
    BY <1>1 DEF TreeInv, OrgTables, OrgRow
  <2>2. Fits(c.id, c.row.parent)' /\ HomeBelow(c.id, c.row.parent)' = HomeBelow(c.id, c.row.parent)
    BY <2>1, RootedKeeps DEF Hangs
  <2> QED
    BY <1>1, <2>1, <2>2 DEF Hangs
<1> QED
  BY <1>1 DEF TreeInv

\* No row of a table stands for one that was never created.
LEMMA RowIsThere ==
  ASSUME NEW row \in OrgRow
  PROVE  row # NoOrg
<1>1. "key" \in DOMAIN row /\ "key" \notin DOMAIN NoOrg
  BY DEF OrgRow, NoOrg
<1> QED
  BY <1>1

\* A row rewritten where it is stays with the company of who wrote it.
LEMMA RowStays ==
  ASSUME TreeInv, OrgTables', NEW by \in Operators, NEW o \in Orgs, NEW row \in OrgRow,
         Present(o), Owns(by, o), row.parent = org[o].parent,
         org' = [org EXCEPT ![o] = row], creating' = creating,
         strayed' = (strayed \/ ~Owns(by, o)')
  PROVE  TreeInv'
<1>1. /\ org' = [org EXCEPT ![o] = row] /\ creating' = creating
      /\ strayed' = (strayed \/ ~Owns(by, o)')
      /\ org \in [Orgs -> OrgRow \cup {NoOrg}]
  BY DEF TreeInv, OrgTables
<1>2. row # NoOrg
  BY RowIsThere
<1>3. Rooted /\ \A p \in Orgs : Present(p)' <=> Present(p)
  BY <1>1, <1>2 DEF Rooted, Present
<1>4. Tree'
  BY <1>3, TreeGrows
<1>5. Home(o)' = Home(o)
  <2>1. /\ Home(o) = HomeBelow(o, org[o].parent) /\ Fits(o, org[o].parent)
        /\ Home(o)' = HomeBelow(o, org[o].parent)'
    BY <1>3, <1>4, HomeIsAbove, HomeIsAboveNext DEF TreeInv, Tree
  <2>2. org[o].parent \in Orgs \cup {Top} /\ org'[o].parent = org[o].parent
    BY <1>1, <1>3 DEF Rooted, OrgRow, Present
  <2> QED
    BY <1>3, <2>1, <2>2, RootedKeeps
<1>6. RowsStayHome'
  BY <1>1, <1>5 DEF Owns, TreeInv, RowsStayHome
<1>7. /\ \A c \in creating' : ~Present(c.id)'
      /\ \A c, d \in creating' : c.id = d.id => c = d
  BY <1>1, <1>3 DEF TreeInv, OrgTables, Hangs
<1>8. \A c \in creating' \ creating : Hangs(c)
  BY <1>1
<1> QED
  BY <1>3, <1>4, <1>6, <1>7, <1>8, TreeKept

\* Marking a row deleted, or live again, leaves it where it is.
LEMMA MarkStays ==
  ASSUME TreeInv, OrgTables', NEW by \in Operators, NEW o \in Orgs, NEW on \in BOOLEAN,
         Present(o), Owns(by, o), Write(by, o, [org[o] EXCEPT !.live = on])
  PROVE  TreeInv'
<1>1. org[o] \in OrgRow
  BY DEF TreeInv, OrgTables, Present
<1> DEFINE row == [org[o] EXCEPT !.live = on]
<1>2. row \in OrgRow /\ row.parent = org[o].parent
  BY <1>1 DEF OrgRow
<1>3. /\ org' = [org EXCEPT ![o] = row] /\ creating' = creating
      /\ strayed' = (strayed \/ ~Owns(by, o)')
  BY DEF Write, Wrote
<1> HIDE DEF row
<1> QED
  BY <1>2, <1>3, RowStays

\* A creation that was checked waits below a row of its company.
LEMMA CheckHangs ==
  ASSUME TreeInv, OrgTables', NEW by \in Operators, NEW o \in Orgs, NEW key,
         NEW parent, Check(by, o, key, parent),
         Fits(o, parent), by # Platform => HomeBelow(o, parent) = by
  PROVE  TreeInv'
<1> DEFINE c == [id |-> o, row |-> [key |-> key, parent |-> parent, live |-> TRUE], by |-> by]
<1>1. /\ org' = org /\ strayed' = strayed /\ creating' = creating \cup {c}
      /\ ~Present(o) /\ \A d \in creating : d.id # o
  BY DEF Check
<1>2. c.id = o /\ c.row.parent = parent /\ c.by = by
  OBVIOUS
<1> HIDE DEF c
<1>3. Hangs(c)
  BY <1>1, <1>2 DEF Hangs
<1>4. Rooted /\ Tree' /\ RowsStayHome' /\ \A p \in Orgs : Present(p)' <=> Present(p)
  BY <1>1 DEF Rooted, Tree, RowsStayHome, TreeInv, Present, Fits
<1>5. \A d, e \in creating' : d.id = e.id => d = e
  BY <1>1, <1>2 DEF TreeInv
<1>6. \A d \in creating' : ~Present(d.id)'
  BY <1>1, <1>2 DEF TreeInv, Hangs, Present
<1> QED
  BY <1>1, <1>3, <1>4, <1>5, <1>6, TreeKept

\* A row that is committed is below a row of its company.
LEMMA CommitHangs ==
  ASSUME TreeInv, OrgTables', NEW c \in creating, CommitCreation(c)
  PROVE  TreeInv'
<1>1. /\ creating' = creating \ {c} /\ Hangs(c) /\ c.id \in Orgs /\ c.row \in OrgRow
      /\ c.row.parent \in Orgs \cup {Top} /\ c.by \in Operators
      /\ org \in [Orgs -> OrgRow \cup {NoOrg}]
  BY DEF CommitCreation, TreeInv, OrgTables, OrgRow
<1>2. CASE UNCHANGED <<org, strayed>>
  <2>1. Rooted /\ Tree' /\ RowsStayHome' /\ \A d \in creating' : ~Present(d.id)'
    BY <1>1, <1>2 DEF Rooted, Tree, RowsStayHome, TreeInv, Present, Fits, Hangs
  <2> QED
    BY <1>1, <2>1, TreeKept DEF TreeInv
<1>3. CASE org' = [org EXCEPT ![c.id] = c.row] /\ Wrote(c.by, c.id)
  <2>0. c.row # NoOrg
    BY <1>1, RowIsThere
  <2>1. /\ org'[c.id] = c.row /\ \A p \in Orgs \ {c.id} : org'[p] = org[p]
        /\ strayed' = (strayed \/ ~Owns(c.by, c.id)') /\ c.row # NoOrg
    BY <1>1, <1>3, <2>0 DEF Wrote
  <2>2. Rooted
    BY <1>1, <2>1 DEF Rooted, Hangs, Present
  <2>3. Tree'
    BY <1>1, <2>1, <2>2, TreeGrows DEF Present, Hangs
  <2>4. Home(c.id)' = HomeBelow(c.id, c.row.parent)
    <3>1. Home(c.id)' = HomeBelow(c.id, org[c.id].parent)'
      BY <1>1, <2>1, <2>3, HomeIsAboveNext DEF Present
    <3>2. HomeBelow(c.id, c.row.parent)' = HomeBelow(c.id, c.row.parent)
      BY <1>1, <2>2, RootedKeeps DEF Hangs
    <3>3. HomeBelow(c.id, org[c.id].parent)' = HomeBelow(c.id, c.row.parent)'
      BY <2>1 DEF HomeBelow
    <3> QED
      BY <3>1, <3>2, <3>3
  <2>5. RowsStayHome'
    BY <1>1, <2>1, <2>4 DEF Owns, Hangs, TreeInv, RowsStayHome
  <2>6. \A d \in creating' : ~Present(d.id)'
    BY <1>1, <2>1 DEF TreeInv, Hangs, Present, OrgTables
  <2> QED
    BY <1>1, <2>2, <2>3, <2>5, <2>6, TreeKept DEF TreeInv
<1> QED
  BY <1>2, <1>3 DEF CommitCreation

\* A row of the tree stays in it, and is written by its own company or the platform.
THEOREM TreeInvHolds == OrgRegistrySpec => []TreeInv
<1>1. OrgRegistryInit => TreeInv
  BY DEF OrgRegistryInit, TreeInv, Tree, OrgTables, RowsStayHome, Present
<1>2. OrgInv' /\ TreeInv /\ [OrgRegistryNext]_orgVars => TreeInv'
  <2> SUFFICES ASSUME OrgTables', TreeInv, [OrgRegistryNext]_orgVars PROVE TreeInv'
    BY DEF OrgInv
  <2>0. Firms \subseteq Orgs /\ Sites \subseteq Orgs /\ Stations \subseteq Orgs /\ Dispensers \subseteq Orgs
    BY DEF Orgs
  <2>1. ASSUME NEW by \in Operators, NEW key \in Tags, NEW o \in Firms, CreateCompany(by, o, key)
        PROVE  TreeInv'
    <3>1. o \in Orgs /\ by = Platform /\ Fits(o, Top) /\ Check(by, o, key, Top)
      BY <2>0, <2>1 DEF CreateCompany, Fits
    <3> QED
      BY <3>1, CheckHangs
  <2>2. ASSUME NEW by \in Operators, NEW key \in Tags, NEW o \in Firms, Rename(by, o, key)
        PROVE  TreeInv'
    <3> DEFINE row == [org[o] EXCEPT !.key = key]
    <3>1. /\ o \in Orgs /\ Present(o) /\ Owns(by, o) /\ org[o] \in OrgRow
          /\ org' = [org EXCEPT ![o] = row] /\ creating' = creating
          /\ strayed' = (strayed \/ ~Owns(by, o)')
      BY <2>0, <2>2 DEF Rename, Reachable, Live, Write, Wrote, TreeInv, OrgTables, Present
    <3>2. row \in OrgRow /\ row.parent = org[o].parent
      BY <3>1 DEF OrgRow
    <3> HIDE DEF row
    <3> QED
      BY <3>1, <3>2, RowStays
  <2>3. ASSUME NEW by \in Operators, NEW key \in Tags, NEW o \in Stations, NEW s \in Sites,
               CreateStation(by, o, s, key)
        PROVE  TreeInv'
    <3>1. /\ o \in Orgs /\ s \in Orgs /\ Present(s) /\ Owns(by, s) /\ Check(by, o, key, s)
          /\ o \notin Firms \cup Sites /\ s \notin Firms
      BY <2>0, <2>3, OrgRegistryAssumption
         DEF CreateStation, Reachable, Live, OrgRegistryAssumption
    <3>2. Home(s) = org[s].parent
      BY <3>1, HomeIsAbove DEF TreeInv, HomeBelow
    <3>3. Fits(o, s) /\ (by # Platform => HomeBelow(o, s) = by)
      BY <3>1, <3>2 DEF Fits, HomeBelow, Owns
    <3> QED
      BY <3>1, <3>3, CheckHangs
  <2>4. ASSUME NEW by \in Operators, NEW key \in Tags, NEW o \in Dispensers, NEW s \in Stations,
               CreateDispenser(by, o, s, key)
        PROVE  TreeInv'
    <3>1. /\ o \in Orgs /\ s \in Orgs /\ Present(s) /\ Owns(by, s) /\ Check(by, o, key, s)
          /\ o \notin Firms \cup Sites \cup Stations /\ s \notin Firms \cup Sites
      BY <2>0, <2>4, OrgRegistryAssumption
         DEF CreateDispenser, Reachable, Live, OrgRegistryAssumption
    <3>2. Home(s) = org[org[s].parent].parent
      BY <3>1, HomeIsAbove DEF TreeInv, HomeBelow
    <3>3. Fits(o, s) /\ (by # Platform => HomeBelow(o, s) = by)
      BY <3>1, <3>2 DEF Fits, HomeBelow, Owns
    <3> QED
      BY <3>1, <3>3, CheckHangs
  <2>5. ASSUME NEW by \in Operators, NEW o \in Sites, NEW f \in Firms, CreateSite(by, o, f)
        PROVE  TreeInv'
    <3>1. /\ o \in Orgs /\ f \in Orgs /\ o \notin Firms /\ Check(by, o, Unkeyed, f)
          /\ by # Platform => f = by
      BY <2>0, <2>5, OrgRegistryAssumption DEF CreateSite, OrgRegistryAssumption
    <3>2. Fits(o, f) /\ (by # Platform => HomeBelow(o, f) = by)
      BY <3>1 DEF Fits, HomeBelow
    <3> QED
      BY <3>1, <3>2, CheckHangs
  <2>6. ASSUME NEW c \in creating, CommitCreation(c) PROVE TreeInv'
    BY <2>6, CommitHangs
  <2>7. ASSUME NEW by \in Operators, NEW o \in Orgs,
               \/ DeleteCompany(by, o) \/ DeleteSite(by, o) \/ DeleteStation(by, o)
               \/ RestoreCompany(by, o) \/ RestoreSite(by, o) \/ RestoreStation(by, o)
        PROVE  TreeInv'
    <3>1. Present(o) /\ Owns(by, o)
      BY <2>7 DEF DeleteCompany, DeleteSite, DeleteStation, RestoreCompany, RestoreSite,
                  RestoreStation, Undelete, MayRestore, Reachable, Live, Owns
    <3>2. \E on \in BOOLEAN : Write(by, o, [org[o] EXCEPT !.live = on])
      BY <2>7 DEF DeleteCompany, DeleteSite, DeleteStation, RestoreCompany, RestoreSite,
                  RestoreStation, Undelete, SoftDelete
    <3> QED
      BY <3>1, <3>2, MarkStays
  <2>8. ASSUME NEW by \in Operators, NEW o \in Orgs, NEW on \in BOOLEAN, SwitchDispenser(by, o, on)
        PROVE  TreeInv'
    <3>1. /\ Present(o) /\ o \in Dispensers /\ Write(by, o, [org[o] EXCEPT !.live = on])
          /\ Present(org[o].parent) /\ Owns(by, org[o].parent)
      BY <2>8 DEF SwitchDispenser, Reachable, Live
    <3>2. /\ org[o].parent \in Stations /\ org[o].parent \notin Firms \cup Sites
          /\ o \notin Firms \cup Sites \cup Stations /\ org[o].parent \in Orgs
      BY <2>0, <3>1, OrgRegistryAssumption DEF TreeInv, Tree, Fits, OrgRegistryAssumption
    <3>3. Home(o) = Home(org[o].parent)
      BY <3>1, <3>2, HomeIsAbove DEF TreeInv, HomeBelow
    <3> QED
      BY <3>1, <3>3, MarkStays DEF Owns
  <2>9. CASE UNCHANGED orgVars
    BY <2>9 DEF orgVars, TreeInv, Tree, OrgTables, RowsStayHome, Hangs, Fits, HomeBelow, Present
  <2> QED
    BY <2>1, <2>2, <2>3, <2>4, <2>5, <2>6, <2>7, <2>8, <2>9 DEF OrgRegistryNext
<1> QED
  BY <1>1, <1>2, OrgInvHolds, PTL DEF OrgRegistrySpec

\* No operator of a company writes another company's rows, whatever was created, deleted or
\* restored above them meanwhile (_get_scoped, stations.py:24; restore_station, :130).
THEOREM RowsStayHomeHolds == OrgRegistrySpec => []RowsStayHome
<1>1. TreeInv => RowsStayHome
  BY DEF TreeInv
<1> QED
  BY <1>1, TreeInvHolds, PTL

\* The creations under way are few enough to be counted.
CreationsAreFew == IsFiniteSet(creating) /\ Cardinality(creating) <= MaxCreations

\* A request that writes rows or ends a creation starts none.
LEMMA FewCreationsLeft ==
  ASSUME CreationsAreFew, strayed \in BOOLEAN, NEW c,
         creating' = creating \/ creating' = creating \ {c},
         strayed' \in BOOLEAN
  PROVE  CreationsAreFew' /\ strayed' \in BOOLEAN
<1>1. /\ IsFiniteSet(creating \ {c})
      /\ Cardinality(creating \ {c}) = Cardinality(creating) - (IF c \in creating THEN 1 ELSE 0)
      /\ Cardinality(creating) \in Nat /\ MaxCreations \in Nat
  BY FS_RemoveElement, FS_CardinalityType, OrgRegistryAssumption
     DEF CreationsAreFew, OrgRegistryAssumption
<1>2. Cardinality(creating \ {c}) <= MaxCreations
  BY <1>1 DEF CreationsAreFew
<1> QED
  BY <1>1, <1>2 DEF CreationsAreFew

\* The tables of OrgRegistry hold what they are meant to hold.
LEMMA OrgRegistryTypes == OrgRegistrySpec => []OrgRegistryTypeOK
<1> DEFINE Few == CreationsAreFew /\ strayed \in BOOLEAN
<1>1. OrgRegistryInit => Few
  <2>1. IsFiniteSet({}) /\ Cardinality({}) = 0 /\ 0 <= MaxCreations
    BY FS_EmptySet, OrgRegistryAssumption DEF OrgRegistryAssumption
  <2> QED
    BY <2>1 DEF OrgRegistryInit, CreationsAreFew
<1>2. Few /\ [OrgRegistryNext]_orgVars => Few'
  <2> SUFFICES ASSUME Few, [OrgRegistryNext]_orgVars PROVE Few'
    OBVIOUS
  <2>1. ASSUME NEW by, NEW o, NEW key, NEW parent, Check(by, o, key, parent) PROVE Few'
    <3> DEFINE new == [id |-> o, row |-> [key |-> key, parent |-> parent, live |-> TRUE], by |-> by]
    <3>1. /\ Cardinality(creating) < MaxCreations /\ creating' = creating \cup {new}
          /\ strayed' = strayed
      BY <2>1 DEF Check
    <3> HIDE DEF new
    <3>2. /\ IsFiniteSet(creating \cup {new})
          /\ Cardinality(creating \cup {new})
               = Cardinality(creating) + (IF new \in creating THEN 0 ELSE 1)
          /\ Cardinality(creating) \in Nat /\ MaxCreations \in Nat
      BY FS_AddElement, FS_CardinalityType, OrgRegistryAssumption
         DEF CreationsAreFew, OrgRegistryAssumption
    <3>3. Cardinality(creating \cup {new}) <= MaxCreations
      BY <3>1, <3>2
    <3> QED
      BY <3>1, <3>2, <3>3 DEF CreationsAreFew
  <2>2. ASSUME NEW by, NEW o, NEW row, Write(by, o, row) PROVE Few'
    <3>1. creating' = creating /\ strayed' \in BOOLEAN
      BY <2>2 DEF Write, Wrote
    <3> QED
      BY <3>1, FewCreationsLeft
  <2>3. ASSUME NEW c \in creating, CommitCreation(c) PROVE Few'
    <3>1. creating' = creating \ {c} /\ strayed' \in BOOLEAN
      BY <2>3 DEF CommitCreation, Wrote
    <3> QED
      BY <3>1, FewCreationsLeft
  <2>4. ASSUME NEW by \in Operators, NEW key \in Tags, NEW o \in Firms,
               CreateCompany(by, o, key) \/ Rename(by, o, key)
        PROVE  Few'
    BY <2>1, <2>2, <2>4 DEF CreateCompany, Rename
  <2>5. ASSUME NEW by \in Operators, NEW key \in Tags, NEW o, NEW s,
               CreateStation(by, o, s, key) \/ CreateDispenser(by, o, s, key)
        PROVE  Few'
    BY <2>1, <2>5 DEF CreateStation, CreateDispenser
  <2>6. ASSUME NEW by \in Operators, NEW o \in Sites, NEW c \in Firms, CreateSite(by, o, c)
        PROVE  Few'
    BY <2>1, <2>6 DEF CreateSite
  <2>7. ASSUME NEW by \in Operators, NEW o \in Orgs,
               \/ DeleteCompany(by, o) \/ DeleteSite(by, o) \/ DeleteStation(by, o)
               \/ RestoreCompany(by, o) \/ RestoreSite(by, o) \/ RestoreStation(by, o)
        PROVE  Few'
    BY <2>2, <2>7 DEF DeleteCompany, DeleteSite, DeleteStation, SoftDelete,
                      RestoreCompany, RestoreSite, RestoreStation, Undelete
  <2>8. ASSUME NEW by \in Operators, NEW o \in Orgs, NEW on \in BOOLEAN,
               SwitchDispenser(by, o, on)
        PROVE  Few'
    BY <2>2, <2>8 DEF SwitchDispenser
  <2>9. CASE UNCHANGED orgVars
    BY <2>9 DEF orgVars, CreationsAreFew
  <2> QED
    BY <2>3, <2>4, <2>5, <2>6, <2>7, <2>8, <2>9 DEF OrgRegistryNext
<1>3. OrgInv /\ Few => OrgRegistryTypeOK
  BY DEF OrgInv, OrgTables, CreationsAreFew, OrgRegistryTypeOK
<1> QED
  BY <1>1, <1>2, <1>3, OrgInvHolds, PTL DEF OrgRegistrySpec

------------------------------------------------------------------------------
(***************************************************************************)
(* TankRegistry: tanks and their gateways.                                 *)
(***************************************************************************)

\* What the variables of TankRegistry hold.
TankTables ==
  /\ tank \in [Serial -> TankRow \cup {NoRow}]
  /\ fuel \in [Fuels -> {"new", "listed", "deleted"}]
  /\ writing \subseteq Pending

\* The tanks a rebinding is about to write are the operator's, and stay so: a tank never
\* moves to another company.
RebindingsAreHome ==
  \A w \in writing :
    w.does = "rebind" =>
      \A t \in w.take \cup w.had :
        Stored(t) /\ (Platformwide(w.by) \/ tank[t].company = w.by.company)

\* What is proved to be inductive of TankRegistry.
TankInv == TankTables /\ FuelIsKnown /\ RebindingsAreHome /\ BindingsStayHome

\* Rows of tanks persist and keep their company.
RowsPersist ==
  \A t \in Serial : Stored(t) => Stored(t)' /\ tank'[t].company = tank[t].company

-----------------------------------------------------------------------------
\* A row of a tank is not the mark of an absent one.
LEMMA RowsDiffer == \A row \in TankRow : row # NoRow
<1>1. SUFFICES ASSUME NEW row \in TankRow PROVE row # NoRow
  OBVIOUS
<1>2. "fuel" \in DOMAIN row
  BY DEF TankRow
<1>3. DOMAIN NoRow = {"live"}
  BY DEF NoRow
<1>4. "fuel" # "live"
  OBVIOUS
<1> QED
  BY <1>2, <1>3, <1>4

\* While rows persist, the writes that stay pending keep their tanks at home.
LEMMA HomeKept ==
  ASSUME RebindingsAreHome, RowsPersist, writing' \subseteq writing, writing \subseteq Pending
  PROVE  RebindingsAreHome'
<1> SUFFICES ASSUME NEW w \in writing', w.does = "rebind", NEW t \in w.take \cup w.had
             PROVE  /\ Stored(t)'
                    /\ Platformwide(w.by) \/ tank'[t].company = w.by.company
  BY DEF RebindingsAreHome, Platformwide
<1>1. w \in writing /\ w \in Pending
  OBVIOUS
<1>2. t \in Serial
  BY <1>1 DEF Pending
<1>3. Stored(t) /\ (Platformwide(w.by) \/ tank[t].company = w.by.company)
  BY <1>1 DEF RebindingsAreHome
<1> QED
  BY <1>2, <1>3 DEF RowsPersist

\* A request that only registers its write leaves the invariant to what it registers.
LEMMA LaterKeeps ==
  ASSUME TankInv, NEW write \in Pending, Later(write),
         write.does = "rebind" =>
           \A t \in write.take \cup write.had :
             Stored(t) /\ (Platformwide(write.by) \/ tank[t].company = write.by.company)
  PROVE  TankInv'
<1>1. TankTables' /\ FuelIsKnown' /\ BindingsStayHome'
  BY DEF Later, TankInv, TankTables, FuelIsKnown, BindingsStayHome, Stored
<1>2. RebindingsAreHome'
  BY DEF Later, TankInv, RebindingsAreHome, Stored, Platformwide
<1> QED
  BY <1>1, <1>2 DEF TankInv

\* A request that rewrites one tank keeps the invariant if it keeps the tank's company and
\* leaves it with a fuel type that is listed, or none.
LEMMA RewriteKeeps ==
  ASSUME TankInv, NEW t \in Serial, Stored(t), NEW row \in TankRow, Rewrite(t, row),
         row.company = tank[t].company,
         row.fuel = Unset \/ fuel[row.fuel] = "listed"
  PROVE  TankInv'
<1>1. tank' = [tank EXCEPT ![t] = row] /\ UNCHANGED <<fuel, writing, unpicked>>
  BY DEF Rewrite
<1>2. TankTables'
  BY <1>1 DEF TankInv, TankTables
<1>3. FuelIsKnown' /\ BindingsStayHome'
  BY <1>1 DEF TankInv, TankTables, FuelIsKnown, BindingsStayHome, Stored
<1>4. RowsPersist
  BY <1>1, RowsDiffer DEF RowsPersist, Stored, TankInv, TankTables
<1>5. RebindingsAreHome'
  BY <1>1, <1>4, HomeKept DEF TankInv, TankTables
<1> QED
  BY <1>2, <1>3, <1>5 DEF TankInv

-----------------------------------------------------------------------------
\* The registry's invariant is inductive: a rebinding is checked on what it read, and what
\* it relies on, the company of a tank, never changes.
THEOREM TankInvHolds == TankRegistrySpec => []TankInv
<1>1. TankRegistryInit => TankInv
  BY DEF TankRegistryInit, TankInv, TankTables, FuelIsKnown, RebindingsAreHome,
         BindingsStayHome, Stored
<1>2. TankInv /\ [TankRegistryNext]_assetVars => TankInv'
  <2> SUFFICES ASSUME TankInv, [TankRegistryNext]_assetVars PROVE TankInv'
    OBVIOUS
  <2>1. ASSUME NEW f \in Fuels, CreateFuelType(f) PROVE TankInv'
    BY <2>1 DEF CreateFuelType, TankInv, TankTables, FuelIsKnown, RebindingsAreHome,
                BindingsStayHome, Stored, TankRow
  <2>2. ASSUME NEW f \in Fuels, DeleteFuelType(f) PROVE TankInv'
    <3>1. [does |-> "drop fuel", fuel |-> f] \in Pending
      BY DEF Pending
    <3> QED
      BY <2>2, <3>1, LaterKeeps DEF DeleteFuelType
  <2>3. ASSUME NEW g \in Radios, NEW c \in Owners \cup {Nobody}, CreateGateway(g, c)
        PROVE  TankInv'
    BY <2>3 DEF CreateGateway, TankInv, TankTables, FuelIsKnown, RebindingsAreHome,
                BindingsStayHome, Stored
  <2>4. ASSUME NEW by \in CompanyUsers, NEW t \in Serial, NEW c \in Owners, NEW f \in Fuels,
               CreateTank(by, t, c, f)
        PROVE  TankInv'
    <3>1. [does |-> "create tank", serial |-> t,
           row |-> [company |-> c, gateway |-> Unset, fuel |-> f, live |-> TRUE]] \in Pending
      BY DEF Pending, TankRow
    <3> QED
      BY <2>4, <3>1, LaterKeeps DEF CreateTank
  <2>5. ASSUME NEW by \in CompanyUsers, NEW t \in Serial,
               DeleteTank(by, t) \/ RestoreTank(by, t)
        PROVE  TankInv'
    <3>1. PICK on \in BOOLEAN : Stored(t) /\ Rewrite(t, [tank[t] EXCEPT !.live = on])
      BY <2>5 DEF DeleteTank, RestoreTank, InUse
    <3>2. tank[t] \in TankRow
      BY <3>1 DEF Stored, TankInv, TankTables
    <3> DEFINE row == [tank[t] EXCEPT !.live = on]
    <3>3. row \in TankRow /\ row.company = tank[t].company /\ row.fuel = tank[t].fuel
      BY <3>2 DEF TankRow
    <3>4. row.fuel = Unset \/ fuel[row.fuel] = "listed"
      BY <3>1, <3>3 DEF TankInv, FuelIsKnown
    <3> HIDE DEF row
    <3> QED
      BY <3>1, <3>3, <3>4, RewriteKeeps DEF row
  <2>6. ASSUME NEW by \in CompanyUsers, NEW t \in Serial, NEW f \in Fuels \cup {Unset},
               UpdateTank(by, t, f)
        PROVE  TankInv'
    <3>1. Stored(t) /\ tank[t] \in TankRow
      BY <2>6 DEF UpdateTank, InUse, Stored, TankInv, TankTables
    <3> DEFINE row == [tank[t] EXCEPT !.fuel = f]
    <3>2. row \in TankRow /\ row.company = tank[t].company /\ row.fuel = f
      BY <3>1 DEF TankRow
    <3>3. Rewrite(t, row) /\ (f = Unset \/ fuel[f] = "listed")
      BY <2>6 DEF UpdateTank
    <3> HIDE DEF row
    <3> QED
      BY <3>1, <3>2, <3>3, RewriteKeeps
  <2>7. ASSUME NEW by \in Callers, NEW g \in Radios, NEW take \in SUBSET Serial,
               UpdateGateway(by, g, take)
        PROVE  TankInv'
    <3> DEFINE write == [does |-> "rebind", radio |-> g, take |-> take, had |-> On(g),
                         by |-> by]
    <3>1. write \in Pending
      BY DEF Pending, On
    <3>2. \A t \in take \cup On(g) :
            Stored(t) /\ (Platformwide(by) \/ tank[t].company = by.company)
      BY <2>7 DEF UpdateGateway, Rebindable, _require_mutable_tank, InUse
    <3> QED
      BY <2>7, <3>1, <3>2, LaterKeeps DEF UpdateGateway
  <2>8. ASSUME NEW w \in writing, CommitWrite(w) PROVE TankInv'
    <3>1. w \in Pending /\ writing' \subseteq writing
      BY <2>8 DEF CommitWrite, TankInv, TankTables
    <3>2. CASE CommitTank(w)
      <4>1. w.serial \in Serial /\ w.row \in TankRow
        BY <3>1, <3>2 DEF CommitTank, Pending
      <4>2. TankTables'
        BY <3>1, <3>2, <4>1 DEF CommitTank, TankInv, TankTables
      <4>3. FuelIsKnown' /\ BindingsStayHome'
        BY <3>2, <4>1 DEF CommitTank, TankInv, TankTables, FuelIsKnown, BindingsStayHome,
                          Stored
      <4>4. RowsPersist
        BY <3>2, <4>1, RowsDiffer DEF CommitTank, RowsPersist, Stored, TankInv, TankTables
      <4> QED
        BY <3>1, <4>2, <4>3, <4>4, HomeKept DEF TankInv, TankTables
    <3>3. CASE CommitFuelType(w)
      <4>1. w.fuel \in Fuels
        BY <3>1, <3>3 DEF CommitFuelType, Pending
      <4>2. TankTables'
        BY <3>1, <3>3, <4>1 DEF CommitFuelType, TankInv, TankTables
      <4>3. FuelIsKnown'
        <5> SUFFICES ASSUME NEW t \in Serial, Stored(t), tank[t].fuel # Unset
                     PROVE  fuel'[tank[t].fuel] = "listed"
          BY <3>3 DEF CommitFuelType, FuelIsKnown, Stored
        <5>1. fuel[tank[t].fuel] = "listed" /\ tank[t].fuel \in Fuels
          BY DEF TankInv, TankTables, FuelIsKnown, Stored, TankRow
        <5>2. CASE Referenced(w.fuel)
          BY <3>3, <5>1, <5>2 DEF CommitFuelType
        <5>3. CASE ~Referenced(w.fuel)
          <6>1. tank[t].fuel # w.fuel
            BY <5>3 DEF Referenced
          <6> QED
            BY <3>3, <5>1, <5>3, <6>1 DEF CommitFuelType, TankInv, TankTables
        <5> QED
          BY <5>2, <5>3
      <4>4. BindingsStayHome'
        BY <3>3 DEF CommitFuelType, TankInv, BindingsStayHome
      <4>5. RowsPersist
        BY <3>3 DEF CommitFuelType, RowsPersist, Stored
      <4> QED
        BY <3>1, <4>2, <4>3, <4>4, <4>5, HomeKept DEF TankInv, TankTables
    <3>4. CASE CommitGateway(w)
      <4>1. w.radio \in Radios /\ w.take \subseteq Serial /\ w.had \subseteq Serial
        <5>1. w.does = "rebind"
          BY <3>4 DEF CommitGateway
        <5>2. w \in [does : {"rebind"}, radio : Radios, take : SUBSET Serial,
                     had : SUBSET Serial, by : Callers]
          BY <3>1, <5>1 DEF Pending
        <5> QED
          BY <5>2
      <4>2. \A t \in w.take \cup w.had :
              Stored(t) /\ (Platformwide(w.by) \/ tank[t].company = w.by.company)
        BY <3>4 DEF CommitGateway, TankInv, RebindingsAreHome
      <4>3. BindingsStayHome'
        BY <3>4, <4>2 DEF CommitGateway, TankInv, BindingsStayHome
      <4>4. PICK last : tank' = [t \in Serial |->
              IF t \in w.take /\ t # last THEN [tank[t] EXCEPT !.gateway = w.radio]
              ELSE IF t \in w.had \ w.take THEN [tank[t] EXCEPT !.gateway = Unset]
              ELSE tank[t]]
        BY <3>4 DEF CommitGateway
      <4>5. \A t \in Serial : Stored(t) => tank[t] \in TankRow
        BY DEF Stored, TankInv, TankTables
      <4>6. ASSUME NEW t \in Serial
            PROVE  \/ tank'[t] = tank[t]
                   \/ /\ Stored(t) /\ tank'[t] \in TankRow
                      /\ tank'[t].company = tank[t].company /\ tank'[t].fuel = tank[t].fuel
        <5>1. CASE t \in w.take /\ t # last
          BY <4>1, <4>2, <4>4, <4>5, <5>1 DEF TankRow
        <5>2. CASE t \in w.had \ w.take
          BY <4>2, <4>4, <4>5, <5>2 DEF TankRow
        <5>3. CASE ~(t \in w.take /\ t # last) /\ t \notin w.had \ w.take
          BY <4>4, <5>3
        <5> QED
          BY <5>1, <5>2, <5>3
      <4>7. UNCHANGED fuel
        BY <3>4 DEF CommitGateway
      <4>8. TankTables'
        BY <3>1, <4>4, <4>6, <4>7 DEF TankInv, TankTables
      <4>9. RowsPersist
        BY <4>6, RowsDiffer DEF RowsPersist, Stored
      <4>10. FuelIsKnown'
        BY <4>6, <4>7 DEF TankInv, FuelIsKnown, Stored
      <4> QED
        BY <3>1, <4>3, <4>8, <4>9, <4>10, HomeKept DEF TankInv, TankTables
    <3> QED
      BY <2>8, <3>2, <3>3, <3>4 DEF CommitWrite
  <2>9. CASE UNCHANGED assetVars
    BY <2>9 DEF assetVars, TankInv, TankTables, FuelIsKnown, RebindingsAreHome,
                BindingsStayHome, Stored
  <2> QED
    BY <2>1, <2>2, <2>3, <2>4, <2>5, <2>6, <2>7, <2>8, <2>9 DEF TankRegistryNext
<1> QED
  BY <1>1, <1>2, PTL DEF TankRegistrySpec

\* A tank's fuel type exists, however creations, restorations and deletions of fuel types
\* interleave (fuel_types.py:85).
THEOREM FuelIsKnownHolds == TankRegistrySpec => []FuelIsKnown
<1>1. TankInv => FuelIsKnown
  BY DEF TankInv
<1> QED
  BY <1>1, TankInvHolds, PTL

\* An operator with a company detaches and attaches only tanks of his company, although the
\* rebinding he commits was checked on an earlier state (iot_gateways.py:172).
THEOREM BindingsStayHomeHolds == TankRegistrySpec => []BindingsStayHome
<1>1. TankInv => BindingsStayHome
  BY DEF TankInv
<1> QED
  BY <1>1, TankInvHolds, PTL

\* No handler of either registry writes a row of another company than its caller's
\* (stations.py:24, iot_gateways.py:172).
THEOREM WritesStayHomeHolds ==
  OrgRegistrySpec /\ TankRegistrySpec => []WritesStayHome
<1>1. RowsStayHome /\ BindingsStayHome => WritesStayHome
  BY DEF WritesStayHome
<1> QED
  BY <1>1, RowsStayHomeHolds, BindingsStayHomeHolds, PTL

\* The requests that have read and not committed are few enough to be counted.
WritesAreFew == IsFiniteSet(writing) /\ Cardinality(writing) <= MaxWrites

\* The tables of TankRegistry hold what they are meant to hold.
LEMMA TankRegistryTypes == TankRegistrySpec => []TankRegistryTypeOK
<1> DEFINE Few ==
      /\ WritesAreFew /\ unpicked \in BOOLEAN
      /\ radio \in [Radios -> Owners \cup {Nobody, NoRadio}]
<1>1. TankRegistryInit => Few
  <2>1. IsFiniteSet({}) /\ Cardinality({}) = 0 /\ 0 <= MaxWrites
    BY FS_EmptySet, TankRegistryAssumption DEF TankRegistryAssumption
  <2> QED
    BY <2>1 DEF TankRegistryInit, WritesAreFew
<1>2. Few /\ [TankRegistryNext]_assetVars => Few'
  <2> SUFFICES ASSUME Few, [TankRegistryNext]_assetVars PROVE Few'
    OBVIOUS
  <2>1. ASSUME NEW write, Later(write) PROVE Few'
    <3>1. /\ Cardinality(writing) < MaxWrites /\ writing' = writing \cup {write}
          /\ unpicked' = unpicked /\ radio' = radio
      BY <2>1 DEF Later
    <3>2. /\ IsFiniteSet(writing \cup {write})
          /\ Cardinality(writing \cup {write})
               = Cardinality(writing) + (IF write \in writing THEN 0 ELSE 1)
          /\ Cardinality(writing) \in Nat /\ MaxWrites \in Nat
      BY FS_AddElement, FS_CardinalityType, TankRegistryAssumption
         DEF WritesAreFew, TankRegistryAssumption
    <3>3. Cardinality(writing \cup {write}) <= MaxWrites
      BY <3>1, <3>2
    <3> QED
      BY <3>1, <3>2, <3>3 DEF WritesAreFew
  <2>2. ASSUME NEW t, NEW row, Rewrite(t, row) PROVE Few'
    BY <2>2 DEF Rewrite, WritesAreFew
  <2>3. ASSUME NEW w \in writing, CommitWrite(w) PROVE Few'
    <3>1. /\ writing' = writing \ {w} /\ radio' = radio
          /\ unpicked' \in BOOLEAN
      BY <2>3 DEF CommitWrite, CommitTank, CommitFuelType, CommitGateway
    <3>2. /\ IsFiniteSet(writing \ {w})
          /\ Cardinality(writing \ {w}) = Cardinality(writing) - (IF w \in writing THEN 1 ELSE 0)
          /\ Cardinality(writing) \in Nat /\ MaxWrites \in Nat
      BY FS_RemoveElement, FS_CardinalityType, TankRegistryAssumption
         DEF WritesAreFew, TankRegistryAssumption
    <3>3. Cardinality(writing \ {w}) <= MaxWrites
      BY <3>2 DEF WritesAreFew
    <3> QED
      BY <3>1, <3>2, <3>3 DEF WritesAreFew
  <2>4. ASSUME NEW f \in Fuels, CreateFuelType(f) PROVE Few'
    BY <2>4 DEF CreateFuelType, WritesAreFew
  <2>5. ASSUME NEW g \in Radios, NEW c \in Owners \cup {Nobody}, CreateGateway(g, c) PROVE Few'
    BY <2>5 DEF CreateGateway, WritesAreFew
  <2>6. ASSUME NEW f \in Fuels, DeleteFuelType(f) PROVE Few'
    BY <2>1, <2>6 DEF DeleteFuelType
  <2>7. ASSUME NEW by, NEW t, NEW c, NEW f, CreateTank(by, t, c, f) PROVE Few'
    BY <2>1, <2>7 DEF CreateTank
  <2>8. ASSUME NEW by, NEW g, NEW take, UpdateGateway(by, g, take) PROVE Few'
    BY <2>1, <2>8 DEF UpdateGateway
  <2>9. ASSUME NEW by, NEW t, NEW f, DeleteTank(by, t) \/ RestoreTank(by, t) \/ UpdateTank(by, t, f)
        PROVE  Few'
    BY <2>2, <2>9 DEF DeleteTank, RestoreTank, UpdateTank
  <2>10. CASE UNCHANGED assetVars
    BY <2>10 DEF assetVars, WritesAreFew
  <2> QED
    BY <2>3, <2>4, <2>5, <2>6, <2>7, <2>8, <2>9, <2>10 DEF TankRegistryNext
<1>3. TankInv /\ Few => TankRegistryTypeOK
  BY DEF TankInv, TankTables, WritesAreFew, TankRegistryTypeOK
<1> QED
  BY <1>1, <1>2, <1>3, TankInvHolds, PTL DEF TankRegistrySpec

------------------------------------------------------------------------------
(***************************************************************************)
(* ChannelConfig: the channels' secrets.                                   *)
(***************************************************************************)

\* A PATCH between its merge and its commit.
PatchRecord == [of : {"editor"}, merged : Config, incoming : Config]

\* What the variables of ChannelConfig hold.
Forms ==
  /\ stored \in Config
  /\ view \in [Editors -> Config]
  /\ patch \in [Editors -> {NoPatch} \cup PatchRecord]
  /\ intended \in [Secrets -> Values \cup {Missing}]
  /\ collided \in BOOLEAN

\* As long as no two PATCHes overlap, the one under way was merged into what is stored.
PatchIsCurrent ==
  collided \/
    \A e \in Editors : patch[e] # NoPatch =>
      /\ patch[e].merged = merge_config(stored, patch[e].incoming)
      /\ \A d \in Editors : patch[d] # NoPatch => d = e

\* What is proved to be inductive of ChannelConfig.
ChannelInv == Forms /\ PatchIsCurrent /\ SecretsSurvive

\* A configuration merged into another, or masked, is a configuration.
LEMMA MergedIsConfig ==
  ASSUME NEW old \in Config, NEW incoming \in Config
  PROVE  merge_config(old, incoming) \in Config /\ mask_config(old) \in Config
BY DEF merge_config, mask_config, Config

\* A merge takes a new value and otherwise keeps a secret that is there.
LEMMA MergeKeepsSecrets ==
  ASSUME NEW old \in Config, NEW incoming \in Config, NEW s \in Secrets
  PROVE  /\ incoming[s] \in Values => merge_config(old, incoming)[s] = incoming[s]
         /\ incoming[s] \notin Values /\ old[s] # Missing => merge_config(old, incoming)[s] = old[s]
<1>1. s \in Fields /\ s \notin Plain
  BY ChannelConfigAssumption DEF Fields, ChannelConfigAssumption
<1>2. incoming[s] \in Values \cup {Mask, Blank, Missing}
  BY <1>1 DEF Config
<1> QED
  BY <1>1, <1>2, ChannelConfigAssumption DEF merge_config, is_masked, ChannelConfigAssumption

\* A PATCH that is not overlapped is always merged into the configuration it replaces.
THEOREM ChannelInvHolds == ChannelConfigSpec => []ChannelInv
<1>1. ChannelConfigInit => ChannelInv
  BY DEF ChannelConfigInit, ChannelInv, Forms, PatchIsCurrent, SecretsSurvive, Nothing, Config
<1>2. ChannelInv /\ [ChannelConfigNext]_channelVars => ChannelInv'
  <2> SUFFICES ASSUME ChannelInv, [ChannelConfigNext]_channelVars PROVE ChannelInv'
    OBVIOUS
  <2>0. Forms /\ PatchIsCurrent /\ SecretsSurvive
    BY DEF ChannelInv
  <2>1. ASSUME NEW e \in Editors, ReadChannel(e) PROVE ChannelInv'
    <3>1. /\ view' = [view EXCEPT ![e] = mask_config(stored)]
          /\ UNCHANGED <<stored, patch, intended, collided>>
      BY <2>1 DEF ReadChannel
    <3>2. mask_config(stored) \in Config
      BY <2>0, MergedIsConfig DEF Forms
    <3> QED
      BY <2>0, <3>1, <3>2 DEF ChannelInv, Forms, PatchIsCurrent, SecretsSurvive
  <2>2. ASSUME NEW e \in Editors, PatchChannel(e) PROVE ChannelInv'
    <3>1. PICK f \in Fields, v \in Values \cup {Blank, Missing} :
            patch' = [patch EXCEPT ![e] =
              [of |-> "editor", incoming |-> [view[e] EXCEPT ![f] = v],
               merged |-> merge_config(stored, [view[e] EXCEPT ![f] = v])]]
      BY <2>2 DEF PatchChannel
    <3> DEFINE incoming == [view[e] EXCEPT ![f] = v]
               new == [of |-> "editor", incoming |-> incoming,
                       merged |-> merge_config(stored, incoming)]
    <3>2. /\ patch' = [patch EXCEPT ![e] = new]
          /\ collided' = (collided \/ \E d \in Editors : patch[d] # NoPatch)
          /\ UNCHANGED <<stored, view, intended>>
      BY <2>2, <3>1 DEF PatchChannel
    <3>3. incoming \in Config
      <4>1. view[e] \in Config
        BY <2>0 DEF Forms
      <4> QED
        BY <4>1 DEF Config
    <3>4. new \in PatchRecord
      BY <2>0, <3>3, MergedIsConfig DEF PatchRecord, Forms
    <3>5. new.merged = merge_config(stored, new.incoming)
      OBVIOUS
    <3> HIDE DEF new
    <3>6. Forms'
      <4>1. patch' \in [Editors -> {NoPatch} \cup PatchRecord]
        BY <2>0, <3>2, <3>4 DEF Forms
      <4>2. collided' \in BOOLEAN
        BY <2>0, <3>2 DEF Forms
      <4> QED
        BY <2>0, <3>2, <4>1, <4>2 DEF Forms
    <3>7. PatchIsCurrent'
      <4> SUFFICES ASSUME ~collided', NEW d \in Editors, patch'[d] # NoPatch
                   PROVE  d = e /\ patch'[d].merged = merge_config(stored, patch'[d].incoming)
        BY <3>2 DEF PatchIsCurrent
      <4>1. \A c \in Editors : patch[c] = NoPatch
        BY <3>2
      <4>2. patch \in [Editors -> {NoPatch} \cup PatchRecord]
        BY <2>0 DEF Forms
      <4>3. \A c \in Editors : patch'[c] = IF c = e THEN new ELSE patch[c]
        BY <3>2, <4>2
      <4> QED
        BY <3>5, <4>1, <4>3
    <3>8. SecretsSurvive'
      BY <2>0, <3>2 DEF SecretsSurvive
    <3> QED
      BY <3>6, <3>7, <3>8 DEF ChannelInv
  <2>3. ASSUME NEW e \in Editors, CommitChannel(e) PROVE ChannelInv'
    <3> DEFINE merged == patch[e].merged
               incoming == patch[e].incoming
    <3>1. /\ patch[e] # NoPatch
          /\ stored' = merged
          /\ intended' = [s \in Secrets |->
                           IF incoming[s] \in Values THEN incoming[s] ELSE intended[s]]
          /\ patch' = [patch EXCEPT ![e] = NoPatch]
          /\ view' = [view EXCEPT ![e] = mask_config(merged)]
          /\ UNCHANGED collided
      BY <2>3 DEF CommitChannel
    <3>2. /\ merged \in Config /\ incoming \in Config
          /\ patch \in [Editors -> {NoPatch} \cup PatchRecord] /\ stored \in Config
      BY <2>0, <3>1 DEF Forms, PatchRecord
    <3>3. mask_config(merged) \in Config
      BY <3>2, MergedIsConfig
    <3>4. ~collided =>
            /\ merged = merge_config(stored, incoming)
            /\ \A d \in Editors : patch[d] # NoPatch => d = e
      BY <2>0, <3>1 DEF PatchIsCurrent
    <3> HIDE DEF merged, incoming
    <3>5. Forms'
      <4>1. intended' \in [Secrets -> Values \cup {Missing}]
        BY <2>0, <3>1 DEF Forms
      <4> QED
        BY <2>0, <3>1, <3>2, <3>3, <4>1 DEF Forms
    <3>6. PatchIsCurrent'
      <4>1. \A d \in Editors : patch'[d] # NoPatch => d # e /\ patch[d] # NoPatch
        BY <3>1, <3>2
      <4> QED
        BY <3>1, <3>4, <4>1 DEF PatchIsCurrent
    <3>7. SecretsSurvive'
      <4> SUFFICES ASSUME ~collided, NEW s \in Secrets, intended'[s] # Missing
                   PROVE  merged[s] = intended'[s]
        BY <3>1 DEF SecretsSurvive
      <4>1. intended[s] # Missing => stored[s] = intended[s]
        BY <2>0 DEF SecretsSurvive
      <4>2. intended'[s] = IF incoming[s] \in Values THEN incoming[s] ELSE intended[s]
        BY <3>1
      <4>3. /\ incoming[s] \in Values => merged[s] = incoming[s]
            /\ incoming[s] \notin Values /\ stored[s] # Missing => merged[s] = stored[s]
        BY <3>2, <3>4, MergeKeepsSecrets
      <4> QED
        BY <4>1, <4>2, <4>3
    <3> QED
      BY <3>5, <3>6, <3>7 DEF ChannelInv
  <2>4. CASE UNCHANGED channelVars
    BY <2>0, <2>4 DEF channelVars, ChannelInv, Forms, PatchIsCurrent, SecretsSurvive
  <2> QED
    BY <2>1, <2>2, <2>3, <2>4 DEF ChannelConfigNext
<1> QED
  BY <1>1, <1>2, PTL DEF ChannelConfigSpec

\* A secret keeps the value last given to it however stale the masked copies that editors
\* send back (secrets.py:10-12), for any fields, values and number of editors.
THEOREM SecretsSurviveHolds == ChannelConfigSpec => []SecretsSurvive
<1>1. ChannelInv => SecretsSurvive
  BY DEF ChannelInv
<1> QED
  BY <1>1, ChannelInvHolds, PTL

\* The configurations of ChannelConfig are configurations.
LEMMA ChannelConfigTypes == ChannelConfigSpec => []ChannelConfigTypeOK
<1>1. ChannelInv => ChannelConfigTypeOK
  BY DEF ChannelInv, Forms, PatchRecord, ChannelConfigTypeOK
<1> QED
  BY <1>1, ChannelInvHolds, PTL

------------------------------------------------------------------------------
(***************************************************************************)
(* QuotaDelivery: the sends of a notification.                             *)
(***************************************************************************)
\* A task between two sends, and one that has ended.
Trying == [at : {"send", "log"}, gws : Nat \ {0}, attempt : 1 .. MaxRetries,
           next : Nat \ {0}, sent : BOOLEAN]
Ended == [at : {"done"}, status : {"SENT", "FAILED", "raised"}, gws : Nat]
Task == Trying \cup Ended

\* The counts of each task; what a task has sent and logged at each of its steps.
Tallies ==
  /\ told \in [Rows -> Nat] /\ unanswered \in [Rows -> Nat] /\ failedLog \in [Rows -> Nat]
  /\ coded \subseteq Rows /\ issued \subseteq Rows
  /\ job \in [Rows -> {NoJob} \cup Task]

\* A send or log under way: every send before it failed and is in the log.
UnderWay(r) ==
  LET j == job[r] IN
  j.at \in {"send", "log"} =>
    /\ j.next <= j.gws
    /\ failedLog[r] = (j.attempt - 1) * j.gws + (j.next - 1)
    /\ upload = "dispatch" /\ r \in issued

\* What each row was told, against where its task stands.
Told(r) ==
  LET j == job[r] IN
  /\ told[r] <= 1 + unanswered[r]
  /\ j.at = "none" => told[r] = 0 /\ unanswered[r] = 0 /\ failedLog[r] = 0
  /\ j.at = "send" \/ (j.at = "log" /\ ~j.sent) => told[r] <= unanswered[r]
  /\ j.at = "log" /\ j.sent => told[r] > 0
  /\ j.at = "done" /\ j.status = "SENT" => told[r] > 0
  /\ j.at = "done" /\ j.status = "FAILED" => failedLog[r] = MaxRetries * j.gws

\* An upload is answered once all its tasks are done, none of them raising.
AnsweredIsDone ==
  upload = "answered" =>
    \A r \in issued : job[r].at = "done" /\ job[r].status # "raised"

\* What is proved to be inductive of QuotaDelivery.
QuotaInv ==
  /\ Tallies /\ AnsweredIsDone
  /\ \A r \in Rows : UnderWay(r) /\ Told(r)

\* The fields of a task at each of its steps.
LEMMA JobFields ==
  ASSUME Tallies, NEW r \in Rows
  PROVE  /\ job[r].at \in {"none", "send", "log", "done"}
         /\ job[r].at = "none" <=> job[r] = NoJob
         /\ job[r].at \in {"send", "log"} =>
              /\ job[r] \in Trying
              /\ job[r].gws \in Nat \ {0} /\ job[r].attempt \in 1 .. MaxRetries
              /\ job[r].next \in Nat \ {0} /\ job[r].sent \in BOOLEAN
         /\ job[r].at = "done" =>
              job[r].status \in {"SENT", "FAILED", "raised"} /\ job[r].gws \in Nat
         /\ told[r] \in Nat /\ unanswered[r] \in Nat /\ failedLog[r] \in Nat
<1>1. NoJob.at = "none"
  BY DEF NoJob
<1> QED
  BY <1>1 DEF Tallies, Task, Trying, Ended

\* A step of one task that keeps the invariant of its row keeps it for all.
LEMMA OneRow ==
  ASSUME QuotaInv, NEW r \in Rows, Tallies', upload' = upload, issued' = issued, upload # "answered",
         \A s \in Rows \ {r} :
           /\ job'[s] = job[s] /\ told'[s] = told[s]
           /\ unanswered'[s] = unanswered[s] /\ failedLog'[s] = failedLog[s],
         UnderWay(r)', Told(r)'
  PROVE  QuotaInv'
<1>1. ASSUME NEW s \in Rows, s # r PROVE UnderWay(s)' /\ Told(s)'
  BY <1>1 DEF QuotaInv, UnderWay, Told
<1>2. AnsweredIsDone'
  BY DEF AnsweredIsDone
<1> QED
  BY <1>1, <1>2 DEF QuotaInv

\* The record of a task that ends, with how many gateways it had.
LEMMA DoneFields ==
  ASSUME NEW answer \in {"SENT", "FAILED", "raised"}, NEW gws \in Nat
  PROVE  /\ Done(answer, gws) \in Ended
         /\ Done(answer, gws).at = "done" /\ Done(answer, gws).status = answer
         /\ Done(answer, gws).gws = gws
BY DEF Done, Ended

\* The tries of an attempt, counted: the last of one comes before the first of the next.
LEMMA Tried ==
  ASSUME NEW a \in Nat, NEW g \in Nat
  PROVE  (a - 1) * g + (g - 1) + 1 = a * g /\ (1 - 1) * g + (1 - 1) = 0
         /\ ((a + 1) - 1) * g + (1 - 1) = a * g
<1>1. (a - 1) * g = a * g - g
  OBVIOUS
<1>2. a * g \in Nat
  OBVIOUS
<1>3. (a + 1) - 1 = a
  OBVIOUS
<1>4. (1 - 1) * g = 0
  OBVIOUS
<1> QED
  BY <1>1, <1>2, <1>3, <1>4

\* A task loads its gateways.
LEMMA LoadKeeps ==
  ASSUME QuotaInv, NEW r \in Rows, LoadGateways(r)
  PROVE  QuotaInv'
<1> DEFINE gws == Cardinality(Carriers \ inactive)
           j == IF gws = 0 THEN Done("FAILED", gws) ELSE Sending(gws)
<1>1. gws \in Nat
  <2>1. IsFiniteSet(Carriers)
    BY QuotaDeliveryAssumption, FS_Interval DEF Carriers, QuotaDeliveryAssumption
  <2> QED
    BY <2>1, FS_Difference, FS_CardinalityType
<1>2. /\ upload = "dispatch" /\ r \in issued /\ job[r] = NoJob /\ Put(r, j)
      /\ UNCHANGED <<upload, coded, issued, told, unanswered, failedLog>>
  BY DEF LoadGateways
<1>3. /\ Tallies /\ UnderWay(r) /\ Told(r) /\ job[r].at = "none"
  BY <1>2, JobFields DEF QuotaInv
<1>4. told[r] = 0 /\ unanswered[r] = 0 /\ failedLog[r] = 0
  BY <1>3 DEF Told
<1> HIDE DEF gws
<1>5. MaxRetries \in Nat /\ 1 \in 1 .. MaxRetries /\ MaxRetries * 0 = 0
  BY QuotaDeliveryAssumption DEF QuotaDeliveryAssumption
<1>6. /\ gws = 0 => j.at = "done" /\ j.status = "FAILED" /\ j.gws = 0
      /\ gws # 0 => j.at = "send" /\ j.gws = gws /\ j.attempt = 1 /\ j.next = 1
      /\ j \in Task
  <2>1. CASE gws = 0
    BY <1>1, <2>1, DoneFields DEF Task, Trying
  <2>2. CASE gws # 0
    BY <1>1, <1>5, <2>2 DEF Sending, Task, Trying
  <2> QED
    BY <2>1, <2>2
<1> HIDE DEF j
<1>7. /\ told' = [told EXCEPT ![r] = 0] /\ unanswered' = [unanswered EXCEPT ![r] = 0]
      /\ failedLog' = [failedLog EXCEPT ![r] = 0] /\ coded' = coded /\ issued' = issued
      /\ job' = [job EXCEPT ![r] = j]
  BY <1>2, <1>3, <1>4 DEF Tallies, Put
<1>8. /\ Tallies' /\ job'[r] = j /\ told'[r] = 0 /\ unanswered'[r] = 0 /\ failedLog'[r] = 0
      /\ \A s \in Rows \ {r} :
           /\ job'[s] = job[s] /\ told'[s] = told[s]
           /\ unanswered'[s] = unanswered[s] /\ failedLog'[s] = failedLog[s]
  BY <1>2, <1>3, <1>6, <1>7 DEF Tallies
<1>9. (1 - 1) * gws + (1 - 1) = 0
  BY <1>1, Tried
<1>10. UnderWay(r)'
  <2>1. CASE gws = 0
    BY <1>6, <1>8, <2>1 DEF UnderWay
  <2>2. CASE gws # 0
    BY <1>1, <1>2, <1>6, <1>8, <1>9, <2>2 DEF UnderWay
  <2> QED
    BY <2>1, <2>2
<1>11. Told(r)'
  BY <1>5, <1>6, <1>8 DEF Told
<1> QED
  BY <1>2, <1>8, <1>10, <1>11, OneRow

\* A send goes out or not, and is answered or not.
LEMMA SendKeeps ==
  ASSUME QuotaInv, NEW r \in Rows, Send(r)
  PROVE  QuotaInv'
<1>0. job[r].at = "send" /\ UNCHANGED <<upload, coded, issued, failedLog>>
  BY DEF Send
<1>1. PICK out \in BOOLEAN, answer \in BOOLEAN :
        /\ answer => out
        /\ told' = [told EXCEPT ![r] = @ + IF out THEN 1 ELSE 0]
        /\ unanswered' = [unanswered EXCEPT ![r] = @ + IF out /\ ~answer THEN 1 ELSE 0]
        /\ Put(r, [job[r] EXCEPT !.at = "log", !.sent = answer])
  BY DEF Send
<1> DEFINE j == [job[r] EXCEPT !.at = "log", !.sent = answer]
           a == told[r] + IF out THEN 1 ELSE 0
           b == unanswered[r] + IF out /\ ~answer THEN 1 ELSE 0
           c == failedLog[r]
<1>2. /\ Tallies /\ UnderWay(r) /\ Told(r)
      /\ job[r] \in Trying
      /\ told[r] \in Nat /\ unanswered[r] \in Nat /\ failedLog[r] \in Nat
  BY <1>0, JobFields DEF QuotaInv
<1>3. /\ j \in Trying
      /\ j.at = "log" /\ j.sent = answer /\ j.gws = job[r].gws
      /\ j.attempt = job[r].attempt /\ j.next = job[r].next
  BY <1>2 DEF Task, Trying
<1>4. told[r] <= unanswered[r]
  BY <1>0, <1>2 DEF Told
<1>5. /\ a \in Nat /\ b \in Nat /\ c \in Nat /\ a <= 1 + b
      /\ ~answer => a <= b
      /\ answer => a > 0
  BY <1>1, <1>2, <1>4
<1>6. /\ told' = [told EXCEPT ![r] = a] /\ unanswered' = [unanswered EXCEPT ![r] = b]
      /\ failedLog' = [failedLog EXCEPT ![r] = c] /\ coded' = coded /\ issued' = issued
      /\ job' = [job EXCEPT ![r] = j]
  BY <1>0, <1>1, <1>2 DEF Tallies, Put
<1> HIDE DEF a, b, c, j
<1>7. /\ Tallies' /\ job'[r] = j /\ told'[r] = a /\ unanswered'[r] = b /\ failedLog'[r] = c
      /\ \A s \in Rows \ {r} :
           /\ job'[s] = job[s] /\ told'[s] = told[s]
           /\ unanswered'[s] = unanswered[s] /\ failedLog'[s] = failedLog[s]
  BY <1>2, <1>3, <1>5, <1>6 DEF Tallies, Task
<1>8. UnderWay(r)'
  BY <1>0, <1>2, <1>3, <1>7 DEF UnderWay, c
<1>9. Told(r)'
  BY <1>3, <1>5, <1>7 DEF Told
<1>10. upload = "dispatch"
  BY <1>0, <1>2 DEF UnderWay
<1> QED
  BY <1>0, <1>7, <1>8, <1>9, <1>10, OneRow

\* A log row ends the task after an answer, and counts a refusal otherwise.
LEMMA LogKeeps ==
  ASSUME QuotaInv, NEW r \in Rows, Log(r)
  PROVE  QuotaInv'
<1> DEFINE j == job[r]
           k == IF j.sent THEN Done("SENT", j.gws) ELSE Onward(j)
           c == IF j.sent THEN failedLog[r] ELSE failedLog[r] + 1
<1>0. /\ j.at = "log" /\ UNCHANGED <<upload, coded, issued, told, unanswered>>
      /\ Put(r, k)
      /\ failedLog' = IF j.sent THEN failedLog ELSE [failedLog EXCEPT ![r] = @ + 1]
  BY DEF Log
<1>1. /\ Tallies /\ UnderWay(r) /\ Told(r)
      /\ j \in Trying
      /\ j.gws \in Nat \ {0} /\ j.attempt \in 1 .. MaxRetries /\ j.next \in Nat \ {0}
      /\ j.sent \in BOOLEAN
      /\ told[r] \in Nat /\ unanswered[r] \in Nat /\ failedLog[r] \in Nat
  BY <1>0, JobFields DEF QuotaInv
<1>2. MaxRetries \in Nat
  BY QuotaDeliveryAssumption DEF QuotaDeliveryAssumption
<1>3. /\ j.next <= j.gws /\ upload = "dispatch" /\ r \in issued
      /\ failedLog[r] = (j.attempt - 1) * j.gws + (j.next - 1)
      /\ told[r] <= 1 + unanswered[r]
      /\ j.sent => told[r] > 0
      /\ ~j.sent => told[r] <= unanswered[r]
  BY <1>0, <1>1 DEF UnderWay, Told
<1>4. /\ c \in Nat /\ failedLog' = [failedLog EXCEPT ![r] = c]
      /\ told' = [told EXCEPT ![r] = told[r]]
      /\ unanswered' = [unanswered EXCEPT ![r] = unanswered[r]]
      /\ coded' = coded /\ issued' = issued /\ job' = [job EXCEPT ![r] = k]
  <2> HIDE DEF k
  <2>1. c \in Nat
    BY <1>1
  <2>2. /\ told' = [told EXCEPT ![r] = told[r]]
        /\ unanswered' = [unanswered EXCEPT ![r] = unanswered[r]]
    BY <1>0, <1>1 DEF Tallies
  <2>3. failedLog' = [failedLog EXCEPT ![r] = c]
    BY <1>0, <1>1 DEF Tallies
  <2> QED
    BY <1>0, <2>1, <2>2, <2>3 DEF Put
<1> DEFINE Typed(x) == x \in Task
           Right(x) ==
             \/ x.at = "done" /\ x.status = "SENT" /\ told[r] > 0
             \/ x.at = "done" /\ x.status = "FAILED" /\ c = MaxRetries * x.gws
             \/ /\ x.at = "send" /\ told[r] <= unanswered[r] /\ x.next <= x.gws
                /\ c = (x.attempt - 1) * x.gws + (x.next - 1)
<1>5. Typed(k) /\ Right(k)
  <2>1. CASE j.sent
    BY <1>1, <1>3, <2>1, DoneFields DEF Task, Trying
  <2>2. CASE ~j.sent /\ j.next < j.gws
    <3> DEFINE x == [j EXCEPT !.at = "send", !.next = @ + 1, !.sent = FALSE]
    <3>1. k = x
      BY <2>2 DEF Onward
    <3>2. j.next + 1 \in Nat \ {0}
      BY <1>1
    <3>3. /\ Typed(x) /\ x.at = "send" /\ x.next = j.next + 1 /\ x.gws = j.gws
          /\ x.attempt = j.attempt
      BY <1>1, <3>2 DEF Task, Trying
    <3>4. c = failedLog[r] + 1 /\ (j.attempt - 1) * j.gws \in Int
      BY <1>1, <1>2, <2>2
    <3>5. (j.next + 1) - 1 = (j.next - 1) + 1
      BY <1>1
    <3>6. c = (j.attempt - 1) * j.gws + ((j.next + 1) - 1)
      BY <1>1, <1>3, <3>4, <3>5
    <3>7. j.next + 1 <= j.gws
      BY <1>1, <2>2
    <3> HIDE DEF x
    <3> QED
      BY <1>3, <2>2, <3>1, <3>3, <3>6, <3>7
  <2>3. CASE ~j.sent /\ ~(j.next < j.gws)
    <3>1. j.next = j.gws
      BY <1>1, <1>3, <2>3
    <3>2. j.attempt \in Nat
      BY <1>1, <1>2
    <3>3. c = j.attempt * j.gws
      <4>1. c = (j.attempt - 1) * j.gws + (j.gws - 1) + 1
        BY <1>3, <2>3, <3>1
      <4>2. (j.attempt - 1) * j.gws + (j.gws - 1) + 1 = j.attempt * j.gws
        BY <1>1, <3>2, Tried
      <4> QED
        BY <4>1, <4>2
    <3>4. CASE LastAttempt(j.attempt)
      <4>1. k = Done("FAILED", j.gws)
        BY <2>3, <3>4 DEF Onward
      <4> QED
        BY <1>1, <3>3, <3>4, <4>1, DoneFields DEF LastAttempt, Task, Trying
    <3>5. CASE ~LastAttempt(j.attempt)
      <4> DEFINE x == [j EXCEPT !.at = "send", !.next = 1, !.attempt = @ + 1, !.sent = FALSE]
      <4>1. k = x
        BY <2>3, <3>5 DEF Onward
      <4>2. j.attempt + 1 \in 1 .. MaxRetries /\ 1 \in Nat \ {0}
        BY <1>1, <1>2, <3>5 DEF LastAttempt
      <4> DEFINE a == j.attempt + 1
      <4> HIDE DEF a
      <4>6. x = [j EXCEPT !.at = "send", !.next = 1, !.attempt = a, !.sent = FALSE]
        BY DEF a
      <4>3. /\ Typed(x) /\ x.at = "send" /\ x.next = 1 /\ x.gws = j.gws
            /\ x.attempt = j.attempt + 1
        <5>1. a \in 1 .. MaxRetries
          BY <4>2 DEF a
        <5> HIDE DEF x
        <5>2. x.attempt = a /\ Typed(x) /\ x.at = "send" /\ x.next = 1 /\ x.gws = j.gws
          BY <1>1, <4>2, <4>6, <5>1 DEF Task, Trying
        <5> QED
          BY <5>2 DEF a
      <4>4. c = ((j.attempt + 1) - 1) * j.gws + (1 - 1)
        BY <1>1, <3>2, <3>3, Tried
      <4>5. 1 <= j.gws
        BY <1>1
      <4> HIDE DEF x
      <4> QED
        BY <1>3, <2>3, <4>1, <4>3, <4>4, <4>5
    <3> QED
      BY <3>4, <3>5
  <2> QED
    BY <1>1, <2>1, <2>2, <2>3
<1> HIDE DEF k, c
<1>6. /\ Tallies' /\ job'[r] = k /\ told'[r] = told[r] /\ unanswered'[r] = unanswered[r]
      /\ failedLog'[r] = c
      /\ \A s \in Rows \ {r} :
           /\ job'[s] = job[s] /\ told'[s] = told[s]
           /\ unanswered'[s] = unanswered[s] /\ failedLog'[s] = failedLog[s]
  BY <1>0, <1>1, <1>4, <1>5 DEF Tallies
<1>7. UnderWay(r)'
  BY <1>0, <1>3, <1>5, <1>6 DEF UnderWay
<1>8. Told(r)'
  BY <1>3, <1>5, <1>6 DEF Told
<1> QED
  BY <1>0, <1>3, <1>6, <1>7, <1>8, OneRow

\* A log row that fails, or a sibling that did, ends the task.
LEMMA EndKeeps ==
  ASSUME QuotaInv, NEW r \in Rows, LogFails(r) \/ Cancel(r)
  PROVE  QuotaInv'
<1>1. PICK a \in Nat, g \in Nat :
        /\ upload = "dispatch" /\ r \in issued /\ a <= 1 + unanswered[r]
        /\ told' = [told EXCEPT ![r] = a]
        /\ job' = [job EXCEPT ![r] = Done("raised", g)]
        /\ upload' = upload /\ coded' = coded /\ issued' = issued
        /\ unanswered' = unanswered /\ failedLog' = failedLog
  <2>1. Tallies /\ UnderWay(r) /\ Told(r) /\ told[r] \in Nat /\ unanswered[r] \in Nat
    BY JobFields DEF QuotaInv
  <2>2. CASE LogFails(r)
    <3>1. job[r].at = "log" /\ job[r].gws \in Nat
      BY <2>1, <2>2, JobFields DEF LogFails
    <3>2. /\ upload = "dispatch" /\ r \in issued /\ told[r] <= 1 + unanswered[r]
          /\ told' = [told EXCEPT ![r] = told[r]]
      BY <2>1, <2>2, <3>1 DEF LogFails, UnderWay, Told, Tallies
    <3> QED
      BY <2>1, <2>2, <3>1, <3>2 DEF LogFails, Put
  <2>3. CASE Cancel(r)
    <3>1. PICK out \in IF job[r].at = "send" THEN 0 .. 1 ELSE {0} :
            told' = [told EXCEPT ![r] = @ + out]
      BY <2>3 DEF Cancel
    <3> DEFINE a == told[r] + out
               g == IF job[r] = NoJob THEN 0 ELSE job[r].gws
    <3>2. a \in Nat /\ a <= 1 + unanswered[r]
      BY <2>1, <3>1 DEF Told
    <3>3. g \in Nat
      BY <2>1, <2>3, JobFields DEF Cancel
    <3>4. told' = [told EXCEPT ![r] = a]
      BY <3>1
    <3>5. /\ upload = "dispatch" /\ r \in issued
          /\ job' = [job EXCEPT ![r] = Done("raised", g)]
          /\ upload' = upload /\ coded' = coded /\ issued' = issued
          /\ unanswered' = unanswered /\ failedLog' = failedLog
      BY <2>3 DEF Cancel, Put
    <3> HIDE DEF a, g
    <3> QED
      BY <3>2, <3>3, <3>4, <3>5
  <2> QED
    BY <2>2, <2>3
<1>2. /\ Done("raised", g) \in Ended /\ Done("raised", g).at = "done"
      /\ Done("raised", g).status = "raised"
  BY DoneFields
<1>3. Tallies
  BY DEF QuotaInv
<1>4. /\ Tallies' /\ job'[r] = Done("raised", g) /\ told'[r] = a
      /\ unanswered'[r] = unanswered[r]
      /\ \A s \in Rows \ {r} :
           /\ job'[s] = job[s] /\ told'[s] = told[s]
           /\ unanswered'[s] = unanswered[s] /\ failedLog'[s] = failedLog[s]
  BY <1>1, <1>2, <1>3 DEF Tallies, Task
<1>5. UnderWay(r)' /\ Told(r)'
  BY <1>1, <1>2, <1>4 DEF UnderWay, Told
<1> QED
  BY <1>1, <1>4, <1>5, OneRow

\* A crash ends every task that is under way.
LEMMA CrashKeeps ==
  ASSUME QuotaInv, CrashUpload
  PROVE  QuotaInv'
<1>1. /\ upload' = "failed"
      /\ job' = [r \in Rows |-> IF job[r].at \in {"send", "log"} THEN Done("raised", job[r].gws)
                                ELSE job[r]]
      /\ UNCHANGED <<coded, issued, told, unanswered, failedLog>>
  BY DEF CrashUpload
<1>2. Tallies
  BY DEF QuotaInv
<1>3. ASSUME NEW r \in Rows
      PROVE  /\ job'[r] \in {NoJob} \cup Task
             /\ UnderWay(r)' /\ Told(r)'
  <2>1. Told(r)
    BY DEF QuotaInv
  <2>2. CASE job[r].at \in {"send", "log"}
    <3>1. job'[r] = Done("raised", job[r].gws) /\ job[r].gws \in Nat
      BY <1>1, <1>2, <2>2, JobFields
    <3>2. /\ job'[r] \in Ended /\ job'[r].at = "done" /\ job'[r].status = "raised"
      BY <3>1, DoneFields
    <3> QED
      BY <1>1, <2>1, <3>2 DEF UnderWay, Told, Task
  <2>3. CASE job[r].at \notin {"send", "log"}
    <3>1. job'[r] = job[r]
      BY <1>1, <2>3
    <3> QED
      BY <1>1, <1>2, <2>1, <2>3, <3>1 DEF UnderWay, Told, Tallies
  <2> QED
    BY <2>2, <2>3
<1>4. Tallies' /\ AnsweredIsDone'
  BY <1>1, <1>2, <1>3 DEF Tallies, AnsweredIsDone
<1> QED
  BY <1>3, <1>4 DEF QuotaInv

\* The steps of the request, and an operator's: no task moves.
LEMMA UploadKeeps ==
  ASSUME QuotaInv, ReadSheet \/ GenerateCodes \/ Persist \/ AnswerUpload
  PROVE  QuotaInv'
<1>1. /\ UNCHANGED <<job, told, unanswered, failedLog>>
      /\ coded' \subseteq Rows /\ issued' \subseteq Rows
  BY DEF QuotaInv, Tallies, ReadSheet, GenerateCodes, Persist, AnswerUpload
<1>2. Tallies'
  BY <1>1 DEF QuotaInv, Tallies
<1>3. ASSUME NEW r \in Rows PROVE job[r].at \notin {"send", "log"}
  <2>1. UnderWay(r)
    BY DEF QuotaInv
  <2> QED
    BY <2>1 DEF UnderWay, ReadSheet, GenerateCodes, Persist, AnswerUpload
<1>4. \A r \in Rows : UnderWay(r)' /\ Told(r)'
  BY <1>1, <1>3 DEF QuotaInv, UnderWay, Told
<1>5. AnsweredIsDone'
  BY <1>1 DEF ReadSheet, GenerateCodes, Persist, AnswerUpload, AnsweredIsDone
<1> QED
  BY <1>2, <1>4, <1>5 DEF QuotaInv

\* Every upload keeps its tasks, its log and its messages in step (dispatcher.py:219-257).
THEOREM QuotaInvHolds == QuotaDeliverySpec => []QuotaInv
<1>1. QuotaDeliveryInit => QuotaInv
  <2> SUFFICES ASSUME QuotaDeliveryInit PROVE QuotaInv
    OBVIOUS
  <2>1. NoJob.at = "none"
    BY DEF NoJob
  <2>2. Tallies
    BY DEF QuotaDeliveryInit, Tallies
  <2>3. AnsweredIsDone
    BY DEF QuotaDeliveryInit, AnsweredIsDone
  <2>4. ASSUME NEW r \in Rows PROVE UnderWay(r) /\ Told(r)
    BY <2>1 DEF QuotaDeliveryInit, UnderWay, Told
  <2> QED
    BY <2>2, <2>3, <2>4 DEF QuotaInv
<1>2. QuotaInv /\ [QuotaDeliveryNext]_quotaVars => QuotaInv'
  <2> SUFFICES ASSUME QuotaInv, [QuotaDeliveryNext]_quotaVars PROVE QuotaInv'
    OBVIOUS
  <2>1. CASE ReadSheet \/ GenerateCodes \/ Persist \/ AnswerUpload
    BY <2>1, UploadKeeps
  <2>2. CASE CrashUpload
    BY <2>2, CrashKeeps
  <2>3. ASSUME NEW r \in Rows, LoadGateways(r) PROVE QuotaInv'
    BY <2>3, LoadKeeps
  <2>4. ASSUME NEW r \in Rows, Send(r) PROVE QuotaInv'
    BY <2>4, SendKeeps
  <2>5. ASSUME NEW r \in Rows, Log(r) PROVE QuotaInv'
    BY <2>5, LogKeeps
  <2>6. ASSUME NEW r \in Rows, LogFails(r) \/ Cancel(r) PROVE QuotaInv'
    BY <2>6, EndKeeps
  <2>7. CASE (\E g \in Carriers : SwitchOff(g)) \/ UNCHANGED quotaVars
    <3>1. UNCHANGED <<upload, coded, issued, job, told, unanswered, failedLog>>
      BY <2>7 DEF SwitchOff, quotaVars
    <3> QED
      BY <3>1 DEF QuotaInv, Tallies, AnsweredIsDone, UnderWay, Told
  <2> QED
    BY <2>1, <2>2, <2>3, <2>4, <2>5, <2>6, <2>7 DEF QuotaDeliveryNext
<1> QED
  BY <1>1, <1>2, PTL DEF QuotaDeliverySpec

\* Whatever fails, of an answered upload each committed code reached its employee or was
\* refused by every gateway its task found, NOTIFY_MAX_RETRIES times, each in the log;
\* and no code is told twice without a send in doubt (dispatcher.py:219-257).
THEOREM DeliveryAccountedHolds == QuotaDeliverySpec => []DeliveryAccounted
<1>1. QuotaInv => DeliveryAccounted
  <2> SUFFICES ASSUME QuotaInv PROVE DeliveryAccounted
    OBVIOUS
  <2>1. RepeatNeedsDoubt
    BY DEF QuotaInv, Told, RepeatNeedsDoubt
  <2>2. ASSUME upload = "answered", NEW r \in issued, told[r] = 0
        PROVE  failedLog[r] = MaxRetries * job[r].gws
    <3>1. r \in Rows /\ Tallies /\ Told(r)
      BY <2>2 DEF QuotaInv, Tallies
    <3>2. job[r].at = "done" /\ job[r].status # "raised"
      BY <2>2 DEF QuotaInv, AnsweredIsDone
    <3>3. job[r].status = "FAILED"
      BY <2>2, <3>1, <3>2, JobFields DEF Told
    <3> QED
      BY <3>1, <3>2, <3>3 DEF Told
  <2> QED
    BY <2>1, <2>2 DEF DeliveryAccounted, AnsweredIsTold
<1> QED
  BY <1>1, QuotaInvHolds, PTL

\* A task has sent at most once for each try it has logged, and once more before it logs.
TriesCount(r) ==
  /\ job[r].at = "none" => told[r] = 0 /\ unanswered[r] = 0
  /\ job[r].at = "send" => told[r] <= failedLog[r] /\ unanswered[r] <= failedLog[r]
  /\ job[r].at = "log" => told[r] <= failedLog[r] + 1 /\ unanswered[r] <= failedLog[r] + 1

\* The tries under way fit in the attempts that a task makes of every gateway.
LEMMA TriesFit ==
  ASSUME NEW a \in Nat, NEW m \in Nat, NEW g \in Nat, NEW n \in Nat, NEW k \in Nat,
         1 <= a, a <= m, g <= k, 1 <= n, n <= g
  PROVE  (a - 1) * g + (n - 1) + 1 <= m * k
<1>1. (a - 1) * g + n <= a * g
  <2>1. (a - 1) * g = a * g - g
    OBVIOUS
  <2> QED
    BY <2>1
<1>2. a * g <= a * k
  OBVIOUS
<1>3. a * k <= m * k
  OBVIOUS
<1>4. (a - 1) * g \in Nat /\ a * g \in Nat /\ a * k \in Nat /\ m * k \in Nat
  <2>1. a - 1 \in Nat
    OBVIOUS
  <2> QED
    BY <2>1
<1> HIDE DEF Nat
<1> QED
  BY <1>1, <1>2, <1>3, <1>4

\* A task under way has room for one more try.
LEMMA TryHasRoom ==
  ASSUME QuotaInv, QuotaDeliveryTypeOK, NEW r \in Rows, job[r].at \in {"send", "log"}
  PROVE  failedLog[r] + 1 \in Tries
<1>1. /\ job[r].gws \in 0 .. NumCarriers /\ job[r].attempt \in 1 .. MaxRetries
      /\ job[r].next \in 1 .. NumCarriers + 1
  <2>1. job[r] \in Job /\ NoJob.at = "none"
    BY DEF QuotaDeliveryTypeOK, NoJob
  <2> QED
    BY <2>1 DEF Job
<1>2. job[r].next <= job[r].gws
      /\ failedLog[r] = (job[r].attempt - 1) * job[r].gws + (job[r].next - 1)
  BY DEF QuotaInv, UnderWay
<1>3. MaxRetries \in Nat /\ NumCarriers \in Nat /\ failedLog[r] \in Nat
  BY QuotaDeliveryAssumption DEF QuotaDeliveryAssumption, QuotaInv, Tallies
<1> DEFINE a == job[r].attempt
           g == job[r].gws
           n == job[r].next
<1>4. a \in Nat /\ g \in Nat /\ n \in Nat /\ 1 <= a /\ a <= MaxRetries /\ g <= NumCarriers
      /\ 1 <= n /\ n <= g
  BY <1>1, <1>2, <1>3
<1>5. failedLog[r] = (a - 1) * g + (n - 1)
  BY <1>2
<1> HIDE DEF a, g, n
<1>6. (a - 1) * g + (n - 1) + 1 <= MaxRetries * NumCarriers
  BY <1>3, <1>4, TriesFit
<1>7. failedLog[r] + 1 <= MaxRetries * NumCarriers
  BY <1>5, <1>6
<1> QED
  BY <1>3, <1>7 DEF Tries

\* A step of one task that keeps its counts keeps all of them.
LEMMA OneTask ==
  ASSUME QuotaDeliveryTypeOK, \A s \in Rows : TriesCount(s), NEW r \in Rows, NEW j \in Job,
         Put(r, j), UNCHANGED <<upload, sheet, coded, issued, inactive>>,
         troubles' \in 0 .. MaxTroubles,
         NEW x \in Tries, NEW y \in Tries, NEW z \in Tries,
         told' = [told EXCEPT ![r] = x], unanswered' = [unanswered EXCEPT ![r] = y],
         failedLog' = [failedLog EXCEPT ![r] = z],
         j.at = "none" => x = 0 /\ y = 0, j.at = "send" => x <= z /\ y <= z,
         j.at = "log" => x <= z + 1 /\ y <= z + 1
  PROVE  QuotaDeliveryTypeOK' /\ \A s \in Rows : TriesCount(s)'
<1>1. QuotaDeliveryTypeOK'
  BY DEF QuotaDeliveryTypeOK, Put
<1>2. ASSUME NEW s \in Rows PROVE TriesCount(s)'
  <2>1. CASE s = r
    <3>1. job'[s] = j /\ told'[s] = x /\ unanswered'[s] = y /\ failedLog'[s] = z
      BY <2>1 DEF QuotaDeliveryTypeOK, Put
    <3> QED
      BY <3>1 DEF TriesCount
  <2>2. CASE s # r
    <3>1. /\ job'[s] = job[s] /\ told'[s] = told[s]
          /\ unanswered'[s] = unanswered[s] /\ failedLog'[s] = failedLog[s]
      BY <2>2 DEF QuotaDeliveryTypeOK, Put
    <3> QED
      BY <3>1 DEF TriesCount
  <2> QED
    BY <2>1, <2>2
<1> QED
  BY <1>1, <1>2

\* A task's record, counts and room at each step.
LEMMA TaskCounts ==
  ASSUME QuotaInv, QuotaDeliveryTypeOK, NEW r \in Rows, TriesCount(r)
  PROVE  /\ job[r] \in Job /\ job[r].at \in {"none", "send", "log", "done"}
         /\ told[r] \in Nat /\ unanswered[r] \in Nat /\ failedLog[r] \in Nat
         /\ told[r] \in Tries /\ unanswered[r] \in Tries /\ failedLog[r] \in Tries
         /\ told = [told EXCEPT ![r] = told[r]]
         /\ unanswered = [unanswered EXCEPT ![r] = unanswered[r]]
         /\ failedLog = [failedLog EXCEPT ![r] = failedLog[r]]
         /\ job[r].at \in {"send", "log"} =>
              /\ failedLog[r] + 1 \in Tries
              /\ \A x \in Nat : x <= failedLog[r] + 1 => x \in Tries
              /\ job[r] \in [at : {"send", "log"}, gws : 0 .. NumCarriers,
                             attempt : 1 .. MaxRetries, next : 1 .. NumCarriers + 1,
                             sent : BOOLEAN]
<1>1. /\ job[r] \in Job
      /\ told[r] \in Tries /\ unanswered[r] \in Tries /\ failedLog[r] \in Tries
      /\ told = [told EXCEPT ![r] = told[r]]
      /\ unanswered = [unanswered EXCEPT ![r] = unanswered[r]]
      /\ failedLog = [failedLog EXCEPT ![r] = failedLog[r]]
  BY DEF QuotaDeliveryTypeOK
<1>2. NoJob.at = "none"
  BY DEF NoJob
<1>3. /\ job[r].at \in {"none", "send", "log", "done"}
      /\ job[r].at \in {"send", "log"} =>
           job[r] \in [at : {"send", "log"}, gws : 0 .. NumCarriers,
                       attempt : 1 .. MaxRetries, next : 1 .. NumCarriers + 1, sent : BOOLEAN]
  BY <1>1, <1>2 DEF Job
<1>4. told[r] \in Nat /\ unanswered[r] \in Nat /\ failedLog[r] \in Nat
  BY <1>1 DEF Tries
<1>5. ASSUME job[r].at \in {"send", "log"}
      PROVE  failedLog[r] + 1 \in Tries /\ \A x \in Nat : x <= failedLog[r] + 1 => x \in Tries
  <2>1. failedLog[r] + 1 \in Tries
    BY <1>5, TryHasRoom
  <2>2. MaxRetries * NumCarriers \in Nat
    BY QuotaDeliveryAssumption DEF QuotaDeliveryAssumption
  <2>3. failedLog[r] + 1 <= MaxRetries * NumCarriers
    BY <2>1 DEF Tries
  <2>4. \A x \in Nat : x <= failedLog[r] + 1 => x <= MaxRetries * NumCarriers
    BY <1>4, <2>2, <2>3
  <2>5. \A x \in Nat : x <= MaxRetries * NumCarriers => x \in Tries
    BY <2>2 DEF Tries
  <2> QED
    BY <2>1, <2>4, <2>5
<1> QED
  BY <1>1, <1>3, <1>4, <1>5

\* A record of a task that ends or starts is one of Job.
LEMMA NewJob ==
  ASSUME NEW gws \in 0 .. NumCarriers
  PROVE  /\ \A answer \in {"SENT", "FAILED", "raised"} :
              Done(answer, gws) \in Job /\ Done(answer, gws).at = "done"
         /\ Sending(gws) \in Job /\ Sending(gws).at = "send"
<1>1. 1 \in 1 .. MaxRetries /\ 1 \in 1 .. NumCarriers + 1
  BY QuotaDeliveryAssumption DEF QuotaDeliveryAssumption
<1> QED
  BY <1>1 DEF Done, Sending, Job

\* What a task does after a refusal is again a record of Job.
LEMMA OnwardIsJob ==
  ASSUME NEW j \in [at : {"send", "log"}, gws : 0 .. NumCarriers, attempt : 1 .. MaxRetries,
                    next : 1 .. NumCarriers + 1, sent : BOOLEAN]
  PROVE  Onward(j) \in Job /\ Onward(j).at \in {"send", "done"}
<1>0. MaxRetries \in Nat /\ NumCarriers \in Nat
  BY QuotaDeliveryAssumption DEF QuotaDeliveryAssumption
<1>1. CASE j.next < j.gws
  <2>1. Onward(j) = [j EXCEPT !.at = "send", !.next = j.next + 1, !.sent = FALSE]
    BY <1>1 DEF Onward
  <2>2. j.next + 1 \in 1 .. NumCarriers + 1
    BY <1>0, <1>1
  <2> QED
    BY <2>1, <2>2 DEF Job
<1>2. CASE ~(j.next < j.gws) /\ LastAttempt(j.attempt)
  <2>1. Onward(j) = Done("FAILED", j.gws)
    BY <1>2 DEF Onward
  <2> QED
    BY <2>1, NewJob
<1>3. CASE ~(j.next < j.gws) /\ ~LastAttempt(j.attempt)
  <2>1. Onward(j) = [j EXCEPT !.at = "send", !.next = 1, !.attempt = j.attempt + 1, !.sent = FALSE]
    BY <1>3 DEF Onward
  <2>2. j.attempt + 1 \in 1 .. MaxRetries /\ 1 \in 1 .. NumCarriers + 1
    BY <1>0, <1>3 DEF LastAttempt
  <2> QED
    BY <2>1, <2>2 DEF Job
<1> QED
  BY <1>1, <1>2, <1>3

\* The counts of each task stay within the tries it may make.
LEMMA QuotaDeliveryTypes == QuotaDeliverySpec => []QuotaDeliveryTypeOK
<1> DEFINE Counts ==
      /\ QuotaDeliveryTypeOK /\ \A r \in Rows : TriesCount(r)
      /\ upload \in {"idle", "read", "coded"} => issued = {}
<1>1. QuotaDeliveryInit => Counts
  <2>1. 0 \in Tries /\ 0 \in 0 .. MaxTroubles /\ NoJob \in Job
    BY QuotaDeliveryAssumption DEF QuotaDeliveryAssumption, Tries, Job
  <2> QED
    BY <2>1 DEF QuotaDeliveryInit, QuotaDeliveryTypeOK, TriesCount
<1>2. QuotaInv /\ Counts /\ [QuotaDeliveryNext]_quotaVars => Counts'
  <2> SUFFICES ASSUME QuotaInv, Counts, [QuotaDeliveryNext]_quotaVars PROVE Counts'
    OBVIOUS
  <2>0. /\ QuotaDeliveryTypeOK /\ \A r \in Rows : TriesCount(r)
        /\ upload \in {"idle", "read", "coded"} => issued = {}
        /\ troubles \in 0 .. MaxTroubles
    BY DEF QuotaDeliveryTypeOK
  <2>t. Trouble => troubles' \in 0 .. MaxTroubles
    BY <2>0, QuotaDeliveryAssumption DEF Trouble, QuotaDeliveryAssumption
  <2>1. CASE ReadSheet \/ GenerateCodes \/ Persist \/ AnswerUpload
    <3>1. UNCHANGED <<job, told, unanswered, failedLog>>
      BY <2>1 DEF ReadSheet, GenerateCodes, Persist, AnswerUpload
    <3>2. \A r \in Rows : TriesCount(r)'
      BY <2>0, <3>1 DEF TriesCount
    <3>3. QuotaDeliveryTypeOK' /\ (upload' \in {"idle", "read", "coded"} => issued' = {})
      <4>1. CASE ReadSheet
        BY <2>0, <4>1 DEF ReadSheet, QuotaDeliveryTypeOK, ParsedAs
      <4>2. CASE GenerateCodes
        BY <2>0, <4>2 DEF GenerateCodes, QuotaDeliveryTypeOK
      <4>3. CASE Persist
        BY <2>0, <4>3 DEF Persist, QuotaDeliveryTypeOK
      <4>4. CASE AnswerUpload
        BY <2>0, <4>4 DEF AnswerUpload, QuotaDeliveryTypeOK
      <4> QED
        BY <2>1, <4>1, <4>2, <4>3, <4>4
    <3> QED
      BY <3>2, <3>3
  <2>2. CASE CrashUpload
    <3>1. /\ upload' = "failed" /\ troubles' \in 0 .. MaxTroubles
          /\ job' = [r \in Rows |-> IF job[r].at \in {"send", "log"} THEN Done("raised", job[r].gws)
                                    ELSE job[r]]
          /\ UNCHANGED <<sheet, coded, issued, inactive, told, unanswered, failedLog>>
      BY <2>2, <2>t DEF CrashUpload
    <3>2. ASSUME NEW r \in Rows PROVE job'[r] \in Job /\ TriesCount(r)'
      <4>1. CASE job[r].at \in {"send", "log"}
        <5>1. job[r].gws \in 0 .. NumCarriers
          BY <2>0, <4>1, TaskCounts
        <5>2. job'[r] \in Job /\ job'[r].at = "done"
          BY <3>1, <4>1, <5>1, NewJob
        <5> QED
          BY <5>2 DEF TriesCount
      <4>2. CASE job[r].at \notin {"send", "log"}
        <5>1. job'[r] = job[r]
          BY <3>1, <4>2
        <5> QED
          BY <2>0, <3>1, <5>1, TaskCounts DEF TriesCount
      <4> QED
        BY <4>1, <4>2
    <3>3. job' \in [Rows -> Job]
      BY <3>1, <3>2
    <3> QED
      BY <2>0, <3>1, <3>2, <3>3 DEF QuotaDeliveryTypeOK
  <2>3. ASSUME NEW r \in Rows, LoadGateways(r) PROVE Counts'
    <3> DEFINE gws == Cardinality(Carriers \ inactive)
               j == IF gws = 0 THEN Done("FAILED", gws) ELSE Sending(gws)
    <3>1. /\ job[r] = NoJob /\ Put(r, j)
          /\ UNCHANGED <<upload, sheet, coded, issued, inactive, told, unanswered, failedLog,
                         troubles>>
      BY <2>3 DEF LoadGateways
    <3>2. gws \in 0 .. NumCarriers
      <4>1. IsFiniteSet(Carriers) /\ Cardinality(Carriers) = NumCarriers
        BY FS_Interval, QuotaDeliveryAssumption DEF Carriers, QuotaDeliveryAssumption
      <4>2. gws \in Nat /\ gws <= NumCarriers
        BY <4>1, FS_Subset, FS_CardinalityType
      <4> QED
        BY <4>2, QuotaDeliveryAssumption DEF QuotaDeliveryAssumption
    <3>3. j \in Job /\ j.at \in {"send", "done"}
      BY <3>2, NewJob
    <3>4. told[r] = 0 /\ unanswered[r] = 0
      BY <2>0, <3>1 DEF TriesCount, NoJob
    <3> HIDE DEF j
    <3> QED
      BY <2>0, <3>1, <3>3, <3>4, OneTask, TaskCounts
  <2>4. ASSUME NEW r \in Rows, Send(r) PROVE Counts'
    <3>1. PICK out, answer \in BOOLEAN :
            /\ told' = [told EXCEPT ![r] = @ + IF out THEN 1 ELSE 0]
            /\ unanswered' = [unanswered EXCEPT ![r] = @ + IF out /\ ~answer THEN 1 ELSE 0]
            /\ Put(r, [job[r] EXCEPT !.at = "log", !.sent = answer])
      BY <2>4 DEF Send
    <3>2. /\ job[r].at = "send"
          /\ UNCHANGED <<upload, sheet, coded, issued, inactive, failedLog, troubles>>
      BY <2>4 DEF Send
    <3> DEFINE x == told[r] + IF out THEN 1 ELSE 0
               y == unanswered[r] + IF out /\ ~answer THEN 1 ELSE 0
               j == [job[r] EXCEPT !.at = "log", !.sent = answer]
    <3>3. /\ told[r] <= failedLog[r] /\ unanswered[r] <= failedLog[r]
          /\ told[r] \in Nat /\ unanswered[r] \in Nat /\ failedLog[r] \in Nat
      BY <2>0, <3>2, TaskCounts DEF TriesCount
    <3>4. x \in Nat /\ y \in Nat /\ x <= failedLog[r] + 1 /\ y <= failedLog[r] + 1
      BY <3>3
    <3>5. j \in Job /\ j.at = "log"
      <4>1. job[r] \in [at : {"send", "log"}, gws : 0 .. NumCarriers, attempt : 1 .. MaxRetries,
                        next : 1 .. NumCarriers + 1, sent : BOOLEAN]
        BY <2>0, <3>2, TaskCounts
      <4> QED
        BY <4>1 DEF Job
    <3>6. told' = [told EXCEPT ![r] = x] /\ unanswered' = [unanswered EXCEPT ![r] = y] /\ Put(r, j)
      BY <3>1
    <3> HIDE DEF x, y, j
    <3>7. x \in Tries /\ y \in Tries
      BY <2>0, <3>2, <3>4, TaskCounts
    <3> QED
      BY <2>0, <3>2, <3>4, <3>5, <3>6, <3>7, OneTask, TaskCounts
  <2>5. ASSUME NEW r \in Rows, Log(r) PROVE Counts'
    <3>0. /\ job[r].at = "log"
          /\ UNCHANGED <<upload, sheet, coded, issued, inactive, told, unanswered, troubles>>
      BY <2>5 DEF Log
    <3>1. /\ job[r] \in [at : {"send", "log"}, gws : 0 .. NumCarriers, attempt : 1 .. MaxRetries,
                         next : 1 .. NumCarriers + 1, sent : BOOLEAN]
          /\ told[r] <= failedLog[r] + 1 /\ unanswered[r] <= failedLog[r] + 1
      BY <2>0, <3>0, TaskCounts DEF TriesCount
    <3>2. CASE job[r].sent
      <4>1. Put(r, Done("SENT", job[r].gws)) /\ failedLog' = failedLog
        BY <2>5, <3>2 DEF Log
      <4>2. Done("SENT", job[r].gws) \in Job /\ Done("SENT", job[r].gws).at = "done"
        BY <3>1, NewJob
      <4> QED
        BY <2>0, <3>0, <4>1, <4>2, OneTask, TaskCounts
    <3>3. CASE ~job[r].sent
      <4>1. /\ Put(r, Onward(job[r]))
            /\ failedLog' = [failedLog EXCEPT ![r] = failedLog[r] + 1]
        BY <2>5, <3>3 DEF Log
      <4>2. Onward(job[r]) \in Job /\ Onward(job[r]).at \in {"send", "done"}
        BY <3>1, OnwardIsJob
      <4>3. failedLog[r] + 1 \in Tries
        BY <2>0, <3>0, TaskCounts
      <4>4. /\ told[r] \in Tries /\ unanswered[r] \in Tries
            /\ told' = [told EXCEPT ![r] = told[r]]
            /\ unanswered' = [unanswered EXCEPT ![r] = unanswered[r]]
        BY <2>0, <3>0, TaskCounts
      <4> DEFINE j == Onward(job[r])
                 z == failedLog[r] + 1
      <4>5. /\ j \in Job /\ j.at \in {"send", "done"} /\ z \in Tries /\ Put(r, j)
            /\ failedLog' = [failedLog EXCEPT ![r] = z]
            /\ told[r] <= z /\ unanswered[r] <= z
        BY <3>1, <4>1, <4>2, <4>3
      <4> HIDE DEF j, z
      <4>6. j.at # "none" /\ j.at # "log"
        BY <4>5
      <4> QED
        BY <2>0, <3>0, <4>4, <4>5, <4>6, OneTask
    <3> QED
      BY <3>2, <3>3
  <2>6. ASSUME NEW r \in Rows, LogFails(r) PROVE Counts'
    <3>1. /\ job[r].at = "log" /\ Put(r, Done("raised", job[r].gws)) /\ troubles' \in 0 .. MaxTroubles
          /\ UNCHANGED <<upload, sheet, coded, issued, inactive, told, unanswered, failedLog>>
      BY <2>6, <2>t DEF LogFails
    <3>2. job[r].gws \in 0 .. NumCarriers
      BY <2>0, <3>1, TaskCounts
    <3>3. Done("raised", job[r].gws) \in Job /\ Done("raised", job[r].gws).at = "done"
      BY <3>2, NewJob
    <3> QED
      BY <2>0, <3>1, <3>3, OneTask, TaskCounts
  <2>7. ASSUME NEW r \in Rows, Cancel(r) PROVE Counts'
    <3> DEFINE gws == IF job[r] = NoJob THEN 0 ELSE job[r].gws
    <3>1. PICK out \in IF job[r].at = "send" THEN 0 .. 1 ELSE {0} :
            told' = [told EXCEPT ![r] = @ + out]
      BY <2>7 DEF Cancel
    <3>2. /\ job[r].at # "done" /\ Put(r, Done("raised", gws))
          /\ UNCHANGED <<upload, sheet, coded, issued, inactive, unanswered, failedLog, troubles>>
      BY <2>7 DEF Cancel
    <3>3. gws \in 0 .. NumCarriers
      <4>1. CASE job[r].at \in {"send", "log"}
        <5>1. NoJob.at = "none"
          BY DEF NoJob
        <5> QED
          BY <2>0, <4>1, <5>1, TaskCounts
      <4>2. CASE job[r].at = "none"
        <5>1. job[r] = NoJob
          BY <2>0, <4>2, TaskCounts DEF Job
        <5> QED
          BY <5>1, QuotaDeliveryAssumption DEF QuotaDeliveryAssumption
      <4> QED
        BY <2>0, <3>2, <4>1, <4>2, TaskCounts
    <3>4. told[r] + out \in Tries
      <4>1. CASE job[r].at = "send"
        <5>1. told[r] \in Nat /\ failedLog[r] \in Nat /\ told[r] <= failedLog[r]
          BY <2>0, <4>1, TaskCounts DEF TriesCount
        <5>2. told[r] + out \in Nat /\ told[r] + out <= failedLog[r] + 1
          BY <3>1, <4>1, <5>1
        <5> QED
          BY <2>0, <4>1, <5>2, TaskCounts
      <4>2. CASE job[r].at # "send"
        <5>1. out = 0
          BY <3>1, <4>2
        <5>2. told[r] \in Nat /\ told[r] \in Tries
          BY <2>0, TaskCounts
        <5>3. told[r] + out = told[r]
          BY <5>1, <5>2
        <5> QED
          BY <5>2, <5>3
      <4> QED
        BY <4>1, <4>2
    <3>5. Done("raised", gws) \in Job /\ Done("raised", gws).at = "done"
      BY <3>3, NewJob
    <3>6. told' = [told EXCEPT ![r] = told[r] + out]
      BY <3>1
    <3>7. /\ unanswered[r] \in Tries /\ failedLog[r] \in Tries
          /\ unanswered' = [unanswered EXCEPT ![r] = unanswered[r]]
          /\ failedLog' = [failedLog EXCEPT ![r] = failedLog[r]]
      BY <2>0, <3>2, TaskCounts
    <3> DEFINE j == Done("raised", gws)
               x == told[r] + out
    <3>8. /\ j \in Job /\ j.at = "done" /\ x \in Tries /\ Put(r, j)
          /\ told' = [told EXCEPT ![r] = x]
      BY <3>2, <3>4, <3>5, <3>6
    <3> HIDE DEF gws, j, x
    <3>9. /\ j.at # "none" /\ j.at # "send" /\ j.at # "log"
          /\ troubles' \in 0 .. MaxTroubles
          /\ UNCHANGED <<upload, sheet, coded, issued, inactive>>
      BY <2>0, <3>2, <3>8
    <3>10. QuotaDeliveryTypeOK' /\ \A s \in Rows : TriesCount(s)'
      BY <2>0, <3>7, <3>8, <3>9, OneTask
    <3> QED
      BY <2>0, <3>9, <3>10
  <2>8. ASSUME NEW g \in Carriers, SwitchOff(g) PROVE Counts'
    BY <2>0, <2>8, <2>t DEF SwitchOff, QuotaDeliveryTypeOK, TriesCount
  <2>9. CASE UNCHANGED quotaVars
    BY <2>0, <2>9 DEF quotaVars, QuotaDeliveryTypeOK, TriesCount
  <2> QED
    BY <2>1, <2>2, <2>3, <2>4, <2>5, <2>6, <2>7, <2>8, <2>9 DEF QuotaDeliveryNext
<1>3. Counts => QuotaDeliveryTypeOK
  OBVIOUS
<1> QED
  BY <1>1, <1>2, <1>3, QuotaInvHolds, PTL DEF QuotaDeliverySpec


-----------------------------------------------------------------------------
(* The twelve parts of MCParts *)

\* The names of the parts.
PartNames ==
  {"edge commands", "sessions", "limiter", "lookup", "quota", "sweep",
   "users", "channel", "history", "filter", "organisation", "assets"}

\* The variables of a part hold what they may, whichever part takes the steps.
THEOREM PartsTypeOKHolds == PartsSpec => []PartsTypeOK
<1> DEFINE Types ==
      /\ EdgeCommandsTypeOK
      /\ SessionsTypeOK
      /\ LoginLimiterTypeOK
      /\ TankLookupTypeOK
      /\ QuotaDeliveryTypeOK
      /\ StaleSweepTypeOK
      /\ UserDirectoryTypeOK
      /\ ChannelConfigTypeOK
      /\ TankHistoryTypeOK
      /\ LevelFilterTypeOK
      /\ OrgRegistryTypeOK
      /\ TankRegistryTypeOK
<1>1. PartsInit => part \in PartNames
  BY DEF PartsInit, PartNames
<1>2. part \in PartNames /\ [PartsNext]_partsVars => (part \in PartNames)'
  BY DEF PartsNext, partsVars
<1>3. PartsSpec => [](part \in PartNames)
  BY <1>1, <1>2, PTL DEF PartsSpec
<1>4. PartsSpec => []EdgeCommandsTypeOK
  <2>1. PartsInit => EdgeCommandsInit
    BY DEF PartsInit
  <2>2. [PartsNext]_partsVars => [EdgeCommandsNext]_edgeCmdVars
    BY DEF PartsNext, partsVars
  <2> QED
    BY <2>1, <2>2, EdgeCommandsTypes, PTL DEF PartsSpec, EdgeCommandsSpec
<1>5. PartsSpec => []SessionsTypeOK
  <2>1. PartsInit => SessionsInit
    BY DEF PartsInit
  <2>2. [PartsNext]_partsVars => [SessionsNext]_sessionVars
    BY DEF PartsNext, partsVars
  <2> QED
    BY <2>1, <2>2, SessionsTypes, PTL DEF PartsSpec, SessionsSpec
<1>6. PartsSpec => []LoginLimiterTypeOK
  <2>1. PartsInit => LoginLimiterInit
    BY DEF PartsInit
  <2>2. [PartsNext]_partsVars => [LoginLimiterNext]_limiterVars
    BY DEF PartsNext, partsVars
  <2> QED
    BY <2>1, <2>2, LoginLimiterTypes, PTL DEF PartsSpec, LoginLimiterSpec
<1>7. PartsSpec => []TankLookupTypeOK
  <2>1. PartsInit => TankLookupInit
    BY DEF PartsInit
  <2>2. [PartsNext]_partsVars => [TankLookupNext]_lookupVars
    BY DEF PartsNext, partsVars
  <2> QED
    BY <2>1, <2>2, TankLookupTypes, PTL DEF PartsSpec, TankLookupSpec
<1>8. PartsSpec => []QuotaDeliveryTypeOK
  <2>1. PartsInit => QuotaDeliveryInit
    BY DEF PartsInit
  <2>2. [PartsNext]_partsVars => [QuotaDeliveryNext]_quotaVars
    BY DEF PartsNext, partsVars
  <2> QED
    BY <2>1, <2>2, QuotaDeliveryTypes, PTL DEF PartsSpec, QuotaDeliverySpec
<1>9. PartsSpec => []StaleSweepTypeOK
  <2>1. PartsInit => StaleSweepInit
    BY DEF PartsInit
  <2>2. [PartsNext]_partsVars => [StaleSweepNext]_sweepVars
    BY DEF PartsNext, partsVars
  <2> QED
    BY <2>1, <2>2, StaleSweepTypes, PTL DEF PartsSpec, StaleSweepSpec
<1>10. PartsSpec => []UserDirectoryTypeOK
  <2>1. PartsInit => UserDirectoryInit
    BY DEF PartsInit
  <2>2. [PartsNext]_partsVars => [UserDirectoryNext]_directoryVars
    BY DEF PartsNext, partsVars
  <2> QED
    BY <2>1, <2>2, UserDirectoryTypes, PTL DEF PartsSpec, UserDirectorySpec
<1>11. PartsSpec => []ChannelConfigTypeOK
  <2>1. PartsInit => ChannelConfigInit
    BY DEF PartsInit
  <2>2. [PartsNext]_partsVars => [ChannelConfigNext]_channelVars
    BY DEF PartsNext, partsVars
  <2> QED
    BY <2>1, <2>2, ChannelConfigTypes, PTL DEF PartsSpec, ChannelConfigSpec
<1>12. PartsSpec => []TankHistoryTypeOK
  <2>1. PartsInit => TankHistoryInit
    BY DEF PartsInit
  <2>2. [PartsNext]_partsVars => [TankHistoryNext]_historyVars
    BY DEF PartsNext, partsVars
  <2> QED
    BY <2>1, <2>2, TankHistoryTypes, PTL DEF PartsSpec, TankHistorySpec
<1>13. PartsSpec => []LevelFilterTypeOK
  <2>1. PartsInit => LevelFilterInit
    BY DEF PartsInit
  <2>2. [PartsNext]_partsVars => [LevelFilterNext]_filterVars
    BY DEF PartsNext, partsVars
  <2> QED
    BY <2>1, <2>2, LevelFilterTypes, PTL DEF PartsSpec, LevelFilterSpec
<1>14. PartsSpec => []OrgRegistryTypeOK
  <2>1. PartsInit => OrgRegistryInit
    BY DEF PartsInit
  <2>2. [PartsNext]_partsVars => [OrgRegistryNext]_orgVars
    BY DEF PartsNext, partsVars
  <2> QED
    BY <2>1, <2>2, OrgRegistryTypes, PTL DEF PartsSpec, OrgRegistrySpec
<1>15. PartsSpec => []TankRegistryTypeOK
  <2>1. PartsInit => TankRegistryInit
    BY DEF PartsInit
  <2>2. [PartsNext]_partsVars => [TankRegistryNext]_assetVars
    BY DEF PartsNext, partsVars
  <2> QED
    BY <2>1, <2>2, TankRegistryTypes, PTL DEF PartsSpec, TankRegistrySpec
<1>16. part \in PartNames /\ Types => PartsTypeOK
  BY DEF PartNames, PartsTypeOK
<1> QED
  BY <1>3, <1>4, <1>5, <1>6, <1>7, <1>8, <1>9, <1>10, <1>11, <1>12, <1>13, <1>14, <1>15, <1>16, PTL
==============================================================================
