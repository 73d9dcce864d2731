---------------------------- MODULE UserDirectory ----------------------------
(***************************************************************************)
(* User administration: services/users.py behind api/v1/users.py, by       *)
(* operators who are users themselves.  A request reads its operator and   *)
(* its target and checks, then commits; nothing is locked between, and     *)
(* only the columns it changes are written.  Names, e-mail addresses and   *)
(* passwords are left out.                                                 *)
(***************************************************************************)
EXTENDS Integers

CONSTANTS
  Users, Companies,
  NoCompany,
  FirstAdmin,   \* the administrator the first boot provisions
  Requests      \* requests served at once

ASSUME UserDirectoryAssumption == NoCompany \notin Companies /\ FirstAdmin \in Users

VARIABLES
  user,      \* the table
  request,   \* the checked write of each request
  crossed,   \* history: two requests on one user overlapped and committed
  unwatched  \* history: an administrator was demoted, or a request committed although
             \* its operator had changed or its target had become administrator

directoryVars == <<user, request, crossed, unwatched>>

Roles == {"admin", "company_admin", "user"}
Row == [role : Roles, company : Companies \cup {NoCompany}, active : BOOLEAN]
Absent == [role |-> "absent"]
NoRequest == [by |-> "nobody"]

UserDirectoryTypeOK ==
  /\ user \in [Users -> Row \cup {Absent}]
  /\ request \in [Requests -> {NoRequest} \cup
       [by : Users, target : Users, read : Row \cup {Absent}, row : Row,
        shared : BOOLEAN, stale : BOOLEAN]]
  /\ crossed \in BOOLEAN /\ unwatched \in BOOLEAN

UserDirectoryInit ==
  /\ user = [u \in Users |->
       IF u = FirstAdmin THEN [role |-> "admin", company |-> NoCompany, active |-> TRUE] ELSE Absent]
  /\ request = [r \in Requests |-> NoRequest]
  /\ crossed = FALSE /\ unwatched = FALSE

Exists(u) == user[u] # Absent
IsAdmin(u) == user[u].role = "admin"
\* get_current_user and PrivilegedUser
Privileged(u) ==
  Exists(u) /\ user[u].active /\ user[u].role \in {"admin", "company_admin"}

\* The write waits for its commit; others under way on this target overlap it.
Accept(r, by, u, row) ==
  LET others == {q \in Requests \ {r} : request[q] # NoRequest /\ request[q].target = u} IN
  request' = [q \in Requests |->
    IF q = r THEN [by |-> by, target |-> u, read |-> user[u], row |-> row,
                   shared |-> others # {}, stale |-> FALSE]
    ELSE IF q \in others THEN [request[q] EXCEPT !.shared = TRUE] ELSE request[q]]

(* create_user *)
CompanyOf(by, company, role) ==
  IF role = "admin" THEN NoCompany ELSE IF IsAdmin(by) THEN company ELSE user[by].company

CreateUser(r, by, u) ==
  /\ request[r] = NoRequest
  /\ Privileged(by) /\ ~Exists(u)
  /\ \E role \in Roles, company \in Companies \cup {NoCompany} :
       /\ role = "admin" => IsAdmin(by)
       /\ role # "admin" /\ IsAdmin(by) => company # NoCompany
       /\ Accept(r, by, u, [role |-> role, company |-> CompanyOf(by, company, role), active |-> TRUE])
  /\ UNCHANGED <<user, crossed, unwatched>>

(* update_user, deactivate and restore included: the fields of the payload *)
(* over the row read                                                       *)

\* mutant: the rule looks at the stored company and not at the payload's
Effective_Stored(u, row) == [row EXCEPT !.company = user[u].company]
Effective(u, row) == row

\* mutant: an administrator may switch himself off
SelfDeactivates_Never(u, by, row) == FALSE
SelfDeactivates(u, by, row) == u = by /\ ~row.active

UpdateUser(r, by, u) ==
  /\ request[r] = NoRequest
  /\ Privileged(by) /\ Exists(u)
  /\ \E row \in Row :
       /\ ~IsAdmin(by) => /\ row.role # "admin"
                          /\ user[u].company = user[by].company /\ ~IsAdmin(u)
                          /\ row.company = user[by].company
       /\ ~SelfDeactivates(u, by, row)
       /\ Effective(u, row).role # "admin" => Effective(u, row).company # NoCompany
       /\ Accept(r, by, u, row)
  /\ UNCHANGED <<user, crossed, unwatched>>

\* only the columns that differ from what was read; a new row is all new
Written(old, read, row) ==
  IF read = Absent THEN row
  ELSE [f \in DOMAIN row |-> IF row[f] = read[f] THEN old[f] ELSE row[f]]

(* The second of two creations meets the unique username. *)
Commit(r) ==
  LET q == request[r]
      clash == q.read = Absent /\ Exists(q.target)
      row == IF clash THEN user[q.target] ELSE Written(user[q.target], q.read, q.row)
  IN
  /\ q # NoRequest
  /\ user' = [user EXCEPT ![q.target] = row]
  /\ request' = [p \in Requests |->
       IF p = r \/ request[p] = NoRequest THEN IF p = r THEN NoRequest ELSE request[p]
       ELSE [request[p] EXCEPT !.stale = @ \/ request[p].by = q.target]]
  /\ crossed' = (crossed \/ q.shared)
  /\ unwatched' = (unwatched \/ q.stale
                    \/ (q.read # Absent /\ IsAdmin(q.target)
                        /\ (row.role # "admin" \/ q.read.role # "admin")))

UserDirectoryNext ==
  \E r \in Requests :
    \/ \E by, u \in Users : CreateUser(r, by, u) \/ UpdateUser(r, by, u)
    \/ Commit(r)

UserDirectorySpec == UserDirectoryInit /\ [][UserDirectoryNext]_directoryVars

-----------------------------------------------------------------------------
\* "A non-admin user must always carry a company_id" (services/users.py:8), as long as no
\* two requests on one user overlap: two that do may each pass the check and together leave
\* a user without a company, who then creates others.
NonAdminHasCompany ==
  crossed \/ \A u \in Users : Exists(u) /\ ~IsAdmin(u) => user[u].company # NoCompany

\* Operators cannot lock everyone out by deactivations (services/users.py:103): an active
\* administrator remains, unless one was demoted, or while a request was under way its
\* operator was changed (two administrators deactivating each other) or its target was
\* made an administrator (whom a company_admin's old request then deactivates).
AdminRemains == unwatched \/ \E u \in Users : Exists(u) /\ IsAdmin(u) /\ user[u].active

\* Both rules of the directory.
DirectoryRules == NonAdminHasCompany /\ AdminRemains
=============================================================================
