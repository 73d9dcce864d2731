---------------------------- MODULE QuotaDelivery ----------------------------
(***************************************************************************)
(* A quota sheet's upload and the delivery of its codes: ingest_excel      *)
(* (services/dispensing/excel_ingestion.py), then one dispatch task per    *)
(* row, run concurrently (services/notifications/dispatcher.py).  The      *)
(* plaintext codes exist only in the upload's memory.                      *)
(*                                                                         *)
(* A cell is abstracted to whether its row passes _parse_row, a code to    *)
(* its row.  A send either answers, fails, or goes out without an answer.  *)
(***************************************************************************)
EXTENDS Integers, FiniteSets

CONSTANTS
  Rows,
  NumCarriers,  \* notification gateways of the items' channel, by priority
  MaxRetries,   \* NOTIFY_MAX_RETRIES
  MaxTroubles   \* bound: log commits that fail, crashes, deactivations

ASSUME QuotaDeliveryAssumption ==
  NumCarriers \in Nat /\ MaxRetries \in Nat \ {0} /\ MaxTroubles \in Nat

VARIABLES
  upload,     \* the request
  sheet,      \* what each row is
  coded,      \* rows with a generated code
  issued,     \* rows whose allocation and code are committed
  inactive,   \* gateways an operator has switched off
  job,        \* dispatch task of each row
  told,       \* history: messages each employee got
  unanswered, \* history: sends that went out and raised
  failedLog,  \* FAILED rows of notification_logs
  troubles

quotaVars == <<upload, sheet, coded, issued, inactive, job, told, unanswered,
               failedLog, troubles>>

NoJob == [at |-> "none"]
Carriers == 1 .. NumCarriers
Tries == 0 .. MaxRetries * NumCarriers
\* `gws` gateways were loaded; they are tried in order, the one at `next` now.
Job == {NoJob} \cup
  [at : {"send", "log"}, gws : 0 .. NumCarriers, attempt : 1 .. MaxRetries,
   next : 1 .. NumCarriers + 1, sent : BOOLEAN] \cup
  [at : {"done"}, status : {"SENT", "FAILED", "raised"}, gws : 0 .. NumCarriers]

QuotaDeliveryTypeOK ==
  /\ upload \in {"idle", "read", "coded", "dispatch", "answered", "failed"}
  /\ sheet \in [Rows -> {"valid", "bad", "foreign"}]
  /\ coded \subseteq Rows /\ issued \subseteq coded
  /\ inactive \subseteq Carriers
  /\ job \in [Rows -> Job]
  /\ told \in [Rows -> Tries] /\ unanswered \in [Rows -> Tries]
  /\ failedLog \in [Rows -> Tries]
  /\ troubles \in 0 .. MaxTroubles

\* A sheet whose type, emptiness or headers ingest_excel refuses leaves no trace.
QuotaDeliveryInit ==
  /\ upload = "idle"
  /\ sheet = [r \in Rows |-> "bad"]
  /\ coded = {} /\ issued = {} /\ inactive = {}
  /\ job = [r \in Rows |-> NoJob]
  /\ told = [r \in Rows |-> 0] /\ unanswered = [r \in Rows |-> 0]
  /\ failedLog = [r \in Rows |-> 0]
  /\ troubles = 0

Trouble == troubles < MaxTroubles /\ troubles' = troubles + 1

-----------------------------------------------------------------------------
(* ingest_excel *)

\* _parse_row refuses a row for its fields; it cannot see an employee of another company.
ParsedAs == {"valid", "bad", "foreign"}

ReadSheet ==
  /\ upload = "idle"
  /\ upload' = "read"
  /\ sheet' \in [Rows -> ParsedAs]
  /\ UNCHANGED <<coded, issued, inactive, job, told, unanswered, failedLog, troubles>>

(* generate_unique_code: a row may meet five codes in use *)
GenerateCodes ==
  /\ upload = "read"
  /\ \E rows \in SUBSET {r \in Rows : sheet[r] # "bad"} : coded' = rows
  /\ upload' = "coded"
  /\ UNCHANGED <<sheet, issued, inactive, job, told, unanswered, failedLog, troubles>>

(* One commit for the batch.  employee_id is unique over all companies and *)
(* looked up within one: a row with another company's employee fails it.   *)
Persist ==
  /\ upload = "coded"
  /\ \/ /\ \A r \in coded : sheet[r] # "foreign"
        /\ issued' = coded
        /\ upload' = "dispatch"
     \/ upload' = "failed" /\ UNCHANGED issued
  /\ UNCHANGED <<sheet, coded, inactive, job, told, unanswered, failedLog, troubles>>

-----------------------------------------------------------------------------
(* dispatch: one session and one task per row *)

Put(r, j) == job' = [job EXCEPT ![r] = j]
Sending(gws) == [at |-> "send", gws |-> gws, attempt |-> 1, next |-> 1, sent |-> FALSE]
Done(status, gws) == [at |-> "done", status |-> status, gws |-> gws]

\* mutant: the last attempt is not made
LastAttempt_OneEarly(a) == a >= MaxRetries - 1
LastAttempt(a) == a = MaxRetries

\* the rest of the two loops, after gateway `next` of this attempt
Onward(j) ==
  IF j.next < j.gws THEN [j EXCEPT !.at = "send", !.next = @ + 1, !.sent = FALSE]
  ELSE IF LastAttempt(j.attempt) THEN Done("FAILED", j.gws)
  ELSE [j EXCEPT !.at = "send", !.next = 1, !.attempt = @ + 1, !.sent = FALSE]

(* With gateways but none of the channel, the attempts pass without a send. *)
LoadGateways(r) ==
  LET gws == Cardinality(Carriers \ inactive) IN
  /\ upload = "dispatch" /\ r \in issued /\ job[r] = NoJob
  /\ Put(r, IF gws = 0 THEN Done("FAILED", gws) ELSE Sending(gws))
  /\ UNCHANGED <<upload, sheet, coded, issued, inactive, told, unanswered, failedLog, troubles>>

\* send_via_gateway
Send(r) ==
  /\ job[r].at = "send"
  /\ \E out, answer \in BOOLEAN :
       /\ answer => out
       /\ told' = [told EXCEPT ![r] = @ + IF out THEN 1 ELSE 0]
       /\ unanswered' = [unanswered EXCEPT ![r] = @ + IF out /\ ~answer THEN 1 ELSE 0]
       /\ Put(r, [job[r] EXCEPT !.at = "log", !.sent = answer])
  /\ UNCHANGED <<upload, sheet, coded, issued, inactive, failedLog, troubles>>

(* log_delivery commits each row on its own *)
Log(r) ==
  /\ job[r].at = "log"
  /\ IF job[r].sent
       THEN Put(r, Done("SENT", job[r].gws)) /\ UNCHANGED failedLog
       ELSE Put(r, Onward(job[r])) /\ failedLog' = [failedLog EXCEPT ![r] = @ + 1]
  /\ UNCHANGED <<upload, sheet, coded, issued, inactive, told, unanswered, troubles>>

(* A log row that fails to commit ends the task with an exception, *)
LogFails(r) ==
  /\ Trouble
  /\ job[r].at = "log"
  /\ Put(r, Done("raised", job[r].gws))
  /\ UNCHANGED <<upload, sheet, coded, issued, inactive, told, unanswered, failedLog>>

(* for which the TaskGroup cancels the others, a send under way included. *)
Cancel(r) ==
  /\ \E s \in Rows : job[s].at = "done" /\ job[s].status = "raised"
  /\ upload = "dispatch" /\ r \in issued /\ job[r].at # "done"
  /\ \E out \in IF job[r].at = "send" THEN 0 .. 1 ELSE {0} :
       told' = [told EXCEPT ![r] = @ + out]
  /\ Put(r, Done("raised", IF job[r] = NoJob THEN 0 ELSE job[r].gws))
  /\ UNCHANGED <<upload, sheet, coded, issued, inactive, unanswered, failedLog, troubles>>

(* The answer carries the sheet's errors and not the deliveries'. *)
AnswerUpload ==
  /\ upload = "dispatch"
  /\ \A r \in issued : job[r].at = "done"
  /\ upload' = IF \E r \in issued : job[r].status = "raised" THEN "failed" ELSE "answered"
  /\ UNCHANGED <<sheet, coded, issued, inactive, job, told, unanswered, failedLog, troubles>>

(* The API process dies: the plaintext codes are gone. *)
CrashUpload ==
  /\ Trouble
  /\ upload \in {"read", "coded", "dispatch"}
  /\ upload' = "failed"
  /\ job' = [r \in Rows |-> IF job[r].at \in {"send", "log"} THEN Done("raised", job[r].gws)
                            ELSE job[r]]
  /\ UNCHANGED <<sheet, coded, issued, inactive, told, unanswered, failedLog>>

(* PATCH is_active: a task that has loaded its gateways goes on with them *)
SwitchOff(g) ==
  /\ Trouble
  /\ g \notin inactive /\ inactive' = inactive \cup {g}
  /\ UNCHANGED <<upload, sheet, coded, issued, job, told, unanswered, failedLog>>

QuotaDeliveryNext ==
  \/ ReadSheet \/ GenerateCodes \/ Persist \/ AnswerUpload \/ CrashUpload
  \/ \E r \in Rows : LoadGateways(r) \/ Send(r) \/ Log(r) \/ LogFails(r) \/ Cancel(r)
  \/ \E g \in Carriers : SwitchOff(g)

QuotaDeliverySpec == QuotaDeliveryInit /\ [][QuotaDeliveryNext]_quotaVars

-----------------------------------------------------------------------------
\* Of an upload that is answered, every committed code was told to its employee, or every
\* gateway its task found refused it NOTIFY_MAX_RETRIES times and each refusal is in the
\* log (dispatcher.py:219-257); siblings, crashes and switched-off gateways included.
AnsweredIsTold ==
  upload = "answered" =>
    \A r \in issued : told[r] = 0 => failedLog[r] = MaxRetries * job[r].gws

\* An employee gets the same code again only after a message that went out without its
\* sender knowing (dispatcher.py:224-246).
RepeatNeedsDoubt == \A r \in Rows : told[r] <= 1 + unanswered[r]

\* Both: no code is silently untold, and none is told twice without a reason.
DeliveryAccounted == AnsweredIsTold /\ RepeatNeedsDoubt
=============================================================================
