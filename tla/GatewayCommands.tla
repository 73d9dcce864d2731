--------------------------- MODULE GatewayCommands ---------------------------
(***************************************************************************)
(* The command plane: a command to an edge gateway is a row of             *)
(* gateway_commands and frames of it on two Redis lists.  Four writers     *)
(* share the row: the API that issues it, the relay task, the ack handlers *)
(* (both in the ingestion process) and the Celery sweeper.  None of them   *)
(* locks it: each reads the row, changes attributes, and its UPDATE writes *)
(* the attributes that differ from what it read.                           *)
(*                                                                         *)
(* The broker and the gateway are the environment: frames and acks may be  *)
(* lost, duplicated and reordered.  Time is abstracted: a deadline may     *)
(* pass at any moment.  Abstracted: command types and payloads, and the    *)
(* gateway's own row.                                                      *)
(***************************************************************************)
EXTENDS Integers, Sequences, FiniteSets

CONSTANTS
  Commands,      \* the commands that can be issued (command_id)
  NoCommand,     \* "no command"
  Ackers,        \* concurrent ack handlers of the ingestion process
  Answers,       \* [Commands -> SUBSET {"executed", "rejected"}]: possible acks
  MaxAttempts,   \* max_attempts of a command, 3 in the code
  MaxFaults      \* bound: process deaths and failing Redis or database calls

ASSUME CommandsAssumption ==
  /\ NoCommand \notin Commands
  /\ Answers \in [Commands -> SUBSET {"executed", "rejected"}]
  /\ MaxAttempts \in Nat \ {0}
  /\ MaxFaults \in Nat

VARIABLES
  row,           \* GatewayCommand rows: status, attempts, next_retry_at
  stale,         \* commands created more than COMMAND_PENDING_TTL_SECONDS ago
  issue,         \* how far issue_command got with a command
  outbound,      \* Redis list iot:commands:outbound, left end first
  inflight,      \* Redis list iot:commands:inflight, left end first
  relay,         \* the relay task: step, frame in hand, row read
  sweep,         \* the sweeper: step, rows selected, rows to write
  acker,         \* the ack handlers: step, ack in hand, row read
  wire,          \* commands with a frame on its way to the gateway
  acks,          \* acks on their way to the platform
  published,     \* history: accepted publishes of a command
  retries,       \* history: frames of a command pushed by the sweeper
  heard,         \* history: commands of which an ack was handled
  faults

queues == <<outbound, inflight>>
network == <<wire, acks>>
history == <<published, retries, heard>>
vars == <<row, stale, issue, queues, relay, sweep, acker, network, history, faults>>

-----------------------------------------------------------------------------
(* Types *)

Terminal == {"acked", "rejected", "failed"}
\* next_retry_at: NULL, in the future, or past
Row == [status : {"none", "pending", "sent"} \cup Terminal,
        attempts : Nat,
        retry : {"null", "armed", "due"}]
NoRow == [status |-> "none", attempts |-> 0, retry |-> "null"]

Ack == {ack \in Commands \X {"executed", "rejected"} : ack[2] \in Answers[ack[1]]}

Relay == [at : {"drain", "take", "publish", "release", "mark", "write", "requeue", "dead"},
          frame : Commands \cup {NoCommand},
          read : Row]
Sweep == [at : {"idle", "push", "bump", "exhausted", "pending", "fail"},
          todo : SUBSET Commands,         \* selected, frame not pushed yet
          pushed : SUBSET Commands,       \* frame pushed, bump not committed yet
          read : [Commands -> Nat],       \* attempts as selected
          doomed : SUBSET Commands]       \* about to be failed
Acker == [at : {"idle", "write"}, command : Commands \cup {NoCommand},
          status : {"none", "executed", "rejected"}, read : Row]

RelayAt(step) == [at |-> step, frame |-> NoCommand, read |-> NoRow]
SweepIdle == [at |-> "idle", todo |-> {}, pushed |-> {},
              read |-> [c \in Commands |-> 0], doomed |-> {}]
AckerIdle == [at |-> "idle", command |-> NoCommand, status |-> "none", read |-> NoRow]

TypeOK ==
  /\ row \in [Commands -> Row]
  /\ stale \subseteq Commands
  /\ issue \in [Commands -> {"none", "committed", "pushed", "broken"}]
  /\ outbound \in Seq(Commands)
  /\ inflight \in Seq(Commands)
  /\ relay \in Relay
  /\ sweep \in Sweep
  /\ acker \in [Ackers -> Acker]
  /\ wire \subseteq Commands
  /\ acks \subseteq Ack
  /\ published \in [Commands -> Nat]
  /\ retries \in [Commands -> Nat]
  /\ heard \subseteq Commands
  /\ faults \in 0 .. MaxFaults

Init ==
  /\ row = [c \in Commands |-> NoRow]
  /\ stale = {}
  /\ issue = [c \in Commands |-> "none"]
  /\ outbound = << >>
  /\ inflight = << >>
  /\ relay = RelayAt("drain")
  /\ sweep = SweepIdle
  /\ acker = [a \in Ackers |-> AckerIdle]
  /\ wire = {}
  /\ acks = {}
  /\ published = [c \in Commands |-> 0]
  /\ retries = [c \in Commands |-> 0]
  /\ heard = {}
  /\ faults = 0

-----------------------------------------------------------------------------
(* Redis lists and rows *)

LPush(list, c) == << c >> \o list
RPop(list) == SubSeq(list, 1, Len(list) - 1)
Rightmost(list) == list[Len(list)]
LPop(list) == IF list = << >> THEN list ELSE Tail(list)

(* One of the failures the model admits happens. *)
Fault ==
  /\ faults < MaxFaults
  /\ faults' = faults + 1

(* An UPDATE leaves alone the attributes that were set to what was read. *)
Write(attribute, read, new) == IF new = read THEN attribute ELSE new

-----------------------------------------------------------------------------
(* API: issue_command commits the row, then pushes the frame. *)

IssueCommit(c) ==
  /\ issue[c] = "none"
  /\ row' = [row EXCEPT ![c].status = "pending"]
  /\ issue' = [issue EXCEPT ![c] = "committed"]
  /\ UNCHANGED <<stale, queues, relay, sweep, acker, network, history, faults>>

IssuePush(c) ==
  /\ issue[c] = "committed"
  /\ issue' = [issue EXCEPT ![c] = "pushed"]
  /\ outbound' = LPush(outbound, c)
  /\ UNCHANGED <<row, stale, inflight, relay, sweep, acker, network, history, faults>>

(* Redis is down or the process dies: the row stays without a frame. *)
IssueFails(c) ==
  /\ issue[c] = "committed"
  /\ Fault
  /\ issue' = [issue EXCEPT ![c] = "broken"]
  /\ UNCHANGED <<row, stale, queues, relay, sweep, acker, network, history>>

-----------------------------------------------------------------------------
(* The relay task *)

RelayGo(from, to) == relay.at = from /\ relay' = to
relayOnly == <<row, stale, issue, sweep, acker, history, faults>>

(* drain_inflight: what an earlier process left goes back, oldest first *)
Drain ==
  /\ IF inflight = << >>
       THEN RelayGo("drain", RelayAt("take")) /\ UNCHANGED queues
       ELSE /\ RelayGo("drain", relay)
            /\ outbound' = LPush(outbound, Rightmost(inflight))
            /\ inflight' = RPop(inflight)
  /\ UNCHANGED <<relayOnly, network>>

\* mutant: the frame is popped, not moved to inflight
ToInflight_Pop(c) == inflight
ToInflight(c) == LPush(inflight, c)

(* take_command: BRPOPLPUSH outbound inflight *)
Take ==
  /\ outbound # << >>
  /\ LET c == Rightmost(outbound) IN
       /\ RelayGo("take", [RelayAt("publish") EXCEPT !.frame = c])
       /\ outbound' = RPop(outbound)
       /\ inflight' = ToInflight(c)
  /\ UNCHANGED <<relayOnly, network>>

PublishAccepted ==
  /\ RelayGo("publish", [relay EXCEPT !.at = "release"])
  /\ wire' = wire \cup {relay.frame}
  /\ published' = [published EXCEPT ![relay.frame] = @ + 1]
  /\ UNCHANGED <<row, stale, issue, queues, sweep, acker, acks, retries, heard, faults>>

(* rc # MQTT_ERR_SUCCESS: the frame stays in inflight.  The MQTT client may *)
(* still send it: it keeps a QoS 1 message that found no connection.       *)
PublishRefused ==
  /\ RelayGo("publish", RelayAt("take"))
  /\ wire' \in {wire, wire \cup {relay.frame}}
  /\ UNCHANGED <<relayOnly, queues, acks>>

\* mutant: the frame is not taken out of inflight once it is published
Released_Kept(list) == list
Released(list) == LPop(list)

(* release_command, then _mark_sent *)
Release ==
  /\ RelayGo("release", [relay EXCEPT !.at = "mark"])
  /\ inflight' = Released(inflight)
  /\ UNCHANGED <<relayOnly, outbound, network>>

MarkRead ==
  /\ RelayGo("mark", [relay EXCEPT !.at = "write", !.read = row[relay.frame]])
  /\ UNCHANGED <<relayOnly, queues, network>>

MarkWrite ==
  /\ RelayGo("write", RelayAt("take"))
  /\ row' = [row EXCEPT ![relay.frame] =
               [status |-> Write(@.status, relay.read.status, "sent"),
                attempts |-> relay.read.attempts + 1,
                retry |-> "armed"]]
  /\ UNCHANGED <<stale, issue, queues, sweep, acker, network, history, faults>>

(* publish, LPOP or the database raises: the frame is pushed again *)
RelayRaises ==
  /\ relay.at \in {"publish", "release", "mark", "write"}
  /\ Fault
  /\ relay' = [relay EXCEPT !.at = "requeue", !.read = NoRow]
  /\ UNCHANGED <<row, stale, issue, queues, sweep, acker, network, history>>

Requeue ==
  /\ RelayGo("requeue", RelayAt("take"))
  /\ outbound' = LPush(outbound, relay.frame)
  /\ UNCHANGED <<relayOnly, inflight, network>>

(* drain's or the handler's own Redis call raises too: the task ends *)
RelayDies ==
  /\ relay.at \in {"drain", "requeue"}
  /\ Fault
  /\ relay' = RelayAt("dead")
  /\ UNCHANGED <<row, stale, issue, queues, sweep, acker, network, history>>

(* the ingestion process restarts, with its ack handlers *)
Restart ==
  /\ Fault
  /\ relay' = RelayAt("drain")
  /\ acker' = [a \in Ackers |-> AckerIdle]
  /\ UNCHANGED <<row, stale, issue, queues, sweep, network, history>>

-----------------------------------------------------------------------------
(* The sweeper, one scan at a time *)

SweepGo(from, to) == sweep.at = from /\ sweep' = to
sweepOnly == <<stale, issue, inflight, relay, acker, network, faults, published, heard>>

IsDue(c) == row[c].status = "sent" /\ row[c].retry = "due"
\* mutant: retried once more
AttemptsLeft_OneMore(c) == row[c].attempts <= MaxAttempts
AttemptsLeft(c) == row[c].attempts < MaxAttempts
\* mutant: the last attempt is neither retried nor failed
Exhausted_Above(c) == row[c].attempts > MaxAttempts
Exhausted(c) == row[c].attempts >= MaxAttempts

SweepSelect ==
  LET todo == {c \in Commands : IsDue(c) /\ AttemptsLeft(c)} IN
  /\ SweepGo("idle", [SweepIdle EXCEPT
                        !.at = IF todo = {} THEN "exhausted" ELSE "push",
                        !.todo = todo,
                        !.read = [c \in Commands |-> IF c \in todo THEN row[c].attempts ELSE 0]])
  /\ UNCHANGED <<row, outbound, retries, sweepOnly>>

SweepPush(c) ==
  /\ c \in sweep.todo
  /\ SweepGo("push", [sweep EXCEPT !.at = IF sweep.todo = {c} THEN "bump" ELSE "push",
                                   !.todo = @ \ {c}, !.pushed = @ \cup {c}])
  /\ outbound' = LPush(outbound, c)
  /\ retries' = [retries EXCEPT ![c] = @ + 1]
  /\ UNCHANGED <<row, sweepOnly>>

SweepBump ==
  /\ SweepGo("bump", [SweepIdle EXCEPT !.at = "exhausted"])
  /\ row' = [c \in Commands |->
               IF c \in sweep.pushed
                 THEN [row[c] EXCEPT !.attempts = sweep.read[c] + 1, !.retry = "armed"]
                 ELSE row[c]]
  /\ UNCHANGED <<outbound, retries, sweepOnly>>

SweepExhausted ==
  /\ SweepGo("exhausted",
             [sweep EXCEPT !.at = "pending",
                           !.doomed = {c \in Commands : IsDue(c) /\ Exhausted(c)}])
  /\ UNCHANGED <<row, outbound, retries, sweepOnly>>

SweepPending ==
  /\ SweepGo("pending",
             [sweep EXCEPT !.at = "fail",
                           !.doomed = @ \cup {c \in stale : row[c].status = "pending"}])
  /\ UNCHANGED <<row, outbound, retries, sweepOnly>>

SweepFail ==
  /\ SweepGo("fail", SweepIdle)
  /\ row' = [c \in Commands |->
               IF c \in sweep.doomed THEN [row[c] EXCEPT !.status = "failed"] ELSE row[c]]
  /\ UNCHANGED <<outbound, retries, sweepOnly>>

(* the Celery task dies; its open transaction is rolled back *)
SweepDies ==
  /\ sweep.at # "idle"
  /\ Fault
  /\ sweep' = SweepIdle
  /\ UNCHANGED <<row, stale, issue, queues, relay, acker, network, history>>

-----------------------------------------------------------------------------
(* The ack handler *)

AckRead(a, ack) ==
  /\ acker[a].at = "idle"
  /\ ack \in acks
  /\ acker' = [acker EXCEPT ![a] = [at |-> "write", command |-> ack[1],
                                    status |-> ack[2], read |-> row[ack[1]]]]
  /\ heard' = heard \cup {ack[1]}
  /\ UNCHANGED <<row, stale, issue, queues, relay, sweep, network, published,
                 retries, faults>>

\* mutant: the status of the ack is stored as it came
AckedStatus_Raw(status) == status
AckedStatus(status) == IF status = "executed" THEN "acked" ELSE "rejected"

Answered(now, read, status) ==
  [now EXCEPT !.status = Write(now.status, read.status, AckedStatus(status)),
              !.retry = Write(now.retry, read.retry, "null")]

AckWrite(a) ==
  /\ acker[a].at = "write"
  /\ LET c == acker[a].command IN
       row' = [row EXCEPT ![c] = Answered(row[c], acker[a].read, acker[a].status)]
  /\ acker' = [acker EXCEPT ![a] = AckerIdle]
  /\ UNCHANGED <<stale, issue, queues, relay, sweep, network, history, faults>>

-----------------------------------------------------------------------------
(* The environment *)

(* A frame reaches the gateway, which answers; it may reach it again. *)
GatewayAcks(c, status) ==
  /\ c \in wire
  /\ acks' = acks \cup {<<c, status>>}
  /\ UNCHANGED <<row, stale, issue, queues, relay, sweep, acker, wire, history, faults>>

(* The broker has nothing more to deliver of a frame, or of an ack. *)
FrameGone(c) ==
  /\ c \in wire
  /\ wire' = wire \ {c}
  /\ UNCHANGED <<row, stale, issue, queues, relay, sweep, acker, acks, history, faults>>

AckGone(ack) ==
  /\ ack \in acks
  /\ acks' = acks \ {ack}
  /\ UNCHANGED <<row, stale, issue, queues, relay, sweep, acker, wire, history, faults>>

(* A deadline is at least COMMAND_BACKOFF_BASE_SECONDS away when it is set:  *)
(* one set since the relay read the row does not pass before it writes.    *)
RetryDue(c) ==
  /\ row[c].retry = "armed"
  /\ relay.at = "write" /\ relay.frame = c => relay.read.attempts = row[c].attempts
  /\ row' = [row EXCEPT ![c].retry = "due"]
  /\ UNCHANGED <<stale, issue, queues, relay, sweep, acker, network, history, faults>>

PendingExpires(c) ==
  /\ row[c].status # "none"
  /\ c \notin stale
  /\ stale' = stale \cup {c}
  /\ UNCHANGED <<row, issue, queues, relay, sweep, acker, network, history, faults>>

-----------------------------------------------------------------------------
RelayStep ==
  \/ Drain \/ Take \/ PublishAccepted \/ PublishRefused \/ Release
  \/ MarkRead \/ MarkWrite \/ Requeue

SweepStep ==
  \/ SweepSelect \/ (\E c \in Commands : SweepPush(c)) \/ SweepBump
  \/ SweepExhausted \/ SweepPending \/ SweepFail

Clock(c) == RetryDue(c) \/ PendingExpires(c)

Next ==
  \/ \E c \in Commands :
       \/ IssueCommit(c) \/ IssuePush(c) \/ IssueFails(c)
       \/ \E status \in Answers[c] : GatewayAcks(c, status)
       \/ FrameGone(c) \/ Clock(c)
  \/ RelayStep \/ RelayRaises \/ RelayDies \/ Restart
  \/ SweepStep \/ SweepDies
  \/ \E a \in Ackers : (\E ack \in Ack : AckRead(a, ack)) \/ AckWrite(a)
  \/ \E ack \in Ack : AckGone(ack)

Spec == Init /\ [][Next]_vars

(* The event loop runs the relay and the ack handlers, Celery beat the     *)
(* sweeper, deadlines pass and the broker's deliveries come to an end.     *)
Fairness ==
  /\ WF_vars(RelayStep) /\ WF_vars(SweepStep)
  /\ \A a \in Ackers : WF_vars(AckWrite(a))
  /\ \A c \in Commands : WF_vars(RetryDue(c)) /\ WF_vars(PendingExpires(c))
                         /\ WF_vars(IssuePush(c)) /\ WF_vars(FrameGone(c))
  /\ \A ack \in Ack : WF_vars(AckGone(ack))

-----------------------------------------------------------------------------
(* Properties *)

\* A frame once pushed is published or stays in a list (relay.py:1-5, "durable
\* Redis queue"): no restart, failing call or refused publish makes it vanish.
FrameKept ==
  \A c \in Commands :
    issue[c] = "pushed" /\ published[c] = 0 =>
      \/ \E i \in DOMAIN outbound : outbound[i] = c
      \/ \E i \in DOMAIN inflight : inflight[i] = c

\* However relay, sweeper and acks overwrite each other's attempts, the sweeper
\* pushes a command at most max_attempts - 1 times, one more per fault.
RetriesBounded ==
  \A c \in Commands : retries[c] < MaxAttempts + faults

\* No frame reaches the gateway for free: beyond the first, every publish of a
\* command is a retry of the sweeper or is paid for by a fault (a call that fails
\* after the publish costs two: its frame is in both lists).
PublishesPaid ==
  \A c \in Commands : published[c] <= 1 + retries[c] + 2 * faults

\* "unacked commands auto-fail after `max_attempts`" (command API design, success
\* criterion 3): a command the gateway never answers ends failed, for good,
\* whatever late frames of it the relay still sends.
UnackedFails ==
  \A c \in Commands :
    issue[c] # "none" ~> (c \in heard \/ [](row[c].status = "failed"))

\* "on `rejected` it marks it `rejected` and stops retrying"
\* (docs/mqtt-protocol.md:166-167): an ack is the last word on a command.
AckIsFinal ==
  [][\A c \in Commands :
       row[c].status \in {"acked", "rejected"} => row'[c].status \in {"acked", "rejected"}]_vars
=============================================================================
