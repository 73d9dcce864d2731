------------------------ MODULE GatewayCommandsProofs ------------------------
(***************************************************************************)
(* Theorems about GatewayCommands, for every set of commands, ack handlers *)
(* and answers, every number of attempts and every number of faults.       *)
(***************************************************************************)
EXTENDS GatewayCommands, FiniteSetTheorems, TLAPS

-----------------------------------------------------------------------------
(* Redis lists *)

InList(list, c) == \E i \in DOMAIN list : list[i] = c

\* LPUSH puts a command at the head and keeps the others.
LEMMA LPushFacts ==
  ASSUME NEW S, NEW list \in Seq(S), NEW c \in S
  PROVE  /\ LPush(list, c) \in Seq(S)
         /\ LPush(list, c) # << >>
         /\ Head(LPush(list, c)) = c
         /\ InList(LPush(list, c), c)
         /\ \A d : InList(list, d) => InList(LPush(list, c), d)
  <1> DEFINE new == LPush(list, c)
  <1>1. new \in Seq(S) /\ Len(new) = Len(list) + 1 /\ new[1] = c
    BY DEF LPush
  <1>2. \A i \in DOMAIN list : i + 1 \in DOMAIN new /\ new[i + 1] = list[i]
    BY DEF LPush
  <1> QED
    BY <1>1, <1>2 DEF InList

\* RPOP takes the rightmost command and no other.
LEMMA RPopFacts ==
  ASSUME NEW S, NEW list \in Seq(S), list # << >>
  PROVE  /\ RPop(list) \in Seq(S)
         /\ Rightmost(list) \in S
         /\ \A d : InList(list, d) => d = Rightmost(list) \/ InList(RPop(list), d)
  <1> DEFINE n == Len(list)
  <1>1. n \in Nat \ {0} /\ \A i \in 1 .. n : list[i] \in S
    OBVIOUS
  <1>2. RPop(list) = [i \in 1 .. n - 1 |-> list[i]]
    BY <1>1 DEF RPop
  <1>3. RPop(list) \in Seq(S) /\ DOMAIN RPop(list) = 1 .. n - 1
    BY <1>1, <1>2
  <1> QED
    BY <1>1, <1>2, <1>3 DEF InList, Rightmost

\* LPOP takes the head and no other.
LEMMA LPopFacts ==
  ASSUME NEW S, NEW list \in Seq(S)
  PROVE  /\ LPop(list) \in Seq(S)
         /\ list # << >> =>
              \A d : InList(list, d) => d = Head(list) \/ InList(LPop(list), d)
  <1>1. LPop(list) \in Seq(S)
    BY DEF LPop
  <1>2. ASSUME list # << >>, NEW d, InList(list, d), d # Head(list)
        PROVE  InList(LPop(list), d)
    <2>1. PICK i \in DOMAIN list : list[i] = d
      BY <1>2 DEF InList
    <2>2. i \in 2 .. Len(list)
      BY <1>2, <2>1
    <2>3. i - 1 \in DOMAIN LPop(list) /\ LPop(list)[i - 1] = list[i]
      BY <1>2, <2>2 DEF LPop
    <2> QED
      BY <2>1, <2>3 DEF InList
  <1> QED
    BY <1>1, <1>2

-----------------------------------------------------------------------------
(* Type correctness *)

\* A relay past Take has a frame: TypeOK alone is not inductive.
RelayHolds == relay.at \in {"publish", "release", "mark", "write", "requeue"}
TypeInv == TypeOK /\ (RelayHolds => relay.frame \in Commands)

\* The records that the actions write have the types of their variables.
LEMMA ConstantTypes ==
  /\ NoRow \in Row
  /\ SweepIdle \in Sweep
  /\ AckerIdle \in Acker
  /\ \A step \in {"drain", "take", "publish", "release", "mark", "write",
                  "requeue", "dead"} : RelayAt(step) \in Relay
  BY DEF NoRow, Row, Terminal, SweepIdle, Sweep, AckerIdle, Acker, RelayAt, Relay

\* The first state is typed: no rows, empty lists, relay and sweep idle.
LEMMA TypeInit == Init => TypeInv
  BY ConstantTypes, CommandsAssumption
  DEF Init, TypeInv, TypeOK, RelayHolds, RelayAt

\* Every step keeps the types.
LEMMA TypeStep == TypeInv /\ [Next]_vars => TypeInv'
  <1> SUFFICES ASSUME TypeInv, [Next]_vars PROVE TypeInv'
    OBVIOUS
  <1> USE CommandsAssumption, ConstantTypes DEF TypeInv, TypeOK, RelayHolds
  <1> USE DEF queues, network, history, relayOnly, sweepOnly, Fault
  <1>1. ASSUME NEW c \in Commands, IssueCommit(c) PROVE TypeInv'
    BY <1>1 DEF IssueCommit, Row
  <1>2. ASSUME NEW c \in Commands, IssuePush(c) PROVE TypeInv'
    BY <1>2, LPushFacts DEF IssuePush
  <1>3. ASSUME NEW c \in Commands, IssueFails(c) PROVE TypeInv'
    BY <1>3 DEF IssueFails
  <1>4. CASE Drain
    <2>1. CASE inflight = << >>
      BY <1>4, <2>1 DEF Drain, RelayGo, RelayAt
    <2>2. CASE inflight # << >>
      <3>1. RPop(inflight) \in Seq(Commands) /\ Rightmost(inflight) \in Commands
        BY <2>2, RPopFacts
      <3>2. relay' = relay /\ outbound' = LPush(outbound, Rightmost(inflight))
            /\ inflight' = RPop(inflight)
        BY <1>4, <2>2 DEF Drain, RelayGo
      <3>3. outbound' \in Seq(Commands)
        BY <3>1, <3>2, LPushFacts
      <3> QED
        BY <1>4, <3>1, <3>2, <3>3 DEF Drain
    <2> QED BY <2>1, <2>2
  <1>5. CASE Take
    <2> DEFINE c == Rightmost(outbound)
    <2>1. c \in Commands /\ RPop(outbound) \in Seq(Commands)
      BY <1>5, RPopFacts DEF Take
    <2>2. relay' \in Relay /\ relay'.frame = c
      BY <1>5, <2>1 DEF Take, RelayGo, RelayAt, Relay, NoRow, Row
    <2> QED
      BY <1>5, <2>1, <2>2, LPushFacts DEF Take, ToInflight
  <1>6. CASE PublishAccepted
    <2>1. relay' = [relay EXCEPT !.at = "release"] /\ relay.frame \in Commands
      BY <1>6 DEF PublishAccepted, RelayGo
    <2>2. relay' \in Relay /\ relay'.frame \in Commands
      BY <2>1 DEF Relay
    <2>3. published' \in [Commands -> Nat] /\ wire' \subseteq Commands
      BY <1>6, <2>1 DEF PublishAccepted
    <2> QED
      BY <1>6, <2>2, <2>3 DEF PublishAccepted
  <1>7. CASE PublishRefused
    BY <1>7 DEF PublishRefused, RelayGo, RelayAt
  <1>8. CASE Release
    BY <1>8, LPopFacts DEF Release, RelayGo, Released, Relay
  <1>9. CASE MarkRead
    BY <1>9 DEF MarkRead, RelayGo, Relay
  <1>10. CASE MarkWrite
    BY <1>10 DEF MarkWrite, RelayGo, RelayAt, Relay, Row, Write
  <1>11. CASE RelayRaises
    <2>1. relay' \in Relay /\ relay'.frame \in Commands
      BY <1>11 DEF RelayRaises, Relay
    <2> QED
      BY <1>11, <2>1 DEF RelayRaises
  <1>12. CASE Requeue
    BY <1>12, LPushFacts DEF Requeue, RelayGo, RelayAt
  <1>13. CASE RelayDies
    BY <1>13 DEF RelayDies, RelayAt
  <1>14. CASE Restart
    BY <1>14 DEF Restart, RelayAt
  <1>15. CASE SweepSelect
    BY <1>15 DEF SweepSelect, SweepGo, SweepIdle, Sweep, Row
  <1>16. ASSUME NEW c \in Commands, SweepPush(c) PROVE TypeInv'
    <2>1. sweep' \in Sweep
      BY <1>16 DEF SweepPush, SweepGo, Sweep
    <2>2. outbound' \in Seq(Commands)
      BY <1>16, LPushFacts DEF SweepPush
    <2>3. retries' \in [Commands -> Nat]
      BY <1>16 DEF SweepPush
    <2> QED
      BY <1>16, <2>1, <2>2, <2>3 DEF SweepPush
  <1>17. CASE SweepBump
    <2>1. sweep' \in Sweep
      BY <1>17 DEF SweepBump, SweepGo, SweepIdle, Sweep
    <2>2. ASSUME NEW c \in Commands
          PROVE  [row[c] EXCEPT !.attempts = sweep.read[c] + 1, !.retry = "armed"] \in Row
      <3>1. sweep.read[c] + 1 \in Nat
        BY DEF Sweep
      <3> QED
        BY <3>1 DEF Row
    <2>3. row' \in [Commands -> Row]
      BY <1>17, <2>2 DEF SweepBump
    <2> QED
      BY <1>17, <2>1, <2>3 DEF SweepBump
  <1>18. CASE SweepExhausted
    BY <1>18 DEF SweepExhausted, SweepGo, Sweep
  <1>19. CASE SweepPending
    BY <1>19 DEF SweepPending, SweepGo, Sweep
  <1>20. CASE SweepFail
    BY <1>20 DEF SweepFail, SweepGo, Row, Terminal
  <1>21. CASE SweepDies
    BY <1>21 DEF SweepDies
  <1>22. ASSUME NEW a \in Ackers, NEW ack \in Ack, AckRead(a, ack) PROVE TypeInv'
    BY <1>22 DEF AckRead, Ack, Acker
  <1>23. ASSUME NEW a \in Ackers, AckWrite(a) PROVE TypeInv'
    <2>1. acker' \in [Ackers -> Acker]
      BY <1>23 DEF AckWrite
    <2>2. AckedStatus(acker[a].status) \in Terminal
      BY DEF AckedStatus, Terminal
    <2>3. \A now, read \in Row : Answered(now, read, acker[a].status) \in Row
      BY <2>2 DEF Answered, Row, Write
    <2>4. acker[a].read \in Row
      BY DEF Acker
    <2>5. row' \in [Commands -> Row]
      BY <1>23, <2>3, <2>4 DEF AckWrite
    <2> QED
      BY <1>23, <2>1, <2>5 DEF AckWrite
  <1>24. ASSUME NEW c \in Commands, NEW status \in Answers[c], GatewayAcks(c, status)
         PROVE  TypeInv'
    BY <1>24 DEF GatewayAcks, Ack
  <1>25. ASSUME NEW c \in Commands, FrameGone(c) PROVE TypeInv'
    BY <1>25 DEF FrameGone
  <1>26. ASSUME NEW ack \in Ack, AckGone(ack) PROVE TypeInv'
    BY <1>26 DEF AckGone
  <1>27. ASSUME NEW c \in Commands, RetryDue(c) PROVE TypeInv'
    BY <1>27 DEF RetryDue, Row
  <1>28. ASSUME NEW c \in Commands, PendingExpires(c) PROVE TypeInv'
    BY <1>28 DEF PendingExpires
  <1>29. CASE UNCHANGED vars
    BY <1>29 DEF vars
  <1> QED
    BY <1>1, <1>2, <1>3, <1>4, <1>5, <1>6, <1>7, <1>8, <1>9, <1>10, <1>11, <1>12,
       <1>13, <1>14, <1>15, <1>16, <1>17, <1>18, <1>19, <1>20, <1>21, <1>22, <1>23,
       <1>24, <1>25, <1>26, <1>27, <1>28, <1>29
    DEF Next, RelayStep, SweepStep, Clock

\* The command plane keeps its types, whatever fails.
THEOREM TypeCorrect == Spec => []TypeOK
  <1>1. TypeInv => TypeOK
    BY DEF TypeInv
  <1> QED
    BY TypeInit, TypeStep, <1>1, PTL DEF Spec

-----------------------------------------------------------------------------
(* No frame vanishes *)

\* LPOP takes the frame the relay holds, and takes it only once it is published:
\* what lies behind it in inflight was left by refused publishes.
HeldInv ==
  /\ relay.at \in {"publish", "release"} => inflight # << >> /\ Head(inflight) = relay.frame
  /\ relay.at = "release" => published[relay.frame] > 0

Kept(c) ==
  issue[c] = "pushed" /\ published[c] = 0 => InList(outbound, c) \/ InList(inflight, c)

FrameInv == HeldInv /\ \A c \in Commands : Kept(c)

\* The invariant of the frames gives the property that is checked.
LEMMA FrameInvImplies == FrameInv => FrameKept
  BY DEF FrameInv, Kept, InList, FrameKept

\* No command was pushed in the first state.
LEMMA FrameInit == Init => FrameInv
  BY DEF Init, FrameInv, HeldInv, Kept, RelayAt

\* Every step keeps the frame of a command that was pushed and not published in a list.
LEMMA FrameStep == TypeInv /\ FrameInv /\ [Next]_vars => FrameInv'
  <1> SUFFICES ASSUME TypeInv, FrameInv, [Next]_vars PROVE FrameInv'
    OBVIOUS
  <1> USE DEF FrameInv, HeldInv, Kept, queues, network, history, relayOnly, sweepOnly
  <1>a. outbound \in Seq(Commands) /\ inflight \in Seq(Commands)
        /\ issue \in [Commands -> {"none", "committed", "pushed", "broken"}]
        /\ published \in [Commands -> Nat]
        /\ (relay.at \in {"publish", "release", "mark", "write", "requeue"} =>
              relay.frame \in Commands)
        /\ relay \in Relay
    BY DEF TypeInv, TypeOK, RelayHolds
  <1>1. ASSUME NEW c \in Commands, IssueCommit(c) PROVE FrameInv'
    BY <1>a, <1>1 DEF IssueCommit
  <1>2. ASSUME NEW c \in Commands, IssuePush(c) PROVE FrameInv'
    <2>1. InList(outbound', c) /\ \A d : InList(outbound, d) => InList(outbound', d)
      BY <1>a, <1>2, LPushFacts DEF IssuePush
    <2>2. HeldInv'
      BY <1>2 DEF IssuePush
    <2>3. \A d \in Commands : Kept(d)'
      BY <1>a, <1>2, <2>1 DEF IssuePush
    <2> QED
      BY <2>2, <2>3
  <1>3. ASSUME NEW c \in Commands, IssueFails(c) PROVE FrameInv'
    BY <1>a, <1>3 DEF IssueFails
  <1>4. CASE Drain
    <2>1. CASE inflight = << >>
      BY <1>4, <2>1 DEF Drain, RelayGo, RelayAt
    <2>2. CASE inflight # << >>
      <3> DEFINE r == Rightmost(inflight)
      <3>1. relay.at = "drain" /\ relay' = relay
            /\ outbound' = LPush(outbound, r) /\ inflight' = RPop(inflight)
            /\ UNCHANGED <<issue, published>>
        BY <1>4, <2>2 DEF Drain, RelayGo
      <3>2. r \in Commands /\ \A d : InList(inflight, d) => d = r \/ InList(inflight', d)
        BY <1>a, <2>2, <3>1, RPopFacts
      <3>3. InList(outbound', r) /\ \A d : InList(outbound, d) => InList(outbound', d)
        BY <1>a, <3>1, <3>2, LPushFacts
      <3>4. HeldInv'
        BY <3>1
      <3>5. \A d \in Commands : Kept(d)'
        BY <3>1, <3>2, <3>3
      <3> QED
        BY <3>4, <3>5
    <2> QED BY <2>1, <2>2
  <1>5. CASE Take
    <2> DEFINE c == Rightmost(outbound)
    <2>1. outbound # << >> /\ relay' = [RelayAt("publish") EXCEPT !.frame = c]
          /\ outbound' = RPop(outbound) /\ inflight' = LPush(inflight, c)
          /\ UNCHANGED <<issue, published>>
      BY <1>5 DEF Take, RelayGo, ToInflight
    <2>2. c \in Commands /\ \A d : InList(outbound, d) => d = c \/ InList(outbound', d)
      BY <1>a, <2>1, RPopFacts
    <2>3. inflight' # << >> /\ Head(inflight') = c /\ InList(inflight', c)
          /\ \A d : InList(inflight, d) => InList(inflight', d)
      BY <1>a, <2>1, <2>2, LPushFacts
    <2>4. HeldInv'
      BY <2>1, <2>3 DEF RelayAt
    <2>5. \A d \in Commands : Kept(d)'
      BY <2>1, <2>2, <2>3
    <2> QED
      BY <2>4, <2>5
  <1>6. CASE PublishAccepted
    <2>1. relay.at = "publish" /\ relay' = [relay EXCEPT !.at = "release"]
          /\ published' = [published EXCEPT ![relay.frame] = @ + 1]
          /\ UNCHANGED <<outbound, inflight, issue>>
      BY <1>6 DEF PublishAccepted, RelayGo
    <2>2. relay'.at = "release" /\ relay'.frame = relay.frame
      BY <1>a, <2>1 DEF Relay
    <2>3. HeldInv'
      BY <1>a, <2>1, <2>2
    <2>4. \A d \in Commands : Kept(d)'
      BY <1>a, <2>1
    <2> QED
      BY <2>3, <2>4
  <1>7. CASE PublishRefused
    BY <1>7 DEF PublishRefused, RelayGo, RelayAt
  <1>8. CASE Release
    <2>1. relay.at = "release" /\ relay' = [relay EXCEPT !.at = "mark"]
          /\ inflight' = LPop(inflight) /\ UNCHANGED <<outbound, issue, published>>
      BY <1>8 DEF Release, RelayGo, Released
    <2>2. \A d : InList(inflight, d) => d = relay.frame \/ InList(inflight', d)
      BY <1>a, <2>1, LPopFacts
    <2>3. HeldInv'
      BY <1>a, <2>1 DEF Relay
    <2>4. \A d \in Commands : Kept(d)'
      BY <2>1, <2>2
    <2> QED
      BY <2>3, <2>4
  <1>9. CASE MarkRead
    BY <1>a, <1>9 DEF MarkRead, RelayGo, Relay
  <1>10. CASE MarkWrite
    BY <1>10 DEF MarkWrite, RelayGo, RelayAt
  <1>11. CASE RelayRaises
    BY <1>a, <1>11 DEF RelayRaises, Relay
  <1>12. CASE Requeue
    <2>1. relay'.at = "take" /\ outbound' = LPush(outbound, relay.frame)
          /\ relay.frame \in Commands /\ UNCHANGED <<inflight, issue, published>>
      BY <1>a, <1>12 DEF Requeue, RelayGo, RelayAt
    <2>2. \A d : InList(outbound, d) => InList(outbound', d)
      BY <1>a, <2>1, LPushFacts
    <2> QED
      BY <2>1, <2>2
  <1>13. CASE RelayDies
    BY <1>13 DEF RelayDies, RelayAt
  <1>14. CASE Restart
    BY <1>14 DEF Restart, RelayAt
  <1>15. ASSUME NEW c \in Commands, SweepPush(c) PROVE FrameInv'
    <2>1. \A d : InList(outbound, d) => InList(outbound', d)
      BY <1>a, <1>15, LPushFacts DEF SweepPush
    <2>2. UNCHANGED <<inflight, relay, issue, published>>
      BY <1>15 DEF SweepPush
    <2> QED
      BY <2>1, <2>2
  <1>16. ASSUME SweepSelect \/ SweepBump \/ SweepExhausted \/ SweepPending
                \/ SweepFail \/ SweepDies \/ UNCHANGED vars
         PROVE  FrameInv'
    BY <1>16
    DEF SweepSelect, SweepBump, SweepExhausted, SweepPending, SweepFail, SweepDies, vars
  <1>17. ASSUME NEW a \in Ackers, (\E ack \in Ack : AckRead(a, ack)) \/ AckWrite(a)
         PROVE  FrameInv'
    BY <1>17 DEF AckRead, AckWrite
  <1>18. ASSUME NEW c \in Commands,
                (\E status \in Answers[c] : GatewayAcks(c, status)) \/ FrameGone(c) \/ Clock(c)
         PROVE  FrameInv'
    BY <1>18 DEF GatewayAcks, FrameGone, Clock, RetryDue, PendingExpires
  <1>19. ASSUME NEW ack \in Ack, AckGone(ack) PROVE FrameInv'
    BY <1>19 DEF AckGone
  <1> QED
    BY <1>1, <1>2, <1>3, <1>4, <1>5, <1>6, <1>7, <1>8, <1>9, <1>10, <1>11, <1>12,
       <1>13, <1>14, <1>15, <1>16, <1>17, <1>18, <1>19
    DEF Next, RelayStep, SweepStep

\* A pushed frame is published or still in a list, whatever fails.
THEOREM FrameKeptHolds == Spec => []FrameKept
  BY TypeInit, TypeStep, FrameInit, FrameStep, FrameInvImplies, PTL DEF Spec

-----------------------------------------------------------------------------
(* Retries stay bounded *)

Writing(c) == relay.at = "write" /\ relay.frame = c

\* Nobody locks the row, so increments of attempts are lost; but a writer that is
\* about to put an old count back read one that accounts for the retries.
\* Sent: a command marked sent counts an attempt.
\* Idle: outside a retry, attempts are ahead of the retries, faults aside.
\* Swept: what the sweeper selected is no newer than the row or the relay's read.
\* Relayed: what the relay is about to write covers the retries, and a deadline
\* can be past only if the relay's read is current.
RetryInv(c) ==
  /\ row[c].status = "sent" => row[c].attempts >= 1
  /\ c \notin sweep.pushed =>
       retries[c] = 0 \/ retries[c] <= row[c].attempts - 1 + faults
  /\ c \in sweep.todo \cup sweep.pushed =>
       /\ sweep.read[c] \in 1 .. MaxAttempts - 1
       /\ row[c].attempts >= sweep.read[c]
       /\ Writing(c) => relay.read.attempts >= sweep.read[c]
  /\ c \in sweep.todo => retries[c] <= sweep.read[c] - 1 + faults
  /\ c \in sweep.pushed => retries[c] <= sweep.read[c] + faults
  /\ Writing(c) => /\ retries[c] <= relay.read.attempts + faults
                   /\ row[c].retry = "due" => relay.read.attempts = row[c].attempts
  /\ retries[c] < MaxAttempts + faults

SweepInv ==
  /\ sweep.todo \cap sweep.pushed = {}
  /\ sweep.at \notin {"push", "bump"} => sweep.todo = {} /\ sweep.pushed = {}

RetriesInv == SweepInv /\ \A c \in Commands : RetryInv(c)

\* Nothing is retried in the first state.
LEMMA RetriesInit == Init => RetriesInv
  BY CommandsAssumption
  DEF Init, RetriesInv, RetryInv, SweepInv, Writing, NoRow, RelayAt, SweepIdle

\* What a step may do without a look at the counts: keep them, relay a frame no
\* further than to the read, and let faults grow.
Quiet ==
  /\ UNCHANGED <<sweep, retries>>
  /\ faults' >= faults
  /\ relay' = relay \/ relay'.at # "write"
  /\ \A c \in Commands :
       /\ row'[c].attempts = row[c].attempts
       /\ row'[c].status = "sent" => row[c].status = "sent"
       /\ row'[c].retry = "due" =>
            row[c].retry = "due" \/ (Writing(c) => relay.read.attempts = row[c].attempts)

\* The counts of a command's attempts are numbers.
LEMMA CountTypes ==
  ASSUME TypeInv, NEW c \in Commands
  PROVE  /\ retries[c] \in Nat /\ row[c].attempts \in Nat /\ sweep.read[c] \in Nat
         /\ relay.read.attempts \in Nat /\ faults \in Nat /\ MaxAttempts \in Nat \ {0}
  BY CommandsAssumption DEF TypeInv, TypeOK, Row, Sweep, Relay

\* A step that leaves attempts and retries alone keeps their bounds.
LEMMA QuietStep ==
  ASSUME TypeInv, TypeInv', RetriesInv, Quiet
  PROVE  RetriesInv'
  <1>1. SweepInv'
    BY DEF Quiet, RetriesInv, SweepInv
  <1>2. ASSUME NEW c \in Commands PROVE RetryInv(c)'
    <2>1. faults \in Nat /\ faults' \in Nat /\ faults' >= faults
      BY <1>2, CommandsAssumption DEF TypeInv, TypeOK, Quiet
    <2>2. RetryInv(c) /\ sweep' = sweep /\ retries' = retries
          /\ row'[c].attempts = row[c].attempts
      BY <1>2 DEF RetriesInv, Quiet
    <2>3. Writing(c)' => Writing(c) /\ relay' = relay
      BY DEF Quiet, Writing
    <2>4. row'[c].status = "sent" => row[c].status = "sent"
      BY DEF Quiet
    <2>5. row'[c].retry = "due" /\ Writing(c) => relay.read.attempts = row[c].attempts
      BY <2>2 DEF Quiet, RetryInv
    <2> QED
      BY <2>1, <2>2, <2>3, <2>4, <2>5, CountTypes DEF RetryInv
  <1> QED
    BY <1>1, <1>2 DEF RetriesInv

\* MarkRead takes the current count, which covers the retries.
LEMMA MarkReadStep ==
  ASSUME TypeInv, RetriesInv, MarkRead
  PROVE  RetriesInv'
  <1>1. relay'.read = row[relay.frame] /\ relay'.frame = relay.frame
        /\ relay.frame \in Commands /\ UNCHANGED <<row, sweep, retries, faults>>
    BY DEF MarkRead, RelayGo, relayOnly, history, TypeInv, TypeOK, RelayHolds, Relay
  <1>2. ASSUME NEW c \in Commands PROVE RetryInv(c)'
    <2>1. RetryInv(c) /\ SweepInv
      BY <1>2 DEF RetriesInv
    <2>2. Writing(c)' => relay'.read = row[c]
      BY <1>1 DEF Writing
    <2>3. retries[c] <= row[c].attempts + faults
      BY <2>1, CountTypes DEF RetryInv
    <2> QED
      BY <1>1, <2>1, <2>2, <2>3, CountTypes DEF RetryInv
  <1> QED
    BY <1>1, <1>2 DEF RetriesInv, SweepInv

\* MarkWrite may take attempts back, but not below what its read accounts for.
LEMMA MarkWriteStep ==
  ASSUME TypeInv, RetriesInv, MarkWrite
  PROVE  RetriesInv'
  <1> DEFINE f == relay.frame
  <1>1. relay.at = "write" /\ relay'.at = "take" /\ f \in Commands
        /\ UNCHANGED <<sweep, retries, faults>>
    BY DEF MarkWrite, RelayGo, RelayAt, history, TypeInv, TypeOK, RelayHolds
  <1>2. row'[f].attempts = relay.read.attempts + 1
        /\ \A c \in Commands \ {f} : row'[c] = row[c]
    BY <1>1 DEF MarkWrite, TypeInv, TypeOK
  <1>3. ASSUME NEW c \in Commands PROVE RetryInv(c)'
    <2>1. RetryInv(c) /\ ~Writing(c)'
      BY <1>1, <1>3 DEF RetriesInv, Writing
    <2>2. CASE c = f
      <3>1. Writing(c)
        BY <1>1, <2>2 DEF Writing
      <3>2. row'[c].attempts = relay.read.attempts + 1
        BY <1>2, <2>2
      <3> QED
        BY <1>1, <2>1, <3>1, <3>2, CountTypes DEF RetryInv
    <2>3. CASE c # f
      BY <1>1, <1>2, <2>1, <2>3, CountTypes DEF RetryInv
    <2> QED
      BY <2>2, <2>3
  <1> QED
    BY <1>1, <1>3 DEF RetriesInv, SweepInv

\* The sweeper selects what is due: a relay about to write has read the same count.
LEMMA SweepSelectStep ==
  ASSUME TypeInv, RetriesInv, SweepSelect
  PROVE  RetriesInv'
  <1> DEFINE due == {c \in Commands : IsDue(c) /\ AttemptsLeft(c)}
  <1>1. sweep.at = "idle" /\ sweep'.todo = due /\ sweep'.pushed = {}
        /\ sweep'.at = (IF due = {} THEN "exhausted" ELSE "push")
        /\ (\A c \in due : sweep'.read[c] = row[c].attempts)
        /\ UNCHANGED <<row, relay, retries, faults>>
    BY DEF SweepSelect, SweepGo, SweepIdle, sweepOnly
  <1>2. ASSUME NEW c \in Commands PROVE RetryInv(c)'
    <2>1. RetryInv(c) /\ c \notin sweep.pushed /\ (Writing(c)' <=> Writing(c))
      BY <1>1, <1>2 DEF RetriesInv, SweepInv, Writing
    <2>2. CASE c \in due
      <3>1. row[c].status = "sent" /\ row[c].retry = "due" /\ row[c].attempts < MaxAttempts
            /\ sweep'.read[c] = row[c].attempts
        BY <1>1, <2>2 DEF IsDue, AttemptsLeft
      <3>2. row[c].attempts \in 1 .. MaxAttempts - 1
        BY <2>1, <3>1, CountTypes DEF RetryInv
      <3> QED
        BY <1>1, <2>1, <3>1, <3>2, CountTypes DEF RetryInv
    <2>3. CASE c \notin due
      BY <1>1, <2>1, <2>3, CountTypes DEF RetryInv
    <2> QED
      BY <2>2, <2>3
  <1> QED
    BY <1>1, <1>2 DEF RetriesInv, SweepInv

\* A push of the sweep is one more retry of a command that it has read as stale.
LEMMA SweepPushStep ==
  ASSUME TypeInv, RetriesInv, NEW d \in Commands, SweepPush(d)
  PROVE  RetriesInv'
  <1>1. sweep.at = "push" /\ d \in sweep.todo
        /\ sweep'.todo = sweep.todo \ {d} /\ sweep'.pushed = sweep.pushed \cup {d}
        /\ sweep'.read = sweep.read /\ sweep'.at \in {"push", "bump"}
        /\ UNCHANGED <<row, relay, faults>>
    BY DEF SweepPush, SweepGo, sweepOnly, TypeInv, TypeOK, Sweep
  <1>2. retries' = [retries EXCEPT ![d] = @ + 1] /\ retries \in [Commands -> Nat]
    BY DEF SweepPush, TypeInv, TypeOK
  <1>3. ASSUME NEW c \in Commands PROVE RetryInv(c)'
    <2>1. RetryInv(c) /\ (Writing(c)' <=> Writing(c)) /\ c \notin sweep.todo \cap sweep.pushed
      BY <1>1, <1>3 DEF RetriesInv, SweepInv, Writing
    <2>2. CASE c = d
      <3>1. retries'[c] = retries[c] + 1 /\ c \in sweep.todo
        BY <1>1, <1>2, <2>2
      <3>2. /\ sweep.read[c] \in 1 .. MaxAttempts - 1
            /\ row[c].attempts >= sweep.read[c]
            /\ retries[c] <= sweep.read[c] - 1 + faults
            /\ Writing(c) => relay.read.attempts >= sweep.read[c]
        BY <2>1, <3>1 DEF RetryInv
      <3>3. retries'[c] <= sweep.read[c] + faults
        BY <3>1, <3>2, CountTypes
      <3> QED
        BY <1>1, <2>1, <2>2, <3>2, <3>3, <3>1, CountTypes DEF RetryInv
    <2>3. CASE c # d
      <3>1. retries'[c] = retries[c]
        BY <1>2, <2>3
      <3> QED
        BY <1>1, <2>1, <2>3, <3>1 DEF RetryInv
    <2> QED
      BY <2>2, <2>3
  <1> QED
    BY <1>1, <1>3 DEF RetriesInv, SweepInv

\* SweepBump writes the selected count plus one, whatever the row says now.
LEMMA SweepBumpStep ==
  ASSUME TypeInv, RetriesInv, SweepBump
  PROVE  RetriesInv'
  <1>1. sweep'.at = "exhausted" /\ sweep'.todo = {} /\ sweep'.pushed = {}
        /\ UNCHANGED <<relay, retries, faults>>
    BY DEF SweepBump, SweepGo, SweepIdle, sweepOnly
  <1>2. ASSUME NEW c \in Commands PROVE RetryInv(c)'
    <2>1. RetryInv(c) /\ (Writing(c)' <=> Writing(c))
      BY <1>1, <1>2 DEF RetriesInv, Writing
    <2>2. CASE c \in sweep.pushed
      <3>1. row'[c] = [row[c] EXCEPT !.attempts = sweep.read[c] + 1, !.retry = "armed"]
        BY <2>2 DEF SweepBump
      <3>2. row'[c].attempts = sweep.read[c] + 1 /\ row'[c].retry = "armed"
        BY <3>1 DEF TypeInv, TypeOK, Row
      <3> QED
        BY <1>1, <2>1, <2>2, <3>2, CountTypes DEF RetryInv
    <2>3. CASE c \notin sweep.pushed
      <3>1. row'[c] = row[c]
        BY <2>3 DEF SweepBump
      <3> QED
        BY <1>1, <2>1, <2>3, <3>1, CountTypes DEF RetryInv
    <2> QED
      BY <2>2, <2>3
  <1> QED
    BY <1>1, <1>2 DEF RetriesInv, SweepInv

\* The rest of a scan, or its death, which a fault pays for.
LEMMA SweepRestStep ==
  ASSUME TypeInv, RetriesInv, SweepExhausted \/ SweepPending \/ SweepFail \/ SweepDies
  PROVE  RetriesInv'
  <1>1. UNCHANGED <<relay, retries>> /\ faults' \in {faults, faults + 1}
        /\ (SweepDies => faults' = faults + 1)
    BY DEF SweepExhausted, SweepPending, SweepFail, SweepDies, sweepOnly, history, Fault
  <1>2. sweep'.todo = {} /\ sweep'.pushed = {} /\ (~SweepDies => sweep.pushed = {})
    <2>1. CASE SweepExhausted \/ SweepPending
      BY <2>1 DEF SweepExhausted, SweepPending, SweepGo, RetriesInv, SweepInv,
                  TypeInv, TypeOK, Sweep
    <2>2. CASE SweepFail \/ SweepDies
      BY <2>2 DEF SweepFail, SweepDies, SweepGo, SweepIdle, RetriesInv, SweepInv
    <2> QED
      BY <2>1, <2>2
  <1>3. \A c \in Commands :
          row'[c].attempts = row[c].attempts /\ row'[c].retry = row[c].retry
          /\ (row'[c].status = "sent" => row[c].status = "sent")
    <2>1. CASE row' = row
      BY <2>1
    <2>2. CASE SweepFail
      <3>1. ASSUME NEW c \in Commands
            PROVE  \/ row'[c] = row[c]
                   \/ row[c] \in Row /\ row'[c] = [row[c] EXCEPT !.status = "failed"]
        BY <2>2 DEF SweepFail, TypeInv, TypeOK
      <3>2. ASSUME NEW r \in Row, NEW s, s = [r EXCEPT !.status = "failed"]
            PROVE  s.attempts = r.attempts /\ s.retry = r.retry /\ s.status = "failed"
        BY <3>2 DEF Row
      <3> QED
        BY <3>1, <3>2
    <2> QED
      BY <2>1, <2>2 DEF SweepExhausted, SweepPending, SweepDies
  <1>4. ASSUME NEW c \in Commands PROVE RetryInv(c)'
    <2>1. RetryInv(c) /\ (Writing(c)' <=> Writing(c))
      BY <1>1, <1>4 DEF RetriesInv, Writing
    <2> QED
      BY <1>1, <1>2, <1>3, <2>1, CountTypes DEF RetryInv
  <1> QED
    BY <1>2, <1>4 DEF RetriesInv, SweepInv

\* Every step keeps the retries of a command within its attempts and the faults.
LEMMA RetriesStep == TypeInv /\ RetriesInv /\ [Next]_vars => RetriesInv'
  <1> SUFFICES ASSUME TypeInv, RetriesInv, [Next]_vars PROVE RetriesInv'
    OBVIOUS
  <1>a. TypeInv'
    BY TypeStep
  <1>b. row \in [Commands -> Row] /\ relay \in Relay /\ faults \in Nat
    BY CommandsAssumption DEF TypeInv, TypeOK
  <1> USE DEF queues, network, history, relayOnly, sweepOnly, Fault
  <1>1. ASSUME NEW c \in Commands, IssueCommit(c) \/ IssuePush(c) \/ IssueFails(c)
        PROVE  Quiet
    BY <1>1, <1>b DEF IssueCommit, IssuePush, IssueFails, Quiet, Row
  <1>2. ASSUME Drain \/ Take \/ PublishAccepted \/ PublishRefused \/ Release \/ Requeue
        PROVE  Quiet
    BY <1>2, <1>b DEF Drain, Take, PublishAccepted, PublishRefused, Release, Requeue,
                      RelayGo, RelayAt, Relay, Quiet
  <1>3. ASSUME RelayRaises \/ RelayDies \/ Restart PROVE Quiet
    <2>1. relay'.at # "write"
      <3>1. CASE RelayRaises
        BY <1>b, <3>1 DEF RelayRaises, Relay
      <3>2. CASE RelayDies \/ Restart
        BY <3>2 DEF RelayDies, Restart, RelayAt
      <3> QED
        BY <1>3, <3>1, <3>2
    <2>2. faults' = faults + 1 /\ UNCHANGED <<row, sweep, retries>>
      BY <1>3 DEF RelayRaises, RelayDies, Restart
    <2> QED
      BY <1>b, <2>1, <2>2 DEF Quiet
  <1>4. ASSUME NEW a \in Ackers, NEW ack \in Ack, AckRead(a, ack) PROVE Quiet
    BY <1>4, <1>b DEF AckRead, Quiet
  <1>5. ASSUME NEW a \in Ackers, AckWrite(a) PROVE Quiet
    <2> DEFINE c == acker[a].command
               new == Answered(row[c], acker[a].read, acker[a].status)
    <2>1. row' = [row EXCEPT ![c] = new] /\ UNCHANGED <<sweep, retries, faults, relay>>
      BY <1>5 DEF AckWrite
    <2>2. c \in Commands => /\ new.attempts = row[c].attempts
                            /\ new.status = "sent" => row[c].status = "sent"
                            /\ new.retry = "due" => row[c].retry = "due"
      BY <1>b DEF Answered, Write, AckedStatus, Row
    <2> HIDE DEF new
    <2> QED
      BY <1>b, <2>1, <2>2 DEF Quiet
  <1>6. ASSUME NEW c \in Commands,
               (\E status \in Answers[c] : GatewayAcks(c, status)) \/ FrameGone(c)
                 \/ PendingExpires(c)
        PROVE  Quiet
    BY <1>6, <1>b DEF GatewayAcks, FrameGone, PendingExpires, Quiet
  <1>7. ASSUME NEW c \in Commands, RetryDue(c) PROVE Quiet
    BY <1>7, <1>b DEF RetryDue, Quiet, Writing, Row
  <1>8. ASSUME NEW ack \in Ack, AckGone(ack) PROVE Quiet
    BY <1>8, <1>b DEF AckGone, Quiet
  <1>9. CASE UNCHANGED vars
    BY <1>9, <1>b, <1>a, QuietStep DEF vars, Quiet
  <1> QED
    BY <1>a, <1>1, <1>2, <1>3, <1>4, <1>5, <1>6, <1>7, <1>8, <1>9, QuietStep,
       MarkReadStep, MarkWriteStep, SweepSelectStep, SweepPushStep, SweepBumpStep,
       SweepRestStep
    DEF Next, RelayStep, SweepStep, Clock

\* The sweeper pushes a command at most max_attempts - 1 times, one more per fault,
\* although relay and sweeper overwrite each other's count of attempts.
THEOREM RetriesBoundedHolds == Spec => []RetriesBounded
  <1>1. RetriesInv => RetriesBounded
    BY DEF RetriesInv, RetryInv, RetriesBounded
  <1> QED
    BY TypeInit, TypeStep, RetriesInit, RetriesStep, <1>1, PTL DEF Spec

-----------------------------------------------------------------------------
(* Publishes are paid for *)

\* where a frame is in a list, and how often
Positions(list, c) == {i \in DOMAIN list : list[i] = c}
Occurs(list, c) == Cardinality(Positions(list, c))

\* How often a command is in a list is a number.
LEMMA OccursType ==
  ASSUME NEW S, NEW list \in Seq(S), NEW c
  PROVE  /\ IsFiniteSet(Positions(list, c))
         /\ Occurs(list, c) \in Nat
         /\ InList(list, c) => Occurs(list, c) >= 1
         /\ Occurs(<< >>, c) = 0
  <1>1. DOMAIN list = 1 .. Len(list) /\ Len(list) \in Nat
    OBVIOUS
  <1>2. IsFiniteSet(Positions(list, c))
    <2>1. IsFiniteSet(1 .. Len(list))
      BY <1>1, FS_Interval
    <2>2. Positions(list, c) \subseteq 1 .. Len(list)
      BY <1>1 DEF Positions
    <2> QED
      BY <2>1, <2>2, FS_Subset
  <1>3. Occurs(list, c) \in Nat
    BY <1>2, FS_CardinalityType DEF Occurs
  <1>4. ASSUME InList(list, c) PROVE Occurs(list, c) # 0
    BY <1>2, <1>4, FS_EmptySet DEF Occurs, Positions, InList
  <1>5. Occurs(<< >>, c) = 0
    <2>1. Positions(<< >>, c) = {}
      BY DEF Positions
    <2> QED
      BY <2>1, FS_EmptySet DEF Occurs
  <1> QED
    BY <1>2, <1>3, <1>4, <1>5

\* LPUSH adds one occurrence of the command it pushes.
LEMMA OccursLPush ==
  ASSUME NEW S, NEW list \in Seq(S), NEW d \in S, NEW c
  PROVE  Occurs(LPush(list, d), c) = Occurs(list, c) + (IF d = c THEN 1 ELSE 0)
  <1> DEFINE new == LPush(list, d)
             n == Len(list)
             shift == [i \in Positions(list, c) |-> i + 1]
             moved == {i \in 2 .. n + 1 : new[i] = c}
  <1>1. /\ n \in Nat /\ DOMAIN new = 1 .. n + 1 /\ DOMAIN list = 1 .. n /\ new[1] = d
        /\ \A i \in 1 .. n : new[i + 1] = list[i]
    BY DEF LPush
  <1> HIDE DEF new, n
  <1>2. shift \in Bijection(Positions(list, c), moved)
    <2>1. shift \in [Positions(list, c) -> moved]
      BY <1>1 DEF Positions
    <2>2. \A i, j \in Positions(list, c) : shift[i] = shift[j] => i = j
      BY <1>1 DEF Positions
    <2>3. \A k \in moved : \E i \in Positions(list, c) : shift[i] = k
      <3>1. SUFFICES ASSUME NEW k \in moved PROVE \E i \in Positions(list, c) : shift[i] = k
        OBVIOUS
      <3>2. k - 1 \in 1 .. n /\ new[(k - 1) + 1] = list[k - 1] /\ (k - 1) + 1 = k
        BY <1>1
      <3>3. k - 1 \in Positions(list, c)
        BY <1>1, <3>2 DEF Positions
      <3> QED
        BY <3>2, <3>3
    <2> HIDE DEF shift, moved
    <2> QED
      BY <2>1, <2>2, <2>3 DEF Bijection, Injection, Surjection, IsInjective
  <1>3. IsFiniteSet(moved) /\ Cardinality(moved) = Occurs(list, c)
    BY <1>2, OccursType, FS_Bijection DEF ExistsBijection, Occurs
  <1>4. Positions(new, c) = IF d = c THEN moved \cup {1} ELSE moved
    BY <1>1 DEF Positions
  <1>5. 1 \notin moved
    BY <1>1
  <1> HIDE DEF moved
  <1>6. Cardinality(moved \cup {1}) = Occurs(list, c) + 1
    BY <1>3, <1>5, FS_AddElement
  <1>7. Occurs(list, c) \in Nat
    BY OccursType
  <1> QED
    BY <1>3, <1>4, <1>6, <1>7 DEF Occurs, new

\* RPOP takes one occurrence of the rightmost command.
LEMMA OccursRPop ==
  ASSUME NEW S, NEW list \in Seq(S), list # << >>, NEW c
  PROVE  Occurs(RPop(list), c) = Occurs(list, c) - (IF Rightmost(list) = c THEN 1 ELSE 0)
  <1> DEFINE n == Len(list)
  <1>1. n \in Nat \ {0} /\ DOMAIN list = 1 .. n
    OBVIOUS
  <1>2. RPop(list) = [i \in 1 .. n - 1 |-> list[i]]
    BY <1>1 DEF RPop
  <1>3. Positions(RPop(list), c) = Positions(list, c) \ {n}
    BY <1>1, <1>2 DEF Positions
  <1>4. n \in Positions(list, c) <=> Rightmost(list) = c
    BY <1>1 DEF Positions, Rightmost
  <1>5. IsFiniteSet(Positions(list, c)) /\ Occurs(list, c) \in Nat
    BY OccursType
  <1>6. Cardinality(Positions(list, c) \ {n}) =
          IF n \in Positions(list, c) THEN Occurs(list, c) - 1 ELSE Occurs(list, c)
    BY <1>5, FS_RemoveElement DEF Occurs
  <1> QED
    BY <1>3, <1>4, <1>5, <1>6 DEF Occurs

\* LPOP takes one occurrence of the head.
LEMMA OccursLPop ==
  ASSUME NEW S, NEW list \in Seq(S), list # << >>, NEW c
  PROVE  Occurs(LPop(list), c) = Occurs(list, c) - (IF Head(list) = c THEN 1 ELSE 0)
  <1>1. Head(list) \in S /\ LPop(list) \in Seq(S) /\ list = LPush(LPop(list), Head(list))
    BY DEF LPop, LPush
  <1>2. Occurs(list, c) = Occurs(LPop(list), c) + (IF Head(list) = c THEN 1 ELSE 0)
    BY <1>1, OccursLPush
  <1> QED
    BY <1>1, <1>2, OccursType

\* The account of a command: its publishes, its frames in the lists and the one the
\* relay is about to push again; not the frame that is published and still in
\* inflight, which would count twice.
InHand(c, step) == IF relay.at = step /\ relay.frame = c THEN 1 ELSE 0
Frames(c) ==
  published[c] + Occurs(outbound, c) + Occurs(inflight, c)
    + InHand(c, "requeue") - InHand(c, "release")
Pushed(c) == (IF issue[c] = "pushed" THEN 1 ELSE 0) + retries[c] + 2 * faults

PaidInv == \A c \in Commands : Frames(c) <= Pushed(c)

\* The parts of a command's account are numbers.
LEMMA PaidTypes ==
  ASSUME TypeInv, NEW c \in Commands
  PROVE  /\ published[c] \in Nat /\ retries[c] \in Nat /\ faults \in Nat
         /\ Occurs(outbound, c) \in Nat /\ Occurs(inflight, c) \in Nat
         /\ \A step : InHand(c, step) \in {0, 1}
  BY OccursType, CommandsAssumption DEF TypeInv, TypeOK, InHand

\* What a step may do to one account without a look at the lists.
PaidQuiet(c) ==
  /\ UNCHANGED <<published, outbound, inflight>>
  /\ issue'[c] = issue[c] \/ issue[c] # "pushed"
  /\ retries' = retries
  /\ \/ faults' = faults /\ InHand(c, "requeue")' <= InHand(c, "requeue")
                         /\ InHand(c, "release")' = InHand(c, "release")
     \/ faults' = faults + 1

\* A step that leaves the lists alone, or is paid for, keeps the account of a command.
LEMMA PaidQuietStep ==
  ASSUME TypeInv, TypeInv', PaidInv, NEW c \in Commands, PaidQuiet(c)
  PROVE  Frames(c)' <= Pushed(c)'
  <1>1. Frames(c) <= Pushed(c)
    BY DEF PaidInv
  <1>2. /\ InHand(c, "requeue") \in {0, 1} /\ InHand(c, "release") \in {0, 1}
        /\ InHand(c, "requeue")' \in {0, 1} /\ InHand(c, "release")' \in {0, 1}
    BY DEF InHand
  <1> QED
    BY <1>1, <1>2, PaidTypes DEF PaidQuiet, Frames, Pushed

\* Every step keeps the frames of a command paid for by pushes, retries and faults.
LEMMA PaidStep == TypeInv /\ HeldInv /\ PaidInv /\ [Next]_vars => PaidInv'
  <1> SUFFICES ASSUME TypeInv, HeldInv, PaidInv, [Next]_vars, NEW c \in Commands
               PROVE  Frames(c)' <= Pushed(c)'
    BY DEF PaidInv
  <1>a. /\ TypeInv'
        /\ outbound \in Seq(Commands) /\ inflight \in Seq(Commands)
        /\ relay \in Relay /\ (RelayHolds => relay.frame \in Commands)
        /\ issue \in [Commands -> {"none", "committed", "pushed", "broken"}]
        /\ published \in [Commands -> Nat] /\ retries \in [Commands -> Nat]
    BY TypeStep DEF TypeInv, TypeOK
  <1>b. /\ published[c] \in Nat /\ retries[c] \in Nat /\ faults \in Nat
        /\ Occurs(outbound, c) \in Nat /\ Occurs(inflight, c) \in Nat
    BY PaidTypes
  <1>c. Frames(c) <= Pushed(c)
    BY DEF PaidInv
  <1> USE DEF queues, network, history, relayOnly, sweepOnly, Fault
  <1>1. ASSUME NEW d \in Commands, IssueCommit(d) \/ IssueFails(d) PROVE PaidQuiet(c)
    BY <1>a, <1>1 DEF IssueCommit, IssueFails, PaidQuiet, InHand
  <1>2. ASSUME NEW d \in Commands, IssuePush(d) PROVE Frames(c)' <= Pushed(c)'
    <2>1. Occurs(outbound', c) = Occurs(outbound, c) + (IF d = c THEN 1 ELSE 0)
      BY <1>a, <1>2, OccursLPush DEF IssuePush
    <2>2. /\ UNCHANGED <<inflight, relay, published, retries, faults>>
          /\ issue'[c] = IF d = c THEN "pushed" ELSE issue[c]
          /\ d = c => issue[c] # "pushed"
      BY <1>a, <1>2 DEF IssuePush
    <2> QED
      BY <1>b, <1>c, <2>1, <2>2 DEF Frames, Pushed, InHand
  <1>3. CASE Drain
    <2>1. CASE inflight = << >>
      BY SMTT(30), <1>3, <2>1, <1>a, PaidQuietStep DEF Drain, RelayGo, RelayAt, PaidQuiet, InHand
    <2>2. CASE inflight # << >>
      <3> DEFINE r == Rightmost(inflight)
      <3>1. /\ relay' = relay /\ outbound' = LPush(outbound, r) /\ inflight' = RPop(inflight)
            /\ UNCHANGED <<issue, published, retries, faults>>
        BY <1>3, <2>2 DEF Drain, RelayGo
      <3>2. Occurs(outbound', c) = Occurs(outbound, c) + (IF r = c THEN 1 ELSE 0)
        <4>1. r \in Commands
          BY <1>a, <2>2, RPopFacts
        <4> QED
          BY <1>a, <3>1, <4>1, OccursLPush
      <3>3. Occurs(inflight', c) = Occurs(inflight, c) - (IF r = c THEN 1 ELSE 0)
        BY <1>a, <2>2, <3>1, OccursRPop
      <3> QED
        BY <1>b, <1>c, <3>1, <3>2, <3>3 DEF Frames, Pushed, InHand
    <2> QED
      BY <2>1, <2>2
  <1>4. CASE Take
    <2> DEFINE r == Rightmost(outbound)
    <2>1. /\ outbound # << >> /\ outbound' = RPop(outbound) /\ inflight' = LPush(inflight, r)
          /\ relay.at = "take" /\ relay'.at = "publish"
          /\ UNCHANGED <<issue, published, retries, faults>>
      BY <1>4 DEF Take, RelayGo, ToInflight, RelayAt
    <2>2. Occurs(outbound', c) = Occurs(outbound, c) - (IF r = c THEN 1 ELSE 0)
      BY <1>a, <2>1, OccursRPop
    <2>3. Occurs(inflight', c) = Occurs(inflight, c) + (IF r = c THEN 1 ELSE 0)
      BY <1>a, <2>1, RPopFacts, OccursLPush
    <2> QED
      BY <1>b, <1>c, <2>1, <2>2, <2>3 DEF Frames, Pushed, InHand
  <1>5. CASE PublishAccepted
    <2>1. /\ relay.at = "publish" /\ relay'.at = "release" /\ relay'.frame = relay.frame
          /\ published' = [published EXCEPT ![relay.frame] = @ + 1]
          /\ UNCHANGED <<issue, outbound, inflight, retries, faults>>
      BY <1>5, <1>a DEF PublishAccepted, RelayGo, Relay
    <2>2. published'[c] = published[c] + (IF relay.frame = c THEN 1 ELSE 0)
      BY <1>a, <1>b, <2>1 DEF RelayHolds
    <2> QED
      BY <1>b, <1>c, <2>1, <2>2 DEF Frames, Pushed, InHand
  <1>6. CASE Release
    <2>1. /\ relay.at = "release" /\ relay'.at = "mark" /\ inflight' = LPop(inflight)
          /\ UNCHANGED <<issue, published, outbound, retries, faults>>
      BY <1>6, <1>a DEF Release, RelayGo, Released, Relay
    <2>2. inflight # << >> /\ Head(inflight) = relay.frame
      BY <2>1 DEF HeldInv
    <2>3. Occurs(inflight', c) = Occurs(inflight, c) - (IF relay.frame = c THEN 1 ELSE 0)
      BY <1>a, <2>1, <2>2, OccursLPop
    <2> QED
      BY <1>b, <1>c, <2>1, <2>3 DEF Frames, Pushed, InHand
  <1>7. CASE Requeue
    <2>1. /\ relay.at = "requeue" /\ relay'.at = "take"
          /\ outbound' = LPush(outbound, relay.frame)
          /\ UNCHANGED <<issue, published, inflight, retries, faults>>
      BY <1>7 DEF Requeue, RelayGo, RelayAt
    <2>2. Occurs(outbound', c) = Occurs(outbound, c) + (IF relay.frame = c THEN 1 ELSE 0)
      BY <1>a, <2>1, OccursLPush DEF RelayHolds
    <2> QED
      BY <1>b, <1>c, <2>1, <2>2 DEF Frames, Pushed, InHand
  <1>8. ASSUME NEW d \in Commands, SweepPush(d) PROVE Frames(c)' <= Pushed(c)'
    <2>1. Occurs(outbound', c) = Occurs(outbound, c) + (IF d = c THEN 1 ELSE 0)
      BY <1>a, <1>8, OccursLPush DEF SweepPush
    <2>2. /\ UNCHANGED <<issue, inflight, relay, published, faults>>
          /\ retries'[c] = retries[c] + (IF d = c THEN 1 ELSE 0)
      BY <1>a, <1>b, <1>8 DEF SweepPush
    <2>3. issue' = issue
      BY <1>8 DEF SweepPush
    <2> QED
      BY <1>b, <1>c, <2>1, <2>2 DEF Frames, Pushed, InHand
  <1>9. ASSUME PublishRefused \/ MarkRead \/ MarkWrite PROVE PaidQuiet(c)
    <2>1. /\ UNCHANGED <<issue, published, outbound, inflight, retries, faults>>
          /\ relay.at \in {"publish", "mark", "write"} /\ relay'.at \in {"take", "write"}
      <3>1. CASE PublishRefused
        BY <3>1 DEF PublishRefused, RelayGo, RelayAt
      <3>2. CASE MarkRead
        BY <1>a, <3>2 DEF MarkRead, RelayGo, Relay
      <3>3. CASE MarkWrite
        BY <3>3 DEF MarkWrite, RelayGo, RelayAt
      <3> QED
        BY <1>9, <3>1, <3>2, <3>3
    <2> QED
      BY <2>1 DEF PaidQuiet, InHand
  <1>10. ASSUME RelayRaises \/ RelayDies \/ Restart \/ SweepDies PROVE PaidQuiet(c)
    BY <1>10 DEF RelayRaises, RelayDies, Restart, SweepDies, PaidQuiet
  <1>11. ASSUME SweepSelect \/ SweepBump \/ SweepExhausted \/ SweepPending \/ SweepFail
                \/ UNCHANGED vars
         PROVE  PaidQuiet(c)
    <2>1. UNCHANGED <<issue, published, outbound, inflight, retries, faults, relay>>
      BY <1>11 DEF SweepSelect, SweepBump, SweepExhausted, SweepPending, SweepFail, vars
    <2> QED
      BY <2>1 DEF PaidQuiet, InHand
  <1>12. ASSUME NEW a \in Ackers, (\E ack \in Ack : AckRead(a, ack)) \/ AckWrite(a)
         PROVE  PaidQuiet(c)
    BY <1>12 DEF AckRead, AckWrite, PaidQuiet, InHand
  <1>13. ASSUME NEW d \in Commands,
                (\E status \in Answers[d] : GatewayAcks(d, status)) \/ FrameGone(d) \/ Clock(d)
         PROVE  PaidQuiet(c)
    BY <1>13 DEF GatewayAcks, FrameGone, Clock, RetryDue, PendingExpires, PaidQuiet, InHand
  <1>14. ASSUME NEW ack \in Ack, AckGone(ack) PROVE PaidQuiet(c)
    BY <1>14 DEF AckGone, PaidQuiet, InHand
  <1> QED
    BY <1>a, <1>1, <1>2, <1>3, <1>4, <1>5, <1>6, <1>7, <1>8, <1>9, <1>10, <1>11, <1>12,
       <1>13, <1>14, PaidQuietStep
    DEF Next, RelayStep, SweepStep

\* Beyond the first, every publish of a command is a retry of the sweeper or is paid
\* for by a fault, in whatever order relay, sweeper and restarts move its frames
\* between the two lists.
THEOREM PublishesPaidHolds == Spec => []PublishesPaid
  <1>1. Init => PaidInv
    <2>1. ASSUME Init, NEW c \in Commands PROVE Frames(c) <= Pushed(c)
      <3>1. Occurs(<< >>, c) = 0
        <4>1. << >> \in Seq(Commands)
          OBVIOUS
        <4> QED
          BY <4>1, OccursType
      <3> QED
        BY <2>1, <3>1 DEF Init, Frames, Pushed, InHand, RelayAt
    <2> QED
      BY <2>1 DEF PaidInv
  <1>2. TypeInv /\ HeldInv /\ PaidInv => PublishesPaid
    <2>1. ASSUME TypeInv, HeldInv, PaidInv, NEW c \in Commands
          PROVE  published[c] <= 1 + retries[c] + 2 * faults
      <3>1. InHand(c, "release") <= Occurs(inflight, c)
        <4>1. relay.at = "release" /\ relay.frame = c => InList(inflight, c)
          BY <2>1 DEF HeldInv, InList, TypeInv, TypeOK
        <4> QED
          BY <2>1, <4>1, OccursType DEF InHand, TypeInv, TypeOK
      <3> QED
        BY <2>1, <3>1, PaidTypes DEF PaidInv, Frames, Pushed, InHand
    <2> QED
      BY <2>1 DEF PublishesPaid
  <1>3. FrameInv => HeldInv
    BY DEF FrameInv
  <1> QED
    BY TypeInit, TypeStep, FrameInit, FrameStep, PaidStep, <1>1, <1>2, <1>3, PTL DEF Spec
=============================================================================
