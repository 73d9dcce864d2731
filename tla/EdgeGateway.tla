----------------------------- MODULE EdgeGateway -----------------------------
(***************************************************************************)
(* The loop of the edge gateway (firmware/main.py): sample the sensor,     *)
(* publish the reading or keep it in flash, replay the flash on a new      *)
(* connection.  The loop is one thread; what interleaves with it are the   *)
(* network, the broker's commands and the power.                           *)
(*                                                                         *)
(* The flash file is a sequence of lines of JSON, read in chunks of        *)
(* ChunkSize characters that are split into lines each on its own.         *)
(* Left out: Wi-Fi, the clock, heartbeats other than the first, and the    *)
(* HTTP backfill, whose answer the loop ignores.                           *)
(***************************************************************************)
EXTENDS Integers, Sequences, FiniteSets

CONSTANTS
  MaxFrames,     \* bound: readings sampled
  BufferMax,     \* BUFFER_MAX_FRAMES
  LineSize,      \* characters of a line, its newline included
  ChunkSize,     \* _READ_CHUNK
  MaxFaults      \* bound: broken or unanswered calls, resets, commands

ASSUME EdgeAssumption ==
  /\ MaxFrames \in Nat /\ MaxFaults \in Nat
  /\ BufferMax \in Nat \ {0} /\ ChunkSize \in Nat \ {0}
  /\ LineSize \in Nat /\ LineSize > 2

VARIABLES
  at,            \* step of the loop
  sock,          \* EdgeMqttClient.sock: down, up, or up for the client only
  greeted,       \* mqtt_was_connected
  hand,          \* the reading of this iteration
  file,          \* the lines of the flash file
  replay,        \* snapshot still to be published
  sampled,       \* history: readings taken, numbered from 1
  delivered,     \* history: readings the broker has
  excused,       \* history: readings given up, see LossHasCause
  stranded,      \* history: a replay broke off and its connection lives on
  faults

edgeVars == <<at, sock, greeted, hand, file, replay, sampled, delivered, excused,
              stranded, faults>>
NoFrame == 0
Readings == 1 .. MaxFrames

-----------------------------------------------------------------------------
(* The flash file (frame_buffer.py) *)

\* isOpen: the power failed before the newline was written
Line(frames, size, whole, isOpen) ==
  [frames |-> frames, size |-> size, whole |-> whole, open |-> isOpen]
GoodLine(f) == Line({f}, LineSize, TRUE, FALSE)

InFile(lines) == UNION {lines[i].frames : i \in DOMAIN lines}

\* characters before line i
Offset(lines, i) ==
  LET upTo[k \in 0 .. i] == IF k = 0 THEN 0 ELSE upTo[k - 1] + lines[k].size
  IN upTo[i - 1]

\* a chunk ends inside the text of line i, so that neither half is JSON
Straddles(lines, i) ==
  LET start == Offset(lines, i)
      end == start + lines[i].size - (IF lines[i].open THEN 0 ELSE 1)
  IN \E cut \in start + 1 .. end - 1 : cut % ChunkSize = 0

Readable(lines, i) == lines[i].whole /\ ~Straddles(lines, i)

(* snapshot *)
Snapshot(lines) ==
  LET good == {i \in DOMAIN lines : Readable(lines, i)}
      nth(n) == CHOOSE i \in good : Cardinality({j \in good : j <= i}) = n
  IN [n \in 1 .. Cardinality(good) |-> CHOOSE f \in lines[nth(n)].frames : TRUE]

(* append: the text goes behind whatever the file ends with *)
WithFrame(lines, f, size, isOpen) ==
  IF lines # << >> /\ lines[Len(lines)].open
    THEN LET torn == lines[Len(lines)] IN
         [lines EXCEPT ![Len(lines)] =
            Line(torn.frames \cup {f}, torn.size + size, FALSE, isOpen)]
    ELSE Append(lines, Line({f}, size, size >= LineSize - 1, isOpen))

(* _trim: what can be read, without the oldest frames over the maximum *)
Kept(lines) ==
  LET frames == Snapshot(lines)
      over == Len(frames) - BufferMax
  IN IF over <= 0 THEN lines
     ELSE [i \in 1 .. BufferMax |-> GoodLine(frames[i + over])]

-----------------------------------------------------------------------------
EdgeTypeOK ==
  /\ at \in {"sample", "greet", "replay", "publish", "poll", "offline", "connect", "dead"}
  /\ sock \in {"down", "up", "broken"}
  /\ greeted \in BOOLEAN
  /\ hand \in {NoFrame} \cup Readings
  /\ file \in Seq([frames : SUBSET Readings, size : Nat, whole : BOOLEAN, open : BOOLEAN])
  /\ replay \in Seq(Readings)
  /\ sampled \in 0 .. MaxFrames /\ faults \in 0 .. MaxFaults
  /\ delivered \subseteq Readings /\ excused \subseteq Readings
  /\ stranded \in BOOLEAN

EdgeInit ==
  /\ at = "sample" /\ sock = "down" /\ greeted = FALSE
  /\ hand = NoFrame /\ file = << >> /\ replay = << >>
  /\ sampled = 0 /\ delivered = {} /\ excused = {} /\ stranded = FALSE /\ faults = 0

Fault == faults < MaxFaults /\ faults' = faults + 1
Give(f) == {f} \ {NoFrame}

-----------------------------------------------------------------------------
(* A QoS 1 publish (mqtt_client.py) of f, or of a status if f = NoFrame *)

Answered(f) ==
  /\ sock = "up"
  /\ delivered' = delivered \cup Give(f)
  /\ UNCHANGED <<sock, excused, faults>>

(* _wait_puback gives up without an error: publish returns True *)
Unanswered(f) ==
  /\ sock # "down"
  /\ Fault
  /\ \/ sock = "up" /\ delivered' = delivered \cup Give(f) /\ UNCHANGED excused
     \/ excused' = excused \cup Give(f) /\ UNCHANGED delivered
  /\ UNCHANGED sock

(* it raises, before or after the broker got the packet *)
Raises(f) ==
  /\ \/ sock = "broken" /\ UNCHANGED <<sock, delivered, faults>>
     \/ /\ sock = "up" /\ Fault
        /\ sock' \in {"broken", "up"}
        /\ delivered' \in {delivered, delivered \cup Give(f)}

Published(f) == Answered(f) \/ Unanswered(f)

-----------------------------------------------------------------------------
(* The loop *)

Sample ==
  /\ at = "sample"
  /\ \/ sampled < MaxFrames /\ sampled' = sampled + 1 /\ hand' = sampled'
     \/ hand' = NoFrame /\ UNCHANGED sampled       \* the sensor did not answer
  /\ at' = IF sock = "down" THEN "offline" ELSE IF greeted THEN "publish" ELSE "greet"
  /\ UNCHANGED <<sock, greeted, file, replay, delivered, excused, stranded, faults>>

Greet ==
  /\ at = "greet"
  /\ Published(NoFrame)
  /\ at' = "replay"
  /\ replay' = Snapshot(file)
  /\ stranded' = FALSE
  /\ UNCHANGED <<greeted, hand, file, sampled>>

(* the status of a new connection is published outside of any try *)
GreetRaises ==
  /\ at = "greet"
  /\ Raises(NoFrame)
  /\ at' = "dead"
  /\ UNCHANGED <<greeted, hand, file, replay, sampled, excused, stranded>>

ReplayOne ==
  /\ at = "replay" /\ replay # << >>
  /\ Published(Head(replay))
  /\ replay' = Tail(replay)
  /\ UNCHANGED <<at, greeted, hand, file, sampled, stranded>>

\* mutant: the buffer is cleared however the replay ended
AfterBreak_Cleared == << >>
AfterBreak == file

ReplayBreaks ==
  /\ at = "replay" /\ replay # << >>
  /\ Raises(Head(replay))
  /\ at' = "publish"
  /\ replay' = << >>
  /\ file' = AfterBreak
  /\ stranded' = (sock' = "up")
  /\ UNCHANGED <<greeted, hand, sampled, excused>>

(* clear: also the lines that could not be read *)
ClearBuffer ==
  /\ at = "replay" /\ replay = << >>
  /\ at' = "publish"
  /\ file' = << >>
  /\ excused' = excused \cup UNION {file[i].frames : i \in {j \in DOMAIN file : ~Readable(file, j)}}
  /\ UNCHANGED <<sock, greeted, hand, replay, sampled, delivered, stranded, faults>>

PublishReading ==
  /\ at = "publish"
  /\ \/ hand # NoFrame /\ Published(hand)
     \/ hand = NoFrame /\ UNCHANGED <<sock, delivered, excused, faults>>
  /\ at' = "poll"
  /\ hand' = NoFrame
  /\ UNCHANGED <<greeted, file, replay, sampled, stranded>>

(* the except branch: the reading is not put into the buffer *)
Disconnect ==
  /\ at' = "sample" /\ greeted' = TRUE
  /\ hand' = NoFrame
  /\ excused' = excused \cup Give(hand)
  /\ UNCHANGED <<file, replay, sampled, stranded>>

PublishRaises ==
  /\ at = "publish" /\ hand # NoFrame
  /\ \/ sock = "broken" /\ UNCHANGED <<delivered, faults>>
     \/ sock = "up" /\ Fault /\ delivered' \in {delivered, delivered \cup {hand}}
  /\ sock' = "down"
  /\ Disconnect

(* poll swallows a lost connection, a ping does not *)
PollQuiet ==
  /\ at = "poll"
  /\ at' = "sample" /\ greeted' = TRUE
  /\ UNCHANGED <<sock, hand, file, replay, sampled, delivered, excused, stranded, faults>>

PingRaises ==
  /\ at = "poll" /\ sock = "broken"
  /\ sock' = "down"
  /\ Disconnect
  /\ UNCHANGED <<delivered, faults>>

\* mutant: a lost connection does not ask for a new greeting
GreetedOffline_Kept == TRUE
GreetedOffline == FALSE

(* append; a full flash loses the reading *)
Offline ==
  /\ at = "offline"
  /\ at' = "connect" /\ greeted' = GreetedOffline
  /\ hand' = NoFrame
  /\ \/ hand = NoFrame /\ UNCHANGED <<file, excused, faults>>
     \/ /\ hand # NoFrame
        /\ LET longer == WithFrame(file, hand, LineSize, FALSE) IN
             /\ file' = Kept(longer)
             /\ excused' = excused \cup (InFile(longer) \ InFile(Kept(longer)))
        /\ UNCHANGED faults
     \/ hand # NoFrame /\ Fault /\ excused' = excused \cup {hand} /\ UNCHANGED file
  /\ UNCHANGED <<sock, replay, sampled, delivered, stranded>>

Connect ==
  /\ at = "connect"
  /\ \/ sock' = "up" /\ UNCHANGED faults
     \/ Fault /\ UNCHANGED sock
  /\ at' = "sample"
  /\ UNCHANGED <<greeted, hand, file, replay, sampled, delivered, excused, stranded>>

LoopStep ==
  \/ Sample \/ Greet \/ GreetRaises \/ ReplayOne \/ ReplayBreaks \/ ClearBuffer
  \/ PublishReading \/ PublishRaises \/ PollQuiet \/ PingRaises \/ Offline \/ Connect

-----------------------------------------------------------------------------
(* What happens to the gateway *)

ConnectionLost ==
  /\ sock = "up" /\ Fault
  /\ sock' = "broken"
  /\ UNCHANGED <<at, greeted, hand, file, replay, sampled, delivered, excused, stranded>>

(* A command arrives while the client reads.  _dispatch takes the packet   *)
(* to have a length byte that _read_packet has removed; the index error    *)
(* ends the loop.                                                          *)
CommandArrives ==
  /\ sock = "up" /\ at \in {"greet", "replay", "publish", "poll"}
  /\ Fault
  /\ at' = "dead"
  /\ UNCHANGED <<sock, greeted, hand, file, replay, sampled, delivered, excused, stranded>>

Boot ==
  /\ at' = "sample" /\ sock' = "down" /\ greeted' = FALSE
  /\ hand' = NoFrame /\ replay' = << >>
  /\ UNCHANGED <<sampled, delivered, stranded>>

(* nobody feeds the watchdog *)
WatchdogReset ==
  /\ at = "dead"
  /\ Boot
  /\ excused' = excused \cup Give(hand)
  /\ UNCHANGED <<file, faults>>

(* The power fails: during an append, which leaves a part of the line, or  *)
(* during the rewrite of _trim, which leaves a part of the file            *)
PowerCut ==
  /\ Fault
  /\ Boot
  /\ \/ UNCHANGED file
     \/ /\ at = "offline" /\ hand # NoFrame
        /\ LET longer == WithFrame(file, hand, LineSize, FALSE) IN
             \/ \E size \in {LineSize - 2, LineSize - 1} :
                  file' = WithFrame(file, hand, size, TRUE)
             \/ /\ Kept(longer) # longer
                /\ \E n \in 0 .. BufferMax - 1 : file' = SubSeq(Kept(longer), 1, n)
  /\ excused' = excused \cup ((Give(hand) \cup InFile(file)) \ InFile(file'))

EdgeNext ==
  \/ LoopStep \/ ConnectionLost \/ CommandArrives \/ WatchdogReset \/ PowerCut

(* The loop and the watchdog run on their own.  A ping is due in every     *)
(* iteration without other traffic, so a broken connection is noticed;     *)
(* MaxFaults says that the network works in the end.                       *)
EdgeFairness ==
  /\ WF_edgeVars(LoopStep)
  /\ WF_edgeVars(WatchdogReset)
  /\ SF_edgeVars(PingRaises)

EdgeSpec == EdgeInit /\ [][EdgeNext]_edgeVars /\ EdgeFairness

-----------------------------------------------------------------------------
(* Properties *)

\* A reading that was sampled is with the broker, in flash or in hand, or was given
\* up for a named cause: the live publish failed or went unanswered, the gateway was
\* reset, the flash was full or its line unreadable.  A replay that breaks off loses
\* nothing (main.py:164-170).
LossHasCause ==
  1 .. sampled \subseteq delivered \cup InFile(file) \cup Give(hand) \cup excused

\* Readings kept in flash reach the broker once the network is back, or are given
\* up for a cause: "replays buffered readings" (docs/mqtt-protocol.md:179).  The
\* exception is a replay that breaks off on a connection that lives on: nothing
\* tries it again before the next one (main.py:164-170).
BufferedIsDelivered ==
  \A f \in Readings : f \in InFile(file) ~> (f \in delivered \cup excused \/ stranded)
=============================================================================
