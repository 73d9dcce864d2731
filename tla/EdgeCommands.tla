---------------------------- MODULE EdgeCommands ----------------------------
(***************************************************************************)
(* Inbound commands on the edge gateway: the registry of handled commands  *)
(* (firmware/commands.py), the callback that acknowledges them and the     *)
(* slot for the effect that the loop applies (firmware/main.py).           *)
(*                                                                         *)
(* Publishing an ack reads the connection until its PUBACK, and a command  *)
(* found there is handled inside: calls of the callback nest.  One command *)
(* of each type is enough, since commands are told apart by their id.      *)
(* The module starts where the client has parsed the packet, which the     *)
(* client at this commit does not survive (EdgeGateway!CommandArrives).    *)
(***************************************************************************)
EXTENDS Integers, Sequences, SequencesExt

CONSTANTS
  MaxRecent,      \* max_recent of the registry
  MaxDeliveries,  \* bound: commands that arrive
  MaxNesting,     \* bound: callbacks inside one another
  MaxUpsets       \* bound: failing publishes, resets, expiries

ASSUME EdgeCommandsAssumption ==
  /\ MaxRecent \in Nat \ {0} /\ MaxNesting \in Nat \ {0}
  /\ MaxDeliveries \in Nat /\ MaxUpsets \in Nat

WithEffect == {"set_interval", "status_probe", "reboot"}
BadArgument == {"set_interval_no_seconds"}
Unsupported == {"flash_led", "calibrate"}
Commands == WithEffect \cup BadArgument \cup Unsupported
NoCommand == "none"

VARIABLES
  recent,     \* CommandRegistry._recent, oldest first
  open,       \* callbacks in progress, innermost last: their acks
  slot,       \* pending_effect
  acked,      \* history: acks published
  applied,    \* history: effects applied, for every command
  lapses,  \* history: times the registry has lost a command
  dropped,    \* history: commands whose effect was dropped
  deliveries, upsets

edgeCmdVars == <<recent, open, slot, acked, applied, lapses, dropped, deliveries, upsets>>

Ack(c, status, effect) == [command |-> c, status |-> status, effect |-> effect]
Acks == [command : Commands, status : {"executed", "rejected"}, effect : BOOLEAN]
Effects(acks) == {ack.command : ack \in {a \in acks : a.effect}}

EdgeCommandsTypeOK ==
  /\ recent \in Seq(Commands) /\ IsInjective(recent)
  /\ open \in Seq(Acks) /\ slot \in WithEffect \cup {NoCommand}
  /\ acked \subseteq (Commands \X {"executed", "rejected"})
  /\ applied \in [Commands -> Nat] /\ lapses \in [Commands -> Nat]
  /\ dropped \subseteq WithEffect
  /\ deliveries \in 0 .. MaxDeliveries /\ upsets \in 0 .. MaxUpsets

EdgeCommandsInit ==
  /\ recent = << >> /\ open = << >> /\ slot = NoCommand
  /\ acked = {} /\ dropped = {}
  /\ applied = [c \in Commands |-> 0] /\ lapses = [c \in Commands |-> 0]
  /\ deliveries = 0 /\ upsets = 0

Upset == upsets < MaxUpsets /\ upsets' = upsets + 1

Forget(lost) ==
  lapses' = [c \in Commands |-> lapses[c] + (IF c \in lost THEN 1 ELSE 0)]

-----------------------------------------------------------------------------
Known(c) == c \in Range(recent)

\* mutant: a known command is remembered once more
Added_Twice(c) == Append(recent, c)
Added(c) == IF Known(c) THEN recent ELSE Append(recent, c)

\* the others, in their order
Without(s, c) ==
  IF c \in Range(s) THEN RemoveAt(s, CHOOSE i \in DOMAIN s : s[i] = c) ELSE s

(* _remember, for the rejected type only: makes room, then renews the time *)
Remembered(c) ==
  LET before == Added(c)
      room == IF Len(before) >= MaxRecent THEN Tail(before) ELSE before
  IN Append(Without(room, c), c)

\* mutant: a command that is known runs again
Answer_Again(c) ==
  IF c \in WithEffect THEN Ack(c, "executed", TRUE) ELSE Ack(c, "rejected", FALSE)
Answer(c) ==
  IF c \in Unsupported THEN Ack(c, "rejected", FALSE)
  ELSE IF Known(c) THEN Ack(c, "executed", FALSE)   \* "duplicate", rejected or not
  ELSE IF c \in BadArgument THEN Ack(c, "rejected", FALSE)
  ELSE Ack(c, "executed", TRUE)

(* handle, up to the publish of the ack *)
Deliver(c) ==
  /\ deliveries < MaxDeliveries /\ Len(open) < MaxNesting
  /\ deliveries' = deliveries + 1
  /\ recent' = IF c \in Unsupported THEN Remembered(c) ELSE Added(c)
  /\ Forget(Range(Added(c)) \ Range(recent'))
  /\ open' = Append(open, Answer(c))
  /\ UNCHANGED <<slot, acked, applied, dropped, upsets>>

SlotAfter(ack) == IF ack.effect THEN ack.command ELSE slot

(* the callback goes on after its ack: an effect already waiting is lost *)
AckPublished ==
  /\ open # << >>
  /\ LET ack == Last(open) IN
       /\ acked' = acked \cup {<<ack.command, ack.status>>}
       /\ slot' = SlotAfter(ack)
       /\ dropped' = dropped \cup (IF ack.effect THEN {slot} \ {NoCommand, ack.command} ELSE {})
  /\ open' = Front(open)
  /\ UNCHANGED <<recent, applied, lapses, deliveries, upsets>>

AckFails ==
  /\ open # << >> /\ Upset
  /\ dropped' = dropped \cup Effects({Last(open)})
  /\ open' = Front(open)
  /\ UNCHANGED <<recent, slot, acked, applied, lapses, deliveries>>

(* RAM is gone *)
Reset ==
  /\ recent' = << >> /\ open' = << >> /\ slot' = NoCommand
  /\ Forget(Range(recent))

(* the loop takes the slot once the callbacks have returned *)
ApplyEffect ==
  /\ open = << >> /\ slot # NoCommand
  /\ applied' = [applied EXCEPT ![slot] = @ + 1]
  /\ \/ slot = "reboot" /\ Reset
     \/ slot # "reboot" /\ slot' = NoCommand /\ UNCHANGED <<recent, open, lapses>>
  /\ UNCHANGED <<acked, dropped, deliveries, upsets>>

(* the status cannot be published *)
ProbeFails ==
  /\ open = << >> /\ slot = "status_probe" /\ Upset
  /\ slot' = NoCommand
  /\ dropped' = dropped \cup {slot}
  /\ UNCHANGED <<recent, open, acked, applied, lapses, deliveries>>

PowerFails ==
  /\ Upset
  /\ Reset
  /\ dropped' = dropped \cup ({slot} \ {NoCommand}) \cup Effects(Range(open))
  /\ UNCHANGED <<acked, applied, deliveries>>

(* 24 hours later, or the clock was set *)
Prune ==
  /\ Upset /\ recent # << >>
  /\ Forget({Head(recent)})
  /\ recent' = Tail(recent)
  /\ UNCHANGED <<open, slot, acked, applied, dropped, deliveries>>

EdgeCommandsNext ==
  \/ \E c \in Commands : Deliver(c)
  \/ AckPublished \/ AckFails \/ ApplyEffect \/ ProbeFails \/ PowerFails \/ Prune

EdgeCommandsSpec == EdgeCommandsInit /\ [][EdgeCommandsNext]_edgeCmdVars

-----------------------------------------------------------------------------
\* "every command_id is remembered and its effect applied exactly once"
\* (commands.py:3-4): at most once for every time the registry has lost it, by a
\* reset, by age, or pushed out by commands of an unsupported type.
AppliedOnce == \A c \in Commands : applied[c] <= 1 + lapses[c]

\* A command acknowledged as executed has had its effect, waits for it, or lost it to
\* a later one in the slot, a failed publish or a reset; duplicates of it too.
ExecutedIsApplied ==
  \A c \in WithEffect : <<c, "executed">> \in acked =>
    applied[c] > 0 \/ slot = c \/ c \in Effects(Range(open)) \cup dropped

\* Both promises of the registry.
EffectsAccounted == AppliedOnce /\ ExecutedIsApplied
=============================================================================
