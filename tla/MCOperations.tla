---------------------------- MODULE MCOperations ----------------------------
(***************************************************************************)
(* Two models of rows that several writers share with Redis, for TLC: the  *)
(* alarms of a tank and the commands to a gateway.  They have no state in  *)
(* common, and a behaviour is one of them (part).                          *)
(***************************************************************************)
EXTENDS Alarms

CONSTANTS
  Commands, NoCommand, Ackers, MaxAttempts, MaxFaults,   \* of GatewayCommands
  Executing    \* commands that may be answered so

VARIABLES
  part,
  row, stale, issue, outbound, inflight, relay, sweep, acker, wire, acks,
  published, retries, heard, faults                      \* of GatewayCommands

Plane == INSTANCE GatewayCommands WITH
  Answers <- [c \in Commands |-> IF c \in Executing THEN {"executed"} ELSE {}]

planeVars == <<row, stale, issue, outbound, inflight, relay, sweep, acker, wire, acks,
               published, retries, heard, faults>>
operationsVars == <<part, vars, planeVars>>

OperationsInit ==
  /\ Init /\ Plane!Init /\ part \in {"alarms", "commands"}
  /\ part = "commands" => last = Threshold + 1   \* one initial state

OperationsNext ==
  /\ UNCHANGED part
  /\ \/ part = "alarms" /\ Next /\ UNCHANGED planeVars
     \/ part = "commands" /\ Plane!Next /\ UNCHANGED vars

OperationsSpec == OperationsInit /\ [][OperationsNext]_operationsVars

-----------------------------------------------------------------------------
\* The types of the command plane (GatewayCommands, models/gateway.py).
CommandTypeOK == Plane!TypeOK

\* A frame once pushed is published or stays in a list (GatewayCommands, relay.py:1-5).
FrameKept == Plane!FrameKept
=============================================================================
