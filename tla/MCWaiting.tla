------------------------------ MODULE MCWaiting ------------------------------
(***************************************************************************)
(* What waits for an answer, for TLC: the completions of Dispensing and    *)
(* the commands of GatewayCommands.  They share no state, and a behaviour  *)
(* is one of them (part), under the fairness of that one: the other does   *)
(* not run, and what is enabled of it must not be owed a step.             *)
(***************************************************************************)
EXTENDS MCGatewayCommands

CONSTANTS
  Workers, Codes, NoCode, NoWorker, Quotas, Litres, Grace, PartialMin,
  CodeAttempts, MaxCrashes, MaxSlow   \* of Dispensing

VARIABLES
  part,
  code, alloc, txns, rowLock, lock, consumedSet, cache, pc, req, snap, ans, told,
  crashes, slows                      \* of Dispensing

Engine == INSTANCE Dispensing WITH MaxAttempts <- CodeAttempts

engineVars == <<code, alloc, txns, rowLock, lock, consumedSet, cache, pc, req, snap, ans, told,
                crashes, slows>>
waitingVars == <<part, vars, engineVars>>

WaitingInit == Init /\ Engine!Init /\ part \in {"commands", "completions"}

WaitingNext ==
  /\ UNCHANGED part
  /\ \/ part = "commands" /\ Next /\ UNCHANGED engineVars
     \/ part = "completions" /\ Engine!Next /\ UNCHANGED vars

WaitingSpec ==
  /\ WaitingInit
  /\ [][WaitingNext]_waitingVars
  /\ part = "commands" => Fairness
  /\ part = "completions" => Engine!Fairness

-----------------------------------------------------------------------------
\* Every completion and every validation ends, and so does every lock (Dispensing,
\* dispense_engine.py:425).
WaitsEnd == Engine!WaitsEnd
=============================================================================
