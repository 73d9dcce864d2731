------------------------------ MODULE MCIntake ------------------------------
(***************************************************************************)
(* The two ends of the intake of readings, the loop of the edge gateway    *)
(* and the batches of the ingestion service, for TLC.  Between them is the *)
(* broker and no shared state, so one run explores one end or the other    *)
(* (part), never both at a time.                                           *)
(***************************************************************************)
EXTENDS IngestBatch, EdgeGateway

VARIABLE part

intakeVars == <<part, vars, edgeVars>>

IntakeTypeOK == TypeOK /\ EdgeTypeOK

IntakeInit == Init /\ EdgeInit /\ part \in {"edge", "ingest"}

IntakeNext ==
  /\ UNCHANGED part
  /\ \/ part = "edge" /\ EdgeNext /\ UNCHANGED vars
     \/ part = "ingest" /\ Next /\ UNCHANGED edgeVars

IntakeSpec ==
  /\ IntakeInit /\ [][IntakeNext]_intakeVars
  /\ WF_vars(part = "ingest" /\ FlusherStep)
  /\ WF_edgeVars(part = "edge" /\ (LoopStep \/ WatchdogReset))
  /\ SF_edgeVars(part = "edge" /\ PingRaises)
=============================================================================
