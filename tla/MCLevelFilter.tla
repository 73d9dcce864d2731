---------------------------- MODULE MCLevelFilter ----------------------------
(* Calibration tables for TLC. *)
EXTENDS LevelFilter

\* calibration tables: usable, with a repeated height
MCTables ==
  {<<[height |-> 0, volume |-> 0], [height |-> 8, volume |-> 20], [height |-> 15, volume |-> 90]>>,
   <<[height |-> 2, volume |-> 5], [height |-> 2, volume |-> 40]>>}

=============================================================================
