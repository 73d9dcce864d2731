---------------------------- MODULE MCDispensing ----------------------------
(* Small instances of Dispensing for TLC. *)
EXTENDS Dispensing, TLC

\* handlers and codes are interchangeable; amounts are not
Symm == Permutations(Workers) \cup Permutations(Codes)
=============================================================================
