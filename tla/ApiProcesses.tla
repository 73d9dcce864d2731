---------------------------- MODULE ApiProcesses ----------------------------
(***************************************************************************)
(* The API: several worker processes behind one port (docker-compose.yml,  *)
(* uvicorn --workers 2) and one Redis.  A dictionary of a module           *)
(* (_revoked_jtis, _fallback_attempts) is one per worker.                  *)
(***************************************************************************)

CONSTANT ApiWorkers

ASSUME ApiProcessesAssumption == ApiWorkers # {} /\ "redis" \notin ApiWorkers

\* where a revocation or a failed login may be remembered
Stores == {"redis"} \cup ApiWorkers
=============================================================================
