------------------------- MODULE DispenseContract -------------------------
(***************************************************************************)
(* What the dispensing engine promises, free of workers, locks and caches  *)
(* (docstring of services/dispensing/dispense_engine.py, lines 3-20): an   *)
(* upload grants an entitlement to a fresh code, a code is drawn upon at   *)
(* most once, and a partial draw passes exactly the litres left over to    *)
(* one fresh heir code.                                                    *)
(***************************************************************************)
EXTENDS Integers

CONSTANTS
  Codes,         \* the single-use codes that can ever be issued
  NoCode,        \* "no code": the heir of a code that was not drawn partially
  Quotas,        \* litres a row of a quota sheet may grant
  Litres,        \* litres a draw may report
  PartialMin     \* settings.PARTIAL_MIN_REMAINING_LITERS

VARIABLES
  state,         \* [Codes -> {"unissued", "open", "drawn"}]
  granted,       \* litres a code was issued for
  drawn,         \* litres its only settlement recorded
  heir           \* the code issued for the leftover, or NoCode

vars == <<state, granted, drawn, heir>>

Init ==
  /\ state = [c \in Codes |-> "unissued"]
  /\ granted = [c \in Codes |-> 0]
  /\ drawn = [c \in Codes |-> 0]
  /\ heir = [c \in Codes |-> NoCode]

(* A quota sheet is committed: every row receives a fresh code. *)
Grant(S, quota) ==
  /\ \A c \in S : state[c] = "unissued"
  /\ state' = [c \in Codes |-> IF c \in S THEN "open" ELSE state[c]]
  /\ granted' = [c \in Codes |-> IF c \in S THEN quota[c] ELSE granted[c]]
  /\ UNCHANGED <<drawn, heir>>

(* The last draw on an entitlement: nothing worth a new code is left. *)
DrawAll(c, litres) ==
  /\ state[c] = "open"
  /\ granted[c] - litres <= PartialMin
  /\ state' = [state EXCEPT ![c] = "drawn"]
  /\ drawn' = [drawn EXCEPT ![c] = litres]
  /\ UNCHANGED <<granted, heir>>

(* A partial draw: the leftover, to the litre, moves to the fresh code d. *)
DrawPart(c, litres, d) ==
  /\ state[c] = "open"
  /\ granted[c] - litres > PartialMin
  /\ state[d] = "unissued"
  /\ state' = [state EXCEPT ![c] = "drawn", ![d] = "open"]
  /\ drawn' = [drawn EXCEPT ![c] = litres]
  /\ granted' = [granted EXCEPT ![d] = granted[c] - litres]
  /\ heir' = [heir EXCEPT ![c] = d]

Next ==
  \/ \E S \in SUBSET Codes : \E quota \in [S -> Quotas] : Grant(S, quota)
  \/ \E c \in Codes, litres \in Litres : DrawAll(c, litres)
  \/ \E c, d \in Codes, litres \in Litres : DrawPart(c, litres, d)

Spec == Init /\ [][Next]_vars
=============================================================================
