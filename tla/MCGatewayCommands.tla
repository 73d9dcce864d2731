-------------------------- MODULE MCGatewayCommands --------------------------
(* Small instances of GatewayCommands for TLC. *)
EXTENDS GatewayCommands

CONSTANTS Executing, Refusing   \* commands that may be answered so

MCAnswers ==
  [c \in Commands |-> (IF c \in Executing THEN {"executed"} ELSE {})
                      \cup (IF c \in Refusing THEN {"rejected"} ELSE {})]
=============================================================================
