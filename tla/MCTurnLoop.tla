----------------------------- MODULE MCTurnLoop -----------------------------
(* Instances of TurnLoop for TLC: the tools a model may call.               *)
EXTENDS TurnLoop

CONSTANTS read, write

\* The turn may read, write and read again; a subagent may repeat a read.
ReadWrite == {read, write}
Readers == [a \in 0 .. MaxAgents |-> IF a = 0 THEN ReadWrite ELSE {read}]

\* Responses of the turn and of its first subagent hold three calls; the other
\* subagents only speak.
Responses == [a \in 0 .. MaxAgents |-> IF a <= 1 THEN 3 ELSE 0]
=============================================================================
