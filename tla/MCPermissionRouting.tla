------------------------ MODULE MCPermissionRouting ------------------------
(* Instances of PermissionRouting for TLC: which calls are made, in which   *)
(* turn, under which request ids, and what is known of their tools.         *)
EXTENDS PermissionRouting, TLC

CONSTANTS c1, c2, c3

TwoCalls == {c1, c2}
CallPerTurn == {c1, c3}

\* Two subagents of one turn ask, and a call of the next turn does.
SplitTurns == [c \in Calls |-> IF c = c3 THEN 2 ELSE 1]
SameTurn == [c \in Calls |-> 1]

\* Providers that forward the model's own ids never repeat one.
UniqueReq == [c \in Calls |-> c]

\* Providers that number calls per response give concurrent subagents the
\* same id (gemini's gcall_<n>, ollama's ocall_<n>).
RepeatedReq == [c \in Calls |-> "req_ocall_1"]

\* c2 calls the tool that c1 calls; c3 calls another.
SharedTool == [c \in Calls |-> IF c = c3 THEN "write_file" ELSE "run_bash"]

AllLow == Calls
NoneLow == {}

AllModes == {"Open", "ReviewForMe", "Manual"}
ManualOnly == {"Manual"}
AllDecisions == {"AllowOnce", "AllowSession", "Deny"}
YesNo == {"AllowOnce", "Deny"}
=============================================================================
