--------------------------- MODULE MCTurnSession ---------------------------
(* Instances of TurnSession for TLC: what the client and the environment do *)
(* in each run.                                                             *)
EXTENDS TurnSession

Everything == {"submit", "queue", "abort", "clear", "close", "panic"}
Undisturbed == {"queue", "clear"}
FollowUps == {"queue"}
PromptsAndAborts == {"submit", "queue", "abort"}
=============================================================================
