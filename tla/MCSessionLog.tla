---------------------------- MODULE MCSessionLog ----------------------------
(* Instances of SessionLog for TLC: the turns of two lives of the process.  *)
EXTENDS SessionLog

CONSTANTS t1, t2, t3, t4, engine, host

ThreeTurns == {t1, t2, t3}
FourTurns == {t1, t2, t3, t4}
EngineOnly == {engine}
TwoConns == {engine, host}

\* t1, t2 and t4 complete before the process is started again, t3 after.
Lives == [t \in Turns |-> IF t = t3 THEN 2 ELSE 1]

\* Stored ids that differ: "turn_0" was aborted in the first life.
DistinctTids == [t \in Turns |-> t]

\* turn_counter starts at 0 in every life: the first turn of each is "turn_0".
RestartedTids == [t \in Turns |-> IF t = t2 THEN "turn_1" ELSE "turn_0"]

FirstAndLast == {t1, t3}
OnlyLast == {t3}
=============================================================================
