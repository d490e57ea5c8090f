--------------------------- MODULE AppendOnlyLog ---------------------------
(***************************************************************************)
(* What the session store promises of a session's log: turns are added at  *)
(* the end, one by one, and what was added stays where it is.              *)
(***************************************************************************)
EXTENDS Naturals

CONSTANT Turns

VARIABLES size, log  \* log[s] is the turn at place s

Init == size = 0 /\ log = [s \in {} |-> s]

\* A turn is added at most once.
Add(t) ==
    /\ \A s \in 1 .. size : log[s] # t
    /\ size' = size + 1
    /\ log' = [s \in 1 .. size + 1 |-> IF s = size + 1 THEN t ELSE log[s]]

Next == \E t \in Turns : Add(t)

LogSpec == Init /\ [][Next]_<<size, log>>

=============================================================================
