------------------------------ MODULE LspQuery ------------------------------
(***************************************************************************)
(* The diagnostics hook (turya-lsp): each written file starts a language   *)
(* server, queries it under two deadlines and turns what it says into      *)
(* feedback.  The queries of a session follow one another; servers that    *)
(* were not killed stay.                                                   *)
(***************************************************************************)
EXTENDS Naturals, FiniteSets

CONSTANTS
    MaxQueries  \* bound: files written

\* What a server may send: log lines, answers, and batches of diagnostics.
Messages == {"other", "foreign", "empty", "errors", "warnings"}

VARIABLES
    step,    \* where run_lsp_session is; "idle" between queries
    n,       \* queries so far
    alive,   \* the query's server runs
    opened,  \* the server was sent the file
    out,     \* the query's result
    left,    \* servers of earlier queries that still run
    slow     \* history: queries the outer deadline ended

vars == <<step, n, alive, opened, out, left, slow>>

Init ==
    /\ step = "idle" /\ n = 0 /\ alive = FALSE /\ opened = FALSE
    /\ out = "none" /\ left = 0 /\ slow = 0

Started(runs, s, result) ==
    /\ step = "idle" /\ n < MaxQueries
    /\ n' = n + 1 /\ step' = s /\ alive' = runs /\ out' = result /\ opened' = FALSE
    /\ UNCHANGED <<left, slow>>

\* No command is configured, or it cannot be run: the local check answers.
NoServer == Started(FALSE, "ended", "fallback")

\* The handshake's first message is written.
StartServer == Started(TRUE, "draining", "none")

SpawnFails == Started(FALSE, "ended", "failed")

\* Whatever comes first is taken for the answer to initialize; a server that
\* is gone is not noticed before the writes that follow.
Drained ==
    /\ step = "draining"
    /\ step' = "collecting" /\ opened' = alive
    /\ UNCHANGED <<n, alive, out, left, slow>>

\* Mutant: only a session that got its diagnostics kills its server.
LeftAfter(result) == left + (IF alive /\ result = "nothing" THEN 1 ELSE 0)

\* child.kill() follows the session, whatever it returned.
StillRunning(result) == left

EndSession(result) ==
    /\ step' = "ended" /\ out' = result
    /\ left' = StillRunning(result) /\ alive' = FALSE
    /\ UNCHANGED <<n, opened, slow>>

WriteFails == step = "draining" /\ ~alive /\ EndSession("failed")

\* Only a non-empty batch for the file ends the collection.
Diagnostics(m) ==
    /\ step = "collecting" /\ opened /\ alive
    /\ m \in {"errors", "warnings"}
    /\ EndSession(m)

Ignored(m) ==
    /\ step = "collecting" /\ alive /\ m \in {"other", "foreign", "empty"}
    /\ UNCHANGED vars

\* The window of five seconds passes, or the server ends or breaks the framing.
WindowEnds == step = "collecting" /\ EndSession("nothing")

\* The outer deadline leaves query_server before its kill.
Timeout ==
    /\ step \in {"draining", "collecting"}
    /\ step' = "ended" /\ out' = "fallback" /\ slow' = slow + 1
    /\ left' = IF alive THEN left + 1 ELSE left
    /\ alive' = FALSE
    /\ UNCHANGED <<n, opened>>

ServerDies ==
    /\ alive
    /\ alive' = FALSE
    /\ UNCHANGED <<step, n, opened, out, left, slow>>

OldServerDies ==
    /\ left > 0
    /\ left' = left - 1
    /\ UNCHANGED <<step, n, alive, opened, out, slow>>

\* The hook gives its items to the turn; a failure gives none.
Deliver ==
    /\ step = "ended"
    /\ step' = "idle" /\ out' = "none" /\ opened' = FALSE
    /\ UNCHANGED <<n, alive, left, slow>>

Settled == step = "idle" /\ n = MaxQueries /\ left = 0 /\ UNCHANGED vars

Next ==
    \/ NoServer \/ StartServer \/ SpawnFails \/ Drained \/ WriteFails
    \/ (\E m \in Messages : Diagnostics(m) \/ Ignored(m))
    \/ WindowEnds \/ Timeout \/ ServerDies \/ OldServerDies \/ Deliver \/ Settled

Spec == Init /\ [][Next]_vars

-----------------------------------------------------------------------------

\* A server outlives its query only if the outer deadline ended the query:
\* errors, early ends and empty windows all reach the kill.
OnlyTimeoutsLeaveServers ==
    /\ left <= slow
    /\ step \in {"idle", "ended"} => ~alive
=============================================================================
