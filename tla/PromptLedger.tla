---------------------------- MODULE PromptLedger ----------------------------
(***************************************************************************)
(* What the session promises about a prompt, with no channels, queue or    *)
(* tasks: it waits, runs at most once, and is over; or it is cleared       *)
(* before it ran.  Running a prompt ends whichever prompt was running.     *)
(***************************************************************************)
CONSTANT Prompts

VARIABLE status

Statuses == {"untyped", "waiting", "running", "over", "cleared"}

LedgerInit == status = [p \in Prompts |-> "untyped"]

Type(p) ==
    /\ status[p] = "untyped"
    /\ status' = [status EXCEPT ![p] = "waiting"]

Run(p) ==
    /\ status[p] = "waiting"
    /\ status' = [q \in Prompts |->
                    IF q = p THEN "running"
                    ELSE IF status[q] = "running" THEN "over" ELSE status[q]]

End(p) ==
    /\ status[p] = "running"
    /\ status' = [status EXCEPT ![p] = "over"]

Clear(S) ==
    /\ \A p \in S : status[p] = "waiting"
    /\ status' = [p \in Prompts |-> IF p \in S THEN "cleared" ELSE status[p]]

LedgerNext ==
    \/ \E p \in Prompts : Type(p) \/ Run(p) \/ End(p)
    \/ \E S \in SUBSET Prompts : Clear(S)

LedgerSpec == LedgerInit /\ [][LedgerNext]_status
=============================================================================
