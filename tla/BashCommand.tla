---------------------------- MODULE BashCommand ----------------------------
(***************************************************************************)
(* One call of run_bash (turya-tools): the shell, the processes it leaves  *)
(* in the background, the two pipes they write to, the tasks that drain    *)
(* them, the deadline, and the cut of a long output.  A chunk of output is *)
(* counted, not named.                                                     *)
(***************************************************************************)
EXTENDS Naturals, FiniteSets

CONSTANTS
    Stdout, Stderr,
    Capacity,   \* chunks a pipe holds
    Longest,    \* MAX_BASH_OUTPUT_CHARS, in chunks
    MaxChunks,  \* bound: chunks printed to one pipe
    MaxKids     \* bound: background processes

ASSUME BashAssumption ==
    /\ Stdout # Stderr
    /\ Capacity \in Nat \ {0} /\ Longest \in Nat
    /\ MaxChunks \in Nat /\ MaxKids \in Nat

Pipes == {Stdout, Stderr}

VARIABLES
    phase,    \* where execute is: "dropped" when the turn was killed
    out,      \* how the command ended
    shell,    \* is bash alive?
    kids,     \* background processes that inherited the pipes
    printed,  \* chunks ever written to each pipe
    pipe,     \* chunks in each pipe
    got,      \* chunks each reader task has
    open,     \* the pipes whose reader has not seen the end
    handed    \* the output of the result: its chunks of each pipe, and whether
              \* it says that it was truncated

vars == <<phase, out, shell, kids, printed, pipe, got, open, handed>>

Init ==
    /\ phase = "called" /\ out = "none" /\ shell = FALSE /\ kids = 0
    /\ printed = [p \in Pipes |-> 0] /\ pipe = [p \in Pipes |-> 0]
    /\ got = [p \in Pipes |-> 0] /\ open = Pipes
    /\ handed = [kept |-> [p \in Pipes |-> 0], cut |-> FALSE]

\* bash starts with its pipes, and a task drains each.
Spawn ==
    /\ phase = "called"
    /\ phase' = "waiting" /\ shell' = TRUE
    /\ UNCHANGED <<out, kids, printed, pipe, got, open, handed>>

SpawnFails ==
    /\ phase = "called"
    /\ phase' = "returned" /\ out' = "unstarted" /\ open' = {}
    /\ UNCHANGED <<shell, kids, printed, pipe, got, handed>>

-----------------------------------------------------------------------------
(* The processes.  A full pipe blocks its writers. *)

Prints(p) ==
    /\ shell \/ kids > 0
    /\ pipe[p] < Capacity /\ printed[p] < MaxChunks
    /\ printed' = [printed EXCEPT ![p] = @ + 1]
    /\ pipe' = [pipe EXCEPT ![p] = @ + 1]
    /\ UNCHANGED <<phase, out, shell, kids, got, open, handed>>

Fork ==
    /\ shell /\ kids < MaxKids
    /\ kids' = kids + 1
    /\ UNCHANGED <<phase, out, shell, printed, pipe, got, open, handed>>

KidEnds ==
    /\ kids > 0
    /\ kids' = kids - 1
    /\ UNCHANGED <<phase, out, shell, printed, pipe, got, open, handed>>

ShellEnds ==
    /\ shell
    /\ shell' = FALSE
    /\ UNCHANGED <<phase, out, kids, printed, pipe, got, open, handed>>

-----------------------------------------------------------------------------
(* The reader tasks and execute. *)

\* Each pipe has a task of its own, from the start.
Drains(p) == p \in open

Drain(p) ==
    /\ Drains(p) /\ pipe[p] > 0
    /\ pipe' = [pipe EXCEPT ![p] = @ - 1]
    /\ got' = [got EXCEPT ![p] = @ + 1]
    /\ UNCHANGED <<phase, out, shell, kids, printed, open, handed>>

\* Mutant: the shell's end is taken for the pipe's.
ClosedByShell(p) == ~shell

\* Nobody can write any more.
Closed(p) == ~shell /\ kids = 0

ReaderEnds(p) ==
    /\ phase # "called" /\ p \in open /\ pipe[p] = 0 /\ Closed(p)
    /\ open' = open \ {p}
    /\ UNCHANGED <<phase, out, shell, kids, printed, pipe, got, handed>>

\* child.wait() returns within the deadline.
Waited ==
    /\ phase = "waiting" /\ ~shell
    /\ phase' = "collecting" /\ out' = "exited"
    /\ UNCHANGED <<shell, kids, printed, pipe, got, open, handed>>

\* Mutant: the wait is not bounded.
NoDeadline == FALSE

\* bash_timeout: always positive, so a deadline always comes.
Deadline == phase = "waiting"

\* bash is killed and reaped; what it started is not.
Kill ==
    /\ Deadline /\ shell
    /\ phase' = "collecting" /\ out' = "killed" /\ shell' = FALSE
    /\ UNCHANGED <<kids, printed, pipe, got, open, handed>>

\* Waiting for bash fails: it is killed if that can be, and the result is
\* empty, whatever the readers have or still get.
WaitFails ==
    /\ phase = "waiting"
    /\ phase' = "returned" /\ out' = "unwaited"
    /\ shell' = FALSE \/ UNCHANGED shell
    /\ UNCHANGED <<kids, printed, pipe, got, open, handed>>

\* The text is standard output, then standard error; of a longer one the
\* beginning is kept, and a note says so.  (The label between the two and the
\* note are not counted.)
Clip(text) ==
    LET first == IF text[Stdout] < Longest THEN text[Stdout] ELSE Longest
        rest  == Longest - first
    IN [kept |-> [p \in Pipes |-> IF p = Stdout THEN first
                                  ELSE IF text[p] < rest THEN text[p] ELSE rest],
        cut  |-> text[Stdout] + text[Stderr] > Longest]

\* collect_pipes has joined both readers.
Return ==
    /\ phase = "collecting" /\ open = {}
    /\ phase' = "returned" /\ handed' = Clip(got)
    /\ UNCHANGED <<out, shell, kids, printed, pipe, got, open>>

\* The turn is killed at an await: no more deadline, and nobody kills bash.
TurnKilled ==
    /\ phase \in {"waiting", "collecting"}
    /\ phase' = "dropped"
    /\ UNCHANGED <<out, shell, kids, printed, pipe, got, open, handed>>

Settled ==
    /\ phase \in {"returned", "dropped"} /\ ~shell /\ kids = 0 /\ open = {}
    /\ UNCHANGED vars

Next ==
    \/ \E p \in Pipes : Prints(p) \/ Drain(p) \/ ReaderEnds(p)
    \/ Spawn \/ SpawnFails \/ Fork \/ KidEnds \/ ShellEnds
    \/ Waited \/ WaitFails \/ Kill \/ Return \/ TurnKilled \/ Settled

\* Tokio runs the tasks and its timer; of the processes nothing is assumed.
Fairness ==
    /\ WF_vars(Waited) /\ WF_vars(Kill) /\ WF_vars(Return)
    /\ \A p \in Pipes : WF_vars(Drain(p)) /\ WF_vars(ReaderEnds(p))

Spec == Init /\ [][Next]_vars /\ Fairness

-----------------------------------------------------------------------------

\* The output of a command that exited or was killed at its deadline holds
\* everything that was ever printed to either pipe, also by background
\* processes, unless it says that it was truncated: then more was printed than
\* a result may hold, it is as long as it may be, and nothing of standard error
\* stands in it before all of standard output.
OutputIsWhole ==
    phase = "returned" /\ out \in {"exited", "killed"} =>
        IF handed.cut
        THEN /\ printed[Stdout] + printed[Stderr] > Longest
             /\ handed.kept[Stdout] + handed.kept[Stderr] = Longest
             /\ \A p \in Pipes : handed.kept[p] <= printed[p]
             /\ handed.kept[Stderr] > 0 => handed.kept[Stdout] = printed[Stdout]
        ELSE handed.kept = printed

\* The call returns, by itself or because its turn was killed, unless a
\* background process keeps the pipes open for ever.
CommandReturns ==
    phase = "waiting" ~> (phase \in {"returned", "dropped"} \/ [](kids > 0))

\* The bound the tool promises for every command: "Without a deadline the
\* call never returns".
CommandIsBounded == phase = "waiting" ~> phase \in {"returned", "dropped"}
=============================================================================
