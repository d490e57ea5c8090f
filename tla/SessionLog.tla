----------------------------- MODULE SessionLog -----------------------------
(***************************************************************************)
(* The turn log of one session in MemoryStore (turya-memory): appending a  *)
(* turn in a transaction, and loading the log with its repair of           *)
(* interrupted turns.  A process holds several connections to the          *)
(* database (the engine's store, and the one the host opens for each       *)
(* `/sessions` command), and several processes may resume one session.     *)
(* Each store serialises its own calls with a mutex; between stores only   *)
(* SQLite's locking is left.                                               *)
(*                                                                         *)
(* SQLite in WAL mode is external: a deferred transaction reads the state  *)
(* at its first SELECT, and its first write fails when another connection  *)
(* has committed since (SQLITE_BUSY_SNAPSHOT); a statement outside a       *)
(* transaction commits by itself; a crash loses what was not committed.    *)
(***************************************************************************)
EXTENDS Naturals, FiniteSets

CONSTANTS
    Turns,     \* the turns that complete
    Conns,     \* the connections to the database
    Writers,   \* the engines' connections: those that append
    Tid,       \* the id under which a turn is stored
    Life,      \* the life of the process in which it completes
    Torn,      \* the turns stored with a tool call that has no result (a summary
               \* pass can leave one, see TurnLoop)
    MaxLives,  \* bound: starts of the process
    MaxLoads,  \* bound: loads of the log
    None       \* no turn

ASSUME LogAssumption ==
    /\ None \notin Turns /\ Writers \subseteq Conns
    /\ MaxLives \in Nat \ {0} /\ MaxLoads \in Nat
    /\ DOMAIN Tid = Turns /\ Life \in [Turns -> 1 .. MaxLives] /\ Torn \subseteq Turns

VARIABLES
    seq,       \* sessions.seq
    rows,      \* the session's rows in `turns`, by their seq
    repaired,  \* sessions.repaired
    life,      \* number of times the process was started
    pc,        \* what each connection is doing
    cur,       \* the turn it appends
    seen,      \* the seq its transaction read
    fresh,     \* no other connection committed since it read
    view,      \* the turns it loaded, by place
    at,        \* how many of them it has written back
    tried,     \* history: turns whose append began
    stored,    \* history: turns whose append returned Ok
    mended,    \* history: the places that a finished load repaired or found sound
    loads      \* history: loads begun

store == <<seq, rows, repaired>>
conns == <<pc, cur, seen, fresh, view, at>>
history == <<tried, stored, mended, loads>>
vars == <<store, life, conns, history>>

-----------------------------------------------------------------------------

Row == [work : Turns, torn : BOOLEAN]

Empty == [s \in {} |-> s]

Init ==
    /\ seq = 0 /\ rows = Empty /\ repaired = FALSE
    /\ life = 1
    /\ pc = [c \in Conns |-> "idle"] /\ cur = [c \in Conns |-> None]
    /\ seen = [c \in Conns |-> 0] /\ fresh = [c \in Conns |-> TRUE]
    /\ view = [c \in Conns |-> Empty] /\ at = [c \in Conns |-> 0]
    /\ tried = {} /\ stored = {} /\ mended = {} /\ loads = 0

\* A commit by c outdates what every other transaction has read.
Commit(c) == fresh' = [d \in Conns |-> IF d = c THEN fresh[d] ELSE FALSE]

-----------------------------------------------------------------------------
(* append_turn *)

\* BEGIN; SELECT seq.
AppendReads(c, t) ==
    /\ c \in Writers /\ pc[c] = "idle"
    /\ t \notin tried /\ Life[t] = life
    /\ pc' = [pc EXCEPT ![c] = "appending"] /\ cur' = [cur EXCEPT ![c] = t]
    /\ seen' = [seen EXCEPT ![c] = seq] /\ fresh' = [fresh EXCEPT ![c] = TRUE]
    /\ tried' = tried \cup {t}
    /\ UNCHANGED <<store, life, view, at, stored, mended, loads>>

\* The number of the new row.
NextSeq(c) == seen[c] + 1

\* Mutant: the transaction never conflicts.
NeverOutdated(c) == TRUE

\* The first write of a transaction succeeds.
WriteGranted(c) == fresh[c]

\* INSERT, UPDATE sessions, COMMIT (never one without the others): no other
\* connection writes in between.
AppendCommits(c) ==
    LET n == NextSeq(c)
    IN  /\ pc[c] = "appending" /\ WriteGranted(c)
        /\ rows' = [s \in DOMAIN rows \cup {n} |->
                       IF s = n THEN [work |-> cur[c], torn |-> cur[c] \in Torn] ELSE rows[s]]
        /\ seq' = n
        /\ stored' = stored \cup {cur[c]}
        /\ pc' = [pc EXCEPT ![c] = "idle"]
        /\ Commit(c)
        /\ UNCHANGED <<repaired, life, cur, seen, view, at, tried, mended, loads>>

\* The INSERT fails; the engine ignores the error.
AppendFails(c) ==
    /\ pc[c] = "appending" /\ ~WriteGranted(c)
    /\ pc' = [pc EXCEPT ![c] = "idle"]
    /\ UNCHANGED <<store, life, cur, seen, fresh, view, at, history>>

-----------------------------------------------------------------------------
(* load_transcript *)

\* SELECT body ... ORDER BY seq.  Nothing is written when no turn is torn.
LoadReads(c) ==
    LET torn == \E s \in DOMAIN rows : rows[s].torn
    IN  /\ pc[c] = "idle" /\ loads < MaxLoads
        /\ loads' = loads + 1
        /\ view' = [view EXCEPT ![c] = [s \in DOMAIN rows |-> rows[s].work]]
        /\ at' = [at EXCEPT ![c] = 0]
        /\ pc' = [pc EXCEPT ![c] = IF torn THEN "marking" ELSE "idle"]
        /\ mended' = IF torn THEN mended ELSE mended \cup DOMAIN rows
        /\ UNCHANGED <<store, life, cur, seen, fresh, tried, stored>>

\* UPDATE sessions SET repaired = 1.
MarkRepaired(c) ==
    /\ pc[c] = "marking"
    /\ repaired' = TRUE
    /\ pc' = [pc EXCEPT ![c] = "repairing"]
    /\ Commit(c)
    /\ UNCHANGED <<seq, rows, life, cur, seen, view, at, history>>

\* Mutants: the row after the one that was looked up; the last row.
NextRowOf(t) ==
    {s \in DOMAIN rows : s - 1 \in DOMAIN rows /\ Tid[rows[s - 1].work] = Tid[t]}
LastRow(t) == {s \in DOMAIN rows : s = seq}

\* SELECT seq ... WHERE turn_id = ?: the rows it may return the first of.
RowsOf(t) == {s \in DOMAIN rows : Tid[rows[s].work] = Tid[t]}

\* SELECT seq ... WHERE turn_id = ?, then UPDATE turns SET body.  No commit of
\* another connection between the two changes the first row with that id.
RepairRow(c) ==
    LET n == at[c] + 1
    IN  /\ pc[c] = "repairing" /\ n \in DOMAIN view[c]
        /\ \/ \E s \in RowsOf(view[c][n]) :
                 /\ \A r \in RowsOf(view[c][n]) : s <= r
                 /\ rows' = [rows EXCEPT ![s] = [work |-> view[c][n], torn |-> FALSE]]
                 /\ Commit(c)
           \/ RowsOf(view[c][n]) = {} /\ UNCHANGED <<rows, fresh>>
        /\ at' = [at EXCEPT ![c] = n]
        /\ UNCHANGED <<seq, repaired, life, pc, cur, seen, view, history>>

LoadReturns(c) ==
    /\ pc[c] = "repairing" /\ at[c] + 1 \notin DOMAIN view[c]
    /\ pc' = [pc EXCEPT ![c] = "idle"]
    /\ mended' = mended \cup DOMAIN view[c]
    /\ UNCHANGED <<store, life, cur, seen, fresh, view, at, tried, stored, loads>>

-----------------------------------------------------------------------------

\* A process ends in the middle of a call, with what it did not commit.
Crash(c) ==
    /\ pc[c] # "idle"
    /\ pc' = [pc EXCEPT ![c] = "idle"]
    /\ UNCHANGED <<store, life, cur, seen, fresh, view, at, history>>

\* Every process has ended and a new one resumes the session; it counts its
\* turns from 0 again.
Restart ==
    /\ life < MaxLives
    /\ life' = life + 1
    /\ pc' = [c \in Conns |-> "idle"]
    /\ UNCHANGED <<store, cur, seen, fresh, view, at, history>>

ConnStep(c) ==
    \/ \E t \in Turns : AppendReads(c, t)
    \/ AppendCommits(c) \/ AppendFails(c)
    \/ LoadReads(c) \/ MarkRepaired(c) \/ RepairRow(c) \/ LoadReturns(c) \/ Crash(c)

\* Nobody uses the store.
Quiescent == (\A c \in Conns : pc[c] = "idle") /\ UNCHANGED vars

Next == Restart \/ Quiescent \/ \E c \in Conns : ConnStep(c)

Spec == Init /\ [][Next]_vars

-----------------------------------------------------------------------------
(* Properties *)

\* Types of the state.
TypeOK ==
    /\ seq \in Nat /\ repaired \in BOOLEAN /\ life \in 1 .. MaxLives
    /\ DOMAIN rows \subseteq Nat \ {0} /\ \A s \in DOMAIN rows : rows[s] \in Row
    /\ pc \in [Conns -> {"idle", "appending", "marking", "repairing"}]
    /\ cur \in [Conns -> Turns \cup {None}]
    /\ seen \in [Conns -> Nat] /\ fresh \in [Conns -> BOOLEAN]
    /\ DOMAIN view = Conns /\ at \in [Conns -> Nat]
    /\ \A c \in Conns : DOMAIN view[c] \subseteq Nat /\ \A s \in DOMAIN view[c] : view[c][s] \in Turns
    /\ tried \subseteq Turns /\ stored \subseteq tried
    /\ mended \subseteq Nat /\ loads \in Nat

\* The rows are numbered 1 to sessions.seq without a gap, whatever the other
\* connections commit and wherever a process ends.
SequenceIsDense == DOMAIN rows = 1 .. seq

\* A turn whose append returned Ok is in the log ever after: no repair and no
\* restart loses it.
StoredWorkKept == \A t \in stored : \E s \in DOMAIN rows : rows[s].work = t

\* A row that a finished load covered has no open call any more, so that the
\* next load is clean.
RepairSticks == \A s \in mended : s \in DOMAIN rows /\ ~rows[s].torn

\* A row that was closed is flagged on its session, even when the repair was
\* cut short: the flag is committed before the first row.
RepairsAreFlagged ==
    \A s \in DOMAIN rows : rows[s].work \in Torn /\ ~rows[s].torn => repaired

\* What the session's row says of its turns is true: their number, and whether
\* one of them had to be repaired (append_turn, load_transcript).
LogIsSound == SequenceIsDense /\ RepairsAreFlagged

Log == INSTANCE AppendOnlyLog WITH size <- seq,
                                   log <- [s \in DOMAIN rows |-> rows[s].work]

\* The store implements the append-only log: repair changes no turn and moves
\* none.
ImplementsLog == Log!LogSpec

=============================================================================
