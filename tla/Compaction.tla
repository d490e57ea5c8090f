------------------------------- MODULE Compaction -------------------------------
(***************************************************************************)
(* The context a turn runs on (turya-core: engine.rs, context.rs): the     *)
(* whole log of the session, or a summary and the last turns when the log  *)
(* is over the model's window; and the /compact command of the host        *)
(* (turya-cli/src/host_services.rs).  Turns of subagents run on the same   *)
(* log and the same counters.  A turn weighs Heavy with tool output, else  *)
(* one; so do a summary and a pruned turn.                                 *)
(***************************************************************************)
EXTENDS Naturals, Sequences, SequencesExt, FiniteSets

CONSTANTS
    Runners,      \* who runs turns: the session and its subagents
    Windows,      \* usable windows of the models
    Heavy,        \* weight of a turn with tool output
    KeepTail,     \* KEEP_TAIL_TURNS (2)
    MinTurns,     \* a shorter session is never compacted (3)
    MaxFailures,  \* MAX_COMPACT_FAILURES (3)
    MaxLog        \* bound: turns of the log

VARIABLES
    log,       \* the stored turns of the session
    window,    \* the active model's usable window
    deferred,  \* deferred_compact
    failures,  \* compact_failures
    phase,     \* what each runner, and the host, is doing
    ctx,       \* the context of each: what it loaded, or runs on
    tried,     \* history: how compaction went for the turn
    freed      \* history: turns left, as /compact last told the client

compactVars == <<log, window, deferred, failures, phase, ctx, tried, freed>>

Host == "host"
Actors == Runners \cup {Host}

\* A turn of the context: its place in the log (0 for a summary), its kind.
Turn(at, kind) == [at |-> at, kind |-> kind]
Kinds == {"tool", "plain"}

Init ==
    /\ log = <<>> /\ window \in Windows /\ deferred = FALSE /\ failures = 0
    /\ phase = [a \in Actors |-> "idle"]
    /\ ctx = [a \in Actors |-> <<>>]
    /\ tried = [r \in Runners |-> "no"]
    /\ freed = 0

-----------------------------------------------------------------------------
(* context.rs *)

\* load_transcript
Stored == [i \in DOMAIN log |-> Turn(i, log[i])]

Weight(turn) == IF turn.kind = "tool" THEN Heavy ELSE 1
Weighs(turns) == FoldLeft(LAMBDA sum, turn : sum + Weight(turn), 0, turns)

\* Mutant: the cut leaves one turn more to be pruned.
CutoffPastTail(turns) == IF Len(turns) >= KeepTail THEN Len(turns) - KeepTail + 1 ELSE 0

\* turn_cutoff: the turns before the verbatim tail.
Cutoff(turns) == IF Len(turns) > KeepTail THEN Len(turns) - KeepTail ELSE 0

\* prune_transcript: old tool output goes, the tail keeps its own.
Pruned(turns) ==
    [i \in DOMAIN turns |-> IF i <= Cutoff(turns) /\ turns[i].kind = "tool"
                            THEN Turn(turns[i].at, "pruned") ELSE turns[i]]

TailTurns(turns) ==
    SubSeq(turns, IF Len(turns) > KeepTail THEN Len(turns) - KeepTail + 1 ELSE 1, Len(turns))

\* compacted: one turn with the summary, or with the note that there is none.
Compacted(turns, said) == <<Turn(0, said)>> \o TailTurns(turns)

\* should_compact: the threshold is part of the window.
ShouldCompact(turns) == Len(turns) >= MinTurns /\ Weighs(turns) > window

-----------------------------------------------------------------------------
(* run_turn and maybe_compact. *)

\* Mutant: only a shrunken window compacts.
OnlyDeferred(turns) == deferred

Demanded(turns) == deferred \/ ShouldCompact(turns)

GaveUp == failures >= MaxFailures

StartTurn(r) ==
    /\ phase[r] = "idle"
    /\ LET wanted == Stored # <<>> /\ ~GaveUp /\ Demanded(Stored)
       IN  /\ phase' = [phase EXCEPT ![r] = IF wanted THEN "compact" ELSE "running"]
           /\ ctx' = [ctx EXCEPT ![r] = Stored]
           /\ tried' = [tried EXCEPT ![r] = IF GaveUp THEN "gave_up" ELSE "no"]
    /\ UNCHANGED <<log, window, deferred, failures, freed>>

\* compact loads the log once more; the summary is asked of the pruned copy.
Summarise(a) ==
    /\ phase[a] = "compact" /\ Len(log) >= MinTurns
    /\ phase' = [phase EXCEPT ![a] = "summarise"]
    /\ ctx' = [ctx EXCEPT ![a] = Pruned(Stored)]
    /\ UNCHANGED <<log, window, deferred, failures, tried, freed>>

\* A short log, or a store that cannot be read: the turn runs on what it has.
CompactFails(r) ==
    /\ phase[r] = "compact"
    /\ failures' = failures + 1
    /\ deferred' = FALSE
    /\ phase' = [phase EXCEPT ![r] = "running"]
    /\ tried' = [tried EXCEPT ![r] = "failed"]
    /\ UNCHANGED <<log, window, ctx, freed>>

\* Without a summary the turns are replaced all the same; persist_compacted
\* appends the summary's turn to the log.
CompactSucceeds(r) ==
    /\ phase[r] = "summarise"
    /\ \E said \in {"summary", "no_summary"} :
           ctx' = [ctx EXCEPT ![r] = Compacted(@, said)]
    /\ \/ Len(log) < MaxLog /\ log' = Append(log, "plain")
       \/ UNCHANGED log
    /\ failures' = 0
    /\ deferred' = FALSE
    /\ phase' = [phase EXCEPT ![r] = "running"]
    /\ tried' = [tried EXCEPT ![r] = "yes"]
    /\ UNCHANGED <<window, freed>>

\* The turn is appended when it ends, or lost with its session.
EndTurn(r) ==
    /\ phase[r] = "running"
    /\ \/ \E kind \in Kinds : Len(log) < MaxLog /\ log' = Append(log, kind)
       \/ UNCHANGED log
    /\ phase' = [phase EXCEPT ![r] = "idle"]
    /\ ctx' = [ctx EXCEPT ![r] = <<>>]
    /\ tried' = [tried EXCEPT ![r] = "no"]
    /\ freed' = 0
    /\ UNCHANGED <<window, deferred, failures>>

-----------------------------------------------------------------------------
(* The host. *)

\* set_context_budget: a smaller window has the next prompt compact first.
SetWindow ==
    /\ \E w \in Windows \ {window} : window' = w /\ deferred' = (deferred \/ w < window)
    /\ UNCHANGED <<log, failures, phase, ctx, tried, freed>>

\* TuryaCommand::Compact
HostCompact ==
    /\ phase[Host] = "idle"
    /\ phase' = [phase EXCEPT ![Host] = "compact"]
    /\ UNCHANGED <<log, window, deferred, failures, ctx, tried, freed>>

HostRefused ==
    /\ phase[Host] = "compact"
    /\ phase' = [phase EXCEPT ![Host] = "idle"]
    /\ UNCHANGED <<log, window, deferred, failures, ctx, tried, freed>>

\* The client is told of the turns that are left; they are not kept.
HostCompacted ==
    /\ phase[Host] = "summarise"
    /\ freed' = Len(Compacted(ctx[Host], "summary"))
    /\ phase' = [phase EXCEPT ![Host] = "idle"]
    /\ ctx' = [ctx EXCEPT ![Host] = <<>>]
    /\ UNCHANGED <<log, window, deferred, failures, tried>>

RunnerStep(r) == StartTurn(r) \/ CompactFails(r) \/ CompactSucceeds(r) \/ EndTurn(r)
HostStep == SetWindow \/ HostCompact \/ HostRefused \/ HostCompacted

Next ==
    \/ \E r \in Runners : RunnerStep(r)
    \/ \E a \in Actors : Summarise(a)
    \/ HostStep

CompactSpec == Init /\ [][Next]_compactVars

-----------------------------------------------------------------------------

\* A compacted turn runs on the last turns of the log word for word, whatever
\* was pruned for the summary and whoever appended or compacted meanwhile; all
\* that is missing before them is one summary (prune_transcript, compacted).
TailIsVerbatim ==
    \A r \in Runners :
        phase[r] = "running" /\ tried[r] = "yes" =>
            LET tail == Tail(ctx[r])
            IN  /\ Head(ctx[r]).at = 0
                /\ Len(tail) = KeepTail
                /\ \A i \in DOMAIN tail : /\ tail[i].kind = log[tail[i].at]
                                          /\ tail[i].at = tail[1].at + i - 1

\* A turn starts on more than the window holds only when the session is young,
\* compaction failed for it, or failed too often before (maybe_compact).
LongTurnsAreCompacted ==
    [][\A r \in Runners :
        phase[r] # "running" /\ phase'[r] = "running" /\ Weighs(ctx'[r]) > window =>
            \/ Len(ctx'[r]) < MinTurns
            \/ tried'[r] \in {"yes", "failed", "gave_up"}]_compactVars

\* "Summarise older turns to free context": a turn that starts after /compact
\* reported what it left runs on no more than that.
CompactFreesContext ==
    [][\A r \in Runners :
        StartTurn(r) /\ freed # 0 => Len(ctx'[r]) <= freed]_compactVars

\* "A failure here is not fatal: the caller keeps the pruned transcript": older
\* turns leave the context only for a summary of them.
NoSummaryKeepsTurns ==
    \A r \in Runners :
        phase[r] = "running" /\ tried[r] = "yes" => Head(ctx[r]).kind = "summary"
=============================================================================
