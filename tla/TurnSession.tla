---------------------------- MODULE TurnSession ----------------------------
(***************************************************************************)
(* The session loop of turya-server (TuryaSession) together with the       *)
(* Tokio tasks that run its turns.  One task owns the loop; every turn is  *)
(* a task of its own; the client types commands into a bounded channel.    *)
(*                                                                         *)
(* A prompt is the number of its place in the order in which the client    *)
(* typed it, and a turn is its place in the order of creation, so turn k   *)
(* is the code's "turn_{k-1}" and Len(turns) is its turn_counter.          *)
(*                                                                         *)
(* JoinHandle::abort only marks a task.  A task that is parked, or was     *)
(* never polled, is dropped without running again; one that a worker       *)
(* thread is polling runs on to its next suspension.  `polling` separates  *)
(* the two.                                                                *)
(***************************************************************************)
EXTENDS Naturals, Sequences, FiniteSets

CONSTANTS
    MaxPrompts,   \* bound: prompts the client types
    MaxControls,  \* bound: AbortTurn and ClearQueue commands the client sends
    Kinds,        \* what the client and the environment may do in this run
    InboxCap,     \* capacity of the command channel (32 in the host)
    ReinjectCap,  \* capacity of the reinjection channel (32)
    DoneCap       \* capacity of the completion channel (16)

ASSUME BoundsAssumption ==
    /\ MaxPrompts \in Nat /\ MaxControls \in Nat
    /\ InboxCap \in Nat \ {0} /\ ReinjectCap \in Nat \ {0} /\ DoneCap \in Nat \ {0}
    /\ Kinds \subseteq {"submit", "queue", "abort", "clear", "close", "panic"}

VARIABLES
    inbox,     \* cmd_rx: commands sent and not yet received
    closed,    \* the client dropped its sender
    reinject,  \* commands the loop bounced back to itself
    done,      \* turns that reported their end to the loop
    loop,      \* where the loop is: "select", "wedged", "draining", "stopped"
    held,      \* the command a wedged loop is trying to reinject
    queue,     \* prompts waiting for the session to go idle
    active,    \* active_turn
    registry,  \* keys of the TaskRegistry
    turns,     \* every turn task ever spawned
    asked,     \* history: how the client typed each prompt
    cleared,   \* history: prompts ClearQueue removed
    controls   \* history: control commands sent

vars == <<inbox, closed, reinject, done, loop, held, queue, active, registry,
          turns, asked, cleared, controls>>

-----------------------------------------------------------------------------

Prompt == 1 .. MaxPrompts
NoTurn == 0
NoPrompt == 0

Phases == {"spawned", "started", "completed", "stored", "reported", "returned", "dropped"}

\* A turn task: the prompt it runs, how far run_turn has got, whether a worker
\* is polling it, whether abort() was called on it, and the prompt that
\* superseded it (if one did).
Turn == [prompt : Nat, phase : Phases, polling : BOOLEAN, aborted : BOOLEAN,
         by : Nat]

NewTurn(p) ==
    [prompt |-> p, phase |-> "spawned", polling |-> FALSE, aborted |-> FALSE,
     by |-> NoPrompt]

\* JoinHandle::is_finished: the task returned, was dropped or panicked.
Finished(turn) == turn.phase \in {"returned", "dropped"}

\* The task can still send events, write the log or report its end.
Working(turn) == turn.phase \in {"spawned", "started", "completed", "stored"}

Command == [kind : {"submit", "queue", "abort", "clear"}, prompt : Nat]

Init ==
    /\ inbox = <<>> /\ closed = FALSE
    /\ reinject = <<>> /\ done = <<>>
    /\ loop = "select" /\ held = <<>>
    /\ queue = <<>>
    /\ active = NoTurn /\ registry = {}
    /\ turns = <<>>
    /\ asked = <<>> /\ cleared = {} /\ controls = 0

-----------------------------------------------------------------------------
(* The client.  It blocks while the command channel is full. *)

ClientSends(kind, p) ==
    /\ kind \in Kinds /\ ~closed /\ Len(inbox) < InboxCap
    /\ inbox' = Append(inbox, [kind |-> kind, prompt |-> p])
    /\ UNCHANGED <<closed, reinject, done, loop, held, queue, active, registry,
                   turns, cleared>>

TypePrompt(kind) ==
    /\ Len(asked) < MaxPrompts
    /\ ClientSends(kind, Len(asked) + 1)
    /\ asked' = Append(asked, kind)
    /\ UNCHANGED controls

SendControl(kind) ==
    /\ controls < MaxControls
    /\ ClientSends(kind, NoPrompt)
    /\ controls' = controls + 1
    /\ UNCHANGED asked

CloseInbox ==
    /\ "close" \in Kinds /\ ~closed
    /\ closed' = TRUE
    /\ UNCHANGED <<inbox, reinject, done, loop, held, queue, active, registry,
                   turns, asked, cleared, controls>>

-----------------------------------------------------------------------------
(* Handlers of the loop.  `rest` is the reinjection channel after the loop  *)
(* took what it is handling from it.                                        *)

\* The number of the next turn, from turn_counter.
NewId == Len(turns) + 1

\* TaskRegistry::abort_tree on a root turn (turns are the registry's only
\* entries): mark its task if the registry still holds it.
Aborted(t, p) ==
    IF t \in registry THEN [turns EXCEPT ![t].aborted = TRUE, ![t].by = p] ELSE turns

\* TaskRegistry::reap
Reaped(ids) == {t \in ids : ~Finished(turns[t])}

\* Mutant: gives up while one slot is free.
ReinjectEarly(rest, c) ==
    \/ Len(rest) + 1 < ReinjectCap /\ reinject' = Append(rest, c) /\ UNCHANGED <<loop, held>>
    \/ /\ Len(rest) + 1 >= ReinjectCap
       /\ reinject' = rest /\ loop' = "wedged" /\ held' = <<c>>

\* tx.send(c).await on the loop's own channel.  The loop is the only receiver:
\* when the channel is full it waits for a slot that only it could free.
Reinject(rest, c) ==
    \/ /\ Len(rest) < ReinjectCap
       /\ reinject' = Append(rest, c)
       /\ UNCHANGED <<loop, held>>
    \/ /\ Len(rest) >= ReinjectCap
       /\ reinject' = rest
       /\ loop' = "wedged" /\ held' = <<c>>

SubmitPrompt(c, rest) ==
    /\ c.kind = "submit"
    /\ turns' = Append(Aborted(active, c.prompt), NewTurn(c.prompt))
    /\ registry' = Reaped(registry \ {active}) \cup {NewId}
    /\ active' = NewId
    /\ reinject' = rest
    /\ UNCHANGED <<loop, held, queue, cleared>>

\* kill_active_turn marks whatever the slot holds, whether or not the task
\* still runs.
AbortLive(c, rest) ==
    /\ c.kind = "abort" /\ active # NoTurn
    /\ turns' = Aborted(active, NoPrompt)
    /\ registry' = registry \ {active}
    /\ active' = NoTurn
    /\ reinject' = rest
    /\ UNCHANGED <<loop, held, queue, cleared>>

AbortIdle(c, rest) ==
    /\ c.kind = "abort" /\ active = NoTurn
    /\ reinject' = rest
    /\ UNCHANGED <<loop, held, queue, active, registry, turns, cleared>>

QueueBusy(c, rest) ==
    /\ c.kind = "queue" /\ active # NoTurn
    /\ queue' = Append(queue, c.prompt)
    /\ reinject' = rest
    /\ UNCHANGED <<loop, held, active, registry, turns, cleared>>

\* Mutants: a follow-up of an idle session is both bounced and queued, or only
\* queued.
QueueIdleTwice(c, rest) ==
    /\ c.kind = "queue" /\ active = NoTurn
    /\ Reinject(rest, [kind |-> "submit", prompt |-> c.prompt])
    /\ queue' = Append(queue, c.prompt)
    /\ UNCHANGED <<active, registry, turns, cleared>>
QueueIdleWaits(c, rest) ==
    /\ c.kind = "queue" /\ active = NoTurn
    /\ queue' = Append(queue, c.prompt) /\ reinject' = rest
    /\ UNCHANGED <<loop, held, active, registry, turns, cleared>>

QueueIdle(c, rest) ==
    /\ c.kind = "queue" /\ active = NoTurn
    /\ Reinject(rest, [kind |-> "submit", prompt |-> c.prompt])
    /\ UNCHANGED <<queue, active, registry, turns, cleared>>

ClearQueue(c, rest) ==
    /\ c.kind = "clear"
    /\ cleared' = cleared \cup {queue[i] : i \in DOMAIN queue}
    /\ queue' = <<>>
    /\ reinject' = rest
    /\ UNCHANGED <<loop, held, active, registry, turns>>

Dispatch(c, rest) ==
    \/ SubmitPrompt(c, rest)
    \/ AbortLive(c, rest)
    \/ AbortIdle(c, rest)
    \/ QueueBusy(c, rest)
    \/ QueueIdle(c, rest)
    \/ ClearQueue(c, rest)

RecvCommand ==
    /\ loop = "select" /\ inbox # <<>>
    /\ Dispatch(Head(inbox), reinject)
    /\ inbox' = Tail(inbox)
    /\ UNCHANGED <<closed, done, asked, controls>>

RecvReinjected ==
    /\ loop = "select" /\ reinject # <<>>
    /\ Dispatch(Head(reinject), Tail(reinject))
    /\ UNCHANGED <<inbox, closed, done, asked, controls>>

\* Mutant: any report frees the slot.
SlotFreedByAny(t) == NoTurn

\* The done_rx branch: free the slot if the report is about its holder, reap,
\* and hand one queued prompt back to the loop when the slot is free.
SlotAfter(t) == IF active = t THEN NoTurn ELSE active

RecvDone ==
    /\ loop = "select" /\ done # <<>>
    /\ done' = Tail(done)
    /\ active' = SlotAfter(Head(done))
    /\ registry' = Reaped(registry)
    /\ \/ /\ active' = NoTurn /\ queue # <<>>
          /\ queue' = Tail(queue)
          /\ Reinject(reinject, [kind |-> "queue", prompt |-> Head(queue)])
       \/ /\ active' # NoTurn \/ queue = <<>>
          /\ UNCHANGED <<queue, reinject, loop, held>>
    /\ UNCHANGED <<inbox, closed, turns, asked, cleared, controls>>

\* cmd_rx.recv() returns None once the client is gone and the channel empty:
\* the loop breaks and drain_all aborts what the registry still holds.
ExitLoop ==
    /\ loop = "select" /\ closed /\ inbox = <<>>
    /\ loop' = "draining"
    /\ turns' = [t \in DOMAIN turns |->
                    IF t \in registry THEN [turns[t] EXCEPT !.aborted = TRUE] ELSE turns[t]]
    /\ registry' = {}
    /\ UNCHANGED <<inbox, closed, reinject, done, held, queue, active, asked,
                   cleared, controls>>

\* drain_all returns when its handles have ended or when DRAIN_GRACE is over,
\* whichever is first; the grace period may end at any time.
Drained ==
    /\ loop = "draining"
    /\ loop' = "stopped"
    /\ UNCHANGED <<inbox, closed, reinject, done, held, queue, active, registry,
                   turns, asked, cleared, controls>>

-----------------------------------------------------------------------------
(* A turn task: engine.run_turn followed by the report on done_tx. *)

TaskUnchanged == UNCHANGED <<inbox, closed, reinject, loop, held, queue, active,
                             registry, asked, cleared, controls>>

\* A worker polls the task.  An aborted task is never polled again.
Poll(t) ==
    /\ ~turns[t].polling /\ ~turns[t].aborted
    /\ turns[t].phase \in {"spawned", "started", "stored"}
    /\ turns' = [turns EXCEPT ![t].polling = TRUE]
    /\ TaskUnchanged /\ UNCHANGED done

\* The task suspends: on the event channel, the provider's stream, a
\* permission answer, or a full completion channel.  There is no suspension
\* between TurnCompleted and the end of append_turn.
Park(t) ==
    /\ turns[t].polling /\ turns[t].phase \in {"spawned", "started", "stored"}
    /\ turns' = [turns EXCEPT ![t].polling = FALSE]
    /\ TaskUnchanged /\ UNCHANGED done

\* The runtime drops an aborted task that is not being polled.
Drop(t) ==
    /\ turns[t].aborted /\ ~turns[t].polling /\ ~Finished(turns[t])
    /\ turns' = [turns EXCEPT ![t].phase = "dropped"]
    /\ TaskUnchanged /\ UNCHANGED done

\* run_turn sends TurnStarted.
Start(t) ==
    /\ turns[t].polling /\ turns[t].phase = "spawned"
    /\ turns' = [turns EXCEPT ![t].phase = "started"]
    /\ TaskUnchanged /\ UNCHANGED done

\* run_turn sends TurnCompleted.
Complete(t) ==
    /\ turns[t].polling /\ turns[t].phase = "started"
    /\ turns' = [turns EXCEPT ![t].phase = "completed"]
    /\ TaskUnchanged /\ UNCHANGED done

\* The memory hook appends the turn to the session log.
Store(t) ==
    /\ turns[t].polling /\ turns[t].phase = "completed"
    /\ turns' = [turns EXCEPT ![t].phase = "stored"]
    /\ TaskUnchanged /\ UNCHANGED done

\* done_tx.send: waits for a slot, and fails at once when the loop is gone.
Report(t) ==
    /\ turns[t].polling /\ turns[t].phase = "stored"
    /\ \/ loop # "stopped" /\ Len(done) < DoneCap /\ done' = Append(done, t)
       \/ loop = "stopped" /\ UNCHANGED done
    /\ turns' = [turns EXCEPT ![t].phase = "reported"]
    /\ TaskUnchanged

Return(t) ==
    /\ turns[t].polling /\ turns[t].phase = "reported"
    /\ turns' = [turns EXCEPT ![t].phase = "returned", ![t].polling = FALSE]
    /\ TaskUnchanged /\ UNCHANGED done

\* The engine, a tool or a provider panics: the runtime ends the task and
\* nothing is reported.
Panic(t) ==
    /\ "panic" \in Kinds
    /\ turns[t].polling /\ turns[t].phase = "started"
    /\ turns' = [turns EXCEPT ![t].phase = "dropped", ![t].polling = FALSE]
    /\ TaskUnchanged /\ UNCHANGED done

Advance(t) == Start(t) \/ Complete(t) \/ Store(t) \/ Report(t) \/ Return(t)

TaskStep(t) == Poll(t) \/ Park(t) \/ Drop(t) \/ Advance(t) \/ Panic(t)

-----------------------------------------------------------------------------

\* Nothing is left to do: the loop waits for a client that types no more, has
\* ended, or waits for itself.
Quiescent ==
    /\ \A t \in DOMAIN turns : Finished(turns[t])
    /\ \/ loop = "select" /\ inbox = <<>> /\ reinject = <<>> /\ done = <<>>
       \/ loop \in {"stopped", "wedged"}
    /\ UNCHANGED vars

LoopStep == RecvCommand \/ RecvReinjected \/ RecvDone \/ ExitLoop \/ Drained

Next ==
    \/ \E kind \in {"submit", "queue"} : TypePrompt(kind)
    \/ \E kind \in {"abort", "clear"} : SendControl(kind)
    \/ CloseInbox
    \/ LoopStep
    \/ \E t \in DOMAIN turns : TaskStep(t)
    \/ Quiescent

Spec == Init /\ [][Next]_vars

\* The runtime keeps polling: each ready branch of select! is eventually
\* taken, a task that can run is polled, an aborted one is dropped, and a task
\* polled again and again gets past its suspension.  The last is strong
\* fairness: it stands for the provider answering and the client reading its
\* events; the engine itself bounds the number of passes of a turn.
TaskFairness(t) ==
    /\ WF_vars(t \in DOMAIN turns /\ (Poll(t) \/ Drop(t)))
    /\ SF_vars(t \in DOMAIN turns /\ Advance(t))

Fairness ==
    /\ WF_vars(RecvCommand) /\ WF_vars(RecvReinjected) /\ WF_vars(RecvDone)
    /\ \A t \in Prompt : TaskFairness(t)

FairSpec == Spec /\ Fairness

-----------------------------------------------------------------------------
(* Properties *)

\* Types of the session's state.
TypeOK ==
    /\ inbox \in Seq(Command) /\ reinject \in Seq(Command) /\ held \in Seq(Command)
    /\ closed \in BOOLEAN /\ controls \in Nat
    /\ loop \in {"select", "wedged", "draining", "stopped"}
    /\ turns \in Seq(Turn)
    /\ done \in Seq(DOMAIN turns)
    /\ queue \in Seq(Nat)
    /\ active \in DOMAIN turns \cup {NoTurn}
    /\ registry \subseteq DOMAIN turns
    /\ asked \in Seq({"submit", "queue"})
    /\ cleared \subseteq Nat

\* At most one turn works without having been told to stop, it holds the
\* slot, and the registry can reach its task.  Otherwise Esc, a new prompt or
\* shutdown would miss a turn that goes on running tools.
SingleLiveTurn ==
    \A t \in DOMAIN turns :
        Working(turns[t]) /\ ~turns[t].aborted => t = active /\ t \in registry

\* After shutdown no task works unless it was told to stop: drain_all misses
\* nothing, even a turn whose slot a later prompt had taken.
NothingOutlivesLoop ==
    loop = "stopped" => \A t \in DOMAIN turns : Working(turns[t]) => turns[t].aborted

\* No turn works on without Esc, a new prompt or shutdown being able to stop it
\* (active_turn and the task registry agree).
TurnsAreContained == SingleLiveTurn /\ NothingOutlivesLoop

\* Every prompt typed is in exactly one place: on its way, bounced, queued,
\* cleared, or the prompt of one turn.  The two hops of a follow-up neither
\* lose it nor run it twice.
Places(p) ==
    LET In(s) == Cardinality({i \in DOMAIN s : s[i].prompt = p})
    IN  In(inbox) + In(reinject) + In(held) + In(turns)
        + Cardinality({i \in DOMAIN queue : queue[i] = p})
        + (IF p \in cleared THEN 1 ELSE 0)

PromptsConserved == \A p \in Prompt : Places(p) = (IF p <= Len(asked) THEN 1 ELSE 0)

\* An idle loop with prompts in its queue has a prompt in its own channel:
\* queued work always has something coming that will start it.  Holds as long
\* as no turn is aborted or panics.
IdleServesQueue ==
    loop = "select" /\ active = NoTurn /\ queue # <<>> => reinject # <<>>

\* The loop can only block on its own channel after more prompts were typed
\* than the channel holds.
WedgedOnlyOverCapacity == loop = "wedged" => Len(asked) > ReinjectCap

\* What a prompt goes through, in the terms of the ledger.
StatusOf(p) ==
    IF p > Len(asked) THEN "untyped"
    ELSE IF p \in cleared THEN "cleared"
    ELSE IF \A t \in DOMAIN turns : turns[t].prompt # p THEN "waiting"
    ELSE IF active # NoTurn /\ turns[active].prompt = p /\ loop \in {"select", "wedged"}
    THEN "running" ELSE "over"

Ledger == INSTANCE PromptLedger WITH Prompts <- Prompt,
                                     status <- [p \in Prompt |-> StatusOf(p)]

\* The session implements the ledger: a prompt runs at most once, never after
\* it was cleared, and its status never goes back, through every interleaving
\* of bounced commands, late completions, aborts and shutdown.
ImplementsLedger == Ledger!LedgerSpec

\* A slot once taken is released: no interleaving of kills, supersessions and
\* late reports leaves the session busy for ever.
SlotReleased == \A t \in Prompt : active = t ~> active # t

\* Every prompt typed is eventually run or cleared (with no abort, panic or
\* shutdown).
EveryPromptServed ==
    \A p \in Prompt :
        Len(asked) >= p ~> p \in cleared \/ \E t \in DOMAIN turns : turns[t].prompt = p

\* A follow-up never stops a turn that is still working (the comment on
\* `queue` says it never interleaves with one); the code breaks it.
FollowUpsNeverInterrupt ==
    [][\A t \in DOMAIN turns :
          /\ turns'[t].by # turns[t].by
          /\ asked[turns'[t].by] = "queue"
          => ~Working(turns[t])]_vars

=============================================================================
