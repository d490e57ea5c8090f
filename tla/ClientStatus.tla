------------------------------ MODULE ClientStatus ------------------------------
(* What the terminal client shows of the rest of the program: the spinner,   *)
(* the count of waiting prompts, the tool at work, its settings.  Commands   *)
(* go from the client to the host's router, and from there to the session;   *)
(* events of the host, the session and the turn tasks come back on one       *)
(* channel.  All three are bounded: who finds one full waits (main.rs).      *)
(*                                                                           *)
(* The session is TurnSession's, but that a killed turn ends at once, except *)
(* for the event it may be sending.                                          *)
EXTENDS Naturals, Sequences, SequencesExt, FiniteSets

CONSTANTS CmdCap, InboxCap, EventCap,  \* of the three channels
          Scalars,    \* settings with one value: mouse, no_color, auto_scroll
          Values,     \* their values; 0 is the default
          MaxTyped    \* bound: commands of one life of the program

VARIABLES
    status,   \* turn_active, queued, pending_tools
    shown,    \* the settings in effect: scalars and the theme
    sending,  \* the command the client is sending, or <<>>
    cmds,     \* from the client to the host
    inbox,    \* from the host to the session
    events,   \* to the client
    saved,    \* the settings file
    unsaved,  \* settings whose last write failed
    queue,    \* waiting prompts
    slot,     \* active_turn, 0 for none
    task,     \* where the active turn is
    reinject, \* commands the session sends itself
    done,     \* reports of ended turns
    turns,    \* turn_counter
    typed,    \* commands typed
    late      \* history: a killed turn was heard after its end was told

statusVars == <<status, shown, sending, cmds, inbox, events, saved, unsaved, queue, slot,
                task, reinject, done, turns, typed, late>>
sessionVars == <<queue, slot, task, reinject, done, turns>>

Idle == [active |-> FALSE, queued |-> 0, tools |-> {}]
NoTheme == [pack |-> 0, slot |-> 0]
Defaults == [scalar |-> [f \in Scalars |-> 0], theme |-> NoTheme]

Init ==
    /\ status = Idle /\ shown = Defaults /\ saved = Defaults /\ unsaved = {}
    /\ sending = <<>> /\ cmds = <<>> /\ inbox = <<>> /\ events = <<>>
    /\ queue = 0 /\ slot = 0 /\ task = "none" /\ reinject = <<>> /\ done = <<>>
    /\ turns = 0 /\ typed = 0 /\ late = FALSE

\* --------------------------------------------------------------- the client

Cmd(op, arg) == [op |-> op, arg |-> arg]
Evt(is, arg) == [is |-> is, arg |-> arg]

\* The client waits for room; meanwhile it reads neither keys nor events.
Send(cmd) ==
    /\ typed < MaxTyped /\ sending = <<>>
    /\ sending' = <<cmd>> /\ typed' = typed + 1
    /\ UNCHANGED <<cmds, inbox, events, saved, unsaved, sessionVars, late>>

\* The spinner runs from Enter on.
submit_prompt ==
    /\ Send(Cmd("submit", 0)) /\ status' = [status EXCEPT !.active = TRUE]
    /\ UNCHANGED shown

\* /queue <prompt>, /queue clear, Esc, and a command only the host answers.
SlashQueue == Send(Cmd("queue", 0)) /\ UNCHANGED <<status, shown>>
SlashClear == Send(Cmd("clear", 0)) /\ UNCHANGED <<status, shown>>
Esc == Send(Cmd("abort", 0)) /\ UNCHANGED <<status, shown>>
SlashResume == Send(Cmd("resume", 0)) /\ UNCHANGED <<status, shown>>

\* /settings: in effect at once, and sent to be saved.
SetScalar(f, v) ==
    /\ shown' = [shown EXCEPT !.scalar[f] = v]
    /\ Send(Cmd("ui", <<f, v>>)) /\ UNCHANGED status
save_theme(theme) ==
    /\ shown' = [shown EXCEPT !.theme = theme]
    /\ Send(Cmd("ui", <<"theme", theme>>)) /\ UNCHANGED status
SetPack(v) == save_theme([shown.theme EXCEPT !.pack = v])
SetSlot(v) == save_theme([shown.theme EXCEPT !.slot = v])
SetSomething ==
    \E v \in Values : SetPack(v) \/ SetSlot(v) \/ \E f \in Scalars : SetScalar(f, v)

Fed(evt) ==
    CASE evt.is = "TurnStarted" -> [status EXCEPT !.active = TRUE]
      [] evt.is = "TurnCompleted" -> [status EXCEPT !.active = FALSE]
      [] evt.is = "Error" -> [status EXCEPT !.active = FALSE]
      [] evt.is = "CompactionStarted" -> [status EXCEPT !.active = TRUE]
      [] evt.is = "CompactionCompleted" -> [status EXCEPT !.active = FALSE]
      [] evt.is = "ToolCallInitiated" -> [status EXCEPT !.tools = @ \cup {evt.arg}]
      [] evt.is = "ToolCallCompleted" -> [status EXCEPT !.tools = @ \ {evt.arg}]
      [] evt.is = "QueueChanged" -> [status EXCEPT !.queued = evt.arg]
      [] OTHER -> status

Sent ==
    /\ sending # <<>> /\ Len(cmds) < CmdCap
    /\ cmds' = cmds \o sending /\ sending' = <<>>
    /\ UNCHANGED <<status, shown, inbox, events, saved, unsaved, sessionVars, typed, late>>

feed_flow_event ==
    /\ events # <<>> /\ sending = <<>>
    /\ status' = Fed(Head(events)) /\ events' = Tail(events)
    /\ UNCHANGED <<shown, sending, cmds, inbox, saved, unsaved, sessionVars, typed, late>>

\* ----------------------------------------------------------------- the host

Taken(op) == cmds # <<>> /\ Head(cmds).op = op /\ cmds' = Tail(cmds)
ByHost == UNCHANGED <<status, shown, sending, sessionVars, typed, late>>

\* Every setting the command does not name is cleared.
PatchedAlone(cfg, patch) ==
    IF patch[1] = "theme" THEN [Defaults EXCEPT !.theme = patch[2]]
    ELSE [Defaults EXCEPT !.scalar[patch[1]] = patch[2]]
Patched(cfg, patch) ==
    IF patch[1] = "theme" THEN [cfg EXCEPT !.theme = patch[2]]
    ELSE [cfg EXCEPT !.scalar[patch[1]] = patch[2]]

\* The file is loaded, patched and saved; a failure is only printed.
persist_ui_settings ==
    /\ Taken("ui")
    /\ LET patch == Head(cmds).arg
       IN \/ saved' = Patched(saved, patch) /\ unsaved' = unsaved \ {patch[1]}
          \/ saved' = saved /\ unsaved' = unsaved \cup {patch[1]}
    /\ UNCHANGED <<inbox, events>> /\ ByHost

\* A command the host answers itself, here with an error.
HostRefuses ==
    /\ Taken("resume")
    /\ Len(events) < EventCap /\ events' = Append(events, Evt("Error", 0))
    /\ UNCHANGED <<inbox, saved, unsaved>> /\ ByHost

Forward ==
    /\ \E op \in {"submit", "queue", "clear", "abort"} : Taken(op)
    /\ Len(inbox) < InboxCap /\ inbox' = Append(inbox, Head(cmds))
    /\ UNCHANGED <<events, saved, unsaved>> /\ ByHost

\* -------------------------------------------------------------- the session

\* A handler that tells the client waits for room for all it says.
Tell(said) == Len(events) + Len(said) <= EventCap /\ events' = events \o said
BySession == UNCHANGED <<status, shown, sending, cmds, saved, unsaved, typed>>

FromInbox(op) ==
    inbox # <<>> /\ Head(inbox).op = op /\ inbox' = Tail(inbox) /\ UNCHANGED reinject
FromItself(op) ==
    reinject # <<>> /\ Head(reinject) = op /\ reinject' = Tail(reinject) /\ UNCHANGED inbox

\* The event a killed turn was sending may follow what is told of its end.
Overtaken(said) ==
    \/ Tell(said) /\ late' = late
    \/ /\ slot # 0 /\ task \in {"new", "working", "ending"}
       /\ Tell(said \o <<Evt(CASE task = "new" -> "TurnStarted"
                              [] task = "working" -> "ToolCallInitiated"
                              [] task = "ending" -> "TurnCompleted", slot)>>)
       /\ late' = TRUE

SubmitPrompt ==
    /\ FromInbox("submit") \/ FromItself("submit")
    /\ Overtaken(<<>>)
    /\ turns' = turns + 1 /\ slot' = turns + 1 /\ task' = "new"
    /\ UNCHANGED <<queue, done>> /\ BySession

QueueBusy ==
    /\ slot # 0 /\ (FromInbox("queue") \/ FromItself("queue"))
    /\ queue' = queue + 1 /\ Tell(<<Evt("QueueChanged", queue + 1)>>)
    /\ UNCHANGED <<slot, task, done, turns, late>> /\ BySession

QueueIdle ==
    /\ slot = 0
    /\ \/ /\ inbox # <<>> /\ Head(inbox).op = "queue" /\ inbox' = Tail(inbox)
          /\ reinject' = Append(reinject, "submit")
       \/ /\ reinject # <<>> /\ Head(reinject) = "queue" /\ UNCHANGED inbox
          /\ reinject' = Append(Tail(reinject), "submit")
    /\ UNCHANGED <<events, queue, slot, task, done, turns, late>> /\ BySession

\* The count is announced by the prompts that run next.
Cleared == <<Evt("QueueChanged", 0)>>
ClearQueue ==
    /\ FromInbox("clear")
    /\ queue' = 0 /\ Tell(Cleared)
    /\ UNCHANGED <<slot, task, done, turns, late>> /\ BySession

AbortTurn ==
    /\ FromInbox("abort")
    /\ IF slot = 0 THEN UNCHANGED <<events, late, slot, task>>
       ELSE /\ Overtaken(<<Evt("TurnCompleted", slot), Evt("Error", 0)>>)
            /\ slot' = 0 /\ task' = "none"
    /\ UNCHANGED <<queue, done, turns>> /\ BySession

\* drain_one: the slot is free, and one waiting prompt runs.
Report ==
    /\ done # <<>> /\ done' = Tail(done)
    /\ slot' = IF Head(done) = slot THEN 0 ELSE slot
    /\ task' = IF Head(done) = slot THEN "none" ELSE task
    /\ IF slot' # 0 \/ queue = 0 THEN UNCHANGED <<queue, events, reinject>>
       ELSE /\ queue' = queue - 1 /\ Tell(<<Evt("QueueChanged", queue - 1)>>)
            /\ reinject' = Append(reinject, "queue")
    /\ UNCHANGED <<inbox, turns, late>> /\ BySession

\* ------------------------------------------------------------- the turn task

Goes(from, to, is) ==
    /\ slot # 0 /\ task = from /\ task' = to
    /\ Tell(<<Evt(is, slot)>>)
    /\ UNCHANGED <<queue, slot, reinject, done, turns, inbox, late>> /\ BySession

TurnTask ==
    \/ Goes("new", "started", "TurnStarted")
    \/ Goes("started", "compacting", "CompactionStarted")
    \/ Goes("compacting", "working", "CompactionCompleted")
    \/ Goes("started", "working", "TokenDelta")
    \/ Goes("working", "calling", "ToolCallInitiated")
    \/ Goes("calling", "ending", "ToolCallCompleted")
    \/ Goes("ending", "ended", "TurnCompleted")

\* The task's last act; the report names the turn.
TurnReports ==
    /\ slot # 0 /\ task = "ended" /\ task' = "reported"
    /\ done' = Append(done, slot)
    /\ UNCHANGED <<events, queue, slot, reinject, turns, inbox, late>> /\ BySession

\* The program ends and starts again: the client gets the saved settings.
Restart ==
    /\ typed > 0
    /\ status' = Idle /\ shown' = saved
    /\ sending' = <<>> /\ cmds' = <<>> /\ inbox' = <<>> /\ events' = <<>> /\ unsaved' = {}
    /\ queue' = 0 /\ slot' = 0 /\ task' = "none" /\ reinject' = <<>> /\ done' = <<>>
    /\ turns' = 0 /\ typed' = 0 /\ late' = FALSE
    /\ UNCHANGED saved

Client == submit_prompt \/ SlashQueue \/ SlashClear \/ Esc \/ SlashResume
            \/ SetSomething \/ Sent \/ feed_flow_event
Host == persist_ui_settings \/ HostRefuses \/ Forward
Session == SubmitPrompt \/ QueueBusy \/ QueueIdle \/ ClearQueue \/ AbortTurn \/ Report
Next == Client \/ Host \/ Session \/ TurnTask \/ TurnReports \/ Restart
StatusSpec == Init /\ [][Next]_statusVars

\* --------------------------------------------------------------- properties

\* Nothing is on its way to the client or because of it.
Quiet ==
    sending = <<>> /\ cmds = <<>> /\ inbox = <<>> /\ events = <<>> /\ reinject = <<>> /\ done = <<>>

\* When everything has been heard, the client shows the number of prompts that
\* wait, a spinner only while a turn is there - unless a killed turn was heard
\* after its end was told - and the settings the file has, each one but those
\* whose own write failed: no setting clears another.
StatusSettles ==
    Quiet =>
      /\ status.queued = queue
      /\ status.active => slot # 0 \/ late
      /\ \A f \in Scalars : f \in unsaved \/ shown.scalar[f] = saved.scalar[f]
      /\ "theme" \in unsaved \/ shown.theme = saved.theme

\* "Spinner runs until the turn settles": refuted by an automatic compaction
\* and by an error of the host, which switch it off under a turn that works.
SpinsWhileWorking ==
    Quiet /\ task \in {"working", "calling"} => status.active

\* A tool the top line names is running: refuted by a turn killed during a
\* call, whose entry stays in pending_tools for good.
ToolShownRuns == Quiet => status.tools \subseteq (IF task = "calling" THEN {slot} ELSE {})

\* The client waits for the host, the host for room in the events or for the
\* session, the session for room in the events, which only the client reads.
HostTells == Head(cmds).op = "resume"
SessionTells ==
    /\ Len(inbox) = InboxCap
    /\ Head(inbox).op = "clear" \/ (Head(inbox).op = "queue" /\ slot # 0)
Gridlock ==
    /\ sending # <<>> /\ Len(cmds) = CmdCap /\ Len(events) = EventCap
    /\ HostTells \/ (Head(cmds).op # "ui" /\ SessionTells)

\* The three channels never fill up around the loop: refuted for any capacity
\* by a client that sends that many commands without reading its events.
NoGridlock == ~Gridlock
=============================================================================
