------------------------------ MODULE HostCommands ------------------------------
(***************************************************************************)
(* The settings commands of the host (turya-cli/src/host_services.rs), the *)
(* file they are kept in, the provider they change, the labels of the      *)
(* client (turya-tui) and the next start of the program (main.rs).  The    *)
(* host takes one command at a time; a model stands for itself and its     *)
(* provider, as the picker sends both.                                     *)
(***************************************************************************)
EXTENDS Naturals, Sequences, FiniteSets

CONSTANTS
    Models,     \* the models a provider can run
    Home,       \* the provider of each model
    Default,    \* the first static model of each provider, or NoModel
    Static,     \* the models the providers' plugins name
    Levels,     \* reasoning efforts
    Advertised, \* the efforts each model's facts name
    Modes,      \* permission modes
    First,      \* the provider of an empty file
    NoModel, Mock,
    MaxCmds,    \* bound: commands in flight
    MaxEvents   \* bound: events in flight

VARIABLES
    file,    \* config.toml: model, effort, mode
    live,    \* the engine's provider: its model and effort; its mode
    window,  \* the model whose window is the context budget
    cached,  \* models in the catalog's cache
    usable,  \* providers whose credentials resolve
    label,   \* what the client's bar shows: model and mode
    cmds,
    events,
    unsaved, \* history: settings whose last write failed
    fellBack,\* history: this start could not have the saved model
    failed   \* history: the last answer about a model was an error

hostVars == <<file, live, window, cached, usable, label, cmds, events,
              unsaved, fellBack, failed>>

NoEffort == "none"

Ask(op, arg) == [op |-> op, arg |-> arg]
Say(is, arg) == [is |-> is, arg |-> arg]

\* describe_selection: an empty file means the first provider's first model.
Told(m) == IF m = NoModel THEN Default[First] ELSE m

\* select_provider: a saved model is believed if the provider's static list
\* has it, or if there is none.
Started(m, ready) ==
    IF m = NoModel THEN IF First \in ready THEN Default[First] ELSE Mock
    ELSE IF Home[m] \notin ready THEN Mock
    ELSE IF m \in Static \/ Default[Home[m]] = NoModel THEN m
    ELSE Default[Home[m]]

\* GetProviderState answers from the file, and with the engine's mode.
State(m, mode) == <<Say("model", Told(m)), Say("mode", mode)>>

Init ==
    /\ file = [model |-> NoModel, effort |-> NoEffort, mode |-> "review"]
    /\ usable \in SUBSET {Home[m] : m \in Models}
    /\ live = [model |-> Started(NoModel, usable), effort |-> NoEffort, mode |-> "review"]
    /\ window = NoModel /\ cached = {}
    /\ label = [model |-> NoModel, mode |-> "review"]
    /\ cmds = <<>> /\ events = State(NoModel, "review")
    /\ unsaved = {} /\ fellBack = (live.model = Mock) /\ failed = FALSE

-----------------------------------------------------------------------------
(* The client. *)

Sends(cmd) == Len(cmds) < MaxCmds /\ cmds' = Append(cmds, cmd)
ByClient == UNCHANGED <<file, live, window, cached, usable, unsaved, fellBack, failed>>

\* The browser shows its choice at once.
PickModel ==
    \E m \in Models : /\ Sends(Ask("switch", m))
                      /\ label' = [label EXCEPT !.model = m]
                      /\ ByClient /\ UNCHANGED events

\* /permissions shows its choice at once.
PickMode ==
    \E mode \in Modes : /\ Sends(Ask("mode", mode))
                        /\ label' = [label EXCEPT !.mode = mode]
                        /\ ByClient /\ UNCHANGED events

PickEffort ==
    \E level \in Levels \cup {NoEffort} : /\ Sends(Ask("effort", level))
                                          /\ ByClient /\ UNCHANGED <<label, events>>

OpenBrowser == Sends(Ask("list", NoModel)) /\ ByClient /\ UNCHANGED <<label, events>>

\* feed_flow_event: errors and efforts are logged, labels stay.
Hear ==
    /\ events # <<>>
    /\ LET evt == Head(events)
       IN  label' = CASE evt.is = "model" -> [label EXCEPT !.model = evt.arg]
                      [] evt.is = "mode" -> [label EXCEPT !.mode = evt.arg]
                      [] OTHER -> label
    /\ events' = Tail(events)
    /\ UNCHANGED cmds /\ ByClient

-----------------------------------------------------------------------------
(* The host. *)

Takes(op) == cmds # <<>> /\ Head(cmds).op = op /\ cmds' = Tail(cmds)
Arg == Head(cmds).arg
Emit(said) == Len(events) < MaxEvents /\ events' = Append(events, said)

\* load, set, save: a failed write is logged at most.
Save(field, value) ==
    \/ file' = [file EXCEPT ![field] = value] /\ unsaved' = unsaved \ {field}
    \/ file' = file /\ unsaved' = unsaved \cup {field}

\* cached_reasoning of current_selection, which is the file's, not the
\* engine's: nothing is known of a model outside the cache.
Efforts == IF file.model \in cached THEN Advertised[file.model] ELSE {}

\* apply_context_budget: an unknown window leaves the one in use.
Budget(m) == IF m \in cached THEN m ELSE window

\* Unknown to the lists, the cache and the server; or no credentials.
SwitchRefused ==
    /\ Takes("switch")
    /\ Arg \notin Static \cup cached \/ Home[Arg] \notin usable
    /\ Emit(Say("error", Arg)) /\ failed' = TRUE
    /\ UNCHANGED <<file, live, window, cached, usable, label, unsaved, fellBack>>

\* Mutant: the choice is kept before it works.
SavedAnyway == Save("model", Arg)

NotSaved == UNCHANGED <<file, unsaved>>

\* The budget is set before the connection is tried.
ConnectFails ==
    /\ Takes("switch") /\ Home[Arg] \in usable
    /\ window' = Budget(Arg)
    /\ NotSaved
    /\ Emit(Say("error", Arg)) /\ failed' = TRUE
    /\ UNCHANGED <<live, cached, usable, label, fellBack>>

\* The new provider starts without an effort.
Announce == Say("model", Arg)

Switched ==
    /\ Takes("switch") /\ Home[Arg] \in usable
    /\ window' = Budget(Arg)
    /\ live' = [live EXCEPT !.model = Arg, !.effort = NoEffort]
    /\ Save("model", Arg)
    /\ Emit(Announce) /\ failed' = FALSE /\ fellBack' = FALSE
    /\ UNCHANGED <<cached, usable, label>>

\* The level is applied before it is looked up; the mock has none.
SetEffort ==
    /\ Takes("effort")
    /\ live' = [live EXCEPT !.effort = IF live.model = Mock THEN NoEffort ELSE Arg]
    /\ IF Arg = NoEffort \/ Efforts = {} \/ Arg \in Efforts
       THEN Save("effort", Arg) /\ Emit(Say("effort", Arg))
       ELSE UNCHANGED <<file, unsaved>> /\ Emit(Say("refused", Arg))
    /\ UNCHANGED <<window, cached, usable, label, fellBack, failed>>

SetMode ==
    /\ Takes("mode")
    /\ live' = [live EXCEPT !.mode = Arg]
    /\ Save("mode", Arg)
    /\ Emit(Say("mode", Arg))
    /\ UNCHANGED <<window, cached, usable, label, fellBack, failed>>

\* ListProviders caches what a usable provider lists.
ListProviders ==
    /\ Takes("list")
    /\ \E more \in SUBSET {m \in Models : Home[m] \in usable} : cached' = cached \cup more
    /\ Emit(Say("providers", NoModel))
    /\ UNCHANGED <<file, live, window, usable, label, unsaved, fellBack, failed>>

\* The user logs in or out of a provider, here or elsewhere.
Credential ==
    /\ \E p \in {Home[m] : m \in Models} :
           usable' = IF p \in usable THEN usable \ {p} ELSE usable \cup {p}
    /\ UNCHANGED <<file, live, window, cached, label, cmds, events, unsaved, fellBack, failed>>

-----------------------------------------------------------------------------
(* The next start. *)

\* Nothing outlives the process but the file, the cache and the credentials.
\* The first command of the client asks for the state.
Restart ==
    /\ live' = [model |-> Started(file.model, usable), effort |-> NoEffort, mode |-> file.mode]
    /\ window' = NoModel
    /\ label' = [model |-> NoModel, mode |-> file.mode]
    /\ cmds' = <<>> /\ events' = State(file.model, file.mode)
    /\ unsaved' = {} /\ failed' = FALSE
    /\ fellBack' = (Started(file.model, usable) # Told(file.model))
    /\ UNCHANGED <<file, cached, usable>>

Client == PickModel \/ PickMode \/ PickEffort \/ OpenBrowser \/ Hear
Host == SwitchRefused \/ ConnectFails \/ Switched \/ SetEffort \/ SetMode \/ ListProviders

Next == Client \/ Host \/ Credential \/ Restart

HostSpec == Init /\ [][Next]_hostVars

-----------------------------------------------------------------------------

\* The model and the mode that run are the ones the next start will read,
\* whatever mixture of refused and failed switches came before, unless the
\* file could not be written or this start could not have the saved model
\* (switch_model, UpdateConfig).
WhatRunsIsSaved ==
    /\ live.model = Told(file.model) \/ fellBack \/ "model" \in unsaved
    /\ live.mode = file.mode \/ "mode" \in unsaved

\* When nothing is in flight the bar shows the model and the mode that run,
\* unless the last switch failed, or the start fell back, however many choices
\* were on their way at once ("Push truth (not optimism)", switch_model).
LabelsSettle ==
    cmds = <<>> /\ events = <<>> =>
        /\ label.model = live.model \/ failed \/ fellBack \/ "model" \in unsaved
        /\ label.mode = live.mode

\* The file, the engine and the client's bar agree on the selection.
SelectionIsTrue == WhatRunsIsSaved /\ LabelsSettle

\* "Optimistic label too, corrected by ProviderState": also after an error.
LabelIsCorrected == cmds = <<>> /\ events = <<>> /\ ~fellBack => label.model = live.model

\* "Apply it to the live provider, not just the file: a setting the engine
\* never sees is a lie": the saved effort is the one the provider uses.
EffortIsApplied == "effort" \notin unsaved /\ live.model # Mock => live.effort = file.effort

\* "Unknown stays unknown: the engine keeps its generous default": a model
\* runs with its own window or the default.
WindowIsOwn == window \in {live.model, NoModel} \/ failed

\* "Apply persisted provider/model selection before the first turn."
SelectionIsRestored ==
    [][Restart /\ file.model # NoModel /\ Home[file.model] \in usable
       => live'.model = file.model]_hostVars
=============================================================================
